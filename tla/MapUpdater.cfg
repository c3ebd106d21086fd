SPECIFICATION FairSpec
CONSTANTS
  continent = continent
  dungeon = dungeon
  raid = raid
  i1 = i1
  i2 = i2
  i3 = i3
  w1 = w1
  w2 = w2
  NoMap = NoMap
  BaseMaps <- ThreeBaseMaps
  InstanceMaps <- ThreeInstances
  Parent <- TwoDungeonsOneRaid
  Workers <- TwoWorkers
  Capacity = 2
INVARIANTS
  TypeOK
  RequestsAreExact
PROPERTIES
  RoundSpec
  WaitTerminates
