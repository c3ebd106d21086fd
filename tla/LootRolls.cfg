SPECIFICATION FairSpec
CONSTANTS
  ann = ann
  bob = bob
  cid = cid
  boar = boar
  NoPlayer = NoPlayer
  NoRoll = NoRoll
  Players <- ThreePlayers
  Creatures <- OneCreature
  Slots <- TwoItems
  Disenchantable <- FirstItem
  MaxGroups = 2
  MaxKills = 1
  Leavers <- OnlyAnn
  Passers <- OnlyCid
  Voters <- AnnAndBob
  Looters <- AnnAndBob
  Strays <- OnlyBob
INVARIANTS
  TypeOK
  
  ItemsGivenOnce
PROPERTIES
  
  RollsEnd
