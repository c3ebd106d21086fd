SPECIFICATION FairSpec
CONSTANTS
  home = home
  away = away
  dungeon = dungeon
  Maps <- ThreeMaps
  Home = home
  Instances <- OneDungeon
  MaxSent = 7
  MaxLogins = 2
  MaxTeleports = 1
INVARIANTS
  TypeOK
PROPERTIES
  PacketsMeetTheirCharacter
  OnlyEarlyPacketsAreOvertaken
  QueuedPacketIsServed
  TransferIsDecided
CHECK_DEADLOCK FALSE
