SPECIFICATION Spec
CONSTANTS
  home = home
  away = away
  dungeon = dungeon
  Maps <- HomeAndDungeon
  Home = home
  Instances <- OneDungeon
  MaxSent = 3
  MaxLogins = 1
  MaxTeleports = 1
INVARIANT PortedPlayerIsOnItsWay
CHECK_DEADLOCK FALSE
