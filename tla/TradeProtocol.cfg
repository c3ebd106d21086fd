SPECIFICATION Spec
CONSTANTS
  ann = ann
  bob = bob
  i1 = i1
  i2 = i2
  NoItem = NoItem
  NULL = NULL
  Players <- TwoPlayers
  Items <- TwoItems
  StartBag <- OneEach
  StartMoney <- AnnHasMoney
  Space = 1
  Limited <- NothingLimited
  LimitMax = 1
  TradedSlots = 2
  MaxMoney = 2
  MaxGold = 1
  MaxMinted = 1
  MayCrash = TRUE
INVARIANTS
  TypeOK
  PartnersMatch
  AcceptedListIsCurrent
  CrashCreatesNothing
  SpellIsForListedItem
  
PROPERTIES
  ExchangeIsWhole
