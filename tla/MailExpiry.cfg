SPECIFICATION Spec
CONSTANTS
  Sellers <- OnlyAnn
  Senders <- OnlyAnn
  ann = ann
  bob = bob
  cid = cid
  i1 = i1
  NoMail = NoMail
  NoAuction = NoAuction
  NoBidder = NoBidder
  House = House
  Players <- TwoPlayers
  Items <- OneItem
  StartBag <- AnnHasOne
  StartMoney <- TwoEach
  MaxMoney = 4
  Postage = 1
  Amounts <- OnlyOne
  Bids <- OneOrTwo
  MailIds <- ThreeMails
  MayExpireLoaded = TRUE
  Deposit = 1
  CutPercent = 50
INVARIANTS
  LoadedMailStaysPut
CHECK_DEADLOCK FALSE
