SPECIFICATION FairSpec
CONSTANTS
  a1 = a1
  a2 = a2
  a3 = a3
  Accounts <- TwoAccounts
  Staff <- OneAccount
  Limits <- LimitOneOrTwo
  Tolerance = 1
  MaxSessions = 3
  MaxTime = 1
  MayStop = TRUE
  NoSession = NoSession
  Never = Never
INVARIANT ShutdownUnloadsPlayers
PROPERTY ClosedSessionIsReaped
