SPECIFICATION FairSpec
CONSTANTS
  c1 = c1
  NoAnswer = NoAnswer
  Idle = Idle
  Characters <- OneCharacter
  Connections <- OnePinned
  PoolSizes <- OneOrTwoWorkers
  MaxVersion = 1
  MaxWrites = 2
  MaxPending = 2
  MaxAbandoned = 1
INVARIANTS
  TypeOK
  LoginReadsLastSave
  QuietDatabaseIsCurrent
PROPERTIES
  PinnedWritesKeepOrder
  LoginIsAnswered
CHECK_DEADLOCK FALSE
