SPECIFICATION Spec
CONSTANTS
  a1 = a1
  a2 = a2
  a3 = a3
  Accounts <- ThreeAccounts
  Staff <- ThreeAccounts
  Limits <- OnlyLimitOne
  Tolerance = 0
  MaxSessions = 5
  MaxTime = 0
  MayStop = FALSE
  NoSession = NoSession
  Never = Never
SYMMETRY AccountSymmetry
INVARIANTS
  TypeOK
  QueueIsSound
  NoIdleSlotWhileQueueing
PROPERTIES
  AdmissionNeedsAFreeSlot
  QueueKeepsOrder
