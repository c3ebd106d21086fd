SPECIFICATION Spec
CONSTANTS
  a1 = a1
  a2 = a2
  h1 = h1
  Alliance <- TwoAlliance
  Horde <- OneHorde
  Travellers <- TwoAlliance
  Droppers <- NoOne
  Parties <- OneParty
  MinPlayers = 1
  MaxPlayers = 2
  AcceptTime = 2
  MaxBattlegrounds = 1
  CounterSize = 4
SYMMETRY AllianceAlike
INVARIANT FreeSlotsAreReal
CHECK_DEADLOCK FALSE
