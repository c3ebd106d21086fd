--------------------------- MODULE MCWorldSessions ---------------------------
(* Instances of WorldSessions for TLC.                                       *)
EXTENDS WorldSessions, TLC

CONSTANTS a1, a2, a3

ThreeAccounts == {a1, a2, a3}
TwoAccounts == {a1, a2}
OneAccount == {a1}
OnlyLimitOne == {1}
LimitOneOrTwo == {1, 2}

AccountSymmetry == Permutations(Accounts)
=============================================================================
