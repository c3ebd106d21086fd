------------------------- MODULE MCBattlegroundQueue -------------------------
(* Instances of BattlegroundQueue for TLC.                                   *)
EXTENDS BattlegroundQueue, TLC

CONSTANTS a1, a2, h1

TwoAlliance == {a1, a2}
OneHorde == {h1}
NoOne == {}
OneParty == {{a1, a2}}
AllianceAlike == Permutations(Alliance)
=============================================================================
