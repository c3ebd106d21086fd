------------------------------- MODULE MCTrade -------------------------------
(* Instances of Trade for TLC.                                               *)
EXTENDS Trade, TLC

CONSTANTS ann, bob, i1, i2

TwoPlayers == {ann, bob}
TwoItems == {i1, i2}
NothingLimited == {}
OneEach == [p \in Players |-> IF p = ann THEN {i1} ELSE {i2}]
AnnHasMoney == [p \in Players |-> IF p = ann THEN 1 ELSE 0]
=============================================================================
