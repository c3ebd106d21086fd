---------------------------- MODULE MCAuctionHouse ----------------------------
(* Instances of AuctionHouse for TLC: ann has the item, bob and cid bid.     *)
EXTENDS AuctionHouse, TLC

CONSTANTS ann, bob, cid, i1

ThreePlayers == {ann, bob, cid}
TwoPlayers == {ann, bob}
OnlyAnn == {ann}
OneItem == {i1}
AnnHasOne == [p \in Players |-> IF p = ann THEN {i1} ELSE {}]
TwoEach == [p \in Players |-> 2]
OneOrTwo == {1, 2}
OnlyOne == {1}
ThreeMails == 1..3
BiddersAlike == Permutations({bob, cid})
=============================================================================
