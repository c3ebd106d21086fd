------------------------------ MODULE MCLootRolls ------------------------------
(* Instances of LootRolls for TLC.                                           *)
EXTENDS LootRolls, TLC

CONSTANTS ann, bob, cid, boar

ThreePlayers == {ann, bob, cid}
OneCreature == {boar}
OnlyAnn == {ann}
OnlyBob == {bob}
OnlyCid == {cid}
AnnAndBob == {ann, bob}
TwoItems == {1, 2}
FirstItem == {1}
=============================================================================
