-------------------------- MODULE MCSessionPackets --------------------------
(* Instances of SessionPackets for TLC.                                     *)
EXTENDS SessionPackets

CONSTANTS home, away, dungeon

HomeAndDungeon == {home, dungeon}
ThreeMaps == {home, away, dungeon}
OneDungeon == {dungeon}
=============================================================================
