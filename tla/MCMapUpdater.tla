----------------------------- MODULE MCMapUpdater ----------------------------
(* Instances of MapUpdater for TLC.                                          *)
EXTENDS MapUpdater

CONSTANTS continent, dungeon, raid, i1, i2, i3, w1, w2

ThreeBaseMaps == {continent, dungeon, raid}
ThreeInstances == {i1, i2, i3}
TwoDungeonsOneRaid == [i \in ThreeInstances |-> IF i = i3 THEN raid ELSE dungeon]
TwoWorkers == {w1, w2}
=============================================================================
