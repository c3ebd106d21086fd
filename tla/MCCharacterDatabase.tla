------------------------- MODULE MCCharacterDatabase -------------------------
(* Instances of CharacterDatabase for TLC.                                   *)
EXTENDS CharacterDatabase

CONSTANT c1

OneCharacter == {c1}
OnePinned == {0}
OneOrTwoWorkers == {1, 2}
=============================================================================
