------------------------------ MODULE MapRound -------------------------------
(***************************************************************************)
(* What MapManager::Update promises to the code that runs between two of   *)
(* its calls: a round of map updates opens, accepts maps, each at most     *)
(* once, and closes only when no accepted map is unfinished.  Whatever     *)
(* runs while the phase is "quiet" (sessions, DelayedUpdate, battlegrounds *)
(* and every other manager of World::Update) has all maps to itself.       *)
(***************************************************************************)
CONSTANT Maps

VARIABLES
  phase,        \* "open" while maps may be updated, "quiet" otherwise
  outstanding,  \* accepted in this round and not finished
  finished      \* finished in this round

mvars == <<phase, outstanding, finished>>

Init == phase = "quiet" /\ outstanding = {} /\ finished = {}

Open ==
  /\ phase = "quiet" /\ phase' = "open"
  /\ finished' = {} /\ UNCHANGED outstanding

Accept(m) ==
  /\ phase = "open" /\ m \notin outstanding \cup finished
  /\ outstanding' = outstanding \cup {m}
  /\ UNCHANGED <<phase, finished>>

Finish(m) ==
  /\ m \in outstanding
  /\ outstanding' = outstanding \ {m} /\ finished' = finished \cup {m}
  /\ UNCHANGED phase

Close ==
  /\ phase = "open" /\ outstanding = {}
  /\ phase' = "quiet" /\ UNCHANGED <<outstanding, finished>>

Next == Open \/ Close \/ \E m \in Maps : Accept(m) \/ Finish(m)

Spec == Init /\ [][Next]_mvars
=============================================================================
