----------------------------- MODULE MapUpdater ------------------------------
(***************************************************************************)
(* MapManager::Update with map update threads: the world thread schedules  *)
(* one request per base map in the priority queue of a DelayExecutor and   *)
(* waits on a condition variable until pending_requests is zero.  A worker *)
(* that updates a MapInstanced unloads or schedules that map's instances   *)
(* from inside its own request.                                            *)
(*                                                                         *)
(* schedule_update, update_finished and the test in wait run under m_mutex *)
(* and are one step each.  The priority of a request depends on player     *)
(* counts, so any queued request may be dequeued next.                     *)
(***************************************************************************)
EXTENDS Integers, FiniteSets

CONSTANTS
  BaseMaps,      \* MapManager::i_maps
  InstanceMaps,  \* the instance copies that may exist
  Parent,        \* Parent[i]: the MapInstanced whose m_InstancedMaps holds i
  Workers,       \* the threads of m_executor
  Capacity,      \* requests the activation queue takes before it is full
  NoMap          \* an idle worker

ASSUME MapAssumption ==
  /\ Parent \in [InstanceMaps -> BaseMaps]
  /\ BaseMaps \cap InstanceMaps = {}
  /\ NoMap \notin BaseMaps \cup InstanceMaps
  /\ IsFiniteSet(BaseMaps) /\ IsFiniteSet(InstanceMaps) /\ IsFiniteSet(Workers)
  /\ Workers # {}
  /\ Capacity \in Nat

VARIABLES
  worldPc,     \* where the world thread is in MapManager::Update
  toSchedule,  \* base maps its scheduling loop has still to visit
  queue,       \* maps with a request in the activation queue
  pending,     \* MapUpdater::pending_requests
  running,     \* running[w]: the map worker w updates, or NoMap
  left,        \* left[w]: instances MapInstanced::Update has still to visit
  spawning,    \* workers past Map::Update, in the loop over m_InstancedMaps
  instances,   \* the instance maps that exist
  finished     \* history: the maps updated in the current round

vars == <<worldPc, toSchedule, queue, pending, running, left, spawning,
          instances, finished>>

Maps == BaseMaps \cup InstanceMaps
Busy == {w \in Workers : running[w] # NoMap}
Updating == {running[w] : w \in Busy}
ChildrenOfAll(m) == instances                  \* mutant: every MapInstanced sees all
ChildrenOfManager(m) == instances \cup BaseMaps  \* mutant: loops over i_maps
Children(m) == {i \in instances : Parent[i] = m}

-----------------------------------------------------------------------------
\* MapUpdater::schedule_update(m): the request is counted and queued; when the
\* activation queue is full it is deleted, uncounted, and the map not updated.
schedule_updateLeaks(m) ==              \* mutant: a refused request stays counted
  /\ queue' = IF Cardinality(queue) < Capacity THEN queue \cup {m} ELSE queue
  /\ pending' = pending + 1
schedule_update(m) ==
  IF Cardinality(queue) < Capacity
  THEN queue' = queue \cup {m} /\ pending' = pending + 1
  ELSE UNCHANGED <<queue, pending>>

(* World thread. *)

\* MapManager::Update starts; CreateBaseMap and CreateInstance run before it,
\* from the handlers of WorldSession::Update.
BeginRound ==
  /\ worldPc = "idle" /\ worldPc' = "schedule"
  /\ toSchedule' = BaseMaps /\ finished' = {}
  /\ UNCHANGED <<queue, pending, running, left, spawning, instances>>

CreateInstance(i) ==
  /\ worldPc = "idle" /\ i \notin instances
  /\ instances' = instances \cup {i}
  /\ UNCHANGED <<worldPc, toSchedule, queue, pending, running, left, spawning, finished>>

ScheduleBaseMap(m) ==
  /\ worldPc = "schedule" /\ m \in toSchedule
  /\ toSchedule' = toSchedule \ {m}
  /\ schedule_update(m)
  /\ UNCHANGED <<worldPc, running, left, spawning, instances, finished>>

EndSchedule ==
  /\ worldPc = "schedule" /\ toSchedule = {}
  /\ worldPc' = "wait"
  /\ UNCHANGED <<toSchedule, queue, pending, running, left, spawning, instances, finished>>

\* MapUpdater::wait: test the counter; sleep on m_condition or go on.
WaitForLast ==                          \* mutant: off by one in the test
  /\ worldPc = "wait"
  /\ worldPc' = IF pending > 1 THEN "asleep" ELSE "delayed"
  /\ UNCHANGED <<toSchedule, queue, pending, running, left, spawning, instances, finished>>
Wait ==
  /\ worldPc = "wait"
  /\ worldPc' = IF pending > 0 THEN "asleep" ELSE "delayed"
  /\ UNCHANGED <<toSchedule, queue, pending, running, left, spawning, instances, finished>>

\* a condition variable may wake without a broadcast
WakeSpuriously ==
  /\ worldPc = "asleep" /\ worldPc' = "wait"
  /\ UNCHANGED <<toSchedule, queue, pending, running, left, spawning, instances, finished>>

\* DelayedUpdate on every base map and every instance, then the rest of the tick
DelayedUpdate ==
  /\ worldPc = "delayed" /\ worldPc' = "idle"
  /\ UNCHANGED <<toSchedule, queue, pending, running, left, spawning, instances, finished>>

(* Worker threads. *)

\* DelayExecutor::svc takes a request and calls Map::Update.
Dequeue(w, m) ==
  /\ running[w] = NoMap /\ m \in queue
  /\ queue' = queue \ {m}
  /\ running' = [running EXCEPT ![w] = m]
  /\ UNCHANGED <<worldPc, toSchedule, pending, left, spawning, instances, finished>>

\* Map::Update returns; a MapInstanced goes on to its instances.
OwnUpdateDone(w) ==
  /\ w \in Busy \ spawning
  /\ spawning' = spawning \cup {w}
  /\ left' = [left EXCEPT ![w] = Children(running[w])]
  /\ UNCHANGED <<worldPc, toSchedule, queue, pending, running, instances, finished>>

\* CanUnload(i): DestroyInstance deletes it, or finds players and keeps it.
UnloadInstanceInPlace(w, i) ==          \* mutant: the iterator is not advanced
  /\ w \in spawning /\ i \in left[w]
  /\ instances' = instances \ {i}
  /\ UNCHANGED <<worldPc, toSchedule, queue, pending, running, left, spawning, finished>>
UnloadInstance(w, i) ==
  /\ w \in spawning /\ i \in left[w]
  /\ left' = [left EXCEPT ![w] = @ \ {i}]
  /\ \/ instances' = instances \ {i}
     \/ UNCHANGED instances
  /\ UNCHANGED <<worldPc, toSchedule, queue, pending, running, spawning, finished>>

\* otherwise a request for the instance is scheduled from this thread
ScheduleInstance(w, i) ==
  /\ w \in spawning /\ i \in left[w]
  /\ left' = [left EXCEPT ![w] = @ \ {i}]
  /\ schedule_update(i)
  /\ UNCHANGED <<worldPc, toSchedule, running, spawning, instances, finished>>

\* MapUpdateRequest::call ends in update_finished: one request less, broadcast.
update_finished(w) ==
  /\ w \in spawning /\ left[w] = {}
  /\ running' = [running EXCEPT ![w] = NoMap]
  /\ spawning' = spawning \ {w}
  /\ finished' = finished \cup {running[w]}
  /\ pending' = IF pending = 0 THEN pending ELSE pending - 1
  /\ worldPc' = IF pending # 0 /\ worldPc = "asleep" THEN "wait" ELSE worldPc
  /\ UNCHANGED <<toSchedule, queue, left, instances>>

-----------------------------------------------------------------------------
Init ==
  /\ worldPc = "idle" /\ toSchedule = {}
  /\ queue = {} /\ pending = 0
  /\ running = [w \in Workers |-> NoMap]
  /\ left = [w \in Workers |-> {}]
  /\ spawning = {} /\ instances = {} /\ finished = {}

WorldThread ==
  \/ BeginRound
  \/ \E m \in BaseMaps : ScheduleBaseMap(m)
  \/ EndSchedule
  \/ Wait
  \/ DelayedUpdate

Worker(w) ==
  \/ \E m \in Maps : Dequeue(w, m)
  \/ OwnUpdateDone(w)
  \/ \E i \in InstanceMaps : UnloadInstance(w, i) \/ ScheduleInstance(w, i)
  \/ update_finished(w)

Next ==
  \/ WorldThread
  \/ WakeSpuriously
  \/ \E i \in InstanceMaps : CreateInstance(i)
  \/ \E w \in Workers : Worker(w)

Spec == Init /\ [][Next]_vars

\* Every thread keeps running while it has something to do: the world thread
\* loops until the server stops, a worker blocks only on an empty queue, and
\* nothing holds m_mutex across a step.  Creating instances and waking up for no
\* reason are not owed by anybody.
FairSpec == Spec /\ WF_vars(WorldThread) /\ \A w \in Workers : WF_vars(Worker(w))

-----------------------------------------------------------------------------
(* Properties. *)

TypeOK ==
  /\ worldPc \in {"idle", "schedule", "wait", "asleep", "delayed"}
  /\ toSchedule \subseteq BaseMaps
  /\ queue \subseteq Maps /\ finished \subseteq Maps
  /\ pending \in Nat
  /\ running \in [Workers -> Maps \cup {NoMap}]
  /\ left \in [Workers -> SUBSET InstanceMaps]
  /\ spawning \subseteq Workers
  /\ instances \subseteq InstanceMaps

\* pending_requests counts the queued and the running requests exactly, also
\* while a worker schedules instances from inside its own request: wait cannot
\* see zero early, and update_finished never takes its "BUG, report to devs" path.
PendingCountsRequests == pending = Cardinality(queue) + Cardinality(Busy)

\* No map is updated by two threads at once, queued while it is updated, or
\* about to be scheduled a second time in the same round.
NoMapUpdatedTwice ==
  /\ \A v, w \in Busy : v # w => running[v] # running[w]
  /\ queue \cap Updating = {}
  /\ (toSchedule \cup UNION {left[w] : w \in Workers}) \cap
        (queue \cup Updating \cup finished) = {}

\* Outside a round no worker touches a map: DelayedUpdate and the whole rest of
\* the world tick run alone.
QuietOutsideRound ==
  worldPc \in {"idle", "delayed"} => queue = {} /\ Busy = {}

\* MapInstanced deletes an instance only while nobody updates it and no request
\* for it is queued: requests hold references to the maps.
RequestsNameLiveMaps ==
  (queue \cup Updating) \cap InstanceMaps \subseteq instances

\* What is queued and running is counted, distinct and alive, whatever the order in which
\* threads schedule, finish and wait.
RequestsAreExact == PendingCountsRequests /\ NoMapUpdatedTwice /\ RequestsNameLiveMaps

\* The world thread always gets out of wait: no broadcast is lost, no nested
\* request is forgotten.
WaitTerminates == (worldPc = "wait") ~> (worldPc = "delayed")

\* Rounds of map updates as MapRound describes them.
Phase == IF worldPc \in {"schedule", "wait", "asleep"} THEN "open" ELSE "quiet"
Round == INSTANCE MapRound WITH phase <- Phase, outstanding <- queue \cup Updating
RoundSpec == Round!Spec
=============================================================================
