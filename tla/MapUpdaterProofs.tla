--------------------------- MODULE MapUpdaterProofs ---------------------------
(***************************************************************************)
(* The invariants of MapUpdater, and its refinement of MapRound, for every *)
(* set of maps and workers and every capacity of the activation queue.     *)
(***************************************************************************)
EXTENDS MapUpdater, FiniteSetTheorems, TLAPS

-----------------------------------------------------------------------------
(* The strengthening.  NoMapUpdatedTwice does not survive OwnUpdateDone by  *)
(* itself: one has to know why an instance can be queued, running or        *)
(* finished in a round, namely that its MapInstanced has scheduled it.      *)

LoopOver == worldPc # "schedule" => toSchedule = {}

SpawningAreBusy == spawning \subseteq Busy

\* a worker visits only live instances of the map it is updating
LeftAreChildren ==
  \A w \in Workers : \A i \in left[w] :
    w \in spawning /\ i \in instances /\ Parent[i] = running[w]

FinishedAreDone == (queue \cup Updating) \cap finished = {}

\* whatever happened to an instance in this round, its parent did it
ScheduledByParent ==
  \A i \in InstanceMaps \cap (queue \cup Updating \cup finished) :
    \/ Parent[i] \in finished
    \/ \E w \in spawning : running[w] = Parent[i]

IInv ==
  /\ TypeOK
  /\ PendingCountsRequests
  /\ NoMapUpdatedTwice
  /\ QuietOutsideRound
  /\ RequestsNameLiveMaps
  /\ LoopOver
  /\ SpawningAreBusy
  /\ LeftAreChildren
  /\ FinishedAreDone
  /\ ScheduledByParent

-----------------------------------------------------------------------------
(* Lemmas. *)

\* What is queued and who is busy is always a finite set, so pending_requests
\* can be compared with a cardinality.
LEMMA FiniteRequests ==
  ASSUME TypeOK
  PROVE  /\ IsFiniteSet(queue) /\ Cardinality(queue) \in Nat
         /\ IsFiniteSet(Busy) /\ Cardinality(Busy) \in Nat
<1>1. IsFiniteSet(Maps)
  BY MapAssumption, FS_Union DEF Maps
<1>2. IsFiniteSet(queue)
  BY <1>1, FS_Subset DEF TypeOK
<1>3. IsFiniteSet(Busy)
  BY MapAssumption, FS_Subset DEF Busy
<1> QED BY <1>2, <1>3, FS_CardinalityType

\* The world thread's own steps change none of the workers' state.
LEMMA WorldStepInv ==
  ASSUME IInv,
         UNCHANGED <<queue, pending, running, left, spawning, instances, finished>>,
         worldPc' \in {"idle", "schedule", "wait", "asleep", "delayed"},
         worldPc' \in {"idle", "delayed"} => queue = {} /\ Busy = {},
         toSchedule' = toSchedule,
         worldPc' # "schedule" => toSchedule = {}
  PROVE  IInv'
  BY DEF IInv, TypeOK, PendingCountsRequests, NoMapUpdatedTwice, QuietOutsideRound,
         RequestsNameLiveMaps, LoopOver, SpawningAreBusy, LeftAreChildren,
         FinishedAreDone, ScheduledByParent, Busy, Updating

LEMMA BeginRoundInv ==
  ASSUME IInv, BeginRound
  PROVE  IInv'
<1> USE DEF IInv, BeginRound
<1>1. queue = {} /\ Busy = {} /\ Updating = {} /\ spawning = {}
  BY DEF QuietOutsideRound, Updating, SpawningAreBusy
<1>2. \A w \in Workers : left[w] = {}
  BY <1>1 DEF LeftAreChildren, TypeOK
<1>3. UNCHANGED <<Busy, Updating>>
  BY DEF Busy, Updating
<1>4. TypeOK' /\ PendingCountsRequests' /\ LoopOver' /\ SpawningAreBusy' /\ QuietOutsideRound'
  BY <1>3 DEF TypeOK, PendingCountsRequests, LoopOver, SpawningAreBusy, QuietOutsideRound
<1>5. NoMapUpdatedTwice'
  BY <1>1, <1>2, <1>3 DEF NoMapUpdatedTwice
<1>6. RequestsNameLiveMaps' /\ FinishedAreDone' /\ ScheduledByParent'
  BY <1>1, <1>3 DEF RequestsNameLiveMaps, FinishedAreDone, ScheduledByParent
<1>7. LeftAreChildren'
  BY <1>2 DEF LeftAreChildren
<1> QED BY <1>4, <1>5, <1>6, <1>7

LEMMA CreateInstanceInv ==
  ASSUME IInv, NEW i \in InstanceMaps, CreateInstance(i)
  PROVE  IInv'
<1> USE DEF IInv, CreateInstance
<1>1. UNCHANGED <<Busy, Updating>>
  BY DEF Busy, Updating
<1>2. TypeOK' /\ PendingCountsRequests' /\ LoopOver' /\ SpawningAreBusy' /\ QuietOutsideRound'
  BY <1>1 DEF TypeOK, PendingCountsRequests, LoopOver, SpawningAreBusy, QuietOutsideRound
<1>3. NoMapUpdatedTwice' /\ RequestsNameLiveMaps' /\ FinishedAreDone' /\ ScheduledByParent'
  BY <1>1 DEF NoMapUpdatedTwice, RequestsNameLiveMaps, FinishedAreDone, ScheduledByParent
<1>4. LeftAreChildren'
  BY DEF LeftAreChildren
<1> QED BY <1>2, <1>3, <1>4

\* schedule_update counts exactly what it queues.
LEMMA ScheduleCounts ==
  ASSUME TypeOK, PendingCountsRequests, NEW m \in Maps, m \notin queue,
         schedule_update(m), UNCHANGED running
  PROVE  PendingCountsRequests' /\ pending' \in Nat /\ queue' \subseteq queue \cup {m}
           /\ queue \subseteq queue'
<1>1. UNCHANGED Busy
  BY DEF Busy
<1>2. IsFiniteSet(queue) /\ Cardinality(queue) \in Nat /\ Cardinality(Busy) \in Nat
  BY FiniteRequests
<1>3. Cardinality(queue \cup {m}) = Cardinality(queue) + 1
  BY <1>2, FS_AddElement
<1>4. pending \in Nat /\ pending = Cardinality(queue) + Cardinality(Busy)
  BY DEF PendingCountsRequests, TypeOK
<1>a. CASE UNCHANGED <<queue, pending>>
  BY <1>1, <1>4, <1>a DEF PendingCountsRequests
<1>b. CASE queue' = queue \cup {m} /\ pending' = pending + 1
  <2> DEFINE Q == Cardinality(queue)
             B == Cardinality(Busy)
  <2>1. Q \in Nat /\ B \in Nat /\ pending = Q + B /\ Cardinality(queue') = Q + 1
    BY <1>2, <1>3, <1>4, <1>b
  <2> HIDE DEF Q, B
  <2>2. pending' \in Nat /\ pending' = (Q + 1) + B
    BY <1>4, <1>b, <2>1
  <2>3. PendingCountsRequests'
    BY <1>1, <2>1, <2>2 DEF PendingCountsRequests, B
  <2> QED BY <1>b, <2>2, <2>3
<1> QED BY <1>a, <1>b DEF schedule_update

LEMMA ScheduleBaseMapInv ==
  ASSUME IInv, NEW m \in BaseMaps, ScheduleBaseMap(m)
  PROVE  IInv'
<1> USE DEF IInv, ScheduleBaseMap
<1>1. UNCHANGED <<Busy, Updating>>
  BY DEF Busy, Updating
<1>2. m \in Maps /\ m \notin queue /\ m \notin Updating /\ m \notin finished /\ m \notin InstanceMaps
  BY MapAssumption DEF NoMapUpdatedTwice, Maps
<1>3. PendingCountsRequests' /\ pending' \in Nat /\ queue' \subseteq queue \cup {m}
  BY <1>2, ScheduleCounts
<1>4. TypeOK' /\ LoopOver' /\ SpawningAreBusy' /\ QuietOutsideRound'
  BY <1>1, <1>2, <1>3 DEF TypeOK, LoopOver, SpawningAreBusy, QuietOutsideRound
<1>5. \A w \in Workers : m \notin left[w]
  BY <1>2 DEF TypeOK
<1>6. NoMapUpdatedTwice'
  BY <1>1, <1>2, <1>3, <1>5 DEF NoMapUpdatedTwice
<1>7. RequestsNameLiveMaps' /\ FinishedAreDone' /\ ScheduledByParent'
  BY <1>1, <1>2, <1>3 DEF RequestsNameLiveMaps, FinishedAreDone, ScheduledByParent
<1>8. LeftAreChildren'
  BY DEF LeftAreChildren
<1> QED BY <1>3, <1>4, <1>6, <1>7, <1>8

LEMMA DequeueInv ==
  ASSUME IInv, NEW w \in Workers, NEW m \in Maps, Dequeue(w, m)
  PROVE  IInv'
<1> USE DEF IInv, Dequeue
<1>1. m # NoMap
  BY MapAssumption DEF Maps
<1>2. Busy' = Busy \cup {w} /\ w \notin Busy
  BY <1>1 DEF Busy, TypeOK
<1>3. Updating' = Updating \cup {m}
  BY <1>1, <1>2 DEF Updating, Busy, TypeOK
<1>4. PendingCountsRequests'
  <2>1. Cardinality(queue') = Cardinality(queue) - 1
    BY FiniteRequests, FS_RemoveElement
  <2>2. Cardinality(Busy') = Cardinality(Busy) + 1
    BY <1>2, FiniteRequests, FS_AddElement
  <2> QED BY <2>1, <2>2, FiniteRequests DEF PendingCountsRequests
<1>5. TypeOK' /\ LoopOver' /\ QuietOutsideRound'
  BY DEF TypeOK, LoopOver, QuietOutsideRound
<1>6. SpawningAreBusy' /\ w \notin spawning
  BY <1>2 DEF SpawningAreBusy
<1>7. NoMapUpdatedTwice'
  <2>1. \A v \in Busy : running[v] # m
    BY DEF NoMapUpdatedTwice, Updating
  <2>2. \A u, v \in Busy' : u # v => running'[u] # running'[v]
    BY <1>2, <2>1 DEF NoMapUpdatedTwice, Busy, TypeOK
  <2> QED BY <1>3, <2>2 DEF NoMapUpdatedTwice
<1>8. RequestsNameLiveMaps' /\ FinishedAreDone'
  BY <1>3 DEF RequestsNameLiveMaps, FinishedAreDone
<1>9. ScheduledByParent'
  BY <1>3, <1>6 DEF ScheduledByParent, TypeOK
<1>10. LeftAreChildren'
  BY <1>6 DEF LeftAreChildren, TypeOK
<1> QED BY <1>4, <1>5, <1>6, <1>7, <1>8, <1>9, <1>10

LEMMA OwnUpdateDoneInv ==
  ASSUME IInv, NEW w \in Workers, OwnUpdateDone(w)
  PROVE  IInv'
<1> USE DEF IInv, OwnUpdateDone
<1>1. UNCHANGED <<Busy, Updating>>
  BY DEF Busy, Updating
<1>2. TypeOK' /\ PendingCountsRequests' /\ LoopOver' /\ SpawningAreBusy' /\ QuietOutsideRound'
  BY <1>1 DEF TypeOK, PendingCountsRequests, LoopOver, SpawningAreBusy, QuietOutsideRound,
              Children
<1>3. RequestsNameLiveMaps' /\ FinishedAreDone' /\ ScheduledByParent'
  BY <1>1 DEF RequestsNameLiveMaps, FinishedAreDone, ScheduledByParent
<1>4. running[w] \in Updating /\ running[w] \notin finished
  BY DEF Updating, FinishedAreDone
<1>5. \A v \in spawning : running[v] # running[w]
  BY DEF SpawningAreBusy, NoMapUpdatedTwice
<1>6. Children(running[w]) \cap (queue \cup Updating \cup finished) = {}
  BY <1>4, <1>5 DEF ScheduledByParent, Children, TypeOK
<1>7. left' = [left EXCEPT ![w] = Children(running[w])]
  OBVIOUS
<1>8. UNION {left'[v] : v \in Workers} \subseteq
        (UNION {left[v] : v \in Workers}) \cup Children(running[w])
  BY <1>7 DEF TypeOK
<1>9. NoMapUpdatedTwice'
  BY <1>1, <1>6, <1>8 DEF NoMapUpdatedTwice
<1>10. LeftAreChildren'
  BY <1>7 DEF LeftAreChildren, TypeOK, Children
<1> QED BY <1>2, <1>3, <1>9, <1>10

\* An instance about to be visited by w is visited by no other worker, and it is
\* neither queued, nor running, nor finished.
LEMMA VisitedOnce ==
  ASSUME IInv, NEW w \in Workers, NEW i \in left[w]
  PROVE  /\ i \notin queue /\ i \notin Updating /\ i \notin finished
         /\ \A v \in Workers : v # w => i \notin left[v]
         /\ i \in InstanceMaps /\ i \in instances
         /\ running[w] = Parent[i]
<1> USE DEF IInv
<1>1. i \in UNION {left[v] : v \in Workers}
  OBVIOUS
<1>2. i \notin queue /\ i \notin Updating /\ i \notin finished
  BY <1>1 DEF NoMapUpdatedTwice
<1>3. i \in InstanceMaps /\ i \in instances /\ running[w] = Parent[i]
  BY DEF TypeOK, LeftAreChildren
<1>4. ASSUME NEW v \in Workers, v # w, i \in left[v]
      PROVE  FALSE
  <2>1. v \in Busy /\ w \in Busy /\ running[v] = running[w]
    BY <1>4 DEF LeftAreChildren, SpawningAreBusy
  <2> QED BY <1>4, <2>1 DEF NoMapUpdatedTwice
<1> QED BY <1>2, <1>3, <1>4

LEMMA UnloadInstanceInv ==
  ASSUME IInv, NEW w \in Workers, NEW i \in InstanceMaps, UnloadInstance(w, i)
  PROVE  IInv'
<1> USE DEF IInv, UnloadInstance
<1>1. UNCHANGED <<Busy, Updating>>
  BY DEF Busy, Updating
<1>2. i \notin queue /\ i \notin Updating /\ \A v \in Workers : v # w => i \notin left[v]
  BY VisitedOnce
<1>3. TypeOK' /\ PendingCountsRequests' /\ LoopOver' /\ SpawningAreBusy' /\ QuietOutsideRound'
  BY <1>1 DEF TypeOK, PendingCountsRequests, LoopOver, SpawningAreBusy, QuietOutsideRound
<1>4. \A v \in Workers : left'[v] \subseteq left[v] /\ i \notin left'[v]
  BY <1>2 DEF TypeOK
<1>5. NoMapUpdatedTwice'
  BY <1>1, <1>4 DEF NoMapUpdatedTwice
<1>6. RequestsNameLiveMaps' /\ FinishedAreDone' /\ ScheduledByParent'
  BY <1>1, <1>2 DEF RequestsNameLiveMaps, FinishedAreDone, ScheduledByParent
<1>7. LeftAreChildren'
  BY <1>4 DEF LeftAreChildren
<1> QED BY <1>3, <1>5, <1>6, <1>7

LEMMA ScheduleInstanceInv ==
  ASSUME IInv, NEW w \in Workers, NEW i \in InstanceMaps, ScheduleInstance(w, i)
  PROVE  IInv'
<1> USE DEF IInv, ScheduleInstance
<1>1. UNCHANGED <<Busy, Updating>>
  BY DEF Busy, Updating
<1>2. /\ i \notin queue /\ i \notin Updating /\ i \notin finished /\ i \in instances
      /\ \A v \in Workers : v # w => i \notin left[v]
      /\ running[w] = Parent[i]
  BY VisitedOnce
<1>3. PendingCountsRequests' /\ pending' \in Nat /\ queue' \subseteq queue \cup {i}
  BY <1>2, ScheduleCounts DEF Maps
<1>4. TypeOK' /\ LoopOver' /\ SpawningAreBusy'
  BY <1>1, <1>3 DEF TypeOK, LoopOver, SpawningAreBusy, Maps
<1>5. QuietOutsideRound'
  BY <1>1 DEF QuietOutsideRound, SpawningAreBusy
<1>6. \A v \in Workers : left'[v] \subseteq left[v] /\ i \notin left'[v]
  BY <1>2 DEF TypeOK
<1>7. i \notin toSchedule
  BY MapAssumption DEF TypeOK
<1>8. NoMapUpdatedTwice'
  BY <1>1, <1>2, <1>3, <1>6, <1>7 DEF NoMapUpdatedTwice
<1>9. RequestsNameLiveMaps' /\ FinishedAreDone' /\ ScheduledByParent'
  BY <1>1, <1>2, <1>3 DEF RequestsNameLiveMaps, FinishedAreDone, ScheduledByParent
<1>10. LeftAreChildren'
  BY <1>6 DEF LeftAreChildren
<1> QED BY <1>3, <1>4, <1>5, <1>8, <1>9, <1>10

LEMMA UpdateFinishedInv ==
  ASSUME IInv, NEW w \in Workers, update_finished(w)
  PROVE  IInv'
<1> USE DEF IInv, update_finished
<1>1. w \in Busy
  BY DEF SpawningAreBusy
<1>2. Busy' = Busy \ {w}
  BY DEF Busy, TypeOK
<1>3. Updating' = Updating \ {running[w]} /\ running[w] \in Updating
  <2>1. \A v \in Busy' : running'[v] = running[v] /\ running[v] # running[w]
    BY <1>1, <1>2 DEF NoMapUpdatedTwice, TypeOK
  <2>2. \A v \in Busy : v # w => v \in Busy'
    BY <1>2
  <2> QED BY <1>1, <1>2, <2>1, <2>2 DEF Updating
<1>4. PendingCountsRequests' /\ pending' \in Nat /\ pending # 0
  <2>1. Cardinality(Busy') = Cardinality(Busy) - 1 /\ Cardinality(Busy) # 0
    BY <1>1, <1>2, FiniteRequests, FS_RemoveElement, FS_EmptySet
  <2> QED BY <2>1, FiniteRequests DEF PendingCountsRequests, TypeOK
<1>5. running[w] \in Maps /\ running[w] # NoMap
  BY <1>1 DEF TypeOK, Busy
<1>6. TypeOK' /\ LoopOver'
  BY <1>4, <1>5 DEF TypeOK, LoopOver
<1>7. QuietOutsideRound'
  BY <1>2 DEF QuietOutsideRound
<1>8. SpawningAreBusy'
  BY <1>2 DEF SpawningAreBusy
<1>9. running[w] \notin queue /\ running[w] \notin toSchedule
        /\ \A v \in Workers : running[w] \notin left[v]
  BY <1>3 DEF NoMapUpdatedTwice
<1>10. NoMapUpdatedTwice'
  <2>1. \A u, v \in Busy' : u # v => running'[u] # running'[v]
    BY <1>2 DEF NoMapUpdatedTwice, TypeOK, Busy
  <2> QED BY <1>3, <1>9, <2>1 DEF NoMapUpdatedTwice
<1>11. RequestsNameLiveMaps' /\ FinishedAreDone'
  BY <1>3, <1>9 DEF RequestsNameLiveMaps, FinishedAreDone
<1>12. ScheduledByParent'
  <2> SUFFICES ASSUME NEW i \in InstanceMaps, i \in queue' \cup Updating' \cup finished',
                      Parent[i] \notin finished'
               PROVE  \E v \in spawning' : running'[v] = Parent[i]
    BY DEF ScheduledByParent
  <2>1. i \in queue \cup Updating \cup finished /\ Parent[i] \notin finished
    BY <1>3
  <2>2. PICK v \in spawning : running[v] = Parent[i]
    BY <2>1 DEF ScheduledByParent
  <2>3. v # w
    BY <2>2
  <2> QED BY <2>2, <2>3 DEF TypeOK
<1>13. LeftAreChildren'
  BY DEF LeftAreChildren, TypeOK
<1> QED BY <1>4, <1>6, <1>7, <1>8, <1>10, <1>11, <1>12, <1>13

LEMMA InitInv == Init => IInv
<1> SUFFICES ASSUME Init PROVE IInv
  OBVIOUS
<1> USE DEF Init
<1>1. Busy = {} /\ Updating = {} /\ UNION {left[w] : w \in Workers} = {}
  BY DEF Busy, Updating
<1>2. TypeOK
  BY DEF TypeOK
<1>3. PendingCountsRequests
  BY <1>1, FS_EmptySet DEF PendingCountsRequests
<1>4. NoMapUpdatedTwice /\ QuietOutsideRound /\ RequestsNameLiveMaps
  BY <1>1 DEF NoMapUpdatedTwice, QuietOutsideRound, RequestsNameLiveMaps
<1>5. LoopOver /\ SpawningAreBusy /\ LeftAreChildren /\ FinishedAreDone /\ ScheduledByParent
  BY <1>1 DEF LoopOver, SpawningAreBusy, LeftAreChildren, FinishedAreDone, ScheduledByParent
<1> QED BY <1>2, <1>3, <1>4, <1>5 DEF IInv

\* pending_requests is zero only when nothing is queued and every worker is idle
LEMMA ZeroIsQuiet ==
  ASSUME TypeOK, PendingCountsRequests, pending = 0
  PROVE  queue = {} /\ Busy = {}
  BY FiniteRequests, FS_EmptySet DEF PendingCountsRequests

LEMMA WorldThreadInv ==
  ASSUME IInv, WorldThread \/ WakeSpuriously
  PROVE  IInv'
<1>1. CASE BeginRound
  BY <1>1, BeginRoundInv
<1>2. ASSUME NEW m \in BaseMaps, ScheduleBaseMap(m) PROVE IInv'
  BY <1>2, ScheduleBaseMapInv
<1>3. CASE EndSchedule
  BY <1>3, WorldStepInv DEF EndSchedule
<1>4. CASE Wait
  <2>1. worldPc' = "delayed" => queue = {} /\ Busy = {}
    BY <1>4, ZeroIsQuiet DEF Wait, IInv, TypeOK
  <2> QED BY <1>4, <2>1, WorldStepInv DEF Wait, IInv, LoopOver
<1>5. CASE DelayedUpdate
  BY <1>5, WorldStepInv DEF DelayedUpdate, IInv, QuietOutsideRound, LoopOver
<1>6. CASE WakeSpuriously
  BY <1>6, WorldStepInv DEF WakeSpuriously, IInv, LoopOver
<1> QED BY <1>1, <1>2, <1>3, <1>4, <1>5, <1>6 DEF WorldThread

LEMMA StutterInv == IInv /\ UNCHANGED vars => IInv'
<1> SUFFICES ASSUME IInv, UNCHANGED vars PROVE IInv'
  OBVIOUS
<1>1. UNCHANGED <<Busy, Updating>>
  BY DEF vars, Busy, Updating
<1> QED
  BY <1>1 DEF vars, IInv, TypeOK, PendingCountsRequests, NoMapUpdatedTwice,
       QuietOutsideRound, RequestsNameLiveMaps, LoopOver, SpawningAreBusy,
       LeftAreChildren, FinishedAreDone, ScheduledByParent

LEMMA StepInv == IInv /\ [Next]_vars => IInv'
<1> SUFFICES ASSUME IInv, Next PROVE IInv'
  BY StutterInv
<1>1. CASE WorldThread \/ WakeSpuriously
  BY <1>1, WorldThreadInv
<1>2. ASSUME NEW i \in InstanceMaps, CreateInstance(i) PROVE IInv'
  BY <1>2, CreateInstanceInv
<1>3. ASSUME NEW w \in Workers, Worker(w) PROVE IInv'
  <2>1. ASSUME NEW m \in Maps, Dequeue(w, m) PROVE IInv'
    BY <2>1, DequeueInv
  <2>2. CASE OwnUpdateDone(w)
    BY <2>2, OwnUpdateDoneInv
  <2>3. ASSUME NEW i \in InstanceMaps, UnloadInstance(w, i) PROVE IInv'
    BY <2>3, UnloadInstanceInv
  <2>4. ASSUME NEW i \in InstanceMaps, ScheduleInstance(w, i) PROVE IInv'
    BY <2>4, ScheduleInstanceInv
  <2>5. CASE update_finished(w)
    BY <2>5, UpdateFinishedInv
  <2> QED BY <1>3, <2>1, <2>2, <2>3, <2>4, <2>5 DEF Worker
<1> QED BY <1>1, <1>2, <1>3 DEF Next

\* The inductive invariant holds in every reachable state.
LEMMA Inductive == Spec => []IInv
  BY InitInv, StepInv, PTL DEF Spec

-----------------------------------------------------------------------------
(* Theorems. *)

\* Every variable keeps its type: pending_requests in particular never goes
\* below zero.
THEOREM TypeCorrect == Spec => []TypeOK
<1>1. IInv => TypeOK
  BY DEF IInv
<1> QED BY <1>1, Inductive, PTL

\* pending_requests is the number of queued and running requests, whatever the
\* number of threads and the capacity of the queue.
THEOREM PendingExact == Spec => []PendingCountsRequests
<1>1. IInv => PendingCountsRequests
  BY DEF IInv
<1> QED BY <1>1, Inductive, PTL

\* Two threads never update one map, and a map is updated once per round.
THEOREM OneUpdatePerMap == Spec => []NoMapUpdatedTwice
<1>1. IInv => NoMapUpdatedTwice
  BY DEF IInv
<1> QED BY <1>1, Inductive, PTL

\* The world thread leaves wait only when every worker is idle and the queue is
\* empty, so DelayedUpdate and the rest of the tick run alone.
THEOREM WorldTickAlone == Spec => []QuietOutsideRound
<1>1. IInv => QuietOutsideRound
  BY DEF IInv
<1> QED BY <1>1, Inductive, PTL

\* No request refers to an instance that DestroyInstance has deleted.
THEOREM NoDanglingRequest == Spec => []RequestsNameLiveMaps
<1>1. IInv => RequestsNameLiveMaps
  BY DEF IInv
<1> QED BY <1>1, Inductive, PTL

\* The three together.
THEOREM RequestsExact == Spec => []RequestsAreExact
<1>1. IInv => RequestsAreExact
  BY DEF IInv, RequestsAreExact
<1> QED BY <1>1, Inductive, PTL

-----------------------------------------------------------------------------
(* Refinement: every step of the updater is a step of MapRound, or leaves the *)
(* round as it is.                                                            *)

LEMMA StutterRefines ==
  ASSUME UNCHANGED <<queue, running, finished>>, Phase' = Phase
  PROVE  UNCHANGED Round!mvars
<1>1. UNCHANGED Updating
  BY DEF Updating, Busy
<1> QED BY <1>1 DEF Round!mvars

LEMMA WorldThreadRefines ==
  ASSUME IInv, WorldThread \/ WakeSpuriously
  PROVE  [Round!Next]_(Round!mvars)
<1>1. CASE BeginRound
  <2>1. UNCHANGED Updating
    BY <1>1 DEF BeginRound, Updating, Busy
  <2>2. Round!Open
    BY <1>1, <2>1 DEF BeginRound, Round!Open, Phase
  <2> QED BY <2>2 DEF Round!Next
<1>2. ASSUME NEW m \in BaseMaps, ScheduleBaseMap(m) PROVE [Round!Next]_(Round!mvars)
  <2>1. UNCHANGED Updating
    BY <1>2 DEF ScheduleBaseMap, Updating, Busy
  <2>2. CASE queue' = queue
    BY <1>2, <2>2, StutterRefines DEF ScheduleBaseMap, Phase
  <2>3. CASE queue' = queue \cup {m}
    <3>1. m \in Maps /\ m \notin (queue \cup Updating) \cup finished
      BY <1>2 DEF IInv, NoMapUpdatedTwice, ScheduleBaseMap, Maps
    <3>2. Round!Accept(m)
      BY <1>2, <2>1, <2>3, <3>1 DEF Round!Accept, ScheduleBaseMap, Phase
    <3> QED BY <3>1, <3>2 DEF Round!Next
  <2> QED BY <1>2, <2>2, <2>3 DEF ScheduleBaseMap, schedule_update
<1>3. CASE EndSchedule
  BY <1>3, StutterRefines DEF EndSchedule, Phase
<1>4. CASE Wait
  <2>1. CASE pending > 0
    BY <1>4, <2>1, StutterRefines DEF Wait, Phase
  <2>2. CASE ~(pending > 0)
    <3>1. queue = {} /\ Busy = {} /\ Updating = {}
      BY <2>2, ZeroIsQuiet DEF IInv, TypeOK, Updating
    <3>2. UNCHANGED Updating
      BY <1>4 DEF Wait, Updating, Busy
    <3>3. Round!Close
      BY <1>4, <2>2, <3>1, <3>2 DEF Wait, Round!Close, Phase
    <3> QED BY <3>3 DEF Round!Next
  <2> QED BY <2>1, <2>2
<1>5. CASE DelayedUpdate
  BY <1>5, StutterRefines DEF DelayedUpdate, Phase
<1>6. CASE WakeSpuriously
  BY <1>6, StutterRefines DEF WakeSpuriously, Phase
<1> QED BY <1>1, <1>2, <1>3, <1>4, <1>5, <1>6 DEF WorldThread

LEMMA WorkerRefines ==
  ASSUME IInv, IInv', NEW w \in Workers, Worker(w)
  PROVE  [Round!Next]_(Round!mvars)
<1>1. ASSUME NEW m \in Maps, Dequeue(w, m) PROVE [Round!Next]_(Round!mvars)
  <2>1. m # NoMap
    BY MapAssumption DEF Maps
  <2>2. Updating' = Updating \cup {m}
    BY <1>1, <2>1 DEF Dequeue, Updating, Busy, IInv, TypeOK
  <2>3. (queue \cup Updating)' = queue \cup Updating
    BY <1>1, <2>2 DEF Dequeue
  <2> QED BY <1>1, <2>3 DEF Dequeue, Phase, Round!mvars
<1>2. CASE OwnUpdateDone(w)
  BY <1>2, StutterRefines DEF OwnUpdateDone, Phase
<1>3. ASSUME NEW i \in InstanceMaps, UnloadInstance(w, i) PROVE [Round!Next]_(Round!mvars)
  BY <1>3, StutterRefines DEF UnloadInstance, Phase
<1>4. ASSUME NEW i \in InstanceMaps, ScheduleInstance(w, i) PROVE [Round!Next]_(Round!mvars)
  <2>1. UNCHANGED Updating
    BY <1>4 DEF ScheduleInstance, Updating, Busy
  <2>2. CASE queue' = queue
    BY <1>4, <2>2, StutterRefines DEF ScheduleInstance, Phase
  <2>3. CASE queue' = queue \cup {i}
    <3>1. i \in Maps /\ i \notin (queue \cup Updating) \cup finished
      BY <1>4, VisitedOnce DEF ScheduleInstance, Maps
    <3>2. Phase = "open" /\ Phase' = "open"
      BY <1>4 DEF ScheduleInstance, IInv, QuietOutsideRound, SpawningAreBusy, Phase, TypeOK
    <3>3. Round!Accept(i)
      BY <1>4, <2>1, <2>3, <3>1, <3>2 DEF Round!Accept, ScheduleInstance
    <3> QED BY <3>1, <3>3 DEF Round!Next
  <2> QED BY <1>4, <2>2, <2>3 DEF ScheduleInstance, schedule_update
<1>5. CASE update_finished(w)
  <2>1. w \in Busy /\ running[w] \in Maps /\ running[w] \in Updating
    BY <1>5 DEF update_finished, IInv, SpawningAreBusy, Busy, Updating, TypeOK
  <2>2. running[w] \notin queue
    BY <2>1 DEF IInv, NoMapUpdatedTwice
  <2>3. \A v \in Busy : v # w => running[v] # running[w]
    BY <2>1 DEF IInv, NoMapUpdatedTwice
  <2>4. Busy' = Busy \ {w} /\ \A v \in Busy' : running'[v] = running[v]
    BY <1>5 DEF update_finished, Busy, IInv, TypeOK
  <2>5. Updating' = Updating \ {running[w]}
    BY <2>1, <2>3, <2>4 DEF Updating
  <2>6. Round!Finish(running[w])
    BY <1>5, <2>1, <2>2, <2>5 DEF Round!Finish, update_finished, Phase
  <2> QED BY <2>1, <2>6 DEF Round!Next
<1> QED BY <1>1, <1>2, <1>3, <1>4, <1>5 DEF Worker

\* MapManager::Update with map update threads implements the round it promises:
\* whatever the threads do, maps are accepted once, finished once, and the world
\* thread goes on only when no accepted map is left.
THEOREM ImplementsRound == Spec => RoundSpec
<1>1. Init => Round!Init
  BY DEF Init, Round!Init, Phase, Updating, Busy
<1>2. IInv /\ IInv' /\ [Next]_vars => [Round!Next]_(Round!mvars)
  <2> SUFFICES ASSUME IInv, IInv', [Next]_vars PROVE [Round!Next]_(Round!mvars)
    OBVIOUS
  <2>1. CASE UNCHANGED vars
    BY <2>1, StutterRefines DEF vars, Phase
  <2>2. CASE WorldThread \/ WakeSpuriously
    BY <2>2, WorldThreadRefines
  <2>3. ASSUME NEW i \in InstanceMaps, CreateInstance(i) PROVE [Round!Next]_(Round!mvars)
    BY <2>3, StutterRefines DEF CreateInstance, Phase
  <2>4. ASSUME NEW w \in Workers, Worker(w) PROVE [Round!Next]_(Round!mvars)
    BY <2>4, WorkerRefines
  <2> QED BY <2>1, <2>2, <2>3, <2>4 DEF Next
<1> QED BY <1>1, <1>2, Inductive, PTL DEF Spec, RoundSpec, Round!Spec
=============================================================================
