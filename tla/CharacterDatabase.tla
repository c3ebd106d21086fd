-------------------------- MODULE CharacterDatabase --------------------------
(***************************************************************************)
(* The asynchronous side of DatabaseWorkerPool: one queue and one thread   *)
(* per connection, the choice of a queue for each operation, and the       *)
(* operations that matter most: a character is saved by a transaction and  *)
(* loaded by a query holder, and some tables are always written through    *)
(* the same connection.  The world thread asks, the workers carry out, and *)
(* the answer of a load comes back through TaskMgr.  A shutdown unloads    *)
(* the players and closes the pool.                                        *)
(*                                                                         *)
(* What a character has is two parts with a version number each: its money *)
(* (every save writes it) and its items (a save writes those that changed  *)
(* since the last one).                                                    *)
(***************************************************************************)
EXTENDS Integers, Sequences, FiniteSets

CONSTANTS
  Characters,
  Connections,   \* the pinned connections in use, members of enum DBConnection
  PoolSizes,     \* possible values of CharacterDatabase.WorkerThreads
  MaxVersion,    \* bound: changes of each part of a character
  MaxWrites,     \* bound: writes through each pinned connection
  MaxPending,    \* bound: operations queued in all workers
  MaxAbandoned,  \* bound: transactions given up
  NoAnswer,      \* a future without a result
  Idle           \* a worker in dequeue

ASSUME DatabaseAssumption ==
  /\ Connections \subseteq Nat
  /\ PoolSizes \subseteq Nat \ {0}
  /\ MaxVersion \in Nat /\ MaxWrites \in Nat
  /\ MaxPending \in Nat \ {0} /\ MaxAbandoned \in Nat

VARIABLES
  workers,    \* size of _workers, fixed when the pool is opened
  queue,      \* queue[w]: DatabaseWorker::m_queue
  running,    \* running[w]: the operation in call(), with what it has done
  active,     \* active[w]: the queue has not been deactivated
  state,      \* state[c]: the character's session
  mem,        \* mem[c]: the Player object
  dirty,      \* dirty[c]: m_itemUpdateQueue is not empty
  answer,     \* answer[c]: the future of the last load
  pinned,     \* pinned[k]: last value written through connection k
  db,         \* the tables of the characters
  pinnedDb,   \* the tables written through pinned connections
  server,     \* "running" or "stopping"
  requested,  \* history: what c was when its last save was queued
  spoilt      \* history: characters of whom a save was given up

world == <<state, mem, dirty, pinned, requested>>
store == <<db, pinnedDb>>
vars == <<workers, queue, running, active, answer, server, spoilt, world, store>>

Parts == {"money", "items"}
Versions == 0..MaxVersion
Writes == 0..MaxWrites
Workers == 1..workers

Save(c, parts) == [kind |-> "save", of |-> c, data |-> [x \in parts |-> mem[c][x]]]
Load(c) == [kind |-> "load", of |-> c, data |-> <<>>]
Write(k, v) == [kind |-> "write", of |-> k, data |-> v]
Finished == [kind |-> "finished"]

Operations ==
  [kind : {"load", "orphan"}, of : Characters, data : {<<>>} \cup [{"money"} -> Versions]]
    \cup [kind : {"save"}, of : Characters, data : [{"money"} -> Versions] \cup [Parts -> Versions]]
    \cup [kind : {"write"}, of : Connections, data : Writes]

ASSUME NothingAssumption ==
  /\ Idle \notin Operations
  /\ NoAnswer \notin [Parts -> Versions]

-----------------------------------------------------------------------------
(* DatabaseWorkerPool::Enqueue.                                             *)

\* DatabaseWorker::Count: queued operations and the one not finished
Count(w) == Len(queue[w]) + (IF running[w] = Idle THEN 0 ELSE 1)

\* The first idle worker, or the front one: "c < min" never holds, min being 0
GetWorker ==
  LET free == {w \in Workers : Count(w) = 0}
  IN  IF free = {} THEN 1 ELSE CHOOSE w \in free : \A v \in free : w <= v

\* connection k has the k-th worker from the back, or the last one
PinnedWorkerIfFree(k) ==                \* mutant: the pin is only a preference
  IF workers - k >= 1 /\ Count(workers - k) = 0 THEN workers - k ELSE GetWorker
PinnedWorker(k) == IF workers - k >= 1 THEN workers - k ELSE workers

HasRoom == Cardinality(UNION {{w} \X DOMAIN queue[w] : w \in Workers}) < MaxPending

Enqueue(w, op) ==
  /\ HasRoom
  /\ queue' = [queue EXCEPT ![w] = Append(@, op)]

-----------------------------------------------------------------------------
(* The world thread.                                                        *)

database == <<running, active, store, spoilt>>

MarkDirtyNever(c, part) == dirty        \* mutant: SetState(ITEM_CHANGED) is missing
MarkDirty(c, part) == [dirty EXCEPT ![c] = @ \/ part = "items"]

Change(c, part) ==
  /\ server = "running" /\ state[c] = "inWorld" /\ mem[c][part] < MaxVersion
  /\ mem' = [mem EXCEPT ![c][part] = @ + 1]
  /\ dirty' = MarkDirty(c, part)
  /\ UNCHANGED <<workers, queue, answer, server, state, pinned, requested, database>>

\* Player::SaveToDB: _SaveInventory appends the changed items and clears
\* m_itemUpdateQueue; the transaction goes to any worker
SaveToDB(c) ==
  /\ Enqueue(GetWorker, Save(c, IF dirty[c] THEN Parts ELSE {"money"}))
  /\ dirty' = [dirty EXCEPT ![c] = FALSE]
  /\ requested' = [requested EXCEPT ![c] = mem[c]]

AutoSave(c) ==
  /\ server = "running" /\ state[c] = "inWorld"
  /\ SaveToDB(c)
  /\ UNCHANGED <<workers, answer, server, state, mem, pinned, database>>

\* WorldSession::LogoutPlayer, on request or in the last UpdateSessions
LogoutPlayer(c) ==
  /\ state[c] = "inWorld" /\ state' = [state EXCEPT ![c] = "offline"]
  /\ SaveToDB(c)
  /\ UNCHANGED <<workers, answer, server, mem, pinned, database>>

HandlePlayerLoginOpcode(c) ==
  /\ server = "running" /\ state[c] = "offline"
  /\ state' = [state EXCEPT ![c] = "loading"]
  /\ Enqueue(GetWorker, Load(c))
  /\ UNCHANGED <<workers, answer, server, mem, dirty, pinned, requested, database>>

\* TaskMgr::Update finds the future ready and calls the continuation
HandlePlayerLogin(c) ==
  /\ server = "running" /\ state[c] = "loading" /\ answer[c] # NoAnswer
  /\ state' = [state EXCEPT ![c] = "inWorld"]
  /\ mem' = [mem EXCEPT ![c] = answer[c]]
  /\ answer' = [answer EXCEPT ![c] = NoAnswer]
  /\ UNCHANGED <<workers, queue, server, dirty, pinned, requested, database>>

\* the session goes away first: its task is cancelled, the query is not
Disown(c, op) ==
  IF op # Idle /\ op.kind = "load"
  THEN (IF op.of = c THEN [op EXCEPT !.kind = "orphan"] ELSE op)
  ELSE op
CancelLogin(c) ==
  /\ state[c] = "loading" /\ state' = [state EXCEPT ![c] = "offline"]
  /\ answer' = [answer EXCEPT ![c] = NoAnswer]
  /\ queue' = [w \in Workers |-> [i \in DOMAIN queue[w] |-> Disown(c, queue[w][i])]]
  /\ running' = [w \in Workers |-> Disown(c, running[w])]
  /\ UNCHANGED <<workers, active, server, mem, dirty, pinned, requested, store, spoilt>>

\* Guild, Group, InstanceSaveManager: a write through their own connection
PinnedWrite(k) ==
  /\ server = "running" /\ pinned[k] < MaxWrites
  /\ pinned' = [pinned EXCEPT ![k] = @ + 1]
  /\ Enqueue(PinnedWorker(k), Write(k, pinned[k] + 1))
  /\ UNCHANGED <<workers, answer, server, state, mem, dirty, requested, database>>

\* WorldRunnable::run leaves its loop; KickAll and UpdateSessions follow
Stop ==
  /\ server = "running" /\ server' = "stopping"
  /\ UNCHANGED <<workers, queue, answer, world, database>>

\* DatabaseWorkerPool::Close deletes the workers in turn: each is deactivated
\* and joined before the next
Deactivate(w) ==
  /\ server = "stopping" /\ \A c \in Characters : state[c] = "offline"
  /\ active[w] /\ \A v \in 1..(w - 1) : ~active[v] /\ running[v] = Idle
  /\ active' = [active EXCEPT ![w] = FALSE]
  /\ UNCHANGED <<workers, queue, running, answer, server, world, store, spoilt>>

-----------------------------------------------------------------------------
(* A worker, DatabaseWorker::Run.                                           *)

asking == <<workers, active, server, world>>

Dequeue(w) ==
  /\ active[w] /\ running[w] = Idle /\ queue[w] # <<>>
  /\ running' = [running EXCEPT ![w] = Head(queue[w])]
  /\ queue' = [queue EXCEPT ![w] = Tail(@)]
  /\ UNCHANGED <<asking, answer, store, spoilt>>

\* MySQLConnection::ExecuteTransaction, all statements or none
Commit(w) ==
  /\ running[w] # Idle /\ running[w].kind \in {"save", "write"}
  /\ LET op == running[w] IN
       IF op.kind = "save"
       THEN /\ db' = [db EXCEPT ![op.of] =
                        [x \in Parts |-> IF x \in DOMAIN op.data THEN op.data[x] ELSE @[x]]]
            /\ UNCHANGED pinnedDb
       ELSE /\ pinnedDb' = [pinnedDb EXCEPT ![op.of] = op.data]
            /\ UNCHANGED db
  /\ running' = [running EXCEPT ![w] = Finished]
  /\ UNCHANGED <<asking, queue, answer, spoilt>>

\* TransactionTask::DoTask: the statements failed, and in a deadlock failed five
\* times more; Cleanup forgets them
AbandonAndRetryLater(w) ==              \* mutant: queued again behind the others
  /\ running[w] # Idle /\ running[w].kind = "save"
  /\ HasRoom
  /\ queue' = [queue EXCEPT ![w] = Append(@, running[w])]
  /\ running' = [running EXCEPT ![w] = Finished]
  /\ UNCHANGED <<asking, answer, store, spoilt>>
Abandon(w) ==
  /\ running[w] # Idle /\ running[w].kind \in {"save", "write"}
  /\ IF running[w].kind = "write" THEN UNCHANGED spoilt
     ELSE /\ Cardinality(spoilt) < MaxAbandoned
          /\ spoilt' = spoilt \cup {running[w].of}
  /\ running' = [running EXCEPT ![w] = Finished]
  /\ UNCHANGED <<asking, queue, answer, store>>

\* SQLQueryHolderTask::Execute: one query after the other, without a transaction;
\* the last one completes the future
Rest(op) == Parts \ DOMAIN op.data
CompletesAtOnce(op, part) == TRUE       \* mutant: the future is set inside the loop
Completes(op, part) == Rest(op) = {part}
ReadPart(w) ==
  /\ running[w] # Idle /\ running[w].kind \in {"load", "orphan"}
  /\ LET op == running[w]
         part == IF "money" \in Rest(op) THEN "money" ELSE "items"
         read == [x \in DOMAIN op.data \cup {part} |->
                    IF x = part THEN db[op.of][part] ELSE op.data[x]]
     IN  /\ running' = [running EXCEPT ![w] =
                          IF Completes(op, part) THEN Finished ELSE [op EXCEPT !.data = read]]
         /\ answer' = IF Completes(op, part) /\ op.kind = "load"
                      THEN [answer EXCEPT ![op.of] = read] ELSE answer
  /\ UNCHANGED <<asking, queue, store, spoilt>>

\* --_count, delete request
FinishUnlessSpoilt(w) ==                \* mutant: a failed transaction ends the thread
  /\ running[w] = Finished /\ spoilt = {}
  /\ running' = [running EXCEPT ![w] = Idle]
  /\ UNCHANGED <<asking, queue, answer, store, spoilt>>
Finish(w) ==
  /\ running[w] = Finished
  /\ running' = [running EXCEPT ![w] = Idle]
  /\ UNCHANGED <<asking, queue, answer, store, spoilt>>

-----------------------------------------------------------------------------
Fresh == [x \in Parts |-> 0]

Init ==
  /\ workers \in PoolSizes
  /\ queue = [w \in Workers |-> <<>>] /\ running = [w \in Workers |-> Idle]
  /\ active = [w \in Workers |-> TRUE]
  /\ state = [c \in Characters |-> "offline"] /\ mem = [c \in Characters |-> Fresh]
  /\ dirty = [c \in Characters |-> FALSE] /\ answer = [c \in Characters |-> NoAnswer]
  /\ db = mem /\ requested = mem
  /\ pinned = [k \in Connections |-> 0] /\ pinnedDb = pinned
  /\ server = "running" /\ spoilt = {}

WorldThread ==
  \/ \E c \in Characters :
       \/ \E part \in Parts : Change(c, part)
       \/ AutoSave(c) \/ LogoutPlayer(c)
       \/ HandlePlayerLoginOpcode(c) \/ HandlePlayerLogin(c) \/ CancelLogin(c)
  \/ \E k \in Connections : PinnedWrite(k)
  \/ Stop
  \/ \E w \in Workers : Deactivate(w)

Worker(w) ==
  Dequeue(w) \/ Commit(w) \/ Abandon(w) \/ ReadPart(w) \/ Finish(w)

Next == WorldThread \/ \E w \in Workers : Worker(w)

Spec == Init /\ [][Next]_vars

MaxWorkers == CHOOSE n \in PoolSizes : \A m \in PoolSizes : m <= n

\* each worker is a thread of its own, and TaskMgr::Update runs in every tick
FairSpec ==
  /\ Spec
  /\ \A w \in 1..MaxWorkers : WF_vars(w \in Workers /\ Worker(w))
  /\ \A c \in Characters : WF_vars(HandlePlayerLogin(c))

-----------------------------------------------------------------------------
(* Properties.                                                              *)

TypeOK ==
  /\ workers \in PoolSizes
  /\ queue \in [Workers -> Seq(Operations)]
  /\ running \in [Workers -> Operations \cup {Idle, Finished}]
  /\ active \in [Workers -> BOOLEAN]
  /\ state \in [Characters -> {"offline", "loading", "inWorld"}]
  /\ mem \in [Characters -> [Parts -> Versions]]
  /\ dirty \in [Characters -> BOOLEAN]
  /\ answer \in [Characters -> {NoAnswer} \cup [Parts -> Versions]]
  /\ pinned \in [Connections -> Writes] /\ pinnedDb \in [Connections -> Writes]
  /\ db \in [Characters -> [Parts -> Versions]]
  /\ requested \in [Characters -> [Parts -> Versions]]
  /\ server \in {"running", "stopping"} /\ spoilt \subseteq Characters

\* With one worker thread (the default) a login reads what the last save of the
\* character asked to write, in all its parts, although the save may still have been
\* queued when the login began.
LoginReadsLastSave ==
  workers = 1 =>
    \A c \in Characters : answer[c] # NoAnswer /\ c \notin spoilt => answer[c] = requested[c]

\* With one worker thread the database agrees with the last save of every character
\* as soon as no save of that character waits: saving only the items that changed
\* loses nothing.  What a closed pool still has in its queue waits for ever, so that
\* is all that a shutdown can lose.
SavePending(c) ==
  \E w \in Workers :
    \/ running[w] # Idle /\ running[w].kind = "save" /\ running[w].of = c
    \/ \E i \in DOMAIN queue[w] : queue[w][i].kind = "save" /\ queue[w][i].of = c
QuietDatabaseIsCurrent ==
  workers = 1 =>
    \A c \in Characters : SavePending(c) \/ c \in spoilt \/ db[c] = requested[c]

\* For any number of worker threads, what is written through a pinned connection
\* is written in the order it was asked for.
PinnedWritesKeepOrder ==
  [][\A k \in Connections : pinnedDb'[k] >= pinnedDb[k]]_vars

\* A login is answered, whatever transactions fail and however many operations
\* are queued before it, unless the server stops.
LoginIsAnswered ==
  \A c \in Characters :
    state[c] = "loading" ~> state[c] # "loading" \/ server = "stopping"
=============================================================================
