---------------------------- MODULE WorldSessions ----------------------------
(***************************************************************************)
(* The session table of the world server and its login queue: World's      *)
(* addSessQueue, m_sessions, m_QueuedPlayer and m_disconnects, and the     *)
(* part of WorldSession that decides whether a session stays in them.      *)
(*                                                                         *)
(* Two kinds of threads touch this state.  Network threads create a        *)
(* session for an authenticated connection, append it to addSessQueue and  *)
(* close its socket; they run between any two steps of the world thread.   *)
(* The world thread runs the rest: one step drains one element of          *)
(* addSessQueue (AddSession_), another updates one session of the table.   *)
(***************************************************************************)
EXTENDS Integers, Sequences, FiniteSets, SequencesExt

CONSTANTS
  Accounts,      \* account ids
  Staff,         \* the accounts with a security level above SEC_PLAYER
  Limits,        \* the values m_playerLimit may take (0: no limit)
  Tolerance,     \* CONFIG_INTERVAL_DISCONNECT_TOLERANCE, in seconds
  MaxSessions,   \* bound: connections made in a behaviour
  MayStop,       \* whether the operator may shut the server down
  MaxTime,       \* bound: seconds of wall-clock time
  NoSession,     \* an account without an entry in m_sessions
  Never          \* an account without an entry in m_disconnects

ASSUME SessionAssumption ==
  /\ Staff \subseteq Accounts
  /\ Limits \subseteq Nat /\ Limits # {}
  /\ Tolerance \in Nat /\ MaxTime \in Nat
  /\ MaxSessions \in Nat \ {0} /\ MayStop \in BOOLEAN
  /\ NoSession \notin Nat /\ Never \notin Nat

VARIABLES
  account,       \* account[s]: the account of the s-th session ever made
  alive,         \* the sessions that have been constructed and not deleted
  open,          \* the sessions whose socket is not closed
  inQueue,       \* the sessions with m_inQueue set
  loading,       \* the sessions with m_playerLoading set
  inWorld,       \* the sessions with a Player object
  addSessQueue,  \* sessions handed over by the network threads
  sessions,      \* m_sessions
  queue,         \* m_QueuedPlayer
  disconnects,   \* m_disconnects: the second an account left the table
  limit,         \* m_playerLimit
  now,           \* time(NULL)
  stopEvent,     \* World::IsStopped(), seen by WorldRunnable::run
  pc,            \* where the world thread is in its tick
  todo           \* the accounts UpdateSessions has still to visit

vars == <<account, alive, open, inQueue, loading, inWorld, addSessQueue,
          sessions, queue, disconnects, limit, now, stopEvent, pc, todo>>

SessionIds == 1..MaxSessions
Existing == DOMAIN account
Registered == {a \in Accounts : sessions[a] # NoSession}
GetActiveSessionCount(tbl, que) ==
  Cardinality({a \in Accounts : tbl[a] # NoSession}) - Len(que)

-----------------------------------------------------------------------------
(* Pure parts of the queue discipline.                                      *)

\* RemoveQueuedPlayer(sess): the queue it leaves when the table is tbl.  The
\* session is unlinked when listed, otherwise its own active slot is counted as
\* freed; then the head of the queue is admitted if that leaves a free slot.
FreedSlotsNever(que, s) == 0           \* mutant: a departure frees nothing
FreedSlotsAlways(que, s) == 1          \* mutant: also when s was only queued
FreedSlots(que, s) == IF s \in ToSet(que) THEN 0 ELSE 1
ActiveWithout(tbl, que, s) ==
  LET n == GetActiveSessionCount(tbl, que)
  IN  IF n > 0 THEN n - FreedSlots(que, s) ELSE n
HasFreeSlot(active) == limit = 0 \/ active < limit
Position(que, s) ==
  CHOOSE i \in DOMAIN que : que[i] = s /\ \A j \in 1..(i - 1) : que[j] # s
Unlinked(que, s) == IF s \in ToSet(que) THEN RemoveAt(que, Position(que, s)) ELSE que
AfterAdmission(tbl, que, s, rest) ==
  IF HasFreeSlot(ActiveWithout(tbl, que, s)) /\ rest # <<>> THEN Tail(rest) ELSE rest
RemoveQueuedPlayerKeeps(tbl, que, s) ==      \* mutant: s stays linked
  AfterAdmission(tbl, que, s, que)
RemoveQueuedPlayerLast(tbl, que, s) ==       \* mutant: admits the last in line
  LET rest == Unlinked(que, s)
  IN  IF HasFreeSlot(ActiveWithout(tbl, que, s)) /\ rest # <<>>
      THEN Front(rest) ELSE rest
RemoveQueuedPlayer(tbl, que, s) == AfterAdmission(tbl, que, s, Unlinked(que, s))

\* SetInQueue(false) on the sessions a call took off the queue, and the end of
\* the sessions gone.
UnflagNobody(before, after, gone) == inQueue            \* mutant: forgets the deleted object
UnflagOnlyGone(before, after, gone) == inQueue \ gone   \* mutant: admits without the reset
Unflag(before, after, gone) == inQueue \ (gone \cup (ToSet(before) \ ToSet(after)))

\* HasRecentlyDisconnected: difftime(then, now) is never positive, so an entry
\* compares below any tolerance and is never dropped from the map.
HasRecentlyDisconnected(a) ==
  /\ Tolerance # 0
  /\ disconnects[a] # Never
  /\ disconnects[a] - now < Tolerance

\* the test that sends a new session to the queue; !GetSecurity() == SEC_PLAYER
\* holds exactly for the accounts with a security level above SEC_PLAYER
MustQueue(count, a) ==
  /\ limit > 0
  /\ count >= limit
  /\ a \in Staff
  /\ ~HasRecentlyDisconnected(a)

-----------------------------------------------------------------------------
(* Network threads.                                                         *)

\* WorldSocket::HandleAuthSession ends in sWorld->AddSession(m_Session).
Connect(a) ==
  /\ Len(account) < MaxSessions /\ pc # "stopped"
  /\ account' = Append(account, a)
  /\ alive' = alive \cup {Len(account')}
  /\ open' = open \cup {Len(account')}
  /\ addSessQueue' = Append(addSessQueue, Len(account'))
  /\ UNCHANGED <<inQueue, loading, inWorld, sessions, queue, disconnects,
                 limit, now, pc, todo, stopEvent>>

\* The peer goes away: the reactor closes the socket (WorldSocket::CloseSocket).
LoseConnection(s) ==
  /\ s \in open
  /\ open' = open \ {s}
  /\ UNCHANGED <<account, alive, inQueue, loading, inWorld, addSessQueue,
                 sessions, queue, disconnects, limit, now, pc, todo, stopEvent>>

-----------------------------------------------------------------------------
(* World thread, UpdateSessions.                                            *)

\* The effect of ~WorldSession on the objects gone.
Delete(gone) ==
  /\ alive' = alive \ gone
  /\ inWorld' = inWorld \ gone
  /\ loading' = loading \ gone

\* The session object an arrival replaces, deleted with its socket closed.
ReplacedNever(old) == {}                     \* mutant: the old object is leaked
Replaced(old) == {old} \ {NoSession}

\* AddSession_, early return: the account's session is loading a character, so
\* the new connection is kicked and its session deleted.
AddRefused ==
  LET s == Head(addSessQueue)
      old == sessions[account[s]]
  IN  /\ pc = "add" /\ addSessQueue # <<>>
      /\ old # NoSession /\ old \in loading
      /\ addSessQueue' = Tail(addSessQueue)
      /\ open' = open \ {s}
      /\ Delete({s})
      /\ inQueue' = inQueue \ {s}
      /\ UNCHANGED <<account, sessions, queue, disconnects, limit, now,
                     pc, todo, stopEvent>>

\* AddSession_: the old session of the account is kicked, unlinked and deleted,
\* the new one takes its entry and is queued if the realm is full.
AddSession_ ==
  LET s == Head(addSessQueue)
      a == account[s]
      old == sessions[a]
      replaced == Replaced(old)
      rest == IF old = NoSession THEN queue ELSE RemoveQueuedPlayer(sessions, queue, old)
      decrease == IF old \in ToSet(queue) THEN 0 ELSE 1
      count == Cardinality(Registered \cup {a}) - decrease
      queued == MustQueue(count, a)
  IN  /\ pc = "add" /\ addSessQueue # <<>>
      /\ old \notin loading
      /\ addSessQueue' = Tail(addSessQueue)
      /\ open' = open \ replaced
      /\ Delete(replaced)
      /\ sessions' = [sessions EXCEPT ![a] = s]
      /\ queue' = IF queued THEN Append(rest, s) ELSE rest
      /\ inQueue' = Unflag(queue, rest, replaced) \cup (IF queued THEN {s} ELSE {})
      /\ UNCHANGED <<account, disconnects, limit, now, pc, todo, stopEvent>>

\* addSessQueue.next() found nothing: go on to the loop over m_sessions.
EndAddSkipsQueued ==                         \* mutant: queued sessions are not updated
  /\ pc = "add" /\ addSessQueue = <<>>
  /\ pc' = "update" /\ todo' = {a \in Registered : sessions[a] \notin inQueue}
  /\ UNCHANGED <<account, alive, open, inQueue, loading, inWorld,
                 addSessQueue, sessions, queue, disconnects, limit, now, stopEvent>>
EndAdd ==
  /\ pc = "add" /\ addSessQueue = <<>>
  /\ pc' = "update" /\ todo' = Registered
  /\ UNCHANGED <<account, alive, open, inQueue, loading, inWorld,
                 addSessQueue, sessions, queue, disconnects, limit, now, stopEvent>>

\* WorldSession::Update with an open socket: nothing relevant, a login request
\* (CMSG_PLAYER_LOGIN is STATUS_AUTHED, refused while in the queue), a finished
\* logout timer, or an idle connection that is closed unless it is queued.
UpdateOpen(a) ==
  LET s == sessions[a]
  IN  /\ pc = "update" /\ a \in todo /\ s \in open
      /\ todo' = todo \ {a}
      /\ \/ UNCHANGED <<loading, inWorld>>
         \/ /\ s \notin inQueue \cup loading \cup inWorld
            /\ loading' = loading \cup {s}
            /\ UNCHANGED inWorld
         \/ /\ s \in inWorld \ loading
            /\ inWorld' = inWorld \ {s}
            /\ UNCHANGED loading
      /\ UNCHANGED <<account, alive, open, inQueue, addSessQueue, sessions,
                     queue, disconnects, limit, now, pc, stopEvent>>

\* WorldSession::Update returns false: the socket is closed, or the session
\* closes it itself (idle outside the queue, or asking for a character of
\* another account).  UpdateSessions calls RemoveQueuedPlayer twice while the
\* session is still in the table, then erases and deletes it.
UpdateClosed(a) ==
  LET s == sessions[a]
      once == RemoveQueuedPlayer(sessions, queue, s)
      twice == RemoveQueuedPlayer(sessions, once, s)
      listed == s \in ToSet(queue)
  IN  /\ pc = "update" /\ a \in todo
      /\ s \notin open \/ s \notin inQueue
      /\ todo' = todo \ {a}
      /\ open' = open \ {s}
      /\ queue' = twice
      /\ inQueue' = Unflag(queue, twice, {s})
      /\ disconnects' = IF listed \/ Tolerance = 0 THEN disconnects
                        ELSE [disconnects EXCEPT ![a] = now]
      /\ sessions' = [sessions EXCEPT ![a] = NoSession]
      /\ Delete({s})
      /\ UNCHANGED <<account, addSessQueue, limit, now, pc, stopEvent>>

EndUpdate ==
  /\ pc = "update" /\ todo = {}
  /\ pc' = IF stopEvent THEN "stopped" ELSE "tick"
  /\ UNCHANGED <<account, alive, open, inQueue, loading, inWorld,
                 addSessQueue, sessions, queue, disconnects, limit, now, todo, stopEvent>>

-----------------------------------------------------------------------------
(* World thread, the rest of a tick.                                        *)

\* World::Update calls UpdateSessions.
BeginUpdateSessions ==
  /\ pc = "tick" /\ pc' = "add"
  /\ UNCHANGED <<account, alive, open, inQueue, loading, inWorld,
                 addSessQueue, sessions, queue, disconnects, limit, now, todo, stopEvent>>

\* The login query holder is ready: the continuation HandlePlayerLogin runs in
\* TaskMgr::Update and puts the character in the world, or kicks the session.
LoginDone(s) ==
  /\ pc = "tick" /\ s \in loading
  /\ loading' = loading \ {s}
  /\ \/ inWorld' = inWorld \cup {s} /\ UNCHANGED open
     \/ open' = open \ {s} /\ UNCHANGED inWorld
  /\ UNCHANGED <<account, alive, inQueue, addSessQueue, sessions, queue,
                 disconnects, limit, now, pc, todo, stopEvent>>

\* ".server plimit <n>" and a reload of the configuration.
SetPlayerAmountLimit(n) ==
  /\ pc = "tick" /\ n # limit
  /\ limit' = n
  /\ UNCHANGED <<account, alive, open, inQueue, loading, inWorld,
                 addSessQueue, sessions, queue, disconnects, now, pc, todo, stopEvent>>

\* WorldRunnable::run leaves its loop: KickAll forgets the queue and closes the
\* socket of every session in the table, then one last UpdateSessions unloads
\* the players.
KickTargetsBelowStaff == {sessions[a] : a \in Accounts \ Staff}  \* mutant: KickAllLess
KickTargets == {sessions[a] : a \in Accounts}
KickAll ==
  /\ pc = "tick" /\ MayStop
  /\ stopEvent' = TRUE
  /\ queue' = <<>>
  /\ open' = open \ KickTargets
  /\ pc' = "add"
  /\ UNCHANGED <<account, alive, inQueue, loading, inWorld, addSessQueue,
                 sessions, disconnects, limit, now, todo>>

\* The process has ended; only the operating system still closes sockets.
Stopped == pc = "stopped" /\ UNCHANGED vars

\* A second passes on the wall clock.
PassTime ==
  /\ pc = "tick" /\ now < MaxTime
  /\ now' = now + 1
  /\ UNCHANGED <<account, alive, open, inQueue, loading, inWorld,
                 addSessQueue, sessions, queue, disconnects, limit, pc, todo, stopEvent>>

Init ==
  /\ account = <<>>
  /\ alive = {} /\ open = {} /\ inQueue = {} /\ loading = {} /\ inWorld = {}
  /\ addSessQueue = <<>>
  /\ sessions = [a \in Accounts |-> NoSession]
  /\ queue = <<>>
  /\ disconnects = [a \in Accounts |-> Never]
  /\ limit \in Limits
  /\ now = 0 /\ stopEvent = FALSE /\ pc = "tick" /\ todo = {}

WorldThread ==
  \/ BeginUpdateSessions
  \/ AddRefused
  \/ AddSession_
  \/ EndAdd
  \/ \E a \in Accounts : UpdateOpen(a) \/ UpdateClosed(a)
  \/ EndUpdate

Next ==
  \/ WorldThread
  \/ \E a \in Accounts : Connect(a)
  \/ \E s \in SessionIds : LoseConnection(s) \/ LoginDone(s)
  \/ \E n \in Limits : SetPlayerAmountLimit(n)
  \/ KickAll
  \/ Stopped
  \/ PassTime

Spec == Init /\ [][Next]_vars

\* WorldRunnable::run loops until the server stops: the world thread never
\* rests while it has a step to take.  Clients owe the server nothing.
FairSpec == Spec /\ WF_vars(WorldThread)

-----------------------------------------------------------------------------
(* Properties.                                                              *)

Active == GetActiveSessionCount(sessions, queue)

TypeOK ==
  /\ account \in Seq(Accounts) /\ Len(account) <= MaxSessions
  /\ alive \subseteq Existing /\ open \subseteq Existing
  /\ inQueue \subseteq alive /\ loading \subseteq alive /\ inWorld \subseteq alive
  /\ addSessQueue \in Seq(Existing) /\ queue \in Seq(Existing)
  /\ sessions \in [Accounts -> SessionIds \cup {NoSession}]
  /\ disconnects \in [Accounts -> (0..MaxTime) \cup {Never}]
  /\ limit \in Limits /\ now \in 0..MaxTime /\ stopEvent \in BOOLEAN
  /\ pc \in {"tick", "add", "update", "stopped"} /\ todo \subseteq Accounts

\* m_QueuedPlayer holds raw pointers: at no time does it name a deleted session,
\* a session replaced in m_sessions, or the same session twice.
QueueEntriesAreRegistered ==
  /\ IsInjective(queue)
  /\ \A s \in ToSet(queue) : s \in alive /\ sessions[account[s]] = s

\* A session that believes it is queued is in m_QueuedPlayer, the only place
\* from which it can be admitted (until KickAll empties the queue on purpose).
QueuedFlagMeansListed ==
  \A a \in Registered : sessions[a] \in inQueue /\ ~stopEvent => sessions[a] \in ToSet(queue)

\* A constructed session is owned exactly once: it waits in addSessQueue or is
\* its account's entry of m_sessions, so none leaks and none is deleted twice.
SessionsAreOwnedOnce ==
  /\ IsInjective(addSessQueue)
  /\ ToSet(addSessQueue) \cap {sessions[a] : a \in Registered} = {}
  /\ alive = ToSet(addSessQueue) \cup {sessions[a] : a \in Registered}

\* The table and the queue together: no handler, in any order, leaves a dead pointer in the
\* queue, a session flagged that nobody will admit, or one owned twice or by nobody.
QueueIsSound == QueueEntriesAreRegistered /\ QueuedFlagMeansListed /\ SessionsAreOwnedOnce

\* While the player limit is not changed, nobody waits in front of a free slot:
\* each departure hands its slot on although RemoveQueuedPlayer runs twice.
NoIdleSlotWhileQueueing == queue # <<>> => Active >= limit

\* The queue admits a session only if the sessions that were in the table before
\* and are active afterwards fit the limit (an arrival that bypasses the queue
\* is not its doing): the second RemoveQueuedPlayer never admits one too many.
Admits(s) == s \in ToSet(queue) /\ s \notin inQueue' /\ s \in alive'
AdmissionNeedsAFreeSlot ==
  [][(\E s \in SessionIds : Admits(s)) /\ limit > 0 =>
       Cardinality({a \in Registered : sessions'[a] = sessions[a]} \
                     {account[s] : s \in ToSet(queue')}) <= limit]_vars

\* Sessions are admitted in the order they were queued, and those left behind
\* keep their relative order, whoever disconnects or reconnects in between.
QueueKeepsOrder ==
  [][\A i, j \in DOMAIN queue : i < j /\ ~stopEvent' =>
       /\ Admits(queue[j]) => queue[i] \notin ToSet(queue')
       /\ {queue[i], queue[j]} \subseteq ToSet(queue') =>
            \E m, n \in DOMAIN queue' :
               m < n /\ queue'[m] = queue[i] /\ queue'[n] = queue[j]]_vars

\* After the last UpdateSessions no character is left in the world: whoever was
\* online when the operator stopped the server has been logged out and saved.
ShutdownUnloadsPlayers == pc = "stopped" => inWorld = {}

\* A session whose socket was closed is deleted by the world thread, also when
\* it sits in the middle of the queue or is still waiting to be added.
ClosedSessionIsReaped ==
  \A s \in SessionIds :
    (s \in alive \ open) ~> (s \notin alive \/ pc = "stopped")
=============================================================================
