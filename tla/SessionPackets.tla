--------------------------- MODULE SessionPackets ---------------------------
(***************************************************************************)
(* The packets of one WorldSession: the receive queue that the network     *)
(* threads fill and two places empty (World::UpdateSessions through a      *)
(* WorldSessionFilter, Map::Update through a MapSessionFilter), the status *)
(* each opcode demands of the player, packets queued again because the     *)
(* player is still loading, and the login, far teleport and logout that    *)
(* change the status while packets wait.                                   *)
(*                                                                         *)
(* The client is external: one that answers what it is told, the messages  *)
(* of the server reaching it in order.  A packet remembers the login it    *)
(* was sent for.                                                           *)
(***************************************************************************)
EXTENDS Integers, Sequences, FiniteSets

CONSTANTS
  Maps,         \* the maps a player may be on
  Home,         \* the map of the homebind
  Instances,    \* maps that may refuse a player at the worldport ack
  MaxSent,      \* bound: packets the client sends of its own accord
  MaxLogins,    \* bound: logins
  MaxTeleports  \* bound: teleports begun by spells, triggers, commands

ASSUME PacketsAssumption ==
  /\ Home \in Maps \ Instances /\ Instances \subseteq Maps
  /\ MaxSent \in Nat /\ MaxLogins \in Nat /\ MaxTeleports \in Nat

VARIABLES
  pc,          \* the tick: "tasks", "world", "map"; "gone" without a session
  open,        \* the socket is not closed
  queue,       \* _recvQueue
  delayed,     \* Update's firstDelayedPacket: its number, or 0
  processed,   \* this Update has processed a packet
  player,      \* _player: the number of the login it came from, or 0
  loading,     \* m_playerLoading: the number of the login, or 0
  loaded,      \* the future of the LoginQueryHolder is ready
  recent,      \* m_playerRecentlyLogout
  logoutTime,  \* _logoutTime is set
  body,        \* the Player's map, place in the world and teleport flags
  teleports,   \* teleports begun
  client,      \* what the client shows, and what it has sent
  toClient,    \* messages on their way to the client
  last         \* history: the packet just taken from the queue and its fate

session == <<player, loading, recent, logoutTime, body>>
update == <<delayed, processed>>
vars == <<pc, open, queue, update, session, loaded, teleports, client, toClient, last>>

-----------------------------------------------------------------------------
(* clientOpcodeTable, one opcode for each way of treating packets.          *)

Status == [charEnum |-> "authed", login |-> "authed", cast |-> "loggedIn",
           logoutRequest |-> "loggedIn", teleportAck |-> "loggedIn",
           worldportAck |-> "transfer", cancelTrade |-> "loggedInOrRecently"]
Opcodes == DOMAIN Status

ThreadSafe(op) == op \in {"cast", "teleportAck"}

MapSessionFilter(p) == ThreadSafe(p.op) /\ player # 0 /\ body.inWorld
WorldSessionFilterNoPlayer(p) ==         \* mutant: a player out of the world is forgotten
  ThreadSafe(p.op) => player = 0
WorldSessionFilter(p) == ThreadSafe(p.op) => player = 0 \/ ~body.inWorld

Filter(p) == IF pc = "map" THEN MapSessionFilter(p) ELSE WorldSessionFilter(p)

-----------------------------------------------------------------------------
(* Where the player is.  "near" and "far" are the teleport semaphores.      *)

NoBody == [map |-> Home, dest |-> Home, inWorld |-> FALSE, near |-> FALSE, far |-> FALSE]

\* Player::TeleportTo: within the map, or out of the world until the client answers
TeleportTo(b, map) ==
  IF b.map = map
  THEN [b EXCEPT !.far = FALSE, !.near = TRUE, !.dest = map]
  ELSE [b EXCEPT !.near = FALSE, !.far = TRUE, !.dest = map, !.inWorld = FALSE]
Told(b) == IF b.near THEN <<"moveTeleport">> ELSE <<"newWorld">>

\* HandleMoveWorldportAckOpcode: CreateMap and CanEnter, or AddPlayerToMap, may
\* refuse; the player is still on the map it left when it is sent home
Arrived(b) == [b EXCEPT !.far = FALSE, !.map = b.dest, !.inWorld = TRUE]
Refused(b) == TeleportTo([b EXCEPT !.far = FALSE], Home)
Arrivals(b) == {Arrived(b)} \cup (IF b.dest \in Instances THEN {Refused(b)} ELSE {})

-----------------------------------------------------------------------------
(* The handlers.  Each leaves queue, update and last to its caller.         *)

LogoutPlayerStillDue ==                  \* mutant: no LogoutRequest(0)
  /\ player' = 0 /\ body' = NoBody /\ recent' = TRUE
  /\ toClient' = Append(toClient, "loggedOut")
  /\ UNCHANGED <<loading, logoutTime>>
\* WorldSession::LogoutPlayer.  Far transfers are finished first, which may tell the
\* client of one more; the player is then out of the session.
LogoutPlayer ==
  /\ player' = 0 /\ body' = NoBody /\ recent' = TRUE /\ logoutTime' = FALSE
  /\ \E b \in (IF body.far THEN Arrivals(body) ELSE {body}) :
       toClient' = toClient \o (IF body.far /\ b = Refused(body) THEN Told(b) ELSE <<>>)
                            \o <<"loggedOut">>
  /\ UNCHANGED loading

HandleCharEnumLate ==                    \* mutant: the flag outlives the character list
  UNCHANGED <<session, loaded, toClient>>
HandleCharEnum ==
  /\ recent' = FALSE
  /\ UNCHANGED <<player, loading, logoutTime, body, loaded, toClient>>

HandlePlayerLoginOpcode(p) ==
  /\ loading' = IF loading # 0 \/ player # 0 THEN loading ELSE p.by
  /\ UNCHANGED <<player, recent, logoutTime, body, loaded, toClient>>

\* refused in combat, at once in an inn, or after 20 s
HandleLogoutRequestOpcode ==
  /\ \/ LogoutPlayer
     \/ logoutTime' \in BOOLEAN /\ UNCHANGED <<player, loading, recent, body, toClient>>
  /\ UNCHANGED loaded

HandleMoveWorldportAckOpcode ==
  /\ IF body.far
     THEN \E b \in Arrivals(body) :
            /\ body' = b
            /\ toClient' = toClient \o (IF b = Refused(body) THEN Told(b) ELSE <<>>)
     ELSE UNCHANGED <<body, toClient>>
  /\ UNCHANGED <<player, loading, recent, logoutTime, loaded>>

HandleMoveTeleportAck ==
  /\ body' = [body EXCEPT !.near = FALSE]
  /\ UNCHANGED <<player, loading, recent, logoutTime, loaded, toClient>>

Handle(p) ==
  \/ p.op = "charEnum" /\ HandleCharEnum
  \/ p.op = "login" /\ HandlePlayerLoginOpcode(p)
  \/ p.op = "logoutRequest" /\ HandleLogoutRequestOpcode
  \/ p.op = "worldportAck" /\ HandleMoveWorldportAckOpcode
  \/ p.op = "teleportAck" /\ HandleMoveTeleportAck
  \/ p.op \in {"cast", "cancelTrade"} /\ UNCHANGED <<session, loaded, toClient>>

-----------------------------------------------------------------------------
(* WorldSession::Update.                                                    *)

\* the switch on the opcode's status
KeepLate(p) ==                           \* mutant: a recent logout is not looked at
  Status[p.op] = "loggedIn" /\ player = 0
KeepInTransfer(p) ==                     \* mutant: kept as well during a transfer
  Status[p.op] = "loggedIn" /\ ~(player # 0 /\ body.inWorld) /\ ~recent
Keep(p) == Status[p.op] = "loggedIn" /\ player = 0 /\ ~recent

AllowsAckInWorldOnly(p) ==               \* mutant: the ack is a LOGGEDIN opcode
  CASE Status[p.op] \in {"loggedIn", "transfer"} -> player # 0 /\ body.inWorld
    [] Status[p.op] = "loggedInOrRecently" -> player # 0 \/ recent
    [] OTHER -> TRUE
Allows(p) ==
  CASE Status[p.op] = "loggedIn" -> player # 0 /\ body.inWorld
    [] Status[p.op] = "transfer" -> player # 0 /\ ~body.inWorld
    [] Status[p.op] = "loggedInOrRecently" -> player # 0 \/ recent
    [] Status[p.op] = "authed" -> TRUE

\* the condition of the while loop
GoOn == open /\ queue # <<>> /\ Head(queue).n # delayed /\ Filter(Head(queue))

Record(p, fate) == last' = [n |-> p.n, by |-> p.by, player |-> player, fate |-> fate]

ProcessPacket ==
  /\ pc \in {"world", "map"} /\ GoOn
  /\ processed' = TRUE
  /\ LET p == Head(queue) IN
       \/ /\ Keep(p)
          /\ queue' = Append(Tail(queue), p)
          /\ delayed' = IF delayed = 0 THEN p.n ELSE delayed
          /\ Record(p, "kept")
          /\ UNCHANGED <<session, loaded, toClient>>
       \/ /\ ~Keep(p) /\ Allows(p)
          /\ queue' = Tail(queue) /\ UNCHANGED delayed
          /\ Record(p, "handled")
          /\ Handle(p)
       \/ /\ ~Keep(p) /\ ~Allows(p)
          /\ queue' = Tail(queue) /\ UNCHANGED delayed
          /\ Record(p, "dropped")
          /\ UNCHANGED <<session, loaded, toClient>>
  /\ UNCHANGED <<pc, open, teleports, client>>

\* The loop is over, or has run for 3 ms or its count of packets; a logout is due or
\* not; a session without a socket is deleted with its player.
EndUpdate ==
  /\ pc \in {"world", "map"} /\ (processed \/ ~GoOn)
  /\ processed' = FALSE /\ delayed' = 0
  /\ \/ /\ pc = "map" /\ pc' = "tasks"
        /\ UNCHANGED <<session, toClient>>
     \/ /\ pc = "world" /\ pc' = IF open THEN "map" ELSE "gone"
        /\ \/ player # 0 /\ (~open \/ (logoutTime /\ loading = 0)) /\ LogoutPlayer
           \/ (player = 0 \/ open) /\ UNCHANGED <<session, toClient>>
  /\ last' = [n |-> 0]
  /\ UNCHANGED <<open, queue, loaded, teleports, client>>

\* TaskMgr::Update: HandlePlayerLogin, once the answer is there.  The character may
\* not load; AddPlayerToMap or CheckInstanceLoginValid may refuse it.
HandlePlayerLogin ==
  /\ loading' = 0 /\ loaded' = FALSE
  /\ \/ open' = FALSE /\ UNCHANGED <<player, body, toClient>>
     \/ /\ player' = loading /\ UNCHANGED open
        /\ \E m \in Maps :
             LET b == [NoBody EXCEPT !.map = m, !.inWorld = TRUE]
             IN  \/ body' = b /\ toClient' = Append(toClient, "verify")
                 \/ /\ m \in Instances
                    /\ body' = TeleportTo(b, Home)
                    /\ toClient' = toClient \o <<"verify">> \o Told(body')

Tasks ==
  /\ pc = "tasks" /\ pc' = "world"
  /\ IF loading # 0 /\ loaded THEN HandlePlayerLogin
     ELSE UNCHANGED <<loading, loaded, open, player, body, toClient>>
  /\ last' = [n |-> 0]
  /\ UNCHANGED <<queue, update, recent, logoutTime, teleports, client>>

Server == Tasks \/ ProcessPacket \/ EndUpdate

-----------------------------------------------------------------------------
(* What happens beside Update.                                              *)

\* the worker that carries out the query holder
Load ==
  /\ loading # 0 /\ ~loaded /\ loaded' = TRUE
  /\ last' = [n |-> 0]
  /\ UNCHANGED <<pc, open, queue, update, session, teleports, client, toClient>>

\* a spell, an area trigger, another player's packet or a command
Teleport(map) ==
  /\ pc # "gone" /\ player # 0 /\ body.inWorld
  /\ teleports < MaxTeleports /\ teleports' = teleports + 1
  /\ body' = TeleportTo(body, map)
  /\ toClient' = toClient \o Told(body')
  /\ last' = [n |-> 0]
  /\ UNCHANGED <<pc, open, queue, update, player, loading, recent, logoutTime, loaded, client>>

Disconnect ==
  /\ open /\ open' = FALSE
  /\ last' = [n |-> 0]
  /\ UNCHANGED <<pc, queue, update, session, loaded, teleports, client, toClient>>

server == <<pc, open, update, session, loaded, teleports>>

\* WorldSocket::ProcessIncoming: QueuePacket
Packet(op) == [n |-> client.sent + 1, op |-> op, by |-> client.login,
               early |-> client.shows = "entering"]
Send(op, shows) ==
  /\ queue' = Append(queue, [Packet(op) EXCEPT !.by = IF op = "login" THEN @ + 1 ELSE @])
  /\ client' = [sent |-> client.sent + 1, shows |-> shows,
                login |-> IF op = "login" THEN client.login + 1 ELSE client.login]

ClientSends ==
  /\ open /\ client.sent < MaxSent
  /\ \/ client.shows = "start" /\ Send("charEnum", "list")
     \/ client.shows = "list" /\ client.login < MaxLogins /\ Send("login", "entering")
     \/ client.shows \in {"entering", "playing"} /\ Send("cast", client.shows)
     \/ client.shows = "playing" /\ Send("logoutRequest", "playing")
  /\ last' = [n |-> 0]
  /\ UNCHANGED <<server, toClient>>

ClientReads ==
  /\ open /\ toClient # <<>> /\ toClient' = Tail(toClient)
  /\ CASE Head(toClient) = "verify" -> client' = [client EXCEPT !.shows = "playing"] /\ UNCHANGED queue
       [] Head(toClient) = "newWorld" -> Send("worldportAck", client.shows)
       [] Head(toClient) = "moveTeleport" -> Send("teleportAck", client.shows)
       [] Head(toClient) = "loggedOut" -> Send("cancelTrade", "start")
  /\ last' = [n |-> 0]
  /\ UNCHANGED server

-----------------------------------------------------------------------------
Init ==
  /\ pc = "tasks" /\ open = TRUE /\ queue = <<>> /\ delayed = 0 /\ processed = FALSE
  /\ player = 0 /\ loading = 0 /\ loaded = FALSE /\ recent = FALSE /\ logoutTime = FALSE
  /\ body = NoBody /\ teleports = 0 /\ toClient = <<>> /\ last = [n |-> 0]
  /\ client = [shows |-> "start", login |-> 0, sent |-> 0]

Next ==
  \/ Server \/ Load \/ (\E map \in Maps : Teleport(map)) \/ Disconnect
  \/ ClientSends \/ ClientReads

Spec == Init /\ [][Next]_vars

\* the world thread ticks, the worker answers, and a connected client reads
FairSpec == Spec /\ WF_vars(Server) /\ WF_vars(Load) /\ WF_vars(ClientReads)

-----------------------------------------------------------------------------
(* Properties.                                                              *)

Logins == 0..MaxLogins
Numbers == 0..(MaxSent + 2 * MaxTeleports + 2 * MaxLogins)

TypeOK ==
  /\ pc \in {"tasks", "world", "map", "gone"}
  /\ open \in BOOLEAN /\ processed \in BOOLEAN /\ delayed \in Numbers
  /\ queue \in Seq([n : Numbers, op : Opcodes, by : Logins, early : BOOLEAN])
  /\ player \in Logins /\ loading \in Logins /\ loaded \in BOOLEAN
  /\ recent \in BOOLEAN /\ logoutTime \in BOOLEAN /\ teleports \in 0..MaxTeleports
  /\ body \in [map : Maps, dest : Maps, inWorld : BOOLEAN, near : BOOLEAN, far : BOOLEAN]
  /\ client \in [shows : {"start", "list", "entering", "playing"}, login : Logins, sent : Numbers]
  /\ toClient \in Seq({"verify", "newWorld", "moveTeleport", "loggedOut"})
  /\ player = 0 => body = NoBody /\ ~logoutTime
  /\ player # 0 => loading = 0
  /\ body.far => ~body.inWorld /\ ~body.near

\* A packet meets the character it was sent for: however late it is, it is never carried out
\* on another of the account; and a packet of a login under way is not taken for a straggler
\* of the one before: what is dropped while no player is there belongs to a login that is over.
PacketsMeetTheirCharacter ==
  [][last'.n # 0 =>
       /\ last'.fate = "handled" /\ last'.player # 0 => last'.by = last'.player
       /\ last'.fate = "dropped" /\ player = 0 =>
            /\ last'.by # loading
            /\ \A i \in DOMAIN queue : queue[i].op = "login" => queue[i].by # last'.by]_vars

\* Only packets sent before the client was told it is in the world may be overtaken:
\* Update's re-enqueueing changes the order of no other packets.
OnlyEarlyPacketsAreOvertaken ==
  [][last'.n # 0 => (last'.fate # "kept" =>
       \A i \in DOMAIN queue : queue[i].n < last'.n => queue[i].early)]_vars

\* Every queued packet is taken from the queue for good, or the session ends: kept
\* packets, packets refused by a filter and the limit of each Update block no one.
\* (The packets numbered above MaxSent only answer the last teleport or logout.)
InQueue(n) == \E i \in DOMAIN queue : queue[i].n = n
QueuedPacketIsServed ==
  \A n \in 1..MaxSent : InQueue(n) ~> ~InQueue(n) \/ pc = "gone"

\* A far teleport comes to an end, whatever the client sends meanwhile and although the
\* logout may finish it first.
TransferIsDecided == body.far ~> ~body.far

\* MovementHandler.cpp: "could not be created for player ... porting player to homebind".
\* A player who is out of the world is on its way: a far teleport is pending, the only
\* one whose answer is accepted from a player who is not in the world.
PortedPlayerIsOnItsWay == player # 0 /\ ~body.inWorld => body.far
=============================================================================
