--------------------------- MODULE BattlegroundQueue ---------------------------
(***************************************************************************)
(* The queue of one battleground type in one bracket: joining alone or as  *)
(* a party, invitations and their expiry, entering, leaving, far teleports *)
(* and logouts, and the life of the battlegrounds the queue creates.       *)
(*                                                                         *)
(* Everything here runs on the world thread: the handlers one at a time,   *)
(* then BattlegroundMgr::Update once per World::Update.  A step is one     *)
(* handler or one whole Update, so what interleaves is the order of the    *)
(* players' packets and of the clock.  Time is counted in Updates: a group *)
(* and an event hold the Updates left until RemoveInviteTime, so that two  *)
(* of them agree exactly when the absolute times would.                    *)
(***************************************************************************)
EXTENDS Integers, Sequences, FiniteSets, SequencesExt, FiniteSetsExt

CONSTANTS
  Alliance, Horde,   \* the players of the two teams
  Parties,           \* groups of players whose leader queues them together
  MinPlayers,        \* GetMinPlayersPerTeam
  MaxPlayers,        \* GetMaxPlayersPerTeam
  AcceptTime,        \* INVITE_ACCEPT_WAIT_TIME, in Updates
  MaxBattlegrounds,  \* bound: battlegrounds created
  Travellers,        \* bound: who makes far teleports of its own
  Droppers,          \* bound: who logs out
  CounterSize        \* 2^32 in the code: the invited counts wrap

Players == Alliance \cup Horde
Teams == {"ALLIANCE", "HORDE"}

ASSUME QueueAssumption ==
  /\ Alliance \cap Horde = {} /\ IsFiniteSet(Players)
  /\ \A party \in Parties : party # {} /\ (party \subseteq Alliance \/ party \subseteq Horde)
  /\ MaxPlayers \in Nat /\ MinPlayers \in 1..MaxPlayers /\ AcceptTime \in Nat \ {0}
  /\ Travellers \subseteq Players /\ Droppers \subseteq Players
  /\ MaxBattlegrounds \in Nat /\ CounterSize \in Nat \ {0}

VARIABLES
  queue,      \* queue[t]: m_QueuedGroups[bracket][BG_QUEUE_NORMAL_..]
  slot,       \* slot[p]: m_bgBattlegroundQueueID: NoSlot, or invitedToInstance
  instance,   \* instance[p]: m_bgData.bgInstanceID, kept across logouts
  place,      \* place[p]: where the player is
  bg,         \* bg[b]: the battlegrounds
  freeSlots,  \* BGFreeSlotQueue
  events,     \* m_events: the BGQueueRemoveEvents
  scheduled   \* m_QueueUpdateScheduler

vars == <<queue, slot, instance, place, bg, freeSlots, events, scheduled>>

NoSlot == -1
Ids == 1..MaxBattlegrounds
Team(p) == IF p \in Alliance THEN "ALLIANCE" ELSE "HORDE"
Other(t) == IF t = "ALLIANCE" THEN "HORDE" ELSE "ALLIANCE"

\* away: in a far teleport of its own; coming: in the far teleport to its battleground
Places == {"world", "battle", "away", "coming", "offline"}
Statuses == {"NONE", "WAIT_JOIN", "IN_PROGRESS", "WAIT_LEAVE", "DELETED"}

Groups == [players : (SUBSET Players) \ {{}}, bg : 0..MaxBattlegrounds, left : -1..AcceptTime]
Battlegrounds ==
  [status : Statuses, invited : [Teams -> 0..CounterSize - 1],
   players : SUBSET Players, offline : Seq(Players)]
Events == [player : Players, bg : Ids, left : 1..AcceptTime]

-----------------------------------------------------------------------------
(* A handler is several calls: each takes the state the one before left.     *)
Now == [queue |-> queue, slot |-> slot, instance |-> instance, place |-> place,
        bg |-> bg, freeSlots |-> freeSlots, events |-> events, scheduled |-> scheduled]

Become(s) ==
  /\ queue' = s.queue /\ slot' = s.slot /\ instance' = s.instance /\ place' = s.place
  /\ bg' = s.bg /\ freeSlots' = s.freeSlots /\ events' = s.events
  /\ scheduled' = s.scheduled

\* ObjectAccessor::FindPlayer finds the players in the world only
FindPlayer(s, p) == s.place[p] \in {"world", "battle"}
GetBattleground(s, b) == b # 0 /\ s.bg[b].status \in {"WAIT_JOIN", "IN_PROGRESS", "WAIT_LEAVE"}
Open(s, b) == s.bg[b].status \in {"WAIT_JOIN", "IN_PROGRESS"}

QueuedPlayers(s) == UNION {g.players : g \in ToSet(s.queue["ALLIANCE"]) \cup ToSet(s.queue["HORDE"])}
GroupInfo(s, p) == CHOOSE g \in ToSet(s.queue[Team(p)]) : p \in g.players

ChangeInvited(s, b, t, n) == [s EXCEPT !.bg[b].invited[t] = (@ + n) % CounterSize]
ScheduleQueueUpdate(s) == [s EXCEPT !.scheduled = TRUE]
RemoveQueueId(s, p) == [s EXCEPT !.slot[p] = NoSlot]

AddToFreeSlotQueue(s, b) ==
  IF b \in ToSet(s.freeSlots) THEN s ELSE [s EXCEPT !.freeSlots = <<b>> \o @]
RemoveFromFreeSlotQueue(s, b) == [s EXCEPT !.freeSlots = RemoveFirst(@, b)]

\* mutant: the group that has become empty stays in the queue
WithoutButKeepsEmpty(q, p) == [i \in DOMAIN q |-> [q[i] EXCEPT !.players = @ \ {p}]]

\* p leaves its group, and the group is deleted with its last player
Without(q, p) ==
  LET i == CHOOSE i \in DOMAIN q : p \in q[i].players
  IN  IF q[i].players = {p} THEN RemoveAt(q, i) ELSE [j \in DOMAIN q |-> [q[j] EXCEPT !.players = @ \ {p}]]

\* BattlegroundQueue::RemovePlayer
RemovePlayer(s, p, decrease) ==
  IF p \notin QueuedPlayers(s) THEN s
  ELSE LET g == GroupInfo(s, p)
           r == [s EXCEPT !.queue[Team(p)] = Without(@, p)]
       IN  IF decrease /\ GetBattleground(s, g.bg) THEN ChangeInvited(r, g.bg, Team(p), -1) ELSE r

\* Battleground::RemovePlayerAtLeave: what it does to the battleground is done
\* for every participant, what it does to the player only if it is found
RemovePlayerAtLeave(s, b, p, transport) ==
  LET participant == p \in s.bg[b].players
      found == FindPlayer(s, p)
      out == [s EXCEPT !.bg[b].players = @ \ {p},
                       !.slot[p] = IF participant /\ found THEN NoSlot ELSE @,
                       !.instance[p] = IF found THEN 0 ELSE @,
                       !.place[p] = IF found /\ transport THEN "away" ELSE @]
      counted == IF participant THEN ChangeInvited(out, b, Team(p), -1) ELSE out
  IN  IF participant /\ Open(s, b)
      THEN ScheduleQueueUpdate(AddToFreeSlotQueue(counted, b)) ELSE counted

-----------------------------------------------------------------------------
(* Handlers                                                                  *)

\* HandleBattlemasterJoinOpcode, alone or with the leader's party
Join(ps) ==
  /\ \E leader \in ps : FindPlayer(Now, leader) /\ instance[leader] = 0
  /\ \A p \in ps : place[p] # "offline" /\ slot[p] = NoSlot
  /\ LET t == Team(CHOOSE p \in ps : TRUE)
     IN  Become(ScheduleQueueUpdate(
           [Now EXCEPT !.queue[t] = Append(@, [players |-> ps, bg |-> 0, left |-> 0]),
                       !.slot = [p \in Players |-> IF p \in ps THEN 0 ELSE @[p]]]))

\* HandleBattleFieldPortOpcode with action 0
LeaveQueue(p) ==
  /\ FindPlayer(Now, p) /\ slot[p] # NoSlot /\ p \in QueuedPlayers(Now)
  /\ Become(ScheduleQueueUpdate(RemovePlayer(RemoveQueueId(Now, p), p, TRUE)))

\* HandleBattleFieldPortOpcode with action 1
Enter(p) ==
  /\ FindPlayer(Now, p) /\ slot[p] > 0 /\ p \in QueuedPlayers(Now)
  /\ LET b == GroupInfo(Now, p).bg
         r == RemovePlayer(Now, p, FALSE)
         left == IF GetBattleground(r, instance[p])
                 THEN RemovePlayerAtLeave(r, instance[p], p, FALSE) ELSE r
     IN  /\ GetBattleground(Now, b)
         /\ Become([left EXCEPT !.instance[p] = b, !.place[p] = "coming"])

\* HandleBattlefieldLeaveOpcode and the other callers of LeaveBattleground
LeaveBattleground(p) ==
  /\ FindPlayer(Now, p) /\ GetBattleground(Now, instance[p])
  /\ Become(RemovePlayerAtLeave(Now, instance[p], p, TRUE))

\* Player::TeleportTo another map: a player on the map of a battleground leaves it
TeleportTo(p) ==
  /\ FindPlayer(Now, p)
  /\ LET r == IF GetBattleground(Now, instance[p])
              THEN RemovePlayerAtLeave(Now, instance[p], p, FALSE) ELSE Now
     IN  Become([r EXCEPT !.place[p] = "away"])

\* HandleMoveWorldportAckOpcode: the map of a deleted battleground may still be
\* loaded; if not, the player is sent on
Arrivals(s, p) ==
  IF s.place[p] = "away" THEN {[s EXCEPT !.place[p] = "world", !.instance[p] = 0]}
  ELSE LET b == s.instance[p]
       IN  IF GetBattleground(s, b)
           THEN {[s EXCEPT !.place[p] = "battle",
                           !.bg[b].players = IF s.slot[p] = b THEN @ \cup {p} ELSE @]}
           ELSE {[s EXCEPT !.place[p] = "battle"], [s EXCEPT !.place[p] = "away"]}

WorldportAck(p) ==
  /\ place[p] \in {"away", "coming"}
  /\ \E r \in Arrivals(Now, p) : Become(r)

\* while (IsBeingTeleportedFar()) HandleMoveWorldportAckOpcode()
Landings(s, p) ==
  IF FindPlayer(s, p) THEN {s}
  ELSE UNION {IF FindPlayer(r, p) THEN {r} ELSE Arrivals(r, p) : r \in Arrivals(s, p)}

\* Battleground::EventPlayerLoggedOut
EventPlayerLoggedOut(s, b, p) ==
  IF GetBattleground(s, b) /\ p \in s.bg[b].players
  THEN [s EXCEPT !.bg[b].offline = Append(@, p)] ELSE s

\* mutant: a logout clears the slot and leaves the queue entry to the expiry
LogoutStaysQueued(p) ==
  /\ place[p] # "offline"
  /\ LET out == EventPlayerLoggedOut(Now, instance[p], p)
     IN  \E r \in Landings(RemoveQueueId(out, p), p) : Become([r EXCEPT !.place[p] = "offline"])

\* WorldSession::LogoutPlayer
Logout(p) ==
  /\ place[p] # "offline"
  /\ LET out == EventPlayerLoggedOut(Now, instance[p], p)
         clear == IF slot[p] # NoSlot THEN RemovePlayer(RemoveQueueId(out, p), p, TRUE) ELSE out
     IN  \E r \in Landings(clear, p) : Become([r EXCEPT !.place[p] = "offline"])

\* Player::LoadFromDB of a player saved on the map of a battleground, or elsewhere
Login(p) ==
  LET b == instance[p]
      back == GetBattleground(Now, b) /\ p \in bg[b].players
      running == back /\ Open(Now, b)
      left == IF back THEN RemovePlayerAtLeave(Now, b, p, FALSE) ELSE Now
  IN  /\ place[p] = "offline"
      /\ \/ /\ running
            /\ Become([Now EXCEPT !.slot[p] = b, !.place[p] = "battle",
                                  !.bg[b].offline = RemoveFirst(@, p)])
         \/ /\ ~running
            /\ Become([left EXCEPT !.instance[p] = 0, !.place[p] = "world"])

-----------------------------------------------------------------------------
(* The battlegrounds: Battleground::Update                                   *)

\* EndBattleground, called by the battleground's own rules
EndBattleground(b) ==
  /\ bg[b].status = "IN_PROGRESS"
  /\ Become(RemoveFromFreeSlotQueue([Now EXCEPT !.bg[b].status = "WAIT_LEAVE"], b))

\* the head of m_OfflineQueue, when its time is up
ProcessOfflineQueue(s, b) ==
  IF s.bg[b].offline = <<>> \/ Head(s.bg[b].offline) \notin s.bg[b].players THEN s
  ELSE [RemovePlayerAtLeave(s, b, Head(s.bg[b].offline), TRUE) EXCEPT !.bg[b].offline = Tail(@)]

ProcessLeave(s, b) ==
  FoldSet(LAMBDA p, r : RemovePlayerAtLeave(r, b, p, TRUE), s, s.bg[b].players)

\* ripe: the battleground's timer is up, to start, to drop an offline player or to close
UpdateBattleground(s, b, ripe) ==
  CASE ~GetBattleground(s, b) -> s
    [] GetBattleground(s, b) /\ s.bg[b].players = {} ->
         IF \A t \in Teams : s.bg[b].invited[t] = 0
         THEN RemoveFromFreeSlotQueue([s EXCEPT !.bg[b].status = "DELETED",
                                                !.bg[b].offline = <<>>], b)
         ELSE s
    [] s.bg[b].players # {} /\ s.bg[b].status = "WAIT_JOIN" ->
         IF ripe THEN [s EXCEPT !.bg[b].status = "IN_PROGRESS"] ELSE s
    [] s.bg[b].players # {} /\ s.bg[b].status = "IN_PROGRESS" ->
         IF ripe THEN ProcessOfflineQueue(s, b) ELSE s
    [] s.bg[b].players # {} /\ s.bg[b].status = "WAIT_LEAVE" ->
         IF ripe THEN ProcessLeave(s, b) ELSE s

\* the loop of BattlegroundMgr::Update, in the order of the instance ids
UpdateBattlegrounds(s, ripe) ==
  FoldLeft(LAMBDA r, b : UpdateBattleground(r, b, b \in ripe), s, [b \in Ids |-> b])

-----------------------------------------------------------------------------
(* The events: BattlegroundQueue::UpdateEvents                               *)

\* mutant: by any invitation to this battleground
IsPlayerInvitedAtAnyTime(s, e) ==
  e.player \in QueuedPlayers(s) /\ GroupInfo(s, e.player).bg = e.bg

\* IsPlayerInvited: to this battleground, by the invitation that ends now
IsPlayerInvited(s, e) ==
  /\ e.player \in QueuedPlayers(s)
  /\ GroupInfo(s, e.player).bg = e.bg
  /\ GroupInfo(s, e.player).left = e.left

\* BGQueueRemoveEvent::Execute
RemoveEvent(s, e) ==
  IF FindPlayer(s, e.player) /\ s.slot[e.player] # NoSlot /\ IsPlayerInvited(s, e)
  THEN LET r == RemovePlayer(RemoveQueueId(s, e.player), e.player, TRUE)
       IN  IF GetBattleground(s, e.bg) /\ Open(s, e.bg) THEN ScheduleQueueUpdate(r) ELSE r
  ELSE s

\* an Update's worth of time passes, for an invitation
Elapse(g) == [g EXCEPT !.left = IF @ > -1 /\ g.bg # 0 THEN @ - 1 ELSE @]

\* and for all of them and every event
Pass(s) ==
  [s EXCEPT !.queue = [t \in Teams |-> [i \in DOMAIN @[t] |-> Elapse(@[t][i])]],
            !.events = {[e EXCEPT !.left = @ - 1] : e \in @}]

UpdateEvents(s) ==
  LET r == Pass(s)
      due == {e \in r.events : e.left = 0}
  IN  FoldSet(LAMBDA e, x : RemoveEvent(x, e), [r EXCEPT !.events = @ \ due], due)

-----------------------------------------------------------------------------
(* The matching: BattlegroundQueueUpdate                                     *)

Least(a, b) == IF a < b THEN a ELSE b

\* GetFreeSlotsForTeam: by the invited counts and, once started, the balance
GetFreeSlotsForTeam(s, b, t) ==
  LET mine == s.bg[b].invited[t]
      theirs == s.bg[b].invited[Other(t)]
      inside(u) == Cardinality({p \in s.bg[b].players : Team(p) = u})
      room == IF mine < MaxPlayers THEN MaxPlayers - mine ELSE 0
      balance == CASE theirs = mine -> 1 [] theirs > mine -> theirs - mine [] OTHER -> 0
      entered == CASE inside(Other(t)) = inside(t) -> 1
                   [] inside(Other(t)) > inside(t) -> inside(Other(t)) - inside(t)
                   [] inside(Other(t)) < inside(t) /\ mine <= MinPlayers -> MinPlayers - mine + 1
                   [] OTHER -> 0
  IN  IF s.bg[b].status = "WAIT_JOIN" THEN room ELSE Least(Least(balance, room), entered)

\* a selection pool: the groups chosen so far and their players
NoGroups == [groups |-> <<>>, count |-> 0, more |-> TRUE]

\* SelectionPool::AddGroup; more is what it returns
AddGroup(pool, g, desired) ==
  IF g.bg = 0 /\ desired >= pool.count + Cardinality(g.players)
  THEN [groups |-> Append(pool.groups, g), count |-> pool.count + Cardinality(g.players), more |-> TRUE]
  ELSE [pool EXCEPT !.more = pool.count < desired]

\* FillPlayersToBG, Battleground.InvitationType 0: until the pool is full
FillPlayers(q, desired) ==
  FoldLeft(LAMBDA pool, g : IF pool.more THEN AddGroup(pool, g, desired) ELSE pool, NoGroups, q)

\* CheckNormalMatch: until there are enough
MatchPool(q) ==
  FoldLeft(LAMBDA pool, g : IF g.bg = 0 /\ pool.count < MinPlayers
                            THEN AddGroup(pool, g, MaxPlayers) ELSE pool, NoGroups, q)

\* InviteGroupToBG: only the players that are found are counted, told and timed
InviteGroup(s, b, g) ==
  LET t == Team(CHOOSE p \in g.players : TRUE)
      found == {p \in g.players : FindPlayer(s, p)}
      counted == ChangeInvited(s, b, t, Cardinality(found))
  IN  [counted EXCEPT
         !.queue[t] = [i \in DOMAIN @ |-> IF @[i] = g THEN [g EXCEPT !.bg = b, !.left = AcceptTime]
                                                      ELSE @[i]],
         !.slot = [p \in Players |-> IF p \in found THEN b ELSE @[p]],
         !.events = @ \cup {[player |-> p, bg |-> b, left |-> AcceptTime] : p \in found}]

InviteGroups(s, b, groups) == FoldLeft(LAMBDA r, g : InviteGroup(r, b, g), s, groups)

HasFreeSlots(s, b) == Cardinality(s.bg[b].players) < 2 * MaxPlayers

\* invite to a battleground that has room
Fill(s, b) ==
  LET pool(t) == FillPlayers(s.queue[t], GetFreeSlotsForTeam(s, b, t)).groups
      r == InviteGroups(InviteGroups(s, b, pool("ALLIANCE")), b, pool("HORDE"))
  IN  IF ~Open(s, b) THEN s
      ELSE IF HasFreeSlots(r, b) THEN r ELSE RemoveFromFreeSlotQueue(r, b)

\* create a battleground if both teams have enough players; CreateNewBattleground
\* fails when the ids are used up (a bound)
Match(s) ==
  LET pool == [t \in Teams |-> MatchPool(s.queue[t])]
      unused == {b \in Ids : s.bg[b].status = "NONE"}
      b == Min(unused)
      r == InviteGroups(InviteGroups([s EXCEPT !.bg[b].status = "WAIT_JOIN"], b,
                                     pool["ALLIANCE"].groups), b, pool["HORDE"].groups)
  IN  IF (\E t \in Teams : pool[t].count < MinPlayers) \/ unused = {} THEN s
      ELSE AddToFreeSlotQueue(r, b)

BattlegroundQueueUpdate(s) ==
  IF QueuedPlayers(s) = {} THEN s ELSE Match(FoldLeft(Fill, s, s.freeSlots))

\* BattlegroundMgr::Update: battlegrounds, events, then the scheduled queues
Update ==
  \E ripe \in SUBSET {b \in Ids : bg[b].players # {}} :
    LET r == UpdateEvents(UpdateBattlegrounds(Now, ripe))
    IN  Become(IF r.scheduled THEN BattlegroundQueueUpdate([r EXCEPT !.scheduled = FALSE]) ELSE r)

-----------------------------------------------------------------------------
Init ==
  /\ queue = [t \in Teams |-> <<>>]
  /\ slot = [p \in Players |-> NoSlot]
  /\ instance = [p \in Players |-> 0]
  /\ place = [p \in Players |-> "world"]
  /\ bg = [b \in Ids |-> [status |-> "NONE", invited |-> [t \in Teams |-> 0],
                          players |-> {}, offline |-> <<>>]]
  /\ freeSlots = <<>> /\ events = {} /\ scheduled = FALSE

Next ==
  \/ \E ps \in Parties \cup {{p} : p \in Players} : Join(ps)
  \/ \E p \in Players :
       \/ LeaveQueue(p) \/ Enter(p) \/ LeaveBattleground(p) \/ WorldportAck(p) \/ Login(p)
  \/ \E p \in Travellers : TeleportTo(p)
  \/ \E p \in Droppers : Logout(p)
  \/ \E b \in Ids : EndBattleground(b)
  \/ Update

Spec == Init /\ [][Next]_vars

-----------------------------------------------------------------------------
(* Properties                                                                *)

\* The type of the state.  A queued group has a player, and the invited
\* counts and the times left stay in their ranges.
TypeOK ==
  /\ queue \in [Teams -> Seq(Groups)]
  /\ slot \in [Players -> NoSlot..MaxBattlegrounds]
  /\ instance \in [Players -> 0..MaxBattlegrounds]
  /\ place \in [Players -> Places]
  /\ bg \in [Ids -> Battlegrounds]
  /\ freeSlots \in Seq(Ids)
  /\ events \subseteq Events
  /\ scheduled \in BOOLEAN

OneGroupEach ==
  \A t \in Teams : \A i, j \in DOMAIN queue[t] :
    i # j => queue[t][i].players \cap queue[t][j].players = {}

QueuedHoldsSlot(p) ==
  /\ place[p] # "offline" /\ ~(place[p] \in {"battle", "coming"} /\ GetBattleground(Now, instance[p]))
  /\ slot[p] \in {0, GroupInfo(Now, p).bg}

SlotOutlivesQueue(p) ==
  \/ instance[p] = slot[p] /\ place[p] \in {"coming", "battle"}
  \/ bg[slot[p]].status = "DELETED"

\* A player's queue slot and the queue tell the same story through any order
\* of joins, invitations, entries, expiries, teleports and logouts.  Who is
\* queued is in one group, online, outside every battleground, and holds the
\* slot, invited nowhere else than the group.  Who holds a slot without being
\* queued is in, or on the way to, the battleground of the slot (or that one is
\* gone).  Who is a participant and online is there.  RemovePlayer and
\* RemoveBattlegroundQueueId are separate calls in each of the code's paths.
SlotsMatchQueue ==
  /\ OneGroupEach
  /\ \A p \in QueuedPlayers(Now) : QueuedHoldsSlot(p)
  /\ \A p \in Players \ QueuedPlayers(Now) : slot[p] # NoSlot => slot[p] > 0 /\ SlotOutlivesQueue(p)
  /\ \A b \in Ids : \A p \in bg[b].players :
       place[p] # "offline" => instance[p] = b /\ slot[p] = b /\ place[p] = "battle"

Holders(b, t) ==
  {p \in Players : Team(p) = t /\ (slot[p] = b \/ p \in bg[b].players)}

\* While a battleground waits for players, the slots it offers a team are those
\* left by the team's participants and by the players who hold an invitation to
\* it: what GetFreeSlotsForTeam says it returns.  InviteGroupToBG, RemovePlayer
\* and RemovePlayerAtLeave each keep their part of the count.
FreeSlotsAreReal ==
  \A b \in Ids : bg[b].status = "WAIT_JOIN" =>
    \A t \in Teams : GetFreeSlotsForTeam(Now, b, t) = MaxPlayers - Cardinality(Holders(b, t))

InvitationEnds(p) ==
  LET g == GroupInfo(Now, p) IN g.bg # 0 /\ g.left = 1 /\ slot[p] = g.bg

\* An Update takes a player out of the queue exactly when the player is in the
\* world and the time of its own present invitation is up: never by the event of
\* an earlier invitation that was answered, left or given anew (cases 1 to 4 of
\* BGQueueRemoveEvent), and always by its own (case 5), even if the battleground
\* is gone.
ExpiryIsExact ==
  [][Update => \A p \in QueuedPlayers(Now) :
       (p \notin QueuedPlayers(Now)') <=> (InvitationEnds(p) /\ FindPlayer(Now, p))]_vars
=============================================================================
