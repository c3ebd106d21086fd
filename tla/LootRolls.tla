------------------------------- MODULE LootRolls -------------------------------
(***************************************************************************)
(* Group loot: a group rolls for the items of a corpse.  The rolls begin   *)
(* when the corpse is first opened; they end when everyone asked has       *)
(* answered, or when the corpse's timer is up.  In between members answer, *)
(* leave, log out and come back, the group dissolves, the corpse is looted *)
(* or disappears.                                                          *)
(*                                                                         *)
(* The handlers run on the world thread.  A corpse's timer runs in         *)
(* Creature::Update, on a map thread, which only posts a task for the      *)
(* world thread; TaskMgr::Update carries it out before any later packet.   *)
(*                                                                         *)
(* One group at a time, with loot method GROUP_LOOT; items that are rolled *)
(* for, all of them for one winner.  A roll whose loot is gone stays in    *)
(* RollId, where neither GetRoll nor EndRoll finds it: it is left out.     *)
(***************************************************************************)
EXTENDS Integers, Sequences, FiniteSets, SequencesExt

CONSTANTS
  Players,
  Creatures,
  Slots,        \* the items of a corpse over the loot threshold
  Disenchantable,  \* the items with a DisenchantID that the group can disenchant
  MaxGroups,    \* bound: groups formed
  MaxKills,     \* bound: creatures killed
  Leavers,      \* bound: who logs out
  Passers,      \* bound: who passes on all loot
  Voters,       \* bound: who answers rolls
  Looters,      \* bound: who opens corpses
  Strays,       \* bound: who may be too far away, or not allowed, to roll
  NoPlayer,
  NoRoll

ASSUME LootAssumption ==
  /\ IsFiniteSet(Players) /\ IsFiniteSet(Slots) /\ Disenchantable \subseteq Slots
  /\ MaxGroups \in Nat /\ MaxKills \in Nat
  /\ Leavers \cup Passers \cup Voters \cup Looters \cup Strays \subseteq Players /\ NoPlayer \notin Players

VARIABLES
  online,    \* players in the world
  group,     \* the group: its low guid, and
  members,   \* m_memberSlots; empty: there is no group
  passing,   \* players with m_bPassOnGroupLoot
  corpse,    \* corpse[c]: the creature and its loot
  roll,      \* roll[c][s]: the roll in RollId for item s of c
  due,       \* posted tasks: EndRoll of a group for a creature's loot
  kills,     \* history, for the bound
  got        \* history: got[c][s]: who received the item, and as what

vars == <<online, group, members, passing, corpse, roll, due, kills, got>>

Answers == {"PASS", "NEED", "GREED", "DISENCHANT"}
Votes == Answers \cup {"NOT_EMITED_YET", "NONE"}    \* NONE: not in playerVote

\* timer: lootingGroupLowGUID while m_groupLootTimer runs, else 0
Corpses ==
  [dead : BOOLEAN, recipient : Players \cup {NoPlayer}, lootForBody : BOOLEAN, filled : BOOLEAN,
   blocked : SUBSET Slots, looted : SUBSET Slots, unlootedCount : 0..Cardinality(Slots),
   looters : SUBSET Players, timer : 0..MaxGroups]
Size == 0..Cardinality(Players)
Rolls ==
  [vote : [Players -> Votes], totalPlayersRolling : Size, totalNeed : Size, totalGreed : Size,
   totalPass : Size]

ASSUME NoRollAssumption == NoRoll \notin Rolls

InRoll(r) == {p \in Players : r.vote[p] # "NONE"}
Voted(r, kinds) == {p \in Players : r.vote[p] \in kinds}

-----------------------------------------------------------------------------
(* Loot                                                                      *)

NoRolls == [s \in Slots |-> NoRoll]

\* Loot::clear; the rolls lose their loot
Clear(k) ==
  [k EXCEPT !.filled = FALSE, !.blocked = {}, !.looted = {}, !.unlootedCount = 0, !.looters = {}]

-----------------------------------------------------------------------------
(* Rolls                                                                     *)

\* mutant: who left is not taken out of the count of its vote
UncountNothing(r, v) == r

Uncount(r, v) ==
  CASE v \in {"GREED", "DISENCHANT"} -> [r EXCEPT !.totalGreed = @ - 1]
    [] v = "NEED" -> [r EXCEPT !.totalNeed = @ - 1]
    [] v = "PASS" -> [r EXCEPT !.totalPass = @ - 1]
    [] OTHER -> r

\* Group::RemoveMember, for one roll.  The CountRollVote that follows looks for the
\* vote that has just been erased, and does nothing.
WithoutVoter(r, p) ==
  IF r = NoRoll \/ p \notin InRoll(r) THEN r
  ELSE [Uncount(r, r.vote[p]) EXCEPT !.totalPlayersRolling = @ - 1, !.vote[p] = "NONE"]

\* the items of a group's roll, for those near the corpse
NewRoll(near) ==
  [vote |-> [p \in Players |->
     IF p \notin near THEN "NONE" ELSE IF p \in passing THEN "PASS" ELSE "NOT_EMITED_YET"],
   totalPlayersRolling |-> Cardinality(near), totalNeed |-> 0, totalGreed |-> 0,
   totalPass |-> Cardinality(near \cap passing)]

\* Group::GroupLoot
GroupLoot(c, k, near) ==
  IF near = {}
  THEN corpse' = [corpse EXCEPT ![c] = k] /\ UNCHANGED roll
  ELSE /\ corpse' = [corpse EXCEPT ![c] = [k EXCEPT !.blocked = Slots, !.timer = group]]
       /\ roll' = [roll EXCEPT ![c] = [s \in Slots |-> NewRoll(near)]]

\* the highest of the random numbers: anyone who voted so.  If the counts
\* disagree with the votes, the first of playerVote.
Highest(r, kinds) == IF Voted(r, kinds) # {} THEN Voted(r, kinds) ELSE InRoll(r)

\* What becomes of an item that was rolled for: someone receives it, anyone may take
\* it, or it stays blocked.
Free == [to |-> NoPlayer, as |-> "FREE"]
Lost == [to |-> NoPlayer, as |-> "LOST"]
Fates == [to : Players, as : Answers] \cup {Free, Lost}

\* Group::CountTheRoll, the winner: received, or the bags are full.  A winner
\* that FindPlayer does not find gets nothing, and the item stays blocked.
WonAs(p, as) ==
  IF p \notin online THEN {Lost}
  ELSE {[to |-> p, as |-> as]} \cup (IF as = "DISENCHANT" THEN {} ELSE {Free})

NeedWins(r) == UNION {WonAs(p, "NEED") : p \in Highest(r, {"NEED"})}
GreedWins(r) ==
  UNION {WonAs(p, IF r.vote[p] = "DISENCHANT" THEN "DISENCHANT" ELSE "GREED") :
         p \in Highest(r, {"GREED", "DISENCHANT"})}

\* mutant: greed first
CountTheRollGreedFirst(r) ==
  CASE r.totalGreed > 0 -> GreedWins(r)
    [] r.totalGreed = 0 /\ r.totalNeed > 0 -> NeedWins(r)
    [] OTHER -> {Free}

\* Group::CountTheRoll: the fates its item may meet
CountTheRoll(r) ==
  CASE r.totalNeed > 0 -> NeedWins(r)
    [] r.totalNeed = 0 /\ r.totalGreed > 0 -> GreedWins(r)
    [] OTHER -> {Free}

\* items of a corpse are received, others are free again
Given(k, won, free) ==
  [k EXCEPT !.looted = @ \cup won, !.unlootedCount = @ - Cardinality(won), !.blocked = @ \ free]

\* the rolls for some items of c are over, and each item meets its fate
Over(c, fate) ==
  LET won == {s \in DOMAIN fate : fate[s] \notin {Free, Lost}}
      free == {s \in DOMAIN fate : fate[s] = Free}
  IN  /\ corpse' = [corpse EXCEPT ![c] = Given(@, won, free)]
      /\ roll' = [roll EXCEPT ![c] = [s \in Slots |-> IF s \in DOMAIN fate THEN NoRoll ELSE @[s]]]
      /\ got' = [got EXCEPT ![c] = [s \in Slots |-> IF s \in won THEN Append(@[s], fate[s]) ELSE @[s]]]

Open(c) == {s \in Slots : roll[c][s] # NoRoll}

\* mutant: the loop does not start again after a roll was erased
EndRollOnce(c) ==
  IF Open(c) = {} THEN UNCHANGED <<corpse, roll, got>>
  ELSE \E s \in Open(c), f \in Fates : f \in CountTheRoll(roll[c][s]) /\ Over(c, [i \in {s} |-> f])

\* Group::EndRoll: every roll for this loot; no roll's end depends on another's
EndRoll(c) ==
  \E fate \in [Open(c) -> Fates] :
    (\A s \in Open(c) : fate[s] \in CountTheRoll(roll[c][s])) /\ Over(c, fate)

-----------------------------------------------------------------------------
(* Handlers: what was posted has been carried out before                     *)
Handler == due = {}

\* rollVoteMask, what the client offers
Offered(s) == IF s \in Disenchantable THEN Answers ELSE Answers \ {"DISENCHANT"}

\* HandleLootRoll and Group::CountRollVote; the client answers a roll once
Cast(r, p, v) ==
  LET cast == [r EXCEPT !.vote[p] = v]
  IN  CASE v = "PASS" -> [cast EXCEPT !.totalPass = @ + 1]
        [] v = "NEED" -> [cast EXCEPT !.totalNeed = @ + 1]
        [] OTHER -> [cast EXCEPT !.totalGreed = @ + 1]

CountRollVote(p, c, s, v) ==
  LET r == Cast(roll[c][s], p, v)
  IN  /\ Handler /\ p \in online \cap members \cap Voters
      /\ roll[c][s] # NoRoll /\ roll[c][s].vote[p] = "NOT_EMITED_YET"
      /\ IF r.totalPass + r.totalNeed + r.totalGreed >= r.totalPlayersRolling
         THEN \E f \in CountTheRoll(r) : Over(c, [i \in {s} |-> f])
         ELSE roll' = [roll EXCEPT ![c][s] = r] /\ UNCHANGED <<corpse, got>>
      /\ UNCHANGED <<online, group, members, passing, due, kills>>

\* HandleOptOutOfLootOpcode
SetPassOnGroupLoot(p) ==
  /\ Handler /\ p \in online \cap Passers
  /\ passing' = IF p \in passing THEN passing \ {p} ELSE passing \cup {p}
  /\ UNCHANGED <<online, group, members, corpse, roll, due, kills, got>>

\* HandleGroupInviteResponseOpcode: q invited p
Join(p, q) ==
  /\ Handler /\ p \in online \ members
  /\ \/ members # {} /\ UNCHANGED group /\ members' = members \cup {p}
     \/ /\ members = {} /\ q \in online \ {p} /\ group < MaxGroups
        /\ group' = group + 1 /\ members' = {p, q}
  /\ UNCHANGED <<online, passing, corpse, roll, due, kills, got>>

\* Group::RemoveMember and Group::Disband: p leaves, or is removed, online or not
RemoveMember(p) ==
  /\ Handler /\ p \in members
  /\ IF Cardinality(members) > 2
     THEN /\ members' = members \ {p}
          /\ roll' = [c \in Creatures |-> [s \in Slots |-> WithoutVoter(roll[c][s], p)]]
     ELSE /\ members' = {}
          /\ roll' = [c \in Creatures |-> NoRolls]
  /\ UNCHANGED <<online, group, passing, corpse, due, kills, got>>

\* Player::SendLoot: the first to open a corpse begins the rolls, among the
\* recipient's group; near are the members CanRollForLootIn and AllowedForPlayer allow
SendLoot(p, c, near) ==
  LET k == corpse[c]
      permitted == IF p \in members THEN k.recipient \in members ELSE k.recipient = p
      opened == [k EXCEPT !.lootForBody = TRUE, !.looters = IF permitted THEN @ \cup {p} ELSE @]
      first == ~k.lootForBody /\ k.recipient \in members
  IN  /\ Handler /\ p \in online \cap Looters /\ k.dead /\ k.filled /\ p \notin k.looters
      /\ k.recipient \in online
      /\ near \subseteq members \cap online /\ (members \cap online) \ Strays \subseteq near
      /\ ~first => near = members \cap online
      /\ IF first THEN GroupLoot(c, opened, near)
         ELSE corpse' = [corpse EXCEPT ![c] = opened] /\ UNCHANGED roll
      /\ UNCHANGED <<online, group, members, passing, due, kills, got>>

\* mutant: a blocked item is taken all the same
MayTakeBlocked(c, s) == s \notin corpse[c].looted

\* LootItemInSlot and is_blocked
MayTake(c, s) == s \notin corpse[c].looted /\ s \notin corpse[c].blocked

\* HandleAutostoreLootItemOpcode and Player::StoreLootItem
StoreLootItem(p, c, s) ==
  /\ Handler /\ p \in online \cap corpse[c].looters /\ corpse[c].dead /\ MayTake(c, s)
  /\ corpse' = [corpse EXCEPT ![c].looted = @ \cup {s}, ![c].unlootedCount = @ - 1]
  /\ got' = [got EXCEPT ![c][s] = Append(@, [to |-> p, as |-> "LOOT"])]
  /\ UNCHANGED <<online, group, members, passing, roll, due, kills>>

\* DoLootRelease of those of some corpses that p has open: the last item gone, the
\* loot is cleared
DoLootRelease(p, Cs) ==
  LET left == {c \in Cs : corpse[c].dead /\ p \in corpse[c].looters}
      empty == {c \in left : corpse[c].unlootedCount = 0}
  IN  /\ corpse' = [c \in Creatures |->
           IF c \in empty THEN Clear(corpse[c])
           ELSE IF c \in left THEN [corpse[c] EXCEPT !.looters = @ \ {p}] ELSE corpse[c]]
      /\ roll' = [c \in Creatures |-> IF c \in empty THEN NoRolls ELSE roll[c]]

LootRelease(p, c) ==
  /\ Handler /\ p \in online \cap corpse[c].looters
  /\ DoLootRelease(p, {c})
  /\ UNCHANGED <<online, group, members, passing, due, kills, got>>

\* WorldSession::LogoutPlayer: the player stays in its group, its votes stand
Logout(p) ==
  /\ Handler /\ p \in online \cap Leavers
  /\ online' = online \ {p} /\ passing' = passing \ {p}
  /\ DoLootRelease(p, Creatures)
  /\ UNCHANGED <<group, members, due, kills, got>>

Login(p) ==
  /\ Handler /\ p \notin online /\ online' = online \cup {p}
  /\ UNCHANGED <<group, members, passing, corpse, roll, due, kills, got>>

-----------------------------------------------------------------------------
(* The creature                                                              *)

\* p, or its group whose turn to loot is p's, kills c: the loot is filled
Kill(c, p) ==
  /\ ~corpse[c].dead /\ p \in online /\ kills < MaxKills
  /\ kills' = kills + 1
  /\ corpse' = [corpse EXCEPT ![c] = [dead |-> TRUE, recipient |-> p, lootForBody |-> FALSE,
       filled |-> TRUE, blocked |-> {}, looted |-> {}, unlootedCount |-> Cardinality(Slots),
       looters |-> {}, timer |-> @.timer]]
  /\ UNCHANGED <<online, group, members, passing, roll, due, got>>

\* Creature::Update of a corpse: m_groupLootTimer is up
Expire(c) ==
  /\ corpse[c].dead /\ corpse[c].timer # 0
  /\ corpse' = [corpse EXCEPT ![c].timer = 0]
  /\ due' = due \cup {[group |-> corpse[c].timer, creature |-> c]}
  /\ UNCHANGED <<online, group, members, passing, roll, kills, got>>

\* the task: FindCreature, GetGroupByGUID, EndRoll
RunTask(e) ==
  /\ e \in due /\ due' = due \ {e}
  /\ IF e.group = group /\ members # {}
     THEN EndRoll(e.creature)
     ELSE UNCHANGED <<corpse, roll, got>>
  /\ UNCHANGED <<online, group, members, passing, kills>>

Gone(c) ==
  /\ corpse' = [corpse EXCEPT ![c] = [Clear(@) EXCEPT !.dead = FALSE]]
  /\ roll' = [roll EXCEPT ![c] = NoRolls]
  /\ got' = [got EXCEPT ![c] = [s \in Slots |-> <<>>]]
  /\ UNCHANGED <<online, group, members, passing, due, kills>>

\* Creature::RemoveCorpse: from Update once no timer runs, or by a script at any time
RemoveCorpse(c) == corpse[c].dead /\ corpse[c].timer = 0 /\ Gone(c)
Despawn(c) == corpse[c].dead /\ Gone(c)

-----------------------------------------------------------------------------
Alive ==
  [dead |-> FALSE, recipient |-> NoPlayer, lootForBody |-> FALSE, filled |-> FALSE,
   blocked |-> {}, looted |-> {}, unlootedCount |-> 0, looters |-> {}, timer |-> 0]

Init ==
  /\ online = Players /\ group = 0 /\ members = {} /\ passing = {}
  /\ corpse = [c \in Creatures |-> Alive]
  /\ roll = [c \in Creatures |-> NoRolls]
  /\ due = {} /\ kills = 0
  /\ got = [c \in Creatures |-> [s \in Slots |-> <<>>]]

Next ==
  \/ \E p \in Players :
       \/ SetPassOnGroupLoot(p) \/ RemoveMember(p) \/ Logout(p) \/ Login(p)
       \/ \E q \in Players : Join(p, q)
       \/ \E c \in Creatures :
            \/ Kill(c, p) \/ LootRelease(p, c)
            \/ \E near \in SUBSET members : SendLoot(p, c, near)
            \/ \E s \in Slots : StoreLootItem(p, c, s) \/ \E v \in Offered(s) : CountRollVote(p, c, s, v)
  \/ \E c \in Creatures : Expire(c) \/ RemoveCorpse(c) \/ Despawn(c)
  \/ \E e \in due : RunTask(e)

Spec == Init /\ [][Next]_vars

\* The map of a corpse is updated, and the world thread carries out its tasks.
FairSpec ==
  Spec /\ (\A c \in Creatures : WF_vars(Expire(c))) /\ WF_vars(\E e \in due : RunTask(e))

-----------------------------------------------------------------------------
(* Properties.                                                              *)

TypeOK ==
  /\ online \subseteq Players /\ members \subseteq Players /\ passing \subseteq Players
  /\ group \in 0..MaxGroups /\ kills \in 0..MaxKills
  /\ corpse \in [Creatures -> Corpses]
  /\ roll \in [Creatures -> [Slots -> Rolls \cup {NoRoll}]]
  /\ due \subseteq [group : 0..MaxGroups, creature : Creatures]
  /\ got \in [Creatures -> [Slots -> Seq([to : Players, as : Answers \cup {"LOOT"}])]]

\* A roll that is open can still end well: its item is blocked and not taken, its
\* three counts are those of its votes, only members vote, and the timer
\* that ends it runs for this very group or has just run out.
CountsMatch(r) ==
  /\ r.totalPlayersRolling = Cardinality(InRoll(r))
  /\ r.totalNeed = Cardinality(Voted(r, {"NEED"}))
  /\ r.totalGreed = Cardinality(Voted(r, {"GREED", "DISENCHANT"}))
  /\ r.totalPass = Cardinality(Voted(r, {"PASS"}))
RollsGuardTheirItem ==
  \A c \in Creatures, s \in Slots : roll[c][s] # NoRoll =>
    /\ s \in corpse[c].blocked \ corpse[c].looted
    /\ CountsMatch(roll[c][s]) /\ InRoll(roll[c][s]) \subseteq members
    /\ corpse[c].timer = group \/ [group |-> group, creature |-> c] \in due

\* An item is received once, by a roll or from the window, whatever happens between
\* the opening of the corpse and its end; and the count by which a corpse is
\* known to be empty (isLooted) is exact.
ItemsGivenOnce ==
  \A c \in Creatures :
    /\ \A s \in Slots : Len(got[c][s]) <= 1
    /\ corpse[c].filled =>
         /\ corpse[c].unlootedCount = Cardinality(Slots \ corpse[c].looted)
         /\ \A s \in Slots : s \in corpse[c].looted <=> got[c][s] # <<>>

\* An item that is rolled for goes to one who was asked, is in the world, and by
\* the best answer: greed only wins if nobody has said need, and nobody who passed wins.
\* (Who answers last has not answered in the state before.)
Receives(p, c, s) == Len(got'[c][s]) > Len(got[c][s]) /\ Last(got'[c][s]).to = p
BestVoteWins ==
  [][\A c \in Creatures, s \in Slots, p \in Players :
       Receives(p, c, s) /\ roll[c][s] # NoRoll =>
         LET r == roll[c][s]
             as == Last(got'[c][s]).as
         IN  /\ p \in online /\ p \in InRoll(r) /\ r.vote[p] \in {as, "NOT_EMITED_YET"}
             /\ as # "NEED" => as \in {"GREED", "DISENCHANT"} /\ Voted(r, {"NEED"}) = {}]_vars

\* The rolls for a corpse all end, though members are offline, have left, do not answer
\* or form another group: the timer's task finds every one of them.
RollsEnd ==
  \A c \in Creatures :
    (\E s \in Slots : roll[c][s] # NoRoll) ~> (\A s \in Slots : roll[c][s] = NoRoll)
=============================================================================
