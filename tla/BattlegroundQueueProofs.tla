------------------------ MODULE BattlegroundQueueProofs ------------------------
(***************************************************************************)
(* The queue of a battleground, for any teams, parties, sizes and waiting  *)
(* times, and any number of battlegrounds: the type invariant, the slots   *)
(* of the players against the queue, and the expiry of invitations.        *)
(***************************************************************************)
EXTENDS BattlegroundQueue, FiniteSetTheorems, SequenceTheorems, WellFoundedInduction, TLAPS

-----------------------------------------------------------------------------
(* Loops.  The code's loops are folds, and a fold is a recursive function    *)
(* over sets.  That it exists, and induction along it, follow from the order *)
(* of the naturals being well-founded; a loop's body is given by a function  *)
(* step, where a rule with an operator for its parameter would be out of the *)
(* provers' reach.                                                           *)

\* A set of numbers has a least one.
LEMMA LeastNumber ==
  ASSUME NEW T \in SUBSET Nat, T # {}
  PROVE  \E n \in T : \A k \in T : n <= k
<1>1. PICK n \in T : \A k \in T : <<k, n>> \notin OpToRel(<, Nat)
  BY WFMin, NatLessThanWellFounded, Zenon
<1>2. \A k \in T : ~(k < n)
  BY <1>1 DEF OpToRel
<1>3. \A k \in T : n <= k
  BY <1>2
<1> QED BY <1>3

\* Induction up to n, for the set of the numbers at which something holds.
LEMMA UpTo ==
  ASSUME NEW n \in Nat, NEW T, 0 \in T, \A k \in 1..n : k - 1 \in T => k \in T
  PROVE  n \in T
<1> DEFINE U == {k \in 0..n : k \notin T}
<1>0. U \in SUBSET Nat /\ U \subseteq 0..n /\ \A k \in U : k \notin T
  OBVIOUS
<1>1. ASSUME U # {} PROVE FALSE
  <2>1. PICK k \in U : \A j \in U : k <= j
    BY <1>0, <1>1, LeastNumber, Zenon
  <2>2. k \in 1..n /\ k - 1 \in 0..n /\ k \notin T
    <3> HIDE DEF U
    <3> QED BY <1>0, <2>1
  <2>3. k - 1 \in U
    BY <2>2
  <2> QED
    <3> HIDE DEF U
    <3> QED BY <2>1, <2>2, <2>3
<1> QED BY <1>1

\* c[S] is the element of S taken next, or last; step[x] is what the loop does for x.
Takes(c, D) == \A S \in SUBSET D : S # {} => c[S] \in S
Loop(g, D, c, base, step) ==
  \A S \in SUBSET D : g[S] = IF S = {} THEN base ELSE step[c[S]][g[S \ {c[S]}]]

\* Induction over the parts of a finite set.
LEMMA AllParts ==
  ASSUME NEW D, IsFiniteSet(D), NEW c, Takes(c, D),
         NEW T, {} \in T, \A S \in SUBSET D : S # {} /\ S \ {c[S]} \in T => S \in T
  PROVE  \A S \in SUBSET D : S \in T
<1> DEFINE U == {S \in SUBSET D : S \notin T}
           N == {Cardinality(S) : S \in U}
<1>1. ASSUME U # {} PROVE FALSE
  <2>1. N \in SUBSET Nat
    BY FS_Subset, FS_CardinalityType
  <2>2. PICK n \in N : \A k \in N : n <= k
    <3>1. N # {}
      BY <1>1
    <3> HIDE DEF N
    <3> QED BY <2>1, <3>1, LeastNumber, Zenon
  <2>3. PICK S \in U : n = Cardinality(S)
    BY <2>2
  <2>4. S # {} /\ c[S] \in S /\ S \in SUBSET D /\ S \notin T /\ IsFiniteSet(S)
    BY FS_Subset DEF Takes
  <2>5. S \ {c[S]} \in U
    BY <2>4
  <2>6. Cardinality(S \ {c[S]}) = Cardinality(S) - 1
    BY <2>4, FS_RemoveElement
  <2>7. Cardinality(S \ {c[S]}) >= n
    BY <2>2, <2>5
  <2>8. Cardinality(S) \in Nat
    BY <2>4, FS_CardinalityType
  <2> DEFINE m == Cardinality(S)
  <2> HIDE DEF m
  <2>9. n = m /\ Cardinality(S \ {c[S]}) = m - 1 /\ m \in Nat
    BY <2>3, <2>6, <2>8 DEF m
  <2> QED BY <2>7, <2>9
<1> QED BY <1>1

\* A loop that takes the elements of D in the order c, from base, has its results.
LEMMA LoopExists ==
  ASSUME NEW D, IsFiniteSet(D), NEW c, Takes(c, D),
         NEW V, NEW base \in V, NEW step \in [D -> [V -> V]]
  PROVE  \E g \in [SUBSET D -> V] : Loop(g, D, c, base, step)
<1> DEFINE Body(g, S) == IF S = {} THEN base ELSE step[c[S]][g[S \ {c[S]}]]
           Parts(n) == {S \in SUBSET D : Cardinality(S) <= n}
           Good(h, n) == /\ h \in [Parts(n) -> V]
                         /\ \A S \in Parts(n) : h[S] = Body(h, S)
           T == {n \in Nat : \E h : Good(h, n)}
<1>1. \A S \in SUBSET D : IsFiniteSet(S) /\ Cardinality(S) \in Nat
  BY FS_Subset, FS_CardinalityType
<1>2. 0 \in T
  <2> DEFINE h == [S \in Parts(0) |-> base]
  <2>1. \A S \in Parts(0) : S = {}
    BY <1>1, FS_EmptySet
  <2>2. Good(h, 0)
    BY <2>1
  <2> QED BY <2>2
<1>3. ASSUME NEW n \in Nat \ {0}, n - 1 \in T PROVE n \in T
  <2>1. PICK h : Good(h, n - 1)
    BY <1>3
  <2> DEFINE k == [S \in Parts(n) |-> Body(h, S)]
  <2>2. ASSUME NEW S \in Parts(n), S # {} PROVE S \ {c[S]} \in Parts(n - 1)
    <3>1. c[S] \in S /\ IsFiniteSet(S) /\ Cardinality(S) \in Nat
      BY <1>1, <2>2 DEF Takes
    <3>2. Cardinality(S \ {c[S]}) = Cardinality(S) - 1
      BY <3>1, FS_RemoveElement
    <3> QED BY <2>2, <3>1, <3>2
  <2>3. \A S \in Parts(n - 1) : S \in Parts(n)
    BY <1>1
  <2>4. \A S \in Parts(n - 1) : k[S] = h[S]
    BY <2>1, <2>3
  <2>5. ASSUME NEW S \in Parts(n) PROVE k[S] \in V /\ k[S] = Body(k, S)
    <3>1. CASE S = {}
      BY <3>1
    <3>2. CASE S # {}
      <4> DEFINE R == S \ {c[S]}
      <4>0. S \in SUBSET D /\ c[S] \in S
        BY <3>2 DEF Takes
      <4>1. R \in Parts(n - 1) /\ c[S] \in D
        BY <2>2, <3>2, <4>0
      <4>2. h[R] \in V /\ k[R] = h[R]
        BY <2>1, <2>4, <4>1
      <4>3. step[c[S]] \in [V -> V]
        BY <4>1
      <4>4. k[S] = step[c[S]][h[R]]
        BY <3>2
      <4> QED BY <3>2, <4>2, <4>3, <4>4
    <3> QED BY <3>1, <3>2
  <2>6. Good(k, n)
    <3>1. k = [S \in Parts(n) |-> k[S]]
      OBVIOUS
    <3> HIDE DEF k
    <3> QED BY <2>5, <3>1
  <2> QED BY <2>6
<1>4. Cardinality(D) \in T
  <2> HIDE DEF T
  <2> QED BY <1>1, <1>2, <1>3, UpTo
<1>5. Parts(Cardinality(D)) = SUBSET D
  <2>1. \A S \in SUBSET D : Cardinality(S) <= Cardinality(D)
    BY FS_Subset
  <2> QED BY <2>1
<1> QED BY <1>4, <1>5 DEF Loop

\* A set of positions has a last one.
LEMMA LastPosition ==
  ASSUME NEW n \in Nat, NEW S \in SUBSET (1..n), S # {}
  PROVE  Max(S) \in S /\ \A x \in S : x <= Max(S)
<1> DEFINE T == {n - x : x \in S}
<1>1. T \in SUBSET Nat
  OBVIOUS
<1>2. T # {}
  OBVIOUS
<1>3. PICK k \in T : \A j \in T : k <= j
  <2> HIDE DEF T
  <2> QED BY <1>1, <1>2, LeastNumber, Zenon
<1>4. PICK x \in S : k = n - x
  BY <1>3
<1>5. \A y \in S : n - x <= n - y
  BY <1>3, <1>4
<1>6. \A y \in S : x \in Int /\ y \in Int
  <2>1. \A y \in S : y \in 1..n
    BY Zenon
  <2>2. \A y \in 1..n : y \in Int
    OBVIOUS
  <2> QED BY <2>1, <2>2
<1>7. \A y \in S : x >= y
  BY <1>5, <1>6
<1>8. Max(S) \in S /\ \A y \in S : Max(S) >= y
  BY <1>7, Zenon DEF Max
<1> QED BY <1>6, <1>8

\* A loop over the positions 1..n, in order.
Folds(g, n, base, step) ==
  \A S \in SUBSET (1..n) : g[S] = IF S = {} THEN base ELSE step[Max(S)][g[S \ {Max(S)}]]

LEMMA SequenceLoop ==
  ASSUME NEW n \in Nat, NEW V, NEW base \in V, NEW step \in [1..n -> [V -> V]]
  PROVE  \E g \in [SUBSET (1..n) -> V] : Folds(g, n, base, step)
<1> DEFINE D == 1..n
           c == [S \in SUBSET D |-> Max(S)]
<1>1. IsFiniteSet(D)
  BY FS_Interval
<1>2. \A S \in SUBSET D : c[S] = Max(S)
  OBVIOUS
<1>3. Takes(c, D)
  BY <1>2, LastPosition DEF Takes
<1>4. step \in [D -> [V -> V]]
  OBVIOUS
<1> HIDE DEF c, D
<1>5. PICK g \in [SUBSET D -> V] : Loop(g, D, c, base, step)
  BY <1>1, <1>3, <1>4, LoopExists, Zenon
<1>6. \A S \in SUBSET D : g[S] = IF S = {} THEN base ELSE step[Max(S)][g[S \ {Max(S)}]]
  BY <1>2, <1>5, Zenon DEF Loop
<1>7. g \in [SUBSET (1..n) -> V] /\ Folds(g, n, base, step)
  BY <1>5, <1>6 DEF D, Folds
<1> QED BY <1>7

\* What such a loop computes, position by position, if it stays in V.
FoldsIn(g, n, V, base, step) ==
  /\ g[{}] = base
  /\ \A S \in SUBSET (1..n) : S # {} /\ g[S \ {Max(S)}] \in V =>
       g[S] = step[Max(S)][g[S \ {Max(S)}]]
Steps(f, n, base, step) == f[0] = base /\ \A k \in 1..n : f[k] = step[k][f[k - 1]]

LEMMA SequenceSteps ==
  ASSUME NEW n \in Nat, NEW V, NEW base \in V, NEW step \in [1..n -> [V -> V]], NEW g,
         FoldsIn(g, n, V, base, step)
  PROVE  \E f \in [0..n -> V] : Steps(f, n, base, step) /\ f[n] = g[1..n]
<1> DEFINE T == {k \in 0..n : g[1..k] \in V}
           f == [k \in 0..n |-> g[1..k]]
<1>0. /\ g[{}] = base
      /\ \A S \in SUBSET (1..n) : S # {} /\ g[S \ {Max(S)}] \in V =>
           g[S] = step[Max(S)][g[S \ {Max(S)}]]
  BY DEF FoldsIn
<1>1. 1..0 = {} /\ 0 \in T
  BY <1>0
<1>2. ASSUME NEW k \in 1..n, g[1..(k - 1)] \in V
      PROVE  g[1..k] = step[k][g[1..(k - 1)]] /\ g[1..k] \in V
  <2> DEFINE S == 1..k
  <2>0. k \in S /\ \A x \in S : x \in 1..n
    OBVIOUS
  <2>1. S \in SUBSET (1..n) /\ S # {}
    <3> HIDE DEF S
    <3> QED BY <2>0
  <2>2. Max(S) \in S /\ \A x \in S : x <= Max(S)
    BY <2>1, LastPosition
  <2>3. Max(S) = k
    BY <2>0, <2>2
  <2>4. S \ {k} = 1..(k - 1)
    OBVIOUS
  <2>5. g[S] = step[k][g[S \ {k}]]
    <3> HIDE DEF S
    <3> QED BY <1>0, <1>2, <2>1, <2>3, <2>4
  <2>6. step[k] \in [V -> V]
    OBVIOUS
  <2> QED BY <1>2, <2>4, <2>5, <2>6
<1>3. ASSUME NEW k \in 1..n, k - 1 \in T PROVE k \in T
  BY <1>2, <1>3
<1>4. \A k \in 0..n : k \in T
  <2>1. ASSUME NEW k \in 0..n PROVE k \in T
    <3> HIDE DEF T
    <3>1. k \in Nat /\ \A j \in 1..k : j - 1 \in T => j \in T
      BY <1>3
    <3> QED BY <1>1, <3>1, UpTo
  <2> QED BY <2>1
<1>5. f \in [0..n -> V] /\ \A k \in 0..n : f[k] = g[1..k]
  BY <1>4
<1>6. \A k \in 1..n : g[1..k] = step[k][g[1..(k - 1)]] /\ f[k] = g[1..k] /\ f[k - 1] = g[1..(k - 1)]
  <2>1. ASSUME NEW k \in 1..n PROVE g[1..k] = step[k][g[1..(k - 1)]]
    <3>1. k - 1 \in T
      BY <1>4
    <3> QED BY <1>2, <3>1
  <2> HIDE DEF f
  <2>2. \A k \in 1..n : f[k] = g[1..k] /\ f[k - 1] = g[1..(k - 1)]
    <3>1. \A k \in 1..n : k \in 0..n /\ k - 1 \in 0..n
      OBVIOUS
    <3> QED BY <1>5, <3>1
  <2> QED BY <2>1, <2>2
<1>7. f[0] = base /\ f[n] = g[1..n]
  BY <1>0, <1>1, <1>5
<1> HIDE DEF f
<1>8. \A k \in 1..n : f[k] = step[k][f[k - 1]]
  BY <1>6
<1>9. Steps(f, n, base, step)
  BY <1>7, <1>8 DEF Steps
<1> QED BY <1>5, <1>7, <1>9

-----------------------------------------------------------------------------
(* The inductive invariant, part by part, of a state s of the handlers.      *)

States ==
  [queue : [Teams -> Seq(Groups)], slot : [Players -> NoSlot..MaxBattlegrounds],
   instance : [Players -> 0..MaxBattlegrounds], place : [Players -> Places],
   bg : [Ids -> Battlegrounds], freeSlots : Seq(Ids), events : SUBSET Events,
   scheduled : BOOLEAN]

\* p is in the group i of the team t, invited to b with the time l left
Entry(q, p, b, l) ==
  \E t \in Teams : \E i \in 1..Len(q[t]) :
    p \in q[t][i].players /\ q[t][i].bg = b /\ q[t][i].left = l
Queued(q, p) == \E t \in Teams : \E i \in 1..Len(q[t]) : p \in q[t][i].players

\* a line of groups that have no player in common
Apart(line) ==
  \A i, j \in 1..Len(line) : i # j => line[i].players \cap line[j].players = {}
QueueOK(q) ==
  /\ q \in [Teams -> Seq(Groups)]
  /\ \A t \in Teams : \A i \in 1..Len(q[t]) : \A p \in q[t][i].players : Team(p) = t
  /\ \A t \in Teams : Apart(q[t])

\* a battleground not yet created, in use, or gone
Stage(s, b) == IF s.bg[b].status \in {"NONE", "DELETED"} THEN s.bg[b].status ELSE "LIVE"

\* Who is queued is online and outside every battleground, and holds the slot.
InBattle(s, p) == s.place[p] \in {"battle", "coming"} /\ GetBattleground(s, s.instance[p])
WaitingOK(s, p) ==
  /\ Queued(s.queue, p) => s.place[p] # "offline" /\ ~InBattle(s, p)
  /\ \A b, l : Entry(s.queue, p, b, l) =>
       s.slot[p] \in {0, b} /\ (b # 0 => Stage(s, b) # "NONE")

\* Who holds a slot without being queued is in its battleground or on the way.
HolderOK(s, p) ==
  ~Queued(s.queue, p) /\ s.slot[p] # NoSlot =>
    /\ s.slot[p] > 0
    /\ \/ s.instance[p] = s.slot[p] /\ s.place[p] \in {"coming", "battle"}
       \/ Stage(s, s.slot[p]) = "DELETED"

\* Who is in a battleground takes part in it.
InsideOK(s, p) ==
  /\ InBattle(s, p) => /\ s.slot[p] = s.instance[p]
                       /\ s.place[p] = "battle" => p \in s.bg[s.instance[p]].players
  /\ s.place[p] = "world" => s.instance[p] = 0
  /\ s.instance[p] # 0 => Stage(s, s.instance[p]) # "NONE"

\* A battleground with players exists, and is theirs.
ParticipantOK(s, p) ==
  \A b \in Ids : p \in s.bg[b].players =>
    /\ Stage(s, b) = "LIVE" /\ s.instance[p] = b
    /\ s.place[p] # "offline" => s.slot[p] = b /\ s.place[p] = "battle"

\* The event that goes with an invitation is there as long as somebody holds it.
Event(p, b, l) == [player |-> p, bg |-> b, left |-> l]
EventsOK(s, p) ==
  \A b \in Ids, l \in 1..AcceptTime :
    Entry(s.queue, p, b, l) => (s.slot[p] = b <=> Event(p, b, l) \in s.events)

PlayerOK(s, p) ==
  WaitingOK(s, p) /\ HolderOK(s, p) /\ InsideOK(s, p) /\ ParticipantOK(s, p) /\ EventsOK(s, p)
Good(s) == s \in States /\ QueueOK(s.queue) /\ \A p \in Players : PlayerOK(s, p)

BInv == Good(Now)

-----------------------------------------------------------------------------
(* The queue as a set of entries.                                            *)

LEMMA Facts ==
  /\ IsFiniteSet(Players) /\ MaxBattlegrounds \in Nat /\ AcceptTime \in Nat \ {0}
  /\ CounterSize \in Nat \ {0} /\ MinPlayers \in Nat /\ MaxPlayers \in Nat
  /\ \A p \in Players : Team(p) \in Teams
  /\ \A p \in Alliance : Team(p) = "ALLIANCE"
  /\ \A p \in Horde : Team(p) = "HORDE"
<1>1. /\ IsFiniteSet(Players) /\ MaxBattlegrounds \in Nat /\ AcceptTime \in Nat \ {0}
      /\ CounterSize \in Nat \ {0} /\ MaxPlayers \in Nat /\ MinPlayers \in 1..MaxPlayers
      /\ Alliance \cap Horde = {}
  BY QueueAssumption
<1>2. MinPlayers \in Nat
  BY <1>1
<1>3. /\ \A p \in Players : Team(p) \in Teams
      /\ \A p \in Alliance : Team(p) = "ALLIANCE"
      /\ \A p \in Horde : Team(p) = "HORDE"
  BY <1>1 DEF Team, Teams
<1> QED BY <1>1, <1>2, <1>3

LEMMA EntryQueued ==
  ASSUME NEW q, NEW p
  PROVE  Queued(q, p) <=> \E b, l : Entry(q, p, b, l)
BY DEF Queued, Entry

LEMMA EntryTyped ==
  ASSUME NEW q, q \in [Teams -> Seq(Groups)], NEW p, NEW b, NEW l, Entry(q, p, b, l)
  PROVE  p \in Players /\ b \in 0..MaxBattlegrounds /\ l \in -1..AcceptTime
<1>1. PICK t \in Teams : \E i \in 1..Len(q[t]) :
         p \in q[t][i].players /\ q[t][i].bg = b /\ q[t][i].left = l
  BY DEF Entry
<1>2. PICK i \in 1..Len(q[t]) : p \in q[t][i].players /\ q[t][i].bg = b /\ q[t][i].left = l
  BY <1>1
<1>3. q[t] \in Seq(Groups)
  OBVIOUS
<1>4. q[t][i] \in Groups
  BY <1>3, ElementOfSeq
<1> QED BY <1>2, <1>4 DEF Groups

LEMMA EntryUnique ==
  ASSUME NEW q, QueueOK(q), NEW p, NEW b, NEW l, NEW c, NEW m, Entry(q, p, b, l), Entry(q, p, c, m)
  PROVE  b = c /\ l = m
<1>1. PICK t \in Teams : \E i \in 1..Len(q[t]) :
         p \in q[t][i].players /\ q[t][i].bg = b /\ q[t][i].left = l
  BY DEF Entry
<1>2. PICK u \in Teams : \E j \in 1..Len(q[u]) :
         p \in q[u][j].players /\ q[u][j].bg = c /\ q[u][j].left = m
  BY DEF Entry
<1>3. t = u
  BY <1>1, <1>2 DEF QueueOK
<1>4. PICK i \in 1..Len(q[t]) : p \in q[t][i].players /\ q[t][i].bg = b /\ q[t][i].left = l
  BY <1>1
<1>5. PICK j \in 1..Len(q[t]) : p \in q[t][j].players /\ q[t][j].bg = c /\ q[t][j].left = m
  BY <1>2, <1>3
<1>6. i = j
  BY <1>4, <1>5 DEF QueueOK, Apart
<1> QED BY <1>4, <1>5, <1>6

\* GetPlayerGroupInfoData
LEMMA GroupInfoIs ==
  ASSUME NEW s, QueueOK(s.queue), NEW p, NEW b, NEW l, Entry(s.queue, p, b, l)
  PROVE  GroupInfo(s, p).bg = b /\ GroupInfo(s, p).left = l
<1>0. PICK t \in Teams : \E i \in 1..Len(s.queue[t]) :
         p \in s.queue[t][i].players /\ s.queue[t][i].bg = b /\ s.queue[t][i].left = l
  BY DEF Entry
<1>1. PICK i \in 1..Len(s.queue[t]) :
         p \in s.queue[t][i].players /\ s.queue[t][i].bg = b /\ s.queue[t][i].left = l
  BY <1>0
<1>2. t = Team(p)
  BY <1>1 DEF QueueOK
<1>3. s.queue[t] \in Seq(Groups)
  BY DEF QueueOK
<1> DEFINE line == s.queue[t]
<1>4. ToSet(line) = {line[j] : j \in 1..Len(line)}
  BY <1>3, LenProperties DEF ToSet
<1>5. line[i] \in ToSet(line) /\ p \in line[i].players
  BY <1>1, <1>4
<1>6. GroupInfo(s, p) \in ToSet(line) /\ p \in GroupInfo(s, p).players
  <2> HIDE DEF line
  <2>1. GroupInfo(s, p) = CHOOSE g \in ToSet(line) : p \in g.players
    BY <1>2 DEF GroupInfo, line
  <2> QED BY <1>5, <2>1
<1>7. PICK j \in 1..Len(line) : GroupInfo(s, p) = line[j]
  BY <1>4, <1>6
<1>8. Entry(s.queue, p, GroupInfo(s, p).bg, GroupInfo(s, p).left)
  BY <1>6, <1>7 DEF Entry
<1> QED BY <1>8, EntryUnique

LEMMA QueuedPlayersAre ==
  ASSUME NEW s, QueueOK(s.queue)
  PROVE  /\ \A p : p \in QueuedPlayers(s) <=> Queued(s.queue, p)
         /\ \A p : Queued(s.queue, p) => p \in Players
<1>1. \A t \in Teams : s.queue[t] \in Seq(Groups)
  BY DEF QueueOK
<1>2. \A t \in Teams : ToSet(s.queue[t]) = {s.queue[t][j] : j \in 1..Len(s.queue[t])}
  BY <1>1, LenProperties DEF ToSet
<1>3. \A p : p \in QueuedPlayers(s) <=> Queued(s.queue, p)
  BY <1>2 DEF QueuedPlayers, Queued, Teams
<1>4. ASSUME NEW p, Queued(s.queue, p) PROVE p \in Players
  BY <1>4, EntryQueued, EntryTyped DEF QueueOK
<1> QED BY <1>3, <1>4

-----------------------------------------------------------------------------
(* Lines of groups.                                                          *)

LEMMA RemoveAtIs ==
  ASSUME NEW S, NEW line \in Seq(S), NEW i \in 1..Len(line), NEW n, n = RemoveAt(line, i)
  PROVE  /\ n \in Seq(S) /\ Len(n) = Len(line) - 1
         /\ \A j \in 1..Len(n) : n[j] = line[IF j < i THEN j ELSE j + 1]
<1> DEFINE u == SubSeq(line, 1, i - 1)
           v == SubSeq(line, i + 1, Len(line))
           k == Len(line)
<1>1. k \in Nat /\ i \in Int /\ 1 <= i /\ i <= k
  BY LenProperties
<1>2. n = u \o v
  BY DEF RemoveAt
<1>3. u \in Seq(S) /\ Len(u) = i - 1 /\ \A j \in 1..(i - 1) : u[j] = line[j]
  <2>1. \A j \in 1..(i - 1) : line[j] \in S
    BY <1>1, ElementOfSeq
  <2>2. 1 \in Int /\ i - 1 \in Int
    BY <1>1
  <2>3. /\ u \in Seq(S) /\ Len(u) = IF 1 <= i - 1 THEN i - 1 - 1 + 1 ELSE 0
        /\ \A j \in 1..(i - 1 - 1 + 1) : u[j] = line[1 + j - 1]
    BY <2>1, <2>2, SubSeqProperties
  <2> HIDE DEF u
  <2>4. \A j \in 1..(i - 1) : u[j] = line[j]
    <3>1. \A j \in 1..(i - 1) : j \in 1..(i - 1 - 1 + 1) /\ 1 + j - 1 = j
      BY <1>1
    <3> QED BY <2>3, <3>1
  <2> QED BY <1>1, <2>3, <2>4
<1>4. v \in Seq(S) /\ Len(v) = k - i /\ \A j \in 1..(k - i) : v[j] = line[i + j]
  <2>1. \A j \in (i + 1)..k : line[j] \in S
    BY <1>1, ElementOfSeq
  <2>2. i + 1 \in Int /\ k \in Int
    BY <1>1
  <2> HIDE DEF k
  <2>3. /\ SubSeq(line, i + 1, k) \in Seq(S)
        /\ Len(SubSeq(line, i + 1, k)) = IF i + 1 <= k THEN k - (i + 1) + 1 ELSE 0
        /\ \A j \in 1..(k - (i + 1) + 1) : SubSeq(line, i + 1, k)[j] = line[i + 1 + j - 1]
    BY <2>1, <2>2, SubSeqProperties
  <2>4. v = SubSeq(line, i + 1, k)
    BY DEF k
  <2> HIDE DEF v
  <2>5. \A j \in 1..(k - i) : v[j] = line[i + j]
    <3>1. \A j \in 1..(k - i) : j \in 1..(k - (i + 1) + 1) /\ i + 1 + j - 1 = i + j
      BY <1>1
    <3> QED BY <2>3, <2>4, <3>1
  <2> QED BY <1>1, <2>3, <2>4, <2>5
<1> HIDE DEF u, v
<1>5. /\ n \in Seq(S) /\ Len(n) = Len(u) + Len(v)
      /\ \A j \in 1..(Len(u) + Len(v)) : n[j] = IF j <= Len(u) THEN u[j] ELSE v[j - Len(u)]
  <2> HIDE DEF k
  <2>1. u \in Seq(S) /\ v \in Seq(S)
    BY <1>3, <1>4
  <2>2. /\ u \o v \in Seq(S) /\ Len(u \o v) = Len(u) + Len(v)
        /\ \A j \in 1..(Len(u) + Len(v)) : (u \o v)[j] = IF j <= Len(u) THEN u[j] ELSE v[j - Len(u)]
    BY <2>1, ConcatProperties
  <2> QED BY <1>2, <2>2
<1>6. Len(n) = k - 1
  <2> HIDE DEF k
  <2> QED BY <1>1, <1>3, <1>4, <1>5
<1>7. ASSUME NEW j \in 1..(k - 1) PROVE n[j] = line[IF j < i THEN j ELSE j + 1]
  <2> HIDE DEF k
  <2>1. n[j] = IF j <= i - 1 THEN u[j] ELSE v[j - (i - 1)]
    BY <1>1, <1>3, <1>4, <1>5
  <2>2. CASE j < i
    BY <1>1, <1>3, <2>1, <2>2
  <2>3. CASE ~(j < i)
    <3>1. j - (i - 1) \in 1..(k - i) /\ i + (j - (i - 1)) = j + 1
      BY <1>1, <2>3
    <3> QED BY <1>1, <1>4, <2>1, <2>3, <3>1
  <2> QED BY <2>2, <2>3
<1> QED BY <1>5, <1>6, <1>7

LEMMA RemoveFirstTyped ==
  ASSUME NEW S, NEW line \in Seq(S), NEW e
  PROVE  RemoveFirst(line, e) \in Seq(S)
<1> DEFINE I == {i \in 1..Len(line) : line[i] = e}
<1>1. CASE I = {}
  BY <1>1, Zenon DEF RemoveFirst
<1>2. CASE I # {}
  <2>1. SelectInSeq(line, LAMBDA v : v = e) = Min(I)
    BY <1>2, Zenon DEF SelectInSeq
  <2>2. I \in SUBSET Nat
    BY LenProperties
  <2>3. Min(I) \in I
    <3> HIDE DEF I
    <3>1. PICK i \in I : \A j \in I : i <= j
      BY <1>2, <2>2, LeastNumber, Zenon
    <3> QED BY <3>1, Zenon DEF Min
  <2>4. RemoveFirst(line, e) = RemoveAt(line, Min(I))
    BY <1>2, <2>1, Zenon DEF RemoveFirst
  <2>5. Min(I) \in 1..Len(line)
    BY <2>3
  <2> HIDE DEF I
  <2> QED BY <2>4, <2>5, RemoveAtIs
<1> QED BY <1>1, <1>2

\* The groups of n are those of line without p, and none but p's own is lost.
Thinned(line, n, p, pos) ==
  /\ n \in Seq(Groups) /\ pos \in [1..Len(n) -> 1..Len(line)]
  /\ \A j, k \in 1..Len(n) : j # k => pos[j] # pos[k]
  /\ \A j \in 1..Len(n) : /\ n[j].players = line[pos[j]].players \ {p}
                          /\ n[j].bg = line[pos[j]].bg /\ n[j].left = line[pos[j]].left
  /\ \A i \in 1..Len(line) : line[i].players # {p} => \E j \in 1..Len(n) : pos[j] = i

LEMMA WithoutIs ==
  ASSUME NEW line \in Seq(Groups), Apart(line), NEW p,
         \E i \in 1..Len(line) : p \in line[i].players
  PROVE  \E pos : Thinned(line, Without(line, p), p, pos)
<1> DEFINE i == CHOOSE j \in 1..Len(line) : p \in line[j].players
           n == Without(line, p)
<1>1. DOMAIN line = 1..Len(line) /\ Len(line) \in Nat
  BY LenProperties
<1>2. i \in 1..Len(line) /\ p \in line[i].players
  OBVIOUS
<1>3. n = IF line[i].players = {p} THEN RemoveAt(line, i)
          ELSE [j \in 1..Len(line) |-> [line[j] EXCEPT !.players = line[j].players \ {p}]]
  BY <1>1 DEF Without
<1> HIDE DEF i, n
<1>4. \A j \in 1..Len(line) : line[j] \in Groups /\ (j # i => p \notin line[j].players)
  BY <1>2, ElementOfSeq DEF Apart
<1>5. CASE line[i].players = {p}
  <2> DEFINE pos == [j \in 1..Len(n) |-> IF j < i THEN j ELSE j + 1]
  <2>1. n = RemoveAt(line, i)
    BY <1>3, <1>5
  <2>2. /\ n \in Seq(Groups) /\ Len(n) = Len(line) - 1
        /\ \A j \in 1..Len(n) : n[j] = line[IF j < i THEN j ELSE j + 1]
    BY <1>2, <2>1, RemoveAtIs
  <2>3. /\ pos \in [1..Len(n) -> 1..Len(line)]
        /\ \A j \in 1..Len(n) : pos[j] = IF j < i THEN j ELSE j + 1
    BY <1>1, <1>2, <2>2
  <2> HIDE DEF pos
  <2>4. \A j \in 1..Len(n) : n[j] = line[pos[j]] /\ pos[j] # i /\ pos[j] \in 1..Len(line)
    <3>1. \A j \in 1..Len(n) : n[j] = line[pos[j]]
      BY <2>2, <2>3
    <3>2. \A j \in 1..Len(n) : pos[j] # i
      BY <1>2, <2>3
    <3> QED BY <2>3, <3>1, <3>2
  <2>5. \A j, k \in 1..Len(n) : j # k => pos[j] # pos[k]
    BY <1>2, <2>3
  <2>6. ASSUME NEW k \in 1..Len(line), k # i PROVE \E j \in 1..Len(n) : pos[j] = k
    <3>1. CASE k < i
      <4>1. k \in 1..Len(n)
        BY <1>1, <1>2, <2>2, <3>1
      <4> QED BY <2>3, <3>1, <4>1
    <3>2. CASE k > i
      <4>1. k - 1 \in 1..Len(n) /\ ~(k - 1 < i) /\ k - 1 + 1 = k
        BY <1>1, <1>2, <2>2, <3>2
      <4> QED BY <2>3, <4>1
    <3> QED BY <1>2, <2>6, <3>1, <3>2
  <2>7. \A j \in 1..Len(n) : p \notin n[j].players
    BY <1>4, <2>4
  <2>8. \A j \in 1..Len(n) : n[j].players = line[pos[j]].players \ {p}
    BY <2>4, <2>7
  <2>9. Thinned(line, n, p, pos)
    BY <1>5, <2>2, <2>3, <2>4, <2>5, <2>6, <2>8 DEF Thinned
  <2> QED BY <2>9 DEF n
<1>6. CASE line[i].players # {p}
  <2> DEFINE pos == [j \in 1..Len(line) |-> j]
  <2>1. n = [j \in 1..Len(line) |-> [line[j] EXCEPT !.players = line[j].players \ {p}]]
    BY <1>3, <1>6
  <2>2. \A j \in 1..Len(line) : line[j].players \ {p} # {} /\ line[j].players \ {p} \in SUBSET Players
    BY <1>4, <1>6 DEF Groups
  <2>3. \A j \in 1..Len(line) : /\ n[j] \in Groups /\ n[j].players = line[j].players \ {p}
                                /\ n[j].bg = line[j].bg /\ n[j].left = line[j].left
    BY <1>4, <2>1, <2>2 DEF Groups
  <2>4. n \in [1..Len(line) -> Groups]
    BY <2>1, <2>3
  <2>5. n \in Seq(Groups) /\ Len(n) = Len(line)
    BY <1>1, <2>4
  <2>6. Thinned(line, n, p, pos)
    BY <2>3, <2>5 DEF Thinned
  <2> QED BY <2>6 DEF n
<1> QED BY <1>5, <1>6

\* A player leaves its group.
LEMMA ThinnedEntries ==
  ASSUME NEW q, QueueOK(q), NEW p \in Players, NEW line, NEW pos,
         Thinned(q[Team(p)], line, p, pos), NEW n, n = [q EXCEPT ![Team(p)] = line]
  PROVE  /\ QueueOK(n)
         /\ \A r, b, l : Entry(n, r, b, l) <=> r # p /\ Entry(q, r, b, l)
<1> DEFINE t == Team(p)
           old == q[t]
<1>1. t \in Teams /\ q \in [Teams -> Seq(Groups)]
  BY Facts DEF QueueOK
<1>2. n[t] = line /\ \A u \in Teams \ {t} : n[u] = q[u]
  BY <1>1
<1>3. n \in [Teams -> Seq(Groups)]
  BY <1>1 DEF Thinned
<1> HIDE DEF t
<1>4. /\ pos \in [1..Len(line) -> 1..Len(old)]
      /\ \A j, k \in 1..Len(line) : j # k => pos[j] # pos[k]
      /\ \A j \in 1..Len(line) : /\ line[j].players = old[pos[j]].players \ {p}
                                 /\ line[j].bg = old[pos[j]].bg /\ line[j].left = old[pos[j]].left
      /\ \A i \in 1..Len(old) : old[i].players # {p} => \E j \in 1..Len(line) : pos[j] = i
  BY DEF Thinned, t
<1> HIDE DEF old
<1>5. Apart(old) /\ \A i \in 1..Len(old) : \A r \in old[i].players : Team(r) = t
  BY <1>1 DEF QueueOK, old
<1>6. QueueOK(n)
  <2>1. \A j \in 1..Len(line) : \A r \in line[j].players : Team(r) = t
    BY <1>4, <1>5
  <2>2. ASSUME NEW j \in 1..Len(line), NEW k \in 1..Len(line), j # k
        PROVE  line[j].players \cap line[k].players = {}
    <3>1. pos[j] \in 1..Len(old) /\ pos[k] \in 1..Len(old) /\ pos[j] # pos[k]
      BY <1>4, <2>2
    <3>2. old[pos[j]].players \cap old[pos[k]].players = {}
      BY <1>5, <3>1 DEF Apart
    <3> QED BY <1>4, <3>2
  <2>3. Apart(line)
    BY <2>2 DEF Apart
  <2>4. ASSUME NEW u \in Teams
        PROVE  Apart(n[u]) /\ \A i \in 1..Len(n[u]) : \A r \in n[u][i].players : Team(r) = u
    <3>1. CASE u = t
      BY <1>2, <2>1, <2>3, <3>1
    <3>2. CASE u # t
      BY <1>2, <3>2 DEF QueueOK
    <3> QED BY <3>1, <3>2
  <2> QED BY <1>3, <2>4 DEF QueueOK
<1>7. ASSUME NEW r, NEW b, NEW l, Entry(n, r, b, l) PROVE r # p /\ Entry(q, r, b, l)
  <2>1. PICK u \in Teams : \E i \in 1..Len(n[u]) :
           r \in n[u][i].players /\ n[u][i].bg = b /\ n[u][i].left = l
    BY <1>7 DEF Entry
  <2>2. CASE u = t
    <3>1. PICK i \in 1..Len(line) : r \in line[i].players /\ line[i].bg = b /\ line[i].left = l
      BY <1>2, <2>1, <2>2
    <3>2. pos[i] \in 1..Len(q[t]) /\ r # p
          /\ r \in q[t][pos[i]].players /\ q[t][pos[i]].bg = b /\ q[t][pos[i]].left = l
      BY <1>4, <3>1 DEF old
    <3> QED BY <1>1, <3>2 DEF Entry
  <2>3. CASE u # t
    <3>1. \E i \in 1..Len(q[u]) : r \in q[u][i].players /\ q[u][i].bg = b /\ q[u][i].left = l
      BY <1>2, <2>1, <2>3
    <3>2. Team(r) = u
      BY <3>1 DEF QueueOK
    <3> QED BY <2>3, <3>1, <3>2 DEF Entry, t
  <2> QED BY <2>2, <2>3
<1>8. ASSUME NEW r, NEW b, NEW l, r # p, Entry(q, r, b, l) PROVE Entry(n, r, b, l)
  <2>1. PICK u \in Teams : \E i \in 1..Len(q[u]) :
           r \in q[u][i].players /\ q[u][i].bg = b /\ q[u][i].left = l
    BY <1>8 DEF Entry
  <2>2. CASE u = t
    <3>1. PICK i \in 1..Len(old) : r \in old[i].players /\ old[i].bg = b /\ old[i].left = l
      BY <2>1, <2>2 DEF old
    <3>2. old[i].players # {p}
      BY <1>8, <3>1
    <3>3. PICK j \in 1..Len(line) : pos[j] = i
      BY <1>4, <3>2
    <3>4. r \in line[j].players /\ line[j].bg = b /\ line[j].left = l
      BY <1>4, <1>8, <3>1, <3>3
    <3> QED BY <1>1, <1>2, <3>4 DEF Entry
  <2>3. CASE u # t
    BY <1>2, <2>1, <2>3 DEF Entry
  <2> QED BY <2>2, <2>3
<1> QED BY <1>6, <1>7, <1>8

\* A new group joins at the end.
LEMMA AppendEntries ==
  ASSUME NEW q, QueueOK(q), NEW t \in Teams, NEW g \in Groups,
         \A r \in g.players : Team(r) = t /\ ~Queued(q, r),
         NEW n, n = [q EXCEPT ![t] = Append(q[t], g)]
  PROVE  /\ QueueOK(n)
         /\ \A r, b, l : Entry(n, r, b, l) <=>
              Entry(q, r, b, l) \/ (r \in g.players /\ b = g.bg /\ l = g.left)
<1> DEFINE line == Append(q[t], g)
           m == Len(q[t])
<1>1. q \in [Teams -> Seq(Groups)] /\ q[t] \in Seq(Groups) /\ m \in Nat
  BY LenProperties DEF QueueOK
<1>2. /\ line \in Seq(Groups) /\ Len(line) = m + 1
      /\ \A i \in 1..m : line[i] = q[t][i]
      /\ line[m + 1] = g
  BY <1>1, AppendProperties
<1>3. n[t] = line /\ \A u \in Teams \ {t} : n[u] = q[u]
  BY <1>1
<1>4. n \in [Teams -> Seq(Groups)]
  BY <1>1, <1>2
<1> HIDE DEF line
<1>5. \A i \in 1..(m + 1) : i \in 1..m \/ i = m + 1
  <2> HIDE DEF m
  <2> QED BY <1>1
<1>6. m + 1 \in 1..(m + 1) /\ \A i \in 1..m : i \in 1..(m + 1)
  <2> HIDE DEF m
  <2> QED BY <1>1
<1>7. \A i \in 1..m : \A r \in q[t][i].players : Team(r) = t /\ r \notin g.players
  BY DEF QueueOK, Queued
<1>8. Apart(q[t])
  BY DEF QueueOK
<1>9. QueueOK(n)
  <2>1. \A i \in 1..Len(line) : \A r \in line[i].players : Team(r) = t
    BY <1>2, <1>5, <1>7
  <2>2. ASSUME NEW i \in 1..Len(line), NEW j \in 1..Len(line), i # j
        PROVE  line[i].players \cap line[j].players = {}
    <3>1. CASE i \in 1..m /\ j \in 1..m
      BY <1>2, <1>8, <2>2, <3>1 DEF Apart
    <3>2. CASE i = m + 1 /\ j \in 1..m
      BY <1>2, <1>7, <3>2
    <3>3. CASE j = m + 1 /\ i \in 1..m
      BY <1>2, <1>7, <3>3
    <3> QED BY <1>2, <1>5, <2>2, <3>1, <3>2, <3>3
  <2>3. ASSUME NEW u \in Teams
        PROVE  Apart(n[u]) /\ \A i \in 1..Len(n[u]) : \A r \in n[u][i].players : Team(r) = u
    <3>1. CASE u = t
      BY <1>3, <2>1, <2>2, <3>1 DEF Apart
    <3>2. CASE u # t
      BY <1>3, <3>2 DEF QueueOK
    <3> QED BY <3>1, <3>2
  <2> QED BY <1>4, <2>3 DEF QueueOK
<1>10. ASSUME NEW r, NEW b, NEW l, Entry(n, r, b, l)
       PROVE  Entry(q, r, b, l) \/ (r \in g.players /\ b = g.bg /\ l = g.left)
  <2>1. PICK u \in Teams : \E i \in 1..Len(n[u]) :
           r \in n[u][i].players /\ n[u][i].bg = b /\ n[u][i].left = l
    BY <1>10 DEF Entry
  <2>2. CASE u = t
    <3>1. PICK i \in 1..Len(line) : r \in line[i].players /\ line[i].bg = b /\ line[i].left = l
      BY <1>3, <2>1, <2>2
    <3>2. CASE i \in 1..m
      BY <1>2, <3>1, <3>2 DEF Entry
    <3>3. CASE i = m + 1
      BY <1>2, <3>1, <3>3
    <3> QED BY <1>2, <1>5, <3>2, <3>3
  <2>3. CASE u # t
    BY <1>3, <2>1, <2>3 DEF Entry
  <2> QED BY <2>2, <2>3
<1>11. ASSUME NEW r, NEW b, NEW l, Entry(q, r, b, l) PROVE Entry(n, r, b, l)
  <2>1. PICK u \in Teams : \E i \in 1..Len(q[u]) :
           r \in q[u][i].players /\ q[u][i].bg = b /\ q[u][i].left = l
    BY <1>11 DEF Entry
  <2>2. CASE u = t
    <3>1. PICK i \in 1..m : r \in q[t][i].players /\ q[t][i].bg = b /\ q[t][i].left = l
      BY <2>1, <2>2
    <3>2. i \in 1..Len(line) /\ line[i] = q[t][i]
      BY <1>2, <1>6
    <3> QED BY <1>3, <3>1, <3>2 DEF Entry
  <2>3. CASE u # t
    BY <1>3, <2>1, <2>3 DEF Entry
  <2> QED BY <2>2, <2>3
<1>12. ASSUME NEW r \in g.players PROVE Entry(n, r, g.bg, g.left)
  <2>1. m + 1 \in 1..Len(n[t]) /\ n[t][m + 1] = g
    BY <1>2, <1>3, <1>6
  <2> QED BY <2>1 DEF Entry
<1> HIDE DEF m, line
<1>13. ASSUME NEW r, NEW b, NEW l
       PROVE  Entry(n, r, b, l) <=> Entry(q, r, b, l) \/ (r \in g.players /\ b = g.bg /\ l = g.left)
  <2>1. r \in g.players /\ b = g.bg /\ l = g.left => Entry(n, r, b, l)
    BY <1>12
  <2>2. Entry(q, r, b, l) => Entry(n, r, b, l)
    BY <1>11
  <2>3. Entry(n, r, b, l) => Entry(q, r, b, l) \/ (r \in g.players /\ b = g.bg /\ l = g.left)
    BY <1>10
  <2> QED BY <2>1, <2>2, <2>3
<1> QED BY <1>9, <1>13, Zenon

\* Every group keeps its players, and its invitation becomes what inv and left say.
LEMMA ChangedEntries ==
  ASSUME NEW q, QueueOK(q), NEW n, n \in [Teams -> Seq(Groups)],
         \A t \in Teams : /\ Len(n[t]) = Len(q[t])
                          /\ \A i \in 1..Len(q[t]) : n[t][i].players = q[t][i].players
  PROVE  /\ QueueOK(n)
         /\ \A r : Queued(n, r) <=> Queued(q, r)
<1>1. QueueOK(n)
  BY DEF QueueOK, Apart
<1>2. \A r : Queued(n, r) <=> Queued(q, r)
  BY DEF Queued
<1> QED BY <1>1, <1>2

-----------------------------------------------------------------------------
(* Steps of the state.                                                       *)

LEMMA Live ==
  ASSUME NEW s, s \in States
  PROVE  /\ ~GetBattleground(s, 0)
         /\ \A b \in Ids : GetBattleground(s, b) <=> Stage(s, b) = "LIVE"
         /\ \A b \in 0..MaxBattlegrounds : b # 0 => b \in Ids
         /\ Ids \subseteq 0..MaxBattlegrounds
<1>1. \A b \in Ids : b # 0 /\ b \in 0..MaxBattlegrounds
  BY Facts DEF Ids
<1>2. \A b \in 0..MaxBattlegrounds : b # 0 => b \in Ids
  BY Facts DEF Ids
<1>3. \A b \in Ids : s.bg[b].status \in Statuses
  BY DEF States, Battlegrounds
<1>4. \A b \in Ids : GetBattleground(s, b) <=> Stage(s, b) = "LIVE"
  BY <1>1, <1>3 DEF GetBattleground, Stage, Statuses
<1>5. ~GetBattleground(s, 0)
  BY DEF GetBattleground
<1> QED BY <1>1, <1>2, <1>4, <1>5

\* p and the battlegrounds in use are the same in r as in s
SameFor(s, r, p) ==
  /\ \A b, l : Entry(r.queue, p, b, l) <=> Entry(s.queue, p, b, l)
  /\ r.slot[p] = s.slot[p] /\ r.instance[p] = s.instance[p] /\ r.place[p] = s.place[p]
  /\ \A b \in Ids : p \in r.bg[b].players <=> p \in s.bg[b].players
  /\ \A b \in Ids, l \in 1..AcceptTime : Event(p, b, l) \in r.events <=> Event(p, b, l) \in s.events
SameStages(s, r) == \A b \in Ids : Stage(r, b) = Stage(s, b)

LEMMA Undisturbed ==
  ASSUME NEW s, NEW r, s \in States, r \in States, NEW p \in Players,
         SameStages(s, r), SameFor(s, r, p), PlayerOK(s, p)
  PROVE  PlayerOK(r, p)
<1>1. Queued(r.queue, p) <=> Queued(s.queue, p)
  BY EntryQueued DEF SameFor
<1>2. s.instance[p] \in 0..MaxBattlegrounds /\ s.slot[p] \in NoSlot..MaxBattlegrounds
  BY DEF States
<1>3. /\ \A b \in 0..MaxBattlegrounds : GetBattleground(r, b) <=> GetBattleground(s, b)
      /\ \A b \in Ids : Stage(r, b) = Stage(s, b)
  BY Live DEF SameStages
<1>4. r.slot[p] = s.slot[p] /\ r.instance[p] = s.instance[p] /\ r.place[p] = s.place[p]
  BY DEF SameFor
<1>5. InBattle(r, p) <=> InBattle(s, p)
  BY <1>2, <1>3, <1>4 DEF InBattle
<1>6. InBattle(s, p) => s.instance[p] \in Ids
  BY <1>2, Live DEF InBattle
<1>7. WaitingOK(r, p)
  <2>1. WaitingOK(s, p)
    BY DEF PlayerOK
  <2>2. Queued(r.queue, p) => r.place[p] # "offline" /\ ~InBattle(r, p)
    BY <1>1, <1>4, <1>5, <2>1 DEF WaitingOK
  <2>3. ASSUME NEW b, NEW l, Entry(r.queue, p, b, l)
        PROVE  r.slot[p] \in {0, b} /\ (b # 0 => Stage(r, b) # "NONE")
    <3>1. Entry(s.queue, p, b, l)
      BY <2>3 DEF SameFor
    <3>2. s.slot[p] \in {0, b} /\ (b # 0 => Stage(s, b) # "NONE")
      BY <2>1, <3>1 DEF WaitingOK
    <3>3. b \in 0..MaxBattlegrounds
      BY <3>1, EntryTyped DEF States
    <3> QED BY <1>3, <1>4, <3>2, <3>3, Live
  <2> QED BY <2>2, <2>3 DEF WaitingOK
<1>8. HolderOK(r, p)
  <2>1. HolderOK(s, p)
    BY DEF PlayerOK
  <2>2. s.slot[p] > 0 => s.slot[p] \in Ids
    BY <1>2, Facts DEF NoSlot, Ids
  <2> QED BY <1>1, <1>3, <1>4, <2>1, <2>2 DEF HolderOK
<1>9. InsideOK(r, p)
  <2>1. InsideOK(s, p)
    BY DEF PlayerOK
  <2>2. s.instance[p] # 0 => s.instance[p] \in Ids
    BY <1>2, Live
  <2>3. InBattle(s, p) => (p \in r.bg[s.instance[p]].players <=> p \in s.bg[s.instance[p]].players)
    BY <1>6 DEF SameFor
  <2> QED BY <1>3, <1>4, <1>5, <2>1, <2>2, <2>3 DEF InsideOK
<1>10. ParticipantOK(r, p)
  <2>1. ParticipantOK(s, p)
    BY DEF PlayerOK
  <2> QED BY <1>3, <1>4, <2>1 DEF ParticipantOK, SameFor
<1>11. EventsOK(r, p)
  <2>1. EventsOK(s, p)
    BY DEF PlayerOK
  <2> QED BY <1>4, <2>1 DEF EventsOK, SameFor
<1> QED BY <1>7, <1>8, <1>9, <1>10, <1>11 DEF PlayerOK

\* a step that concerns nobody but p
Moved(s, r, p) ==
  /\ r \in States /\ QueueOK(r.queue) /\ SameStages(s, r)
  /\ \A x \in Players \ {p} : SameFor(s, r, x)

LEMMA OneMoves ==
  ASSUME NEW s, NEW r, NEW p, Good(s), Moved(s, r, p), PlayerOK(r, p)
  PROVE  Good(r)
<1>1. s \in States /\ r \in States /\ QueueOK(r.queue) /\ SameStages(s, r)
  BY DEF Good, Moved
<1>2. ASSUME NEW x \in Players PROVE PlayerOK(r, x)
  <2>1. CASE x = p
    BY <2>1
  <2>2. CASE x # p
    <3>1. SameFor(s, r, x) /\ PlayerOK(s, x)
      BY <2>2 DEF Moved, Good
    <3> QED BY <1>1, <3>1, Undisturbed
  <2> QED BY <2>1, <2>2
<1> QED BY <1>1, <1>2 DEF Good

\* a step that changes only the counts of a battleground, its offline players, what
\* is scheduled and which battlegrounds have free slots
Still(s, r) ==
  /\ r \in States /\ r.queue = s.queue /\ r.events = s.events
  /\ r.slot = s.slot /\ r.instance = s.instance /\ r.place = s.place
  /\ \A b \in Ids : r.bg[b].status = s.bg[b].status /\ r.bg[b].players = s.bg[b].players

LEMMA StillSame ==
  ASSUME NEW s, NEW r, Still(s, r)
  PROVE  SameStages(s, r) /\ \A p : SameFor(s, r, p)
<1>1. SameStages(s, r)
  BY DEF Still, SameStages, Stage
<1>2. ASSUME NEW p PROVE SameFor(s, r, p)
  BY DEF Still, SameFor
<1> QED BY <1>1, <1>2

LEMMA StillGood ==
  ASSUME NEW s, NEW r, Good(s), Still(s, r)
  PROVE  Good(r)
<1>1. s \in States /\ r \in States /\ QueueOK(r.queue) /\ SameStages(s, r)
  BY StillSame DEF Good, Still
<1>2. ASSUME NEW p \in Players PROVE PlayerOK(r, p)
  <2>1. SameFor(s, r, p) /\ PlayerOK(s, p)
    BY StillSame DEF Good
  <2> QED BY <1>1, <2>1, Undisturbed
<1> QED BY <1>1, <1>2 DEF Good

LEMMA StillTwice ==
  ASSUME NEW s, NEW r, NEW x, Still(s, r), Still(r, x)
  PROVE  Still(s, x)
BY DEF Still

LEMMA StillItself ==
  ASSUME NEW s, s \in States
  PROVE  Still(s, s)
BY DEF Still

LEMMA ChangeInvitedStill ==
  ASSUME NEW s, s \in States, NEW b \in Ids, NEW t \in Teams, NEW n \in Int
  PROVE  Still(s, ChangeInvited(s, b, t, n))
<1> DEFINE old == s.bg[b]
           k == (old.invited[t] + n) % CounterSize
           new == [old EXCEPT !.invited = [old.invited EXCEPT ![t] = k]]
           r == ChangeInvited(s, b, t, n)
<1>1. s.bg \in [Ids -> Battlegrounds] /\ old \in Battlegrounds
  BY DEF States
<1>2. old.invited \in [Teams -> 0..CounterSize - 1]
  BY <1>1 DEF Battlegrounds
<1>3. k \in 0..CounterSize - 1
  <2>1. old.invited[t] \in Int
    <3>1. old.invited[t] \in 0..CounterSize - 1
      BY <1>2
    <3> HIDE DEF old
    <3> QED BY <3>1, Facts
  <2> DEFINE m == old.invited[t]
  <2> HIDE DEF m, old
  <2>2. (m + n) % CounterSize \in 0..CounterSize - 1
    BY <2>1, Facts DEF m
  <2> QED BY <2>2 DEF m
<1>4. r = [s EXCEPT !.bg = [s.bg EXCEPT ![b] = new]]
  BY DEF ChangeInvited
<1>5. /\ new \in Battlegrounds /\ new.status = old.status /\ new.players = old.players
  <2> HIDE DEF k
  <2>1. [old.invited EXCEPT ![t] = k] \in [Teams -> 0..CounterSize - 1]
    BY <1>2, <1>3
  <2> DEFINE inv == [old.invited EXCEPT ![t] = k]
  <2>2. inv \in [Teams -> 0..CounterSize - 1] /\ new = [old EXCEPT !.invited = inv]
    BY <2>1
  <2> HIDE DEF inv, old, new
  <2> QED BY <1>1, <2>2 DEF Battlegrounds
<1> HIDE DEF new, r
<1>6. r.bg = [s.bg EXCEPT ![b] = new] /\ r \in States
      /\ r.queue = s.queue /\ r.events = s.events
      /\ r.slot = s.slot /\ r.instance = s.instance /\ r.place = s.place
  BY <1>1, <1>4, <1>5 DEF States
<1>7. \A c \in Ids : r.bg[c].status = s.bg[c].status /\ r.bg[c].players = s.bg[c].players
  BY <1>1, <1>5, <1>6
<1>8. Still(s, r)
  BY <1>6, <1>7 DEF Still
<1> QED BY <1>8 DEF r

LEMMA ScheduleStill ==
  ASSUME NEW s, s \in States, NEW v \in BOOLEAN
  PROVE  Still(s, [s EXCEPT !.scheduled = v])
BY DEF Still, States

LEMMA FreeSlotsStill ==
  ASSUME NEW s, s \in States, NEW b \in Ids
  PROVE  Still(s, AddToFreeSlotQueue(s, b)) /\ Still(s, RemoveFromFreeSlotQueue(s, b))
<1>1. s.freeSlots \in Seq(Ids)
  BY DEF States
<1>2. <<b>> \o s.freeSlots \in Seq(Ids)
  BY <1>1
<1>3. RemoveFirst(s.freeSlots, b) \in Seq(Ids)
  BY <1>1, RemoveFirstTyped
<1>4. ASSUME NEW f \in Seq(Ids) PROVE Still(s, [s EXCEPT !.freeSlots = f])
  BY DEF Still, States
<1>5. Still(s, AddToFreeSlotQueue(s, b))
  BY <1>2, <1>4, StillItself DEF AddToFreeSlotQueue
<1>6. Still(s, RemoveFromFreeSlotQueue(s, b))
  BY <1>3, <1>4 DEF RemoveFromFreeSlotQueue
<1> QED BY <1>5, <1>6

\* p leaves the queue, and keeps everything else
LeftQueue(s, r, p) ==
  /\ r \in States /\ QueueOK(r.queue) /\ r.events = s.events
  /\ \A x, b, l : Entry(r.queue, x, b, l) <=> x # p /\ Entry(s.queue, x, b, l)
  /\ r.slot = s.slot /\ r.instance = s.instance /\ r.place = s.place
  /\ \A b \in Ids : r.bg[b].status = s.bg[b].status /\ r.bg[b].players = s.bg[b].players

LEMMA RemovePlayerIs ==
  ASSUME NEW s, s \in States, QueueOK(s.queue), NEW p \in Players, NEW decrease
  PROVE  LeftQueue(s, RemovePlayer(s, p, decrease), p)
<1>1. \A x : x \in QueuedPlayers(s) <=> Queued(s.queue, x)
  BY QueuedPlayersAre
<1>2. CASE p \notin QueuedPlayers(s)
  <2>1. RemovePlayer(s, p, decrease) = s
    BY <1>2, Zenon DEF RemovePlayer
  <2>2. \A b, l : ~Entry(s.queue, p, b, l)
    BY <1>1, <1>2, EntryQueued
  <2>3. LeftQueue(s, s, p)
    BY <2>2 DEF LeftQueue
  <2> QED BY <2>1, <2>3
<1>3. CASE p \in QueuedPlayers(s)
  <2> DEFINE t == Team(p)
             q == s.queue
             line == Without(q[t], p)
             n == [q EXCEPT ![t] = line]
             x == [s EXCEPT !.queue = n]
             c == GroupInfo(s, p).bg
             r == RemovePlayer(s, p, decrease)
  <2>1. t \in Teams /\ q[t] \in Seq(Groups) /\ Apart(q[t])
    BY Facts DEF QueueOK
  <2>2. \E i \in 1..Len(q[t]) : p \in q[t][i].players
    <3>1. Queued(q, p)
      BY <1>1, <1>3
    <3>2. PICK u \in Teams : \E i \in 1..Len(q[u]) : p \in q[u][i].players
      BY <3>1 DEF Queued
    <3>3. u = t
      BY <3>2 DEF QueueOK
    <3> QED BY <3>2, <3>3
  <2>3. PICK pos : Thinned(q[t], line, p, pos)
    BY <2>1, <2>2, WithoutIs
  <2>4. QueueOK(n) /\ \A y, b, l : Entry(n, y, b, l) <=> y # p /\ Entry(q, y, b, l)
    <3>1. QueueOK(q) /\ Thinned(q[Team(p)], line, p, pos) /\ n = [q EXCEPT ![Team(p)] = line]
      BY <2>3
    <3> HIDE DEF q, line, n, t
    <3> QED BY <3>1, ThinnedEntries
  <2>5. x \in States /\ x.queue = n /\ x.events = s.events /\ x.bg = s.bg
        /\ x.slot = s.slot /\ x.instance = s.instance /\ x.place = s.place
    <3>1. n \in [Teams -> Seq(Groups)]
      BY <2>4 DEF QueueOK
    <3> HIDE DEF n
    <3> QED BY <3>1 DEF States
  <2>6. r = IF decrease /\ GetBattleground(s, c) THEN ChangeInvited(x, c, t, -1) ELSE x
    BY <1>3, Zenon DEF RemovePlayer
  <2>7. c \in 0..MaxBattlegrounds
    <3>1. Queued(q, p)
      BY <1>1, <1>3
    <3>2. PICK b, l : Entry(q, p, b, l)
      BY <3>1, EntryQueued, Zenon
    <3>3. c = b /\ b \in 0..MaxBattlegrounds
      BY <3>2, GroupInfoIs, EntryTyped DEF QueueOK
    <3> QED BY <3>3
  <2>8. GetBattleground(s, c) => c \in Ids
    BY <2>7, Live
  <2> HIDE DEF x, n, c, t, r
  <2>9. Still(x, r)
    <3>1. CASE decrease /\ GetBattleground(s, c)
      <4>1. r = ChangeInvited(x, c, t, -1)
        BY <2>6, <3>1
      <4> QED BY <2>1, <2>5, <2>8, <3>1, <4>1, ChangeInvitedStill
    <3>2. CASE ~(decrease /\ GetBattleground(s, c))
      <4>1. r = x
        BY <2>6, <3>2, Zenon
      <4> QED BY <2>5, <4>1, StillItself
    <3> QED BY <3>1, <3>2
  <2>10. r \in States /\ r.queue = n /\ r.events = s.events
         /\ r.slot = s.slot /\ r.instance = s.instance /\ r.place = s.place
    BY <2>5, <2>9 DEF Still
  <2>11. \A b \in Ids : r.bg[b].status = s.bg[b].status /\ r.bg[b].players = s.bg[b].players
    BY <2>5, <2>9 DEF Still
  <2>12. LeftQueue(s, r, p)
    BY <2>4, <2>10, <2>11 DEF LeftQueue
  <2> QED BY <2>12 DEF r
<1> QED BY <1>2, <1>3

\* p leaves the queue, and its slot, unless it is in a battleground
LEMMA Dequeue ==
  ASSUME NEW s, Good(s), NEW p \in Players, Queued(s.queue, p), NEW x, NEW r,
         x = RemoveQueueId(s, p), LeftQueue(x, r, p)
  PROVE  /\ Good(r) /\ r.place = s.place /\ r.events = s.events
         /\ \A y, b, l : Entry(r.queue, y, b, l) <=> y # p /\ Entry(s.queue, y, b, l)
         /\ \A y \in Players \ {p} : r.slot[y] = s.slot[y]
         /\ SameStages(s, r)
<1>1. s \in States /\ s.slot \in [Players -> NoSlot..MaxBattlegrounds] /\ PlayerOK(s, p)
  BY DEF Good, States
<1>2. /\ x.slot = [s.slot EXCEPT ![p] = NoSlot] /\ x.queue = s.queue /\ x.events = s.events
      /\ x.instance = s.instance /\ x.place = s.place /\ x.bg = s.bg
  BY <1>1 DEF RemoveQueueId, States
<1>3. /\ r.slot = x.slot /\ r.events = x.events /\ r.instance = x.instance /\ r.place = x.place
      /\ r \in States /\ QueueOK(r.queue)
      /\ \A y, b, l : Entry(r.queue, y, b, l) <=> y # p /\ Entry(x.queue, y, b, l)
  BY DEF LeftQueue
<1>4. \A b \in Ids : r.bg[b].status = s.bg[b].status /\ r.bg[b].players = s.bg[b].players
  BY <1>2 DEF LeftQueue
<1>5. SameStages(s, r)
  BY <1>4 DEF SameStages, Stage
<1>6. r.slot[p] = NoSlot /\ \A y \in Players \ {p} : r.slot[y] = s.slot[y]
  BY <1>1, <1>2, <1>3
<1>7. \A y, b, l : Entry(r.queue, y, b, l) <=> y # p /\ Entry(s.queue, y, b, l)
  BY <1>2, <1>3
<1>8. ASSUME NEW y \in Players \ {p} PROVE SameFor(s, r, y)
  BY <1>2, <1>3, <1>4, <1>6, <1>7 DEF SameFor
<1>9. Moved(s, r, p)
  BY <1>3, <1>5, <1>8 DEF Moved
<1>10. \A b, l : ~Entry(r.queue, p, b, l)
  BY <1>7
<1>11. ~Queued(r.queue, p)
  BY <1>10, EntryQueued
<1>12. WaitingOK(s, p) /\ InsideOK(s, p) /\ ParticipantOK(s, p)
  BY <1>1 DEF PlayerOK
<1>13. s.place[p] # "offline" /\ ~InBattle(s, p)
  BY <1>12 DEF WaitingOK
<1>14. r.place[p] = s.place[p] /\ r.instance[p] = s.instance[p]
  BY <1>2, <1>3
<1>15. s.instance[p] \in 0..MaxBattlegrounds
  BY <1>1 DEF States
<1>16. InBattle(r, p) <=> InBattle(s, p)
  BY <1>1, <1>3, <1>5, <1>14, <1>15, Live DEF InBattle, SameStages
<1>17. WaitingOK(r, p) /\ EventsOK(r, p) /\ HolderOK(r, p)
  BY <1>6, <1>10, <1>11 DEF WaitingOK, EventsOK, HolderOK
<1>18. InsideOK(r, p)
  BY <1>1, <1>5, <1>12, <1>13, <1>14, <1>15, <1>16, Live DEF InsideOK, SameStages
<1>19. \A b \in Ids : p \notin s.bg[b].players
  <2>1. ASSUME NEW b \in Ids, p \in s.bg[b].players PROVE FALSE
    <3>1. Stage(s, b) = "LIVE" /\ s.instance[p] = b /\ s.place[p] = "battle"
      BY <1>12, <1>13, <2>1 DEF ParticipantOK
    <3> QED BY <1>1, <1>13, <3>1, Live DEF InBattle
  <2> QED BY <2>1
<1>20. ParticipantOK(r, p)
  BY <1>4, <1>19 DEF ParticipantOK
<1>21. Good(r)
  BY <1>9, <1>17, <1>18, <1>20, OneMoves DEF PlayerOK
<1> QED BY <1>2, <1>3, <1>5, <1>6, <1>7, <1>21

LEMMA DequeueTyped ==
  ASSUME NEW s, s \in States, NEW p \in Players
  PROVE  RemoveQueueId(s, p) \in States /\ RemoveQueueId(s, p).queue = s.queue
<1>1. NoSlot \in NoSlot..MaxBattlegrounds
  BY Facts DEF NoSlot
<1>2. [s.slot EXCEPT ![p] = NoSlot] \in [Players -> NoSlot..MaxBattlegrounds]
  BY <1>1 DEF States
<1> DEFINE n == [s.slot EXCEPT ![p] = NoSlot]
<1>3. n \in [Players -> NoSlot..MaxBattlegrounds] /\ RemoveQueueId(s, p) = [s EXCEPT !.slot = n]
  BY <1>2 DEF RemoveQueueId
<1> HIDE DEF n
<1> QED BY <1>3 DEF States

\* p leaves the battleground b
LeftBattle(s, r, b, p) ==
  /\ r \in States /\ r.queue = s.queue /\ r.events = s.events
  /\ \A y \in Players \ {p} :
       r.slot[y] = s.slot[y] /\ r.instance[y] = s.instance[y] /\ r.place[y] = s.place[y]
  /\ r.slot[p] = IF p \in s.bg[b].players /\ FindPlayer(s, p) THEN NoSlot ELSE s.slot[p]
  /\ r.instance[p] = IF FindPlayer(s, p) THEN 0 ELSE s.instance[p]
  /\ r.place[p] = s.place[p] \/ (FindPlayer(s, p) /\ r.place[p] = "away")
  /\ \A c \in Ids : r.bg[c].status = s.bg[c].status /\ r.bg[c].offline = s.bg[c].offline
  /\ \A c \in Ids : r.bg[c].players = IF c = b THEN s.bg[c].players \ {p} ELSE s.bg[c].players

LEMMA OfflineKept ==
  ASSUME NEW s, s \in States, NEW b \in Ids
  PROVE  /\ \A t \in Teams, c \in Ids : \A n : ChangeInvited(s, b, t, n).bg[c].offline = s.bg[c].offline
         /\ AddToFreeSlotQueue(s, b).bg = s.bg /\ ScheduleQueueUpdate(s).bg = s.bg
<1>1. ASSUME NEW t \in Teams, NEW n, NEW c \in Ids
      PROVE  ChangeInvited(s, b, t, n).bg[c].offline = s.bg[c].offline
  <2> DEFINE old == s.bg[b]
             k == (old.invited[t] + n) % CounterSize
             inv == [old.invited EXCEPT ![t] = k]
             new == [old EXCEPT !.invited = inv]
             nbg == [s.bg EXCEPT ![b] = new]
  <2>1. s.bg \in [Ids -> Battlegrounds] /\ old \in Battlegrounds
    BY DEF States
  <2>2. ChangeInvited(s, b, t, n) = [s EXCEPT !.bg = nbg]
    BY DEF ChangeInvited
  <2> HIDE DEF inv
  <2>3. new.offline = old.offline
    BY <2>1 DEF Battlegrounds
  <2>4. nbg[c].offline = s.bg[c].offline
    <3> HIDE DEF new
    <3> QED BY <2>1, <2>3
  <2> HIDE DEF nbg
  <2>5. [s EXCEPT !.bg = nbg].bg = nbg
    BY DEF States
  <2> QED BY <2>2, <2>4, <2>5
<1>2. AddToFreeSlotQueue(s, b).bg = s.bg
  <2> DEFINE f == <<b>> \o s.freeSlots
  <2>1. AddToFreeSlotQueue(s, b) \in {s, [s EXCEPT !.freeSlots = f]}
    BY DEF AddToFreeSlotQueue
  <2> HIDE DEF f
  <2> QED BY <2>1 DEF States
<1>3. ScheduleQueueUpdate(s).bg = s.bg
  BY DEF ScheduleQueueUpdate, States
<1> QED BY <1>1, <1>2, <1>3

LEMMA LeaveIs ==
  ASSUME NEW s, s \in States, NEW b \in Ids, NEW p \in Players, NEW transport
  PROVE  LeftBattle(s, RemovePlayerAtLeave(s, b, p, transport), b, p)
<1> DEFINE old == s.bg[b]
           ps == old.players \ {p}
           new == [old EXCEPT !.players = ps]
           participant == p \in s.bg[b].players
           found == FindPlayer(s, p)
           sl == [s.slot EXCEPT ![p] = IF participant /\ found THEN NoSlot ELSE s.slot[p]]
           in == [s.instance EXCEPT ![p] = IF found THEN 0 ELSE s.instance[p]]
           pl == [s.place EXCEPT ![p] = IF found /\ transport THEN "away" ELSE s.place[p]]
           out == [s EXCEPT !.bg[b].players = @ \ {p},
                            !.slot[p] = IF participant /\ found THEN NoSlot ELSE @,
                            !.instance[p] = IF found THEN 0 ELSE @,
                            !.place[p] = IF found /\ transport THEN "away" ELSE @]
           counted == IF participant THEN ChangeInvited(out, b, Team(p), -1) ELSE out
           r == RemovePlayerAtLeave(s, b, p, transport)
<1>0. Team(p) \in Teams /\ -1 \in Int
  BY Facts
<1>1. /\ s.bg \in [Ids -> Battlegrounds] /\ s.slot \in [Players -> NoSlot..MaxBattlegrounds]
      /\ s.instance \in [Players -> 0..MaxBattlegrounds] /\ s.place \in [Players -> Places]
  BY DEF States
<1>2. old \in Battlegrounds
  BY <1>1
<1>3. /\ new \in Battlegrounds /\ new.status = old.status /\ new.players = old.players \ {p}
      /\ new.offline = old.offline
  <2>1. ps \in SUBSET Players
    BY <1>2 DEF Battlegrounds
  <2> HIDE DEF ps, old
  <2>2. /\ new \in Battlegrounds /\ new.status = old.status /\ new.players = ps
        /\ new.offline = old.offline
    BY <1>2, <2>1 DEF Battlegrounds
  <2> QED BY <2>2 DEF ps
<1>4. [s.bg EXCEPT ![b] = new] \in [Ids -> Battlegrounds]
  <2> HIDE DEF new
  <2> QED BY <1>1, <1>3
<1>5. sl \in [Players -> NoSlot..MaxBattlegrounds]
  <2>1. NoSlot \in NoSlot..MaxBattlegrounds /\ s.slot[p] \in NoSlot..MaxBattlegrounds
    BY <1>1, Facts DEF NoSlot
  <2> HIDE DEF participant, found
  <2> QED BY <1>1, <2>1
<1>6. in \in [Players -> 0..MaxBattlegrounds]
  <2>1. 0 \in 0..MaxBattlegrounds /\ s.instance[p] \in 0..MaxBattlegrounds
    BY <1>1, Facts
  <2> HIDE DEF participant, found
  <2> QED BY <1>1, <2>1
<1>7. pl \in [Players -> Places]
  <2>1. "away" \in Places /\ s.place[p] \in Places
    BY <1>1 DEF Places
  <2> HIDE DEF participant, found
  <2> QED BY <1>1, <2>1
<1>8. out = [s EXCEPT !.bg = [s.bg EXCEPT ![b] = new], !.slot = sl, !.instance = in, !.place = pl]
  OBVIOUS
<1> DEFINE nbg == [s.bg EXCEPT ![b] = new]
<1>9. /\ sl[p] = IF participant /\ found THEN NoSlot ELSE s.slot[p]
      /\ in[p] = IF found THEN 0 ELSE s.instance[p]
      /\ pl[p] = IF found /\ transport THEN "away" ELSE s.place[p]
      /\ \A y \in Players \ {p} : sl[y] = s.slot[y] /\ in[y] = s.instance[y] /\ pl[y] = s.place[y]
  <2> HIDE DEF participant, found
  <2> QED BY <1>1
<1>10. /\ \A c \in Ids : nbg[c].status = s.bg[c].status /\ nbg[c].offline = s.bg[c].offline
       /\ \A c \in Ids : nbg[c].players = IF c = b THEN s.bg[c].players \ {p} ELSE s.bg[c].players
  <2> HIDE DEF new
  <2> QED BY <1>1, <1>3
<1>11. out = [s EXCEPT !.bg = nbg, !.slot = sl, !.instance = in, !.place = pl]
  BY <1>8
<1>12. nbg \in [Ids -> Battlegrounds]
  BY <1>4
<1> HIDE DEF sl, in, pl, nbg, out
<1>13. /\ out \in States /\ out.queue = s.queue /\ out.events = s.events
       /\ out.bg = nbg /\ out.slot = sl /\ out.instance = in /\ out.place = pl
  BY <1>5, <1>6, <1>7, <1>11, <1>12 DEF States
<1>14. r = IF participant /\ Open(s, b)
           THEN ScheduleQueueUpdate(AddToFreeSlotQueue(counted, b)) ELSE counted
  BY Zenon DEF RemovePlayerAtLeave, out
<1> HIDE DEF r, participant, found
<1>15. Still(out, counted)
  BY <1>0, <1>13, ChangeInvitedStill, StillItself
<1>16. counted \in States
  BY <1>15 DEF Still
<1> HIDE DEF counted
<1>17. Still(counted, AddToFreeSlotQueue(counted, b))
  BY <1>16, FreeSlotsStill
<1> DEFINE added == AddToFreeSlotQueue(counted, b)
<1>18. added \in States
  BY <1>17 DEF Still
<1>19. Still(added, ScheduleQueueUpdate(added))
  <2> HIDE DEF added
  <2> QED BY <1>18, ScheduleStill DEF ScheduleQueueUpdate
<1>20. Still(out, r)
  BY <1>14, <1>15, <1>17, <1>19, StillTwice
<1>21. /\ r \in States /\ r.queue = s.queue /\ r.events = s.events
       /\ r.slot = sl /\ r.instance = in /\ r.place = pl
       /\ \A c \in Ids : r.bg[c].status = nbg[c].status /\ r.bg[c].players = nbg[c].players
  BY <1>13, <1>20 DEF Still
<1>22. \A c \in Ids : r.bg[c].offline = nbg[c].offline
  <2>1. \A c \in Ids : counted.bg[c].offline = out.bg[c].offline
    BY <1>0, <1>13, OfflineKept DEF counted
  <2>2. added.bg = counted.bg /\ ScheduleQueueUpdate(added).bg = added.bg
    <3>1. added.bg = counted.bg
      BY <1>16, OfflineKept
    <3> HIDE DEF added
    <3>2. ScheduleQueueUpdate(added).bg = added.bg
      BY <1>18, OfflineKept
    <3> QED BY <3>1, <3>2
  <2> QED BY <1>13, <1>14, <2>1, <2>2
<1>23. /\ r.slot[p] = IF p \in s.bg[b].players /\ FindPlayer(s, p) THEN NoSlot ELSE s.slot[p]
       /\ r.instance[p] = IF FindPlayer(s, p) THEN 0 ELSE s.instance[p]
  BY <1>9, <1>21 DEF participant, found
<1>24. r.place[p] = s.place[p] \/ (FindPlayer(s, p) /\ r.place[p] = "away")
  BY <1>9, <1>21 DEF found
<1>25. LeftBattle(s, r, b, p)
  BY <1>9, <1>10, <1>21, <1>22, <1>23, <1>24 DEF LeftBattle
<1> QED BY <1>25 DEF r

\* A participant leaves.
LEMMA ParticipantLeaves ==
  ASSUME NEW s, Good(s), NEW b \in Ids, NEW p, p \in s.bg[b].players, NEW r, LeftBattle(s, r, b, p)
  PROVE  Good(r)
<1>1. s \in States /\ r \in States /\ p \in Players /\ QueueOK(r.queue)
  BY DEF Good, LeftBattle, States, Battlegrounds
<1>2. PlayerOK(s, p)
  BY <1>1 DEF Good
<1>3. /\ Stage(s, b) = "LIVE" /\ s.instance[p] = b
      /\ s.place[p] # "offline" => s.slot[p] = b /\ s.place[p] = "battle"
  BY <1>2 DEF PlayerOK, ParticipantOK
<1>4. SameStages(s, r)
  BY DEF LeftBattle, SameStages, Stage
<1>5. ASSUME NEW y \in Players \ {p} PROVE SameFor(s, r, y)
  BY <1>5 DEF LeftBattle, SameFor
<1>6. Moved(s, r, p)
  BY <1>1, <1>4, <1>5 DEF Moved
<1>7. \A c \in Ids : c # b => p \notin s.bg[c].players
  BY <1>2, <1>3 DEF PlayerOK, ParticipantOK
<1>8. \A c \in Ids : p \notin r.bg[c].players
  BY <1>7 DEF LeftBattle
<1>9. ParticipantOK(r, p)
  BY <1>8 DEF ParticipantOK
<1>10. r.queue = s.queue /\ r.events = s.events
  BY DEF LeftBattle
<1>11. b # 0 /\ b \in 0..MaxBattlegrounds /\ GetBattleground(s, b)
  BY <1>1, <1>3, Live
<1>12. CASE FindPlayer(s, p)
  <2>1. s.place[p] = "battle" /\ s.slot[p] = b
    BY <1>3, <1>12 DEF FindPlayer
  <2>2. r.slot[p] = NoSlot /\ r.instance[p] = 0 /\ r.place[p] \in {"battle", "away"}
    BY <1>12, <2>1 DEF LeftBattle
  <2>3. ~InBattle(r, p)
    BY <1>1, <2>2, Live DEF InBattle
  <2>4. ~Queued(s.queue, p)
    BY <1>2, <1>3, <1>11, <2>1 DEF PlayerOK, WaitingOK, InBattle
  <2>5. \A c, l : ~Entry(r.queue, p, c, l)
    BY <1>10, <2>4, EntryQueued
  <2>6. WaitingOK(r, p) /\ HolderOK(r, p) /\ EventsOK(r, p)
    BY <1>10, <2>2, <2>4, <2>5 DEF WaitingOK, HolderOK, EventsOK
  <2>7. InsideOK(r, p)
    BY <2>2, <2>3 DEF InsideOK
  <2> QED BY <1>6, <1>9, <2>6, <2>7, OneMoves DEF PlayerOK
<1>13. CASE ~FindPlayer(s, p)
  <2>1. s.place[p] = "offline"
    BY <1>3, <1>13 DEF FindPlayer
  <2>2. r.slot[p] = s.slot[p] /\ r.instance[p] = b /\ r.place[p] = "offline"
    BY <1>3, <1>13, <2>1 DEF LeftBattle
  <2>3. ~InBattle(r, p)
    BY <2>2 DEF InBattle
  <2>4. ~Queued(s.queue, p)
    BY <1>2, <2>1 DEF PlayerOK, WaitingOK
  <2>5. \A c, l : ~Entry(r.queue, p, c, l)
    BY <1>10, <2>4, EntryQueued
  <2>6. WaitingOK(r, p) /\ EventsOK(r, p)
    BY <1>10, <2>4, <2>5 DEF WaitingOK, EventsOK
  <2>7. InsideOK(r, p)
    BY <1>3, <1>4, <2>2, <2>3 DEF InsideOK, SameStages
  <2>8. HolderOK(r, p)
    <3>1. HolderOK(s, p) /\ s.slot[p] \in NoSlot..MaxBattlegrounds
      BY <1>1, <1>2 DEF PlayerOK, States
    <3>2. s.slot[p] > 0 => s.slot[p] \in Ids
      BY <3>1, Facts DEF NoSlot, Ids
    <3> QED BY <1>4, <1>10, <2>1, <2>2, <3>1, <3>2 DEF HolderOK, SameStages
  <2> QED BY <1>6, <1>9, <2>6, <2>7, <2>8, OneMoves DEF PlayerOK
<1> QED BY <1>12, <1>13

-----------------------------------------------------------------------------
(* The handlers.                                                             *)

LEMMA NowIs ==
  /\ Now.queue = queue /\ Now.slot = slot /\ Now.instance = instance /\ Now.place = place
  /\ Now.bg = bg /\ Now.freeSlots = freeSlots /\ Now.events = events
  /\ Now.scheduled = scheduled
BY DEF Now

LEMMA BecomeIs ==
  ASSUME NEW s, s \in States, Become(s)
  PROVE  Now' = s
BY DEF Become, Now, States

LEMMA LeaveQueueGood ==
  ASSUME BInv, NEW p \in Players, LeaveQueue(p)
  PROVE  Good(Now')
<1> DEFINE s == Now
           x == RemoveQueueId(s, p)
<1>1. Good(s) /\ p \in QueuedPlayers(s)
  BY DEF BInv, LeaveQueue
<1>2. PICK d : Become(ScheduleQueueUpdate(RemovePlayer(x, p, d)))
  BY Zenon DEF LeaveQueue
<1> DEFINE y == RemovePlayer(x, p, d)
<1> HIDE DEF s
<1>3. s \in States /\ QueueOK(s.queue) /\ Queued(s.queue, p)
  BY <1>1, QueuedPlayersAre DEF Good
<1>4. x \in States /\ QueueOK(x.queue)
  BY <1>3, DequeueTyped
<1> HIDE DEF x
<1>5. LeftQueue(x, y, p)
  BY <1>4, RemovePlayerIs
<1> HIDE DEF y
<1>6. Good(y)
  BY <1>1, <1>3, <1>5, Dequeue DEF x
<1>7. Still(y, ScheduleQueueUpdate(y))
  BY <1>6, ScheduleStill DEF Good, ScheduleQueueUpdate
<1>8. Good(ScheduleQueueUpdate(y))
  BY <1>6, <1>7, StillGood
<1>9. Become(ScheduleQueueUpdate(y))
  BY <1>2 DEF y
<1>10. Now' = ScheduleQueueUpdate(y)
  BY <1>8, <1>9, BecomeIs DEF Good
<1> QED BY <1>8, <1>10

\* p is given a place and the battleground of it, and may stop or start to take part in one
Placed(s, r, p, b, where) ==
  /\ r \in States /\ r.events = s.events
  /\ \A y \in Players \ {p} :
       r.slot[y] = s.slot[y] /\ r.instance[y] = s.instance[y] /\ r.place[y] = s.place[y]
  /\ r.instance[p] = b /\ r.place[p] = where
  /\ \A c \in Ids : r.bg[c].status = s.bg[c].status
  /\ \A c \in Ids : \A y \in Players \ {p} : y \in r.bg[c].players <=> y \in s.bg[c].players

At(s, p, b, where) == [s EXCEPT !.instance[p] = b, !.place[p] = where]

LEMMA PlacedTyped ==
  ASSUME NEW s, s \in States, NEW p \in Players, NEW b \in 0..MaxBattlegrounds, NEW where \in Places,
         NEW r, r = At(s, p, b, where)
  PROVE  /\ Placed(s, r, p, b, where) /\ r.slot = s.slot /\ r.bg = s.bg /\ r.queue = s.queue
         /\ r.events = s.events
<1> DEFINE in == [s.instance EXCEPT ![p] = b]
           pl == [s.place EXCEPT ![p] = where]
<1>1. in \in [Players -> 0..MaxBattlegrounds] /\ pl \in [Players -> Places]
  BY DEF States
<1>2. in[p] = b /\ pl[p] = where /\ \A y \in Players \ {p} : in[y] = s.instance[y] /\ pl[y] = s.place[y]
  BY DEF States
<1>3. r = [s EXCEPT !.instance = in, !.place = pl]
  BY DEF At
<1> HIDE DEF in, pl
<1>5. /\ r \in States /\ r.instance = in /\ r.place = pl /\ r.slot = s.slot /\ r.bg = s.bg
      /\ r.queue = s.queue /\ r.events = s.events
  BY <1>1, <1>3 DEF States
<1>6. Placed(s, r, p, b, where)
  BY <1>2, <1>5 DEF Placed
<1> QED BY <1>5, <1>6

LEMMA PlacedMoved ==
  ASSUME NEW s, NEW r, NEW p, NEW b, NEW where, Placed(s, r, p, b, where), QueueOK(r.queue),
         \A y, c, l : y # p => (Entry(r.queue, y, c, l) <=> Entry(s.queue, y, c, l))
  PROVE  Moved(s, r, p) /\ SameStages(s, r)
<1>1. SameStages(s, r)
  BY DEF Placed, SameStages, Stage
<1>2. ASSUME NEW y \in Players \ {p} PROVE SameFor(s, r, y)
  BY <1>2 DEF Placed, SameFor
<1> QED BY <1>1, <1>2 DEF Moved, Placed

\* A player who is outside every battleground and holds no slot is where it may be.
LEMMA OutsideOK ==
  ASSUME NEW s, NEW r, NEW p \in Players, NEW b, NEW where, s \in States, r \in States,
         SameStages(s, r), PlayerOK(s, p),
         \A c, l : Entry(r.queue, p, c, l) <=> Entry(s.queue, p, c, l),
         r.events = s.events, r.slot[p] = s.slot[p], r.instance[p] = b, r.place[p] = where,
         \A c \in Ids : p \notin r.bg[c].players,
         ~InBattle(r, p), where = "world" => b = 0, b # 0 => Stage(r, b) # "NONE",
         Queued(s.queue, p) => where # "offline",
         ~Queued(s.queue, p) /\ s.slot[p] # NoSlot => s.slot[p] > 0 /\ Stage(s, s.slot[p]) = "DELETED"
  PROVE  PlayerOK(r, p)
<1>1. Queued(r.queue, p) <=> Queued(s.queue, p)
  BY EntryQueued
<1>2. WaitingOK(s, p) /\ EventsOK(s, p)
  BY DEF PlayerOK
<1>3. WaitingOK(r, p)
  <2>1. Queued(r.queue, p) => r.place[p] # "offline" /\ ~InBattle(r, p)
    BY <1>1
  <2>2. ASSUME NEW c, NEW l, Entry(r.queue, p, c, l)
        PROVE  r.slot[p] \in {0, c} /\ (c # 0 => Stage(r, c) # "NONE")
    <3>1. Entry(s.queue, p, c, l)
      BY <2>2
    <3>2. s.slot[p] \in {0, c} /\ (c # 0 => Stage(s, c) # "NONE")
      BY <1>2, <3>1 DEF WaitingOK
    <3>3. c \in 0..MaxBattlegrounds
      BY <3>1, EntryTyped DEF States
    <3> QED BY <3>2, <3>3, Live DEF SameStages
  <2> QED BY <2>1, <2>2 DEF WaitingOK
<1>4. HolderOK(r, p)
  <2>1. s.slot[p] \in NoSlot..MaxBattlegrounds
    BY DEF States
  <2>2. s.slot[p] > 0 => s.slot[p] \in Ids
    BY <2>1, Facts DEF NoSlot, Ids
  <2> QED BY <1>1, <2>2 DEF HolderOK, SameStages
<1>5. InsideOK(r, p)
  BY DEF InsideOK
<1>6. ParticipantOK(r, p)
  BY DEF ParticipantOK
<1>7. EventsOK(r, p)
  BY <1>2 DEF EventsOK
<1> QED BY <1>3, <1>4, <1>5, <1>6, <1>7 DEF PlayerOK

\* What follows for one player.
LEMMA Whereabouts ==
  ASSUME NEW s, Good(s), NEW p \in Players
  PROVE  /\ FindPlayer(s, p) /\ GetBattleground(s, s.instance[p]) =>
              /\ InBattle(s, p) /\ s.instance[p] \in Ids
              /\ p \in s.bg[s.instance[p]].players
         /\ ~GetBattleground(s, s.instance[p]) => \A c \in Ids : p \notin s.bg[c].players
         /\ s.place[p] \in {"away", "coming"} => \A c \in Ids : p \notin s.bg[c].players
         /\ InBattle(s, p) => ~Queued(s.queue, p)
         /\ ~Queued(s.queue, p) /\ s.slot[p] # NoSlot /\ ~InBattle(s, p) =>
              s.slot[p] > 0 /\ Stage(s, s.slot[p]) = "DELETED"
         /\ s.instance[p] \in 0..MaxBattlegrounds
<1>1. s \in States /\ PlayerOK(s, p)
  BY DEF Good
<1>2. WaitingOK(s, p) /\ HolderOK(s, p) /\ InsideOK(s, p) /\ ParticipantOK(s, p)
  BY <1>1 DEF PlayerOK
<1>3. s.instance[p] \in 0..MaxBattlegrounds /\ s.slot[p] \in NoSlot..MaxBattlegrounds
      /\ s.place[p] \in Places
  BY <1>1 DEF States
<1>4. ASSUME FindPlayer(s, p), GetBattleground(s, s.instance[p])
      PROVE  /\ InBattle(s, p) /\ s.instance[p] \in Ids
             /\ p \in s.bg[s.instance[p]].players
  <2>1. s.instance[p] # 0 /\ s.instance[p] \in Ids
    BY <1>1, <1>3, <1>4, Live
  <2>2. s.place[p] = "battle"
    BY <1>2, <1>4, <2>1 DEF FindPlayer, InsideOK
  <2> QED BY <1>2, <1>4, <2>1, <2>2 DEF InBattle, InsideOK
<1>5. ASSUME ~GetBattleground(s, s.instance[p]), NEW c \in Ids PROVE p \notin s.bg[c].players
  BY <1>1, <1>2, <1>5, Live DEF ParticipantOK
<1>6. ASSUME s.place[p] \in {"away", "coming"}, NEW c \in Ids PROVE p \notin s.bg[c].players
  BY <1>2, <1>6 DEF ParticipantOK
<1>7. InBattle(s, p) => ~Queued(s.queue, p)
  BY <1>2 DEF WaitingOK
<1>8. ASSUME ~Queued(s.queue, p), s.slot[p] # NoSlot, ~InBattle(s, p)
      PROVE  s.slot[p] > 0 /\ Stage(s, s.slot[p]) = "DELETED"
  <2>1. s.slot[p] > 0
    BY <1>2, <1>8 DEF HolderOK
  <2>2. CASE Stage(s, s.slot[p]) = "DELETED"
    BY <2>1, <2>2
  <2>3. CASE s.instance[p] = s.slot[p] /\ s.place[p] \in {"coming", "battle"}
    <3>1. s.instance[p] # 0
      BY <2>1, <2>3
    <3>2. ~GetBattleground(s, s.instance[p])
      BY <1>8, <2>3 DEF InBattle
    <3>3. s.instance[p] \in Ids /\ Stage(s, s.instance[p]) # "LIVE" /\ Stage(s, s.instance[p]) # "NONE"
      BY <1>1, <1>2, <1>3, <3>1, <3>2, Live DEF InsideOK
    <3>4. Stage(s, s.instance[p]) = "DELETED"
      BY <3>3 DEF Stage
    <3> QED BY <2>1, <2>3, <3>4
  <2> QED BY <1>2, <1>8, <2>2, <2>3 DEF HolderOK
<1> QED BY <1>3, <1>4, <1>5, <1>6, <1>7, <1>8

LEMMA EnterGood ==
  ASSUME BInv, NEW p \in Players, Enter(p)
  PROVE  Good(Now')
<1> DEFINE s == Now
           b == GroupInfo(s, p).bg
<1>0. s.slot = slot /\ s.instance = instance
  BY NowIs
<1>1. Good(s) /\ FindPlayer(s, p) /\ s.slot[p] > 0 /\ p \in QueuedPlayers(s) /\ GetBattleground(s, b)
  BY <1>0 DEF BInv, Enter
<1>2. PICK r : /\ \E d : r = RemovePlayer(s, p, d)
               /\ \E d : Become([IF GetBattleground(r, instance[p])
                                 THEN RemovePlayerAtLeave(r, instance[p], p, d) ELSE r
                                 EXCEPT !.instance[p] = b, !.place[p] = "coming"])
  BY Zenon DEF Enter
<1> HIDE DEF s
<1>3. s \in States /\ QueueOK(s.queue) /\ Queued(s.queue, p) /\ PlayerOK(s, p)
  BY <1>1, QueuedPlayersAre DEF Good
<1>4. LeftQueue(s, r, p)
  <2>1. PICK d : r = RemovePlayer(s, p, d)
    BY <1>2
  <2> QED BY <1>3, <2>1, RemovePlayerIs
<1>5. /\ r \in States /\ QueueOK(r.queue) /\ r.events = s.events
      /\ r.slot = s.slot /\ r.instance = s.instance /\ r.place = s.place
      /\ \A x, c, l : Entry(r.queue, x, c, l) <=> x # p /\ Entry(s.queue, x, c, l)
      /\ \A c \in Ids : r.bg[c].status = s.bg[c].status /\ r.bg[c].players = s.bg[c].players
  BY <1>4 DEF LeftQueue
<1>6. ~InBattle(s, p) /\ ~GetBattleground(s, s.instance[p]) /\ s.instance[p] \in 0..MaxBattlegrounds
  BY <1>1, <1>3, Whereabouts
<1>7. SameStages(s, r)
  BY <1>5 DEF SameStages, Stage
<1>8. ~GetBattleground(r, instance[p])
  BY <1>0, <1>3, <1>5, <1>6, <1>7, Live DEF SameStages
<1> DEFINE n == [r EXCEPT !.instance[p] = b, !.place[p] = "coming"]
<1>9. Become(n)
  BY <1>2, <1>8
<1>10. PICK l : Entry(s.queue, p, b, l)
  <2>1. PICK c, l : Entry(s.queue, p, c, l)
    BY <1>3, EntryQueued, Zenon
  <2> QED BY <1>3, <2>1, GroupInfoIs
<1> HIDE DEF b
<1>11. b \in 0..MaxBattlegrounds /\ b # 0 /\ b \in Ids /\ Stage(s, b) = "LIVE"
  <2>1. b \in 0..MaxBattlegrounds
    BY <1>3, <1>10, EntryTyped DEF States
  <2> QED BY <1>1, <1>3, <2>1, Live
<1>12. s.slot[p] = b
  BY <1>1, <1>3, <1>10 DEF PlayerOK, WaitingOK
<1>13. /\ Placed(r, n, p, b, "coming") /\ n.slot = r.slot /\ n.bg = r.bg /\ n.queue = r.queue
       /\ n.events = r.events
  <2>1. n = At(r, p, b, "coming")
    BY Zenon DEF At
  <2>2. "coming" \in Places
    BY DEF Places
  <2>3. r \in States /\ b \in 0..MaxBattlegrounds
    BY <1>5, <1>11
  <2> HIDE DEF n
  <2> QED BY <2>1, <2>2, <2>3, PlacedTyped
<1> HIDE DEF n
<1>14. Placed(s, n, p, b, "coming")
  BY <1>5, <1>13 DEF Placed
<1>15. Moved(s, n, p) /\ SameStages(s, n) /\ n \in States
  BY <1>5, <1>13, <1>14, PlacedMoved DEF Placed
<1>16. n.instance[p] = b /\ n.place[p] = "coming" /\ n.slot[p] = b
  BY <1>5, <1>12, <1>13 DEF Placed
<1>17. \A c, k : ~Entry(n.queue, p, c, k)
  BY <1>5, <1>13
<1>18. ~Queued(n.queue, p)
  BY <1>17, EntryQueued
<1>19. \A c \in Ids : p \notin n.bg[c].players
  BY <1>1, <1>5, <1>6, <1>13, Whereabouts
<1>20. WaitingOK(n, p) /\ EventsOK(n, p) /\ ParticipantOK(n, p)
  BY <1>17, <1>18, <1>19 DEF WaitingOK, EventsOK, ParticipantOK
<1>21. HolderOK(n, p) /\ InsideOK(n, p)
  <2>1. b > 0
    BY <1>11, Facts
  <2>2. Stage(n, b) # "NONE"
    BY <1>11, <1>15 DEF SameStages
  <2> QED BY <1>11, <1>16, <2>1, <2>2 DEF HolderOK, InsideOK
<1>22. Good(n)
  BY <1>1, <1>15, <1>20, <1>21, OneMoves DEF PlayerOK
<1> QED BY <1>9, <1>15, <1>22, BecomeIs

LEMMA AtSame ==
  ASSUME NEW s, s \in States, NEW p \in Players, NEW where
  PROVE  [s EXCEPT !.place[p] = where] = At(s, p, s.instance[p], where)
<1> DEFINE in == [s.instance EXCEPT ![p] = s.instance[p]]
           pl == [s.place EXCEPT ![p] = where]
<1>1. in = s.instance
  BY DEF States
<1>2. At(s, p, s.instance[p], where) = [s EXCEPT !.instance = in, !.place = pl]
  BY DEF At
<1> HIDE DEF in, pl
<1>3. [s EXCEPT !.instance = in, !.place = pl] = [s EXCEPT !.place = pl]
  BY <1>1 DEF States
<1> QED BY <1>2, <1>3 DEF pl

LEMMA LeaveBattlegroundGood ==
  ASSUME BInv, NEW p \in Players, LeaveBattleground(p)
  PROVE  Good(Now')
<1> DEFINE s == Now
           b == s.instance[p]
<1>0. s.instance = instance
  BY NowIs
<1>1. Good(s) /\ FindPlayer(s, p) /\ GetBattleground(s, b)
  BY <1>0 DEF BInv, LeaveBattleground
<1>2. PICK d : Become(RemovePlayerAtLeave(s, b, p, d))
  BY <1>0, Zenon DEF LeaveBattleground
<1> DEFINE r == RemovePlayerAtLeave(s, b, p, d)
<1> HIDE DEF s, r
<1>3. b \in Ids /\ p \in s.bg[b].players
  BY <1>1, Whereabouts
<1> HIDE DEF b
<1>4. LeftBattle(s, r, b, p)
  BY <1>1, <1>3, LeaveIs DEF Good, r
<1>5. Good(r) /\ Become(r)
  BY <1>1, <1>2, <1>3, <1>4, ParticipantLeaves DEF r
<1> QED BY <1>5, BecomeIs DEF Good

\* A player on its way from one place to another, outside every battleground.
LEMMA Departs ==
  ASSUME NEW s, Good(s), NEW p \in Players, ~InBattle(s, p), s.place[p] \in {"world", "battle"},
         NEW r, Placed(s, r, p, s.instance[p], "away"), r.slot = s.slot, r.bg = s.bg, r.queue = s.queue
  PROVE  Good(r)
<1>1. s \in States /\ r \in States /\ PlayerOK(s, p) /\ r.events = s.events /\ QueueOK(r.queue)
  BY DEF Good, Placed
<1>2. Moved(s, r, p) /\ SameStages(s, r)
  BY <1>1, PlacedMoved
<1>3. r.instance[p] = s.instance[p] /\ r.place[p] = "away"
  BY DEF Placed
<1>4. ~InBattle(r, p)
  BY <1>3 DEF InBattle
<1>5. FindPlayer(s, p)
  BY DEF FindPlayer
<1>6. ~GetBattleground(s, s.instance[p])
  BY <1>5, Whereabouts
<1>7. s.instance[p] # 0 => Stage(r, s.instance[p]) # "NONE"
  <2>1. s.instance[p] \in 0..MaxBattlegrounds /\ InsideOK(s, p)
    BY <1>1 DEF States, PlayerOK
  <2> QED BY <1>1, <1>2, <2>1, Live DEF InsideOK, SameStages
<1>8. \A c \in Ids : p \notin r.bg[c].players
  BY <1>6, Whereabouts
<1>9. ~Queued(s.queue, p) /\ s.slot[p] # NoSlot => s.slot[p] > 0 /\ Stage(s, s.slot[p]) = "DELETED"
  BY Whereabouts
<1>10. PlayerOK(r, p)
  BY <1>1, <1>2, <1>3, <1>4, <1>7, <1>8, <1>9, OutsideOK
<1> QED BY <1>2, <1>10, OneMoves

LEMMA TeleportToGood ==
  ASSUME BInv, NEW p \in Players, TeleportTo(p)
  PROVE  Good(Now')
<1> DEFINE s == Now
           b == s.instance[p]
<1>0. s.instance = instance
  BY NowIs
<1>1. Good(s) /\ FindPlayer(s, p)
  BY DEF BInv, TeleportTo
<1>2. PICK r : /\ IF GetBattleground(s, b) THEN \E d : r = RemovePlayerAtLeave(s, b, p, d) ELSE r = s
               /\ Become([r EXCEPT !.place[p] = "away"])
  <2>1. PICK d : Become([IF GetBattleground(s, b) THEN RemovePlayerAtLeave(s, b, p, d) ELSE s
                         EXCEPT !.place[p] = "away"])
    BY <1>0, Zenon DEF TeleportTo
  <2>2. CASE GetBattleground(s, b)
    <3>1. Become([RemovePlayerAtLeave(s, b, p, d) EXCEPT !.place[p] = "away"])
      BY <2>1, <2>2, Zenon
    <3> QED BY <2>2, <3>1, Zenon
  <2>3. CASE ~GetBattleground(s, b)
    <3>1. Become([s EXCEPT !.place[p] = "away"])
      BY <2>1, <2>3, Zenon
    <3> QED BY <2>3, <3>1, Zenon
  <2> QED BY <2>2, <2>3
<1> HIDE DEF s
<1>3. Good(r) /\ ~InBattle(r, p) /\ r.place[p] \in {"world", "battle", "away"}
  <2>1. CASE GetBattleground(s, b)
    <3>1. b \in Ids /\ p \in s.bg[b].players /\ s \in States
      BY <1>1, <2>1, Whereabouts DEF Good
    <3>2. PICK d : r = RemovePlayerAtLeave(s, b, p, d)
      BY <1>2, <2>1
    <3> HIDE DEF b
    <3>3. LeftBattle(s, r, b, p)
      BY <3>1, <3>2, LeaveIs
    <3>4. Good(r)
      BY <1>1, <3>1, <3>3, ParticipantLeaves
    <3>5. r.instance[p] = 0 /\ (r.place[p] = s.place[p] \/ r.place[p] = "away")
      BY <1>1, <3>3 DEF LeftBattle
    <3>6. ~InBattle(r, p)
      BY <3>4, <3>5, Live DEF InBattle, Good
    <3> QED BY <1>1, <3>4, <3>5, <3>6 DEF FindPlayer
  <2>2. CASE ~GetBattleground(s, b)
    <3>1. r = s
      BY <1>2, <2>2
    <3> QED BY <1>1, <2>2, <3>1 DEF InBattle, FindPlayer
  <2> QED BY <2>1, <2>2
<1>4. r \in States /\ r.instance[p] \in 0..MaxBattlegrounds
  BY <1>3 DEF Good, States
<1> DEFINE n == [r EXCEPT !.place[p] = "away"]
<1>5. /\ Placed(r, n, p, r.instance[p], "away") /\ n.slot = r.slot /\ n.bg = r.bg /\ n.queue = r.queue
  <2>1. n = At(r, p, r.instance[p], "away") /\ "away" \in Places
    BY <1>4, AtSame DEF Places
  <2> HIDE DEF n
  <2> QED BY <1>4, <2>1, PlacedTyped
<1>6. Become(n)
  BY <1>2
<1> HIDE DEF n
<1>7. Good(n)
  <2>1. CASE r.place[p] \in {"world", "battle"}
    BY <1>3, <1>5, <2>1, Departs
  <2>2. CASE r.place[p] = "away"
    <3>1. n \in States /\ QueueOK(n.queue)
      BY <1>3, <1>5 DEF Good, Placed
    <3>2. Moved(r, n, p) /\ SameStages(r, n)
      BY <1>5, <3>1, PlacedMoved
    <3>3. SameFor(r, n, p)
      BY <1>5, <2>2 DEF Placed, SameFor
    <3>4. PlayerOK(n, p)
      BY <1>3, <3>1, <3>2, <3>3, Undisturbed DEF Good
    <3> QED BY <1>3, <3>2, <3>4, OneMoves
  <2> QED BY <1>3, <2>1, <2>2
<1> QED BY <1>6, <1>7, BecomeIs DEF Good

LEMMA AtOrder ==
  ASSUME NEW s, s \in States, NEW p \in Players, NEW b, NEW where
  PROVE  [s EXCEPT !.place[p] = where, !.instance[p] = b] = At(s, p, b, where)
<1> DEFINE in == [s.instance EXCEPT ![p] = b]
           pl == [s.place EXCEPT ![p] = where]
<1>1. At(s, p, b, where) = [s EXCEPT !.instance = in, !.place = pl]
  BY DEF At
<1>2. [s EXCEPT !.place[p] = where, !.instance[p] = b] = [s EXCEPT !.place = pl, !.instance = in]
  OBVIOUS
<1> HIDE DEF in, pl
<1>3. [s EXCEPT !.instance = in, !.place = pl] = [s EXCEPT !.place = pl, !.instance = in]
  BY DEF States
<1> QED BY <1>1, <1>2, <1>3

LEMMA PlacedTwice ==
  ASSUME NEW s, NEW r, NEW x, NEW p, NEW b, NEW c, NEW v, NEW w,
         Placed(s, r, p, b, v), Placed(r, x, p, c, w)
  PROVE  Placed(s, x, p, c, w)
BY DEF Placed

\* p has arrived in the battleground b, and takes part if it holds its slot
Entered(s, p, b) ==
  [s EXCEPT !.place[p] = "battle", !.bg[b].players = IF s.slot[p] = b THEN @ \cup {p} ELSE @]

LEMMA EnteredIs ==
  ASSUME NEW s, s \in States, NEW p \in Players, NEW b \in Ids, NEW r, r = Entered(s, p, b)
  PROVE  /\ Placed(s, r, p, s.instance[p], "battle") /\ r.slot = s.slot /\ r.queue = s.queue
         /\ \A c \in Ids : p \in r.bg[c].players <=>
                             p \in s.bg[c].players \/ (c = b /\ s.slot[p] = b)
<1> DEFINE old == s.bg[b]
           ps == IF s.slot[p] = b THEN old.players \cup {p} ELSE old.players
           new == [old EXCEPT !.players = ps]
           nbg == [s.bg EXCEPT ![b] = new]
           pl == [s.place EXCEPT ![p] = "battle"]
<1>1. /\ s.bg \in [Ids -> Battlegrounds] /\ s.place \in [Players -> Places] /\ old \in Battlegrounds
  BY DEF States
<1>2. new \in Battlegrounds /\ new.status = old.status /\ new.players = ps
  <2>1. ps \in SUBSET Players
    BY <1>1 DEF Battlegrounds
  <2> HIDE DEF ps, old
  <2> QED BY <1>1, <2>1 DEF Battlegrounds
<1>3. nbg \in [Ids -> Battlegrounds] /\ nbg[b] = new /\ \A c \in Ids \ {b} : nbg[c] = s.bg[c]
  <2> HIDE DEF new
  <2> QED BY <1>1, <1>2
<1>4. pl \in [Players -> Places] /\ pl[p] = "battle" /\ \A y \in Players \ {p} : pl[y] = s.place[y]
  BY <1>1 DEF Places
<1>5. r = [s EXCEPT !.place = pl, !.bg = nbg]
  BY DEF Entered
<1> HIDE DEF nbg, pl
<1>6. /\ r \in States /\ r.place = pl /\ r.bg = nbg /\ r.slot = s.slot /\ r.queue = s.queue
      /\ r.events = s.events /\ r.instance = s.instance
  BY <1>3, <1>4, <1>5 DEF States
<1> HIDE DEF new
<1>7. \A c \in Ids : r.bg[c].status = s.bg[c].status
  BY <1>2, <1>3, <1>6
<1>8. \A c \in Ids : \A y : y \in r.bg[c].players <=>
         y \in s.bg[c].players \/ (y = p /\ c = b /\ s.slot[p] = b)
  BY <1>2, <1>3, <1>6
<1>9. Placed(s, r, p, s.instance[p], "battle")
  BY <1>4, <1>6, <1>7, <1>8 DEF Placed
<1> QED BY <1>6, <1>8, <1>9

LEMMA ArrivalsAre ==
  ASSUME NEW s, s \in States, NEW p \in Players, NEW r \in Arrivals(s, p)
  PROVE  \/ s.place[p] = "away" /\ r = At(s, p, 0, "world")
         \/ /\ s.place[p] # "away" /\ GetBattleground(s, s.instance[p])
            /\ r = Entered(s, p, s.instance[p])
         \/ /\ s.place[p] # "away" /\ ~GetBattleground(s, s.instance[p])
            /\ \E where \in {"battle", "away"} : r = At(s, p, s.instance[p], where)
<1>1. CASE s.place[p] = "away"
  <2>1. r = [s EXCEPT !.place[p] = "world", !.instance[p] = 0]
    BY <1>1, Zenon DEF Arrivals
  <2>2. \A b, w : [s EXCEPT !.place[p] = w, !.instance[p] = b] = At(s, p, b, w)
    BY AtOrder
  <2> QED BY <1>1, <2>1, <2>2, Zenon
<1>2. CASE s.place[p] # "away" /\ GetBattleground(s, s.instance[p])
  BY <1>2, Zenon DEF Arrivals, Entered
<1>3. CASE s.place[p] # "away" /\ ~GetBattleground(s, s.instance[p])
  <2>1. \/ r = [s EXCEPT !.place[p] = "battle"]
        \/ r = [s EXCEPT !.place[p] = "away"]
    BY <1>3, Zenon DEF Arrivals
  <2>2. \A w : [s EXCEPT !.place[p] = w] = At(s, p, s.instance[p], w)
    BY AtSame
  <2>3. \/ r = At(s, p, s.instance[p], "battle")
        \/ r = At(s, p, s.instance[p], "away")
    BY <2>1, <2>2, Zenon
  <2> QED BY <1>3, <2>3
<1> QED BY <1>1, <1>2, <1>3

LEMMA WorldportAckGood ==
  ASSUME BInv, NEW p \in Players, WorldportAck(p)
  PROVE  Good(Now')
<1> DEFINE s == Now
<1>0. s.place = place
  BY NowIs
<1>1. Good(s) /\ s.place[p] \in {"away", "coming"}
  BY <1>0 DEF BInv, WorldportAck
<1>2. PICK r \in Arrivals(s, p) : Become(r)
  BY Zenon DEF WorldportAck
<1> HIDE DEF s
<1>3. s \in States /\ PlayerOK(s, p) /\ QueueOK(s.queue) /\ s.instance[p] \in 0..MaxBattlegrounds
  BY <1>1 DEF Good, States
<1>4. \A c \in Ids : p \notin s.bg[c].players
  BY <1>1, Whereabouts
<1>5. /\ s.instance[p] # 0 => Stage(s, s.instance[p]) # "NONE"
      /\ Queued(s.queue, p) => ~InBattle(s, p)
  BY <1>3 DEF PlayerOK, InsideOK, WaitingOK
<1>6. ASSUME NEW b \in 0..MaxBattlegrounds, NEW where \in {"world", "battle", "away"},
             r = At(s, p, b, where), ~GetBattleground(s, b), where = "world" => b = 0,
             b # 0 => Stage(s, b) # "NONE", ~InBattle(s, p)
      PROVE  Good(r)
  <2>1. /\ Placed(s, r, p, b, where) /\ r.slot = s.slot /\ r.bg = s.bg /\ r.queue = s.queue
        /\ r.events = s.events
    BY <1>3, <1>6, PlacedTyped DEF Places
  <2>2. Moved(s, r, p) /\ SameStages(s, r) /\ r \in States /\ r.instance[p] = b /\ r.place[p] = where
    BY <1>3, <2>1, PlacedMoved DEF Placed
  <2>3. ~InBattle(r, p)
    BY <1>3, <1>6, <2>2, Live DEF InBattle, SameStages
  <2>4. ~Queued(s.queue, p) /\ s.slot[p] # NoSlot => s.slot[p] > 0 /\ Stage(s, s.slot[p]) = "DELETED"
    BY <1>1, <1>6, Whereabouts
  <2>5. b # 0 => Stage(r, b) # "NONE"
    BY <1>3, <1>6, <2>2, Live DEF SameStages
  <2>6. PlayerOK(r, p)
    BY <1>3, <1>4, <1>6, <2>1, <2>2, <2>3, <2>4, <2>5, OutsideOK
  <2> QED BY <1>1, <2>2, <2>6, OneMoves
<1>7. CASE s.place[p] = "away" /\ r = At(s, p, 0, "world")
  <2>1. ~GetBattleground(s, 0) /\ ~InBattle(s, p) /\ 0 \in 0..MaxBattlegrounds
    BY <1>3, <1>7, Live, Facts DEF InBattle
  <2>2. Good(r)
    BY <1>6, <1>7, <2>1
  <2> QED BY <1>2, <2>2, BecomeIs DEF Good
<1>8. CASE /\ ~GetBattleground(s, s.instance[p])
           /\ \E where \in {"battle", "away"} : r = At(s, p, s.instance[p], where)
  <2>1. PICK where \in {"battle", "away"} : r = At(s, p, s.instance[p], where)
    BY <1>8
  <2>2. ~InBattle(s, p)
    BY <1>8 DEF InBattle
  <2>3. Good(r)
    BY <1>3, <1>5, <1>6, <1>8, <2>1, <2>2
  <2> QED BY <1>2, <2>3, BecomeIs DEF Good
<1>9. CASE /\ s.place[p] # "away" /\ GetBattleground(s, s.instance[p])
           /\ r = Entered(s, p, s.instance[p])
  <2> DEFINE b == s.instance[p]
  <2>1. InBattle(s, p) /\ b \in Ids /\ Stage(s, b) = "LIVE"
    BY <1>1, <1>3, <1>9, Live DEF InBattle
  <2>2. s.slot[p] = b
    BY <1>3, <2>1 DEF PlayerOK, InsideOK
  <2>3. ~Queued(s.queue, p)
    BY <1>5, <2>1
  <2>4. /\ Placed(s, r, p, b, "battle") /\ r.slot = s.slot /\ r.queue = s.queue
        /\ \A c \in Ids : p \in r.bg[c].players <=> p \in s.bg[c].players \/ (c = b /\ s.slot[p] = b)
    BY <1>3, <1>9, <2>1, EnteredIs
  <2> HIDE DEF b
  <2>5. Moved(s, r, p) /\ SameStages(s, r) /\ r \in States /\ r.instance[p] = b /\ r.place[p] = "battle"
    BY <1>3, <2>4, PlacedMoved DEF Placed
  <2>6. \A c \in Ids : p \in r.bg[c].players <=> c = b
    BY <1>4, <2>2, <2>4
  <2>7. \A c, l : ~Entry(r.queue, p, c, l)
    BY <2>3, <2>4, EntryQueued
  <2>8. WaitingOK(r, p) /\ EventsOK(r, p)
    BY <2>3, <2>4, <2>7 DEF WaitingOK, EventsOK
  <2>9. b > 0 /\ Stage(r, b) = "LIVE" /\ r.slot[p] = b
    BY <2>1, <2>2, <2>4, <2>5, Facts DEF SameStages, Ids
  <2>10. HolderOK(r, p) /\ InsideOK(r, p) /\ ParticipantOK(r, p)
    BY <2>1, <2>5, <2>6, <2>9 DEF HolderOK, InsideOK, ParticipantOK
  <2>11. Good(r)
    BY <1>1, <2>5, <2>8, <2>10, OneMoves DEF PlayerOK
  <2> QED BY <1>2, <2>11, BecomeIs DEF Good
<1> QED BY <1>2, <1>3, <1>7, <1>8, <1>9, ArrivalsAre

LEMMA OfflineStill ==
  ASSUME NEW s, s \in States, NEW b \in Ids, NEW o \in Seq(Players)
  PROVE  Still(s, [s EXCEPT !.bg[b].offline = o])
<1> DEFINE old == s.bg[b]
           new == [old EXCEPT !.offline = o]
           nbg == [s.bg EXCEPT ![b] = new]
<1>1. s.bg \in [Ids -> Battlegrounds] /\ old \in Battlegrounds
  BY DEF States
<1>2. new \in Battlegrounds /\ new.status = old.status /\ new.players = old.players
  <2> HIDE DEF old
  <2> QED BY <1>1 DEF Battlegrounds
<1>3. [s EXCEPT !.bg[b].offline = o] = [s EXCEPT !.bg = nbg]
  OBVIOUS
<1> DEFINE r == [s EXCEPT !.bg = nbg]
<1>4. nbg \in [Ids -> Battlegrounds]
      /\ \A c \in Ids : nbg[c].status = s.bg[c].status /\ nbg[c].players = s.bg[c].players
  <2> HIDE DEF new
  <2> QED BY <1>1, <1>2
<1> HIDE DEF nbg
<1>5. r \in States /\ r.queue = s.queue /\ r.events = s.events
      /\ r.slot = s.slot /\ r.instance = s.instance /\ r.place = s.place /\ r.bg = nbg
  BY <1>4 DEF States
<1> HIDE DEF r
<1>6. Still(s, r)
  BY <1>4, <1>5 DEF Still
<1> QED BY <1>3, <1>6 DEF r

LEMMA LoggedOutStill ==
  ASSUME NEW s, s \in States, NEW p \in Players
  PROVE  Still(s, EventPlayerLoggedOut(s, s.instance[p], p))
<1> DEFINE b == s.instance[p]
<1>1. b \in 0..MaxBattlegrounds
  BY DEF States
<1>2. CASE GetBattleground(s, b) /\ p \in s.bg[b].players
  <2>1. b \in Ids
    BY <1>1, <1>2, Live
  <2> HIDE DEF b
  <2> DEFINE o == Append(s.bg[b].offline, p)
  <2>2. o \in Seq(Players)
    <3>1. s.bg[b].offline \in Seq(Players)
      BY <2>1 DEF States, Battlegrounds
    <3> QED BY <3>1, AppendProperties
  <2>3. EventPlayerLoggedOut(s, b, p) = [s EXCEPT !.bg[b].offline = o]
    BY <1>2 DEF EventPlayerLoggedOut
  <2> HIDE DEF o
  <2> QED BY <2>1, <2>2, <2>3, OfflineStill DEF b
<1>3. CASE ~(GetBattleground(s, b) /\ p \in s.bg[b].players)
  <2>1. EventPlayerLoggedOut(s, b, p) = s
    BY <1>3, Zenon DEF EventPlayerLoggedOut
  <2> QED BY <2>1, StillItself
<1> QED BY <1>2, <1>3

\* p, who holds no slot, is somewhere else; only one far teleport of its own ends its stay
Landed(s, r, p) ==
  /\ \E b, w : Placed(s, r, p, b, w)
  /\ r.slot = s.slot /\ r.queue = s.queue
  /\ \A c \in Ids : p \in r.bg[c].players <=> p \in s.bg[c].players
  /\ r.instance[p] # s.instance[p] => r.instance[p] = 0 /\ s.place[p] \notin {"world", "battle", "offline"}

LEMMA ArrivalLands ==
  ASSUME NEW s, s \in States, NEW p \in Players, s.slot[p] = NoSlot, s.place[p] \in {"away", "coming"},
         NEW r \in Arrivals(s, p)
  PROVE  Landed(s, r, p) /\ r \in States
<1>1. s.instance[p] \in 0..MaxBattlegrounds /\ 0 \in 0..MaxBattlegrounds
  BY Facts DEF States
<1>2. ASSUME NEW b \in 0..MaxBattlegrounds, NEW where \in Places, r = At(s, p, b, where),
             b = s.instance[p] \/ b = 0
      PROVE  Landed(s, r, p) /\ r \in States
  <2>1. /\ Placed(s, r, p, b, where) /\ r.slot = s.slot /\ r.bg = s.bg /\ r.queue = s.queue
    BY <1>2, PlacedTyped
  <2>2. r.instance[p] = b /\ r \in States
    BY <2>1 DEF Placed
  <2>3. \E c, w : Placed(s, r, p, c, w)
    BY <2>1
  <2> QED BY <1>2, <2>1, <2>2, <2>3 DEF Landed
<1>3. CASE r = At(s, p, 0, "world")
  BY <1>1, <1>2, <1>3 DEF Places
<1>4. CASE \E where \in {"battle", "away"} : r = At(s, p, s.instance[p], where)
  <2>1. PICK where \in {"battle", "away"} : r = At(s, p, s.instance[p], where)
    BY <1>4
  <2> QED BY <1>1, <1>2, <2>1 DEF Places
<1>5. CASE GetBattleground(s, s.instance[p]) /\ r = Entered(s, p, s.instance[p])
  <2> DEFINE b == s.instance[p]
  <2>1. b \in Ids /\ b # NoSlot
    BY <1>1, <1>5, Live, Facts DEF NoSlot
  <2>2. /\ Placed(s, r, p, b, "battle") /\ r.slot = s.slot /\ r.queue = s.queue
        /\ \A c \in Ids : p \in r.bg[c].players <=> p \in s.bg[c].players \/ (c = b /\ s.slot[p] = b)
    BY <1>5, <2>1, EnteredIs
  <2>3. r.instance[p] = b /\ r \in States
    BY <2>2 DEF Placed
  <2>4. \E c, w : Placed(s, r, p, c, w)
    BY <2>2
  <2> QED BY <2>1, <2>2, <2>3, <2>4 DEF Landed
<1> QED BY <1>3, <1>4, <1>5, ArrivalsAre

LEMMA LandingLands ==
  ASSUME NEW s, s \in States, NEW p \in Players, s.slot[p] = NoSlot, s.place[p] # "offline",
         NEW x \in Landings(s, p)
  PROVE  Landed(s, x, p) /\ x \in States
<1>1. ASSUME NEW r, r = s PROVE Landed(s, r, p)
  <2>1. Placed(s, s, p, s.instance[p], s.place[p])
    BY DEF Placed
  <2>2. \E b, w : Placed(s, s, p, b, w)
    BY <2>1
  <2> QED BY <1>1, <2>2 DEF Landed
<1>2. CASE FindPlayer(s, p)
  <2>1. x = s
    BY <1>2, Zenon DEF Landings
  <2> QED BY <1>1, <2>1
<1>3. CASE ~FindPlayer(s, p)
  <2>1. s.place[p] \in {"away", "coming"}
    <3>1. s.place[p] \in Places
      BY DEF States
    <3> QED BY <1>3, <3>1 DEF FindPlayer, Places
  <2>2. PICK r \in Arrivals(s, p) : x \in IF FindPlayer(r, p) THEN {r} ELSE Arrivals(r, p)
    BY <1>3, Zenon DEF Landings
  <2>3. Landed(s, r, p) /\ r \in States
    BY <2>1, ArrivalLands
  <2>4. CASE FindPlayer(r, p)
    <3>1. x = r
      BY <2>2, <2>4, Zenon
    <3> QED BY <2>3, <3>1
  <2>5. CASE ~FindPlayer(r, p)
    <3>1. x \in Arrivals(r, p)
      BY <2>2, <2>5, Zenon
    <3>2. r.place[p] \in {"away", "coming"} /\ r.slot[p] = NoSlot
      <4>1. \/ r = At(s, p, 0, "world")
            \/ GetBattleground(s, s.instance[p]) /\ r = Entered(s, p, s.instance[p])
            \/ \E where \in {"battle", "away"} : r = At(s, p, s.instance[p], where)
        BY ArrivalsAre
      <4>2. s.instance[p] \in 0..MaxBattlegrounds /\ 0 \in 0..MaxBattlegrounds
        BY Facts DEF States
      <4>3. CASE r = At(s, p, 0, "world")
        <5>1. Placed(s, r, p, 0, "world")
          BY <4>2, <4>3, PlacedTyped DEF Places
        <5> QED BY <2>5, <5>1 DEF Placed, FindPlayer
      <4>4. CASE GetBattleground(s, s.instance[p]) /\ r = Entered(s, p, s.instance[p])
        <5>1. s.instance[p] \in Ids
          BY <4>2, <4>4, Live
        <5>2. Placed(s, r, p, s.instance[p], "battle")
          BY <4>4, <5>1, EnteredIs
        <5> QED BY <2>5, <5>2 DEF Placed, FindPlayer
      <4>5. CASE \E where \in {"battle", "away"} : r = At(s, p, s.instance[p], where)
        <5>1. PICK where \in {"battle", "away"} : r = At(s, p, s.instance[p], where)
          BY <4>5
        <5>2. Placed(s, r, p, s.instance[p], where)
          BY <4>2, <5>1, PlacedTyped DEF Places
        <5> QED BY <2>3, <2>5, <5>2 DEF Placed, FindPlayer, Landed
      <4> QED BY <4>1, <4>3, <4>4, <4>5
    <3>3. Landed(r, x, p) /\ x \in States
      BY <2>3, <3>1, <3>2, ArrivalLands
    <3>4. \E b, w : Placed(s, x, p, b, w)
      <4>1. PICK b, w : Placed(s, r, p, b, w)
        BY <2>3 DEF Landed
      <4>2. PICK c, v : Placed(r, x, p, c, v)
        BY <3>3 DEF Landed
      <4>3. Placed(s, x, p, c, v)
        BY <4>1, <4>2, PlacedTwice
      <4> QED BY <4>3
    <3>5. x.instance[p] # s.instance[p] => x.instance[p] = 0
      BY <2>3, <3>3 DEF Landed
    <3>6. /\ x.slot = s.slot /\ x.queue = s.queue
          /\ \A c \in Ids : p \in x.bg[c].players <=> p \in s.bg[c].players
      BY <2>3, <3>3 DEF Landed
    <3> QED BY <2>1, <3>3, <3>4, <3>5, <3>6 DEF Landed
  <2> QED BY <2>4, <2>5
<1> QED BY <1>2, <1>3

\* p has no slot and is in no group
Cleared(s, r, p) ==
  /\ r \in States /\ QueueOK(r.queue) /\ r.events = s.events
  /\ \A x, b, l : Entry(r.queue, x, b, l) <=> x # p /\ Entry(s.queue, x, b, l)
  /\ r.slot[p] = NoSlot /\ \A y \in Players \ {p} : r.slot[y] = s.slot[y]
  /\ r.instance = s.instance /\ r.place = s.place
  /\ \A b \in Ids : r.bg[b].status = s.bg[b].status /\ r.bg[b].players = s.bg[b].players

LEMMA ClearedIs ==
  ASSUME NEW s, Good(s), NEW p \in Players, NEW o, Still(s, o), NEW d, NEW r,
         r = IF s.slot[p] # NoSlot THEN RemovePlayer(RemoveQueueId(o, p), p, d) ELSE o
  PROVE  Cleared(s, r, p)
<1>1. /\ o \in States /\ QueueOK(o.queue) /\ o.queue = s.queue /\ o.events = s.events /\ o.slot = s.slot
      /\ o.instance = s.instance /\ o.place = s.place
      /\ \A b \in Ids : o.bg[b].status = s.bg[b].status /\ o.bg[b].players = s.bg[b].players
  BY DEF Still, Good
<1>2. CASE s.slot[p] # NoSlot
  <2> DEFINE x == RemoveQueueId(o, p)
  <2>1. x \in States /\ QueueOK(x.queue)
    BY <1>1, DequeueTyped
  <2>2. /\ x.slot = [o.slot EXCEPT ![p] = NoSlot] /\ x.queue = o.queue /\ x.events = o.events
        /\ x.instance = o.instance /\ x.place = o.place /\ x.bg = o.bg
    BY <1>1 DEF RemoveQueueId, States
  <2>3. x.slot[p] = NoSlot /\ \A y \in Players \ {p} : x.slot[y] = s.slot[y]
    BY <1>1, <2>2 DEF States
  <2>4. r = RemovePlayer(x, p, d)
    BY <1>2
  <2> HIDE DEF x
  <2>5. LeftQueue(x, r, p)
    BY <2>1, <2>4, RemovePlayerIs
  <2>6. /\ r \in States /\ QueueOK(r.queue) /\ r.events = x.events /\ r.slot = x.slot
        /\ r.instance = x.instance /\ r.place = x.place
        /\ \A y, b, l : Entry(r.queue, y, b, l) <=> y # p /\ Entry(x.queue, y, b, l)
        /\ \A b \in Ids : r.bg[b].status = x.bg[b].status /\ r.bg[b].players = x.bg[b].players
    BY <2>5 DEF LeftQueue
  <2>7. /\ x.events = s.events /\ x.queue = s.queue /\ x.instance = s.instance /\ x.place = s.place
        /\ \A b \in Ids : x.bg[b].status = s.bg[b].status /\ x.bg[b].players = s.bg[b].players
    BY <1>1, <2>2
  <2> QED BY <2>3, <2>6, <2>7 DEF Cleared
<1>3. CASE s.slot[p] = NoSlot
  <2>1. r = o
    BY <1>3
  <2>2. ASSUME NEW b, NEW l, Entry(s.queue, p, b, l) PROVE FALSE
    <3>1. s.slot[p] \in {0, b} /\ b \in 0..MaxBattlegrounds
      BY <2>2, EntryTyped DEF Good, PlayerOK, WaitingOK, QueueOK
    <3> QED BY <1>3, <3>1, Facts DEF NoSlot
  <2> QED BY <1>1, <1>3, <2>1, <2>2 DEF Cleared
<1> QED BY <1>2, <1>3

LEMMA LogoutGood ==
  ASSUME BInv, NEW p \in Players, Logout(p)
  PROVE  Good(Now')
<1> DEFINE s == Now
           o == EventPlayerLoggedOut(s, s.instance[p], p)
<1>0. s.slot = slot /\ s.instance = instance /\ s.place = place
  BY NowIs
<1>1. Good(s) /\ s.place[p] # "offline"
  BY <1>0 DEF BInv, Logout
<1>2. PICK c : /\ \E d : c = IF s.slot[p] # NoSlot THEN RemovePlayer(RemoveQueueId(o, p), p, d) ELSE o
               /\ \E r \in Landings(c, p) : Become([r EXCEPT !.place[p] = "offline"])
  BY <1>0, Zenon DEF Logout
<1>3. PICK r \in Landings(c, p) : Become([r EXCEPT !.place[p] = "offline"])
  BY <1>2
<1> HIDE DEF s
<1>4. s \in States /\ PlayerOK(s, p)
  BY <1>1 DEF Good
<1>5. Still(s, o)
  BY <1>4, LoggedOutStill
<1> HIDE DEF o
<1>6. Cleared(s, c, p)
  BY <1>1, <1>2, <1>5, ClearedIs
<1>7. c \in States /\ c.slot[p] = NoSlot /\ c.place[p] # "offline"
  BY <1>1, <1>6 DEF Cleared
<1>8. Landed(c, r, p) /\ r \in States
  BY <1>3, <1>7, LandingLands
<1> DEFINE n == [r EXCEPT !.place[p] = "offline"]
           b == r.instance[p]
<1>9. b \in 0..MaxBattlegrounds
  BY <1>8 DEF States
<1>10. /\ Placed(r, n, p, b, "offline") /\ n.slot = r.slot /\ n.bg = r.bg /\ n.queue = r.queue
  <2>1. n = At(r, p, b, "offline") /\ "offline" \in Places
    BY <1>8, AtSame DEF Places
  <2> HIDE DEF n
  <2> QED BY <1>8, <1>9, <2>1, PlacedTyped
<1>11. Become(n)
  BY <1>3
<1> HIDE DEF n
<1>12. PICK v, w : Placed(c, r, p, v, w)
  BY <1>8 DEF Landed
<1>13. Placed(c, n, p, b, "offline")
  BY <1>10, <1>12, PlacedTwice
<1>14. n.queue = c.queue /\ n.slot = c.slot
       /\ \A x \in Ids : p \in n.bg[x].players <=> p \in c.bg[x].players
  BY <1>8, <1>10 DEF Landed
<1>15. b = s.instance[p] \/ (b = 0 /\ s.place[p] \notin {"world", "battle", "offline"})
  BY <1>6, <1>8 DEF Landed, Cleared
<1> HIDE DEF b
<1>16. Placed(s, n, p, b, "offline")
  BY <1>6, <1>13 DEF Placed, Cleared
<1>17. QueueOK(n.queue) /\ \A y, x, l : y # p => (Entry(n.queue, y, x, l) <=> Entry(s.queue, y, x, l))
  BY <1>6, <1>14 DEF Cleared
<1>18. Moved(s, n, p) /\ SameStages(s, n)
  BY <1>16, <1>17, PlacedMoved
<1>19. n.slot[p] = NoSlot /\ n.place[p] = "offline" /\ n.instance[p] = b
  BY <1>7, <1>14, <1>16 DEF Placed
<1>20. \A x, l : ~Entry(n.queue, p, x, l)
  BY <1>6, <1>14 DEF Cleared
<1>21. ~Queued(n.queue, p)
  BY <1>20, EntryQueued
<1>22. WaitingOK(n, p) /\ EventsOK(n, p) /\ HolderOK(n, p)
  BY <1>19, <1>20, <1>21 DEF WaitingOK, EventsOK, HolderOK
<1>23. InsideOK(n, p)
  <2>1. ~InBattle(n, p)
    BY <1>19 DEF InBattle
  <2>2. b # 0 => b = s.instance[p] /\ b \in Ids /\ Stage(s, b) # "NONE"
    BY <1>4, <1>9, <1>15, Live DEF PlayerOK, InsideOK
  <2>3. b # 0 => Stage(n, b) # "NONE"
    BY <1>18, <2>2 DEF SameStages
  <2> QED BY <1>19, <2>1, <2>3 DEF InsideOK
<1>24. ParticipantOK(n, p)
  <2>1. ASSUME NEW x \in Ids, p \in n.bg[x].players
        PROVE  Stage(n, x) = "LIVE" /\ n.instance[p] = x
    <3>1. p \in s.bg[x].players
      BY <1>6, <1>14, <2>1 DEF Cleared
    <3>2. Stage(s, x) = "LIVE" /\ s.instance[p] = x /\ s.place[p] = "battle"
      BY <1>1, <1>4, <3>1 DEF PlayerOK, ParticipantOK
    <3> QED BY <1>15, <1>18, <1>19, <3>2 DEF SameStages
  <2> QED BY <1>19, <2>1 DEF ParticipantOK
<1>25. Good(n)
  BY <1>1, <1>18, <1>22, <1>23, <1>24, OneMoves DEF PlayerOK
<1> QED BY <1>11, <1>25, BecomeIs DEF Good

LEMMA LoginGood ==
  ASSUME BInv, NEW p \in Players, Login(p)
  PROVE  Good(Now')
<1> DEFINE s == Now
           b == s.instance[p]
           back == GetBattleground(s, b) /\ p \in s.bg[b].players
<1>0. s.slot = slot /\ s.instance = instance /\ s.place = place /\ s.bg = bg
  BY NowIs
<1>1. Good(s) /\ s.place[p] = "offline"
  BY <1>0 DEF BInv, Login
<1>2. \/ /\ back
         /\ Become([s EXCEPT !.slot[p] = b, !.place[p] = "battle",
                             !.bg[b].offline = RemoveFirst(@, p)])
      \/ \E r : /\ IF back THEN \E d : r = RemovePlayerAtLeave(s, b, p, d) ELSE r = s
                /\ Become([r EXCEPT !.instance[p] = 0, !.place[p] = "world"])
  <2>1. CASE back /\ Open(s, b)
    BY <1>0, <2>1, Zenon DEF Login
  <2>2. CASE back /\ ~Open(s, b)
    <3>1. PICK d : Become([RemovePlayerAtLeave(s, b, p, d) EXCEPT !.instance[p] = 0, !.place[p] = "world"])
      BY <1>0, <2>2, Zenon DEF Login
    <3> QED BY <2>2, <3>1, Zenon
  <2>3. CASE ~back
    <3>1. Become([s EXCEPT !.instance[p] = 0, !.place[p] = "world"])
      BY <1>0, <2>3, Zenon DEF Login
    <3> QED BY <2>3, <3>1, Zenon
  <2> QED BY <2>1, <2>2, <2>3
<1> HIDE DEF s
<1>3. s \in States /\ PlayerOK(s, p) /\ QueueOK(s.queue) /\ b \in 0..MaxBattlegrounds
  BY <1>1 DEF Good, States
<1>4. ~Queued(s.queue, p)
  BY <1>1, <1>3 DEF PlayerOK, WaitingOK
<1>5. CASE /\ back
           /\ Become([s EXCEPT !.slot[p] = b, !.place[p] = "battle",
                               !.bg[b].offline = RemoveFirst(@, p)])
  <2>1. b \in Ids /\ Stage(s, b) = "LIVE"
    BY <1>3, <1>5, Live
  <2> DEFINE sl == [s.slot EXCEPT ![p] = b]
             pl == [s.place EXCEPT ![p] = "battle"]
             x == [s EXCEPT !.slot = sl, !.place = pl]
             o == RemoveFirst(s.bg[b].offline, p)
             n == [x EXCEPT !.bg[b].offline = o]
  <2>2. sl \in [Players -> NoSlot..MaxBattlegrounds] /\ pl \in [Players -> Places]
    <3>1. b \in NoSlot..MaxBattlegrounds /\ "battle" \in Places
      BY <1>3 DEF NoSlot, Places
    <3> HIDE DEF b
    <3> QED BY <1>3, <3>1 DEF States
  <2>3. /\ sl[p] = b /\ pl[p] = "battle"
        /\ \A y \in Players \ {p} : sl[y] = s.slot[y] /\ pl[y] = s.place[y]
    BY <1>3 DEF States
  <2>4. Become(n)
    <3>1. n = [s EXCEPT !.slot[p] = b, !.place[p] = "battle", !.bg[b].offline = RemoveFirst(@, p)]
      <4>1. x.bg = s.bg
        BY <1>3 DEF States
      <4> QED BY <4>1
    <3> QED BY <1>5, <3>1
  <2> HIDE DEF sl, pl
  <2>5. /\ x \in States /\ x.slot = sl /\ x.place = pl /\ x.queue = s.queue /\ x.events = s.events
        /\ x.instance = s.instance /\ x.bg = s.bg
    BY <1>3, <2>2 DEF States
  <2>6. o \in Seq(Players)
    <3>1. s.bg[b].offline \in Seq(Players)
      BY <1>3, <2>1 DEF States, Battlegrounds
    <3> QED BY <3>1, RemoveFirstTyped
  <2> HIDE DEF x, o, b
  <2>7. Still(x, n)
    BY <2>1, <2>5, <2>6, OfflineStill
  <2> HIDE DEF n
  <2>8. /\ n \in States /\ n.slot = sl /\ n.place = pl /\ n.queue = s.queue /\ n.events = s.events
        /\ n.instance = s.instance
        /\ \A c \in Ids : n.bg[c].status = s.bg[c].status /\ n.bg[c].players = s.bg[c].players
    BY <2>5, <2>7 DEF Still
  <2>9. SameStages(s, n)
    BY <2>8 DEF SameStages, Stage
  <2>10. ASSUME NEW y \in Players \ {p} PROVE SameFor(s, n, y)
    BY <2>3, <2>8 DEF SameFor
  <2>11. Moved(s, n, p)
    BY <1>3, <2>8, <2>9, <2>10 DEF Moved
  <2>12. n.slot[p] = b /\ n.place[p] = "battle" /\ n.instance[p] = b
    BY <2>3, <2>8 DEF b
  <2>13. \A c, l : ~Entry(n.queue, p, c, l)
    BY <1>4, <2>8, EntryQueued
  <2>14. WaitingOK(n, p) /\ EventsOK(n, p)
    BY <1>4, <2>8, <2>13 DEF WaitingOK, EventsOK
  <2>15. b > 0 /\ Stage(n, b) = "LIVE" /\ p \in n.bg[b].players
    BY <1>5, <2>1, <2>8, <2>9, Facts DEF SameStages, Ids
  <2>16. \A c \in Ids : p \in n.bg[c].players => c = b
    BY <1>3, <2>8 DEF PlayerOK, ParticipantOK, b
  <2>17. HolderOK(n, p) /\ InsideOK(n, p) /\ ParticipantOK(n, p)
    BY <2>12, <2>15, <2>16 DEF HolderOK, InsideOK, ParticipantOK
  <2>18. Good(n)
    BY <1>1, <2>11, <2>14, <2>17, OneMoves DEF PlayerOK
  <2> QED BY <2>4, <2>18, BecomeIs DEF Good
<1>6. CASE \E r : /\ IF back THEN \E d : r = RemovePlayerAtLeave(s, b, p, d) ELSE r = s
                  /\ Become([r EXCEPT !.instance[p] = 0, !.place[p] = "world"])
  <2>1. PICK r : /\ IF back THEN \E d : r = RemovePlayerAtLeave(s, b, p, d) ELSE r = s
                 /\ Become([r EXCEPT !.instance[p] = 0, !.place[p] = "world"])
    BY <1>6
  <2>2. /\ Good(r) /\ r.queue = s.queue /\ r.place[p] = "offline"
        /\ \A c \in Ids : p \notin r.bg[c].players
    <3>0. \A c \in Ids : p \in s.bg[c].players => c = b /\ GetBattleground(s, b)
      BY <1>3, Live DEF PlayerOK, ParticipantOK
    <3>1. CASE back
      <4>1. b \in Ids
        BY <1>3, <3>1, Live
      <4>2. PICK d : r = RemovePlayerAtLeave(s, b, p, d)
        BY <2>1, <3>1
      <4> HIDE DEF b
      <4>3. LeftBattle(s, r, b, p)
        BY <1>3, <4>1, <4>2, LeaveIs
      <4>4. Good(r)
        BY <1>1, <3>1, <4>1, <4>3, ParticipantLeaves
      <4>5. r.queue = s.queue /\ r.place[p] = "offline"
        BY <1>1, <4>3 DEF LeftBattle, FindPlayer
      <4>6. \A c \in Ids : p \notin r.bg[c].players
        BY <3>0, <4>3 DEF LeftBattle
      <4> QED BY <4>4, <4>5, <4>6
    <3>2. CASE ~back
      <4>1. r = s
        BY <2>1, <3>2
      <4>2. \A c \in Ids : p \notin s.bg[c].players
        BY <3>0, <3>2
      <4> QED BY <1>1, <4>1, <4>2
    <3> QED BY <3>1, <3>2
  <2> DEFINE n == [r EXCEPT !.instance[p] = 0, !.place[p] = "world"]
  <2>3. r \in States /\ QueueOK(r.queue) /\ PlayerOK(r, p) /\ 0 \in 0..MaxBattlegrounds
    BY <2>2, Facts DEF Good
  <2>4. /\ Placed(r, n, p, 0, "world") /\ n.slot = r.slot /\ n.bg = r.bg /\ n.queue = r.queue
    <3>1. n = At(r, p, 0, "world") /\ "world" \in Places
      BY DEF At, Places
    <3> HIDE DEF n
    <3> QED BY <2>3, <3>1, PlacedTyped
  <2>5. Become(n)
    BY <2>1
  <2> HIDE DEF n
  <2>6. Moved(r, n, p) /\ SameStages(r, n) /\ n \in States /\ n.events = r.events
    BY <2>3, <2>4, PlacedMoved DEF Placed
  <2>7. n.instance[p] = 0 /\ n.place[p] = "world"
    BY <2>4 DEF Placed
  <2>8. ~InBattle(n, p) /\ ~InBattle(r, p)
    BY <2>2, <2>7 DEF InBattle
  <2>9. ~Queued(r.queue, p) /\ r.slot[p] # NoSlot => r.slot[p] > 0 /\ Stage(r, r.slot[p]) = "DELETED"
    BY <2>2, <2>8, Whereabouts
  <2>10. PlayerOK(n, p)
    BY <2>2, <2>3, <2>4, <2>6, <2>7, <2>8, <2>9, OutsideOK
  <2>11. Good(n)
    BY <2>2, <2>6, <2>10, OneMoves
  <2> QED BY <2>5, <2>11, BecomeIs DEF Good
<1> QED BY <1>2, <1>5, <1>6

\* Everybody sees the same, and the battleground b is created or, empty, deleted.
Restaged(s, r, b) ==
  /\ r \in States /\ r.queue = s.queue /\ r.events = s.events
  /\ r.slot = s.slot /\ r.instance = s.instance /\ r.place = s.place
  /\ \A c \in Ids : r.bg[c].players = s.bg[c].players
  /\ \A c \in Ids : c # b => r.bg[c].status = s.bg[c].status
  /\ \/ Stage(s, b) = "LIVE" /\ Stage(r, b) = "LIVE"
     \/ Stage(s, b) = "LIVE" /\ s.bg[b].players = {} /\ Stage(r, b) = "DELETED"
     \/ Stage(s, b) = "NONE" /\ Stage(r, b) = "LIVE"

LEMMA RestagedGood ==
  ASSUME NEW s, Good(s), NEW b \in Ids, NEW r, Restaged(s, r, b)
  PROVE  Good(r)
<1>1. s \in States /\ r \in States /\ QueueOK(r.queue)
  BY DEF Good, Restaged
<1>2. \A c \in Ids : c # b => Stage(r, c) = Stage(s, c)
  BY DEF Restaged, Stage
<1>3. /\ r.queue = s.queue /\ r.events = s.events
      /\ r.slot = s.slot /\ r.instance = s.instance /\ r.place = s.place
      /\ \A c \in Ids : r.bg[c].players = s.bg[c].players
  BY DEF Restaged
<1>4. \/ Stage(s, b) = "LIVE" /\ Stage(r, b) = "LIVE"
      \/ Stage(s, b) = "LIVE" /\ s.bg[b].players = {} /\ Stage(r, b) = "DELETED"
      \/ Stage(s, b) = "NONE" /\ Stage(r, b) = "LIVE"
  BY DEF Restaged
<1>5. \A c \in Ids : /\ Stage(s, c) # "NONE" => Stage(r, c) # "NONE"
                     /\ Stage(s, c) = "DELETED" => Stage(r, c) = "DELETED"
  BY <1>2, <1>4
<1>6. ASSUME NEW p \in Players PROVE PlayerOK(r, p)
  <2>1. WaitingOK(s, p) /\ HolderOK(s, p) /\ InsideOK(s, p) /\ ParticipantOK(s, p) /\ EventsOK(s, p)
    BY DEF Good, PlayerOK
  <2>2. s.instance[p] \in 0..MaxBattlegrounds /\ s.slot[p] \in NoSlot..MaxBattlegrounds
    BY <1>1 DEF States
  <2>3. InBattle(r, p) => InBattle(s, p)
    <3>1. ASSUME InBattle(r, p) PROVE GetBattleground(s, s.instance[p])
      <4>1. s.instance[p] \in Ids /\ Stage(r, s.instance[p]) = "LIVE"
        BY <1>1, <1>3, <2>2, <3>1, Live DEF InBattle
      <4>2. s.instance[p] # 0
        BY <1>1, <4>1, Live
      <4>3. Stage(s, s.instance[p]) # "NONE"
        BY <2>1, <4>2 DEF InsideOK
      <4>4. Stage(s, s.instance[p]) = "LIVE"
        BY <1>2, <1>4, <4>1, <4>3
      <4> QED BY <1>1, <4>1, <4>4, Live
    <3> QED BY <1>3, <3>1 DEF InBattle
  <2>4. WaitingOK(r, p)
    <3>1. ASSUME NEW c, NEW l, Entry(s.queue, p, c, l), c # 0 PROVE Stage(r, c) # "NONE"
      <4>1. c \in Ids
        BY <1>1, <3>1, EntryTyped, Live DEF States
      <4> QED BY <1>5, <2>1, <3>1, <4>1 DEF WaitingOK
    <3> QED BY <1>3, <2>1, <2>3, <3>1 DEF WaitingOK
  <2>5. HolderOK(r, p)
    <3>1. s.slot[p] > 0 => s.slot[p] \in Ids
      BY <2>2, Facts DEF NoSlot, Ids
    <3> QED BY <1>3, <1>5, <2>1, <3>1 DEF HolderOK
  <2>6. InsideOK(r, p)
    <3>1. s.instance[p] # 0 => s.instance[p] \in Ids
      BY <1>1, <2>2, Live
    <3>2. InBattle(s, p) => s.instance[p] \in Ids
      BY <1>1, <2>2, Live DEF InBattle
    <3> QED BY <1>3, <1>5, <2>1, <2>3, <3>1, <3>2 DEF InsideOK
  <2>7. ParticipantOK(r, p)
    BY <1>2, <1>3, <1>4, <2>1 DEF ParticipantOK
  <2>8. EventsOK(r, p)
    BY <1>3, <2>1 DEF EventsOK
  <2> QED BY <2>4, <2>5, <2>6, <2>7, <2>8 DEF PlayerOK
<1> QED BY <1>1, <1>6 DEF Good

\* the status of a battleground changes
WithStatus(s, b, st) == [s EXCEPT !.bg[b].status = st]

LEMMA StatusIs ==
  ASSUME NEW s, s \in States, NEW b \in Ids, NEW st \in Statuses, NEW r,
         r = WithStatus(s, b, st)
  PROVE  /\ r \in States /\ r.queue = s.queue /\ r.events = s.events
         /\ r.slot = s.slot /\ r.instance = s.instance /\ r.place = s.place
         /\ \A c \in Ids : r.bg[c].players = s.bg[c].players
         /\ \A c \in Ids : r.bg[c].status = IF c = b THEN st ELSE s.bg[c].status
<1> DEFINE old == s.bg[b]
           new == [old EXCEPT !.status = st]
           nbg == [s.bg EXCEPT ![b] = new]
<1>1. s.bg \in [Ids -> Battlegrounds] /\ old \in Battlegrounds
  BY DEF States
<1>2. new \in Battlegrounds /\ new.status = st /\ new.players = old.players
  <2> HIDE DEF old
  <2> QED BY <1>1 DEF Battlegrounds
<1>3. r = [s EXCEPT !.bg = nbg]
  BY DEF WithStatus
<1>4. nbg \in [Ids -> Battlegrounds]
      /\ \A c \in Ids : /\ nbg[c].status = IF c = b THEN st ELSE s.bg[c].status
                        /\ nbg[c].players = s.bg[c].players
  <2> HIDE DEF new
  <2> QED BY <1>1, <1>2
<1> HIDE DEF nbg
<1>5. r \in States /\ r.queue = s.queue /\ r.events = s.events
      /\ r.slot = s.slot /\ r.instance = s.instance /\ r.place = s.place /\ r.bg = nbg
  BY <1>3, <1>4 DEF States
<1> QED BY <1>4, <1>5

LEMMA EndBattlegroundGood ==
  ASSUME BInv, NEW b \in Ids, EndBattleground(b)
  PROVE  Good(Now')
<1> DEFINE s == Now
           r == [s EXCEPT !.bg[b].status = "WAIT_LEAVE"]
<1>0. s.bg = bg
  BY NowIs
<1>1. Good(s) /\ s.bg[b].status = "IN_PROGRESS" /\ Become(RemoveFromFreeSlotQueue(r, b))
  BY <1>0 DEF BInv, EndBattleground
<1> HIDE DEF s
<1>2. s \in States
  BY <1>1 DEF Good
<1>3. /\ r \in States /\ r.queue = s.queue /\ r.events = s.events
      /\ r.slot = s.slot /\ r.instance = s.instance /\ r.place = s.place
      /\ \A c \in Ids : r.bg[c].players = s.bg[c].players
      /\ \A c \in Ids : r.bg[c].status = IF c = b THEN "WAIT_LEAVE" ELSE s.bg[c].status
  <2>1. "WAIT_LEAVE" \in Statuses /\ r = WithStatus(s, b, "WAIT_LEAVE")
    BY DEF Statuses, WithStatus
  <2> HIDE DEF r
  <2> QED BY <1>2, <2>1, StatusIs
<1> HIDE DEF r
<1>4. Restaged(s, r, b)
  BY <1>1, <1>3 DEF Restaged, Stage
<1>5. Good(r)
  BY <1>1, <1>4, RestagedGood
<1>6. Good(RemoveFromFreeSlotQueue(r, b))
  BY <1>3, <1>5, FreeSlotsStill, StillGood
<1> QED BY <1>1, <1>6, BecomeIs DEF Good

LEMMA JoinGood ==
  ASSUME BInv, NEW ps \in Parties \cup {{p} : p \in Players}, Join(ps)
  PROVE  Good(Now')
<1> DEFINE s == Now
           t == Team(CHOOSE p \in ps : TRUE)
           g == [players |-> ps, bg |-> 0, left |-> 0]
           nq == [s.queue EXCEPT ![t] = Append(s.queue[t], g)]
           sl == [p \in Players |-> IF p \in ps THEN 0 ELSE s.slot[p]]
           x == [s EXCEPT !.queue = nq, !.slot = sl]
           r == ScheduleQueueUpdate(x)
<1>0. s.slot = slot /\ s.place = place
  BY NowIs
<1>1. Good(s) /\ \A p \in ps : s.place[p] # "offline" /\ s.slot[p] = NoSlot
  BY <1>0 DEF BInv, Join
<1>2. Become(r)
  <2>1. Become(ScheduleQueueUpdate(
           [s EXCEPT !.queue[t] = Append(@, g),
                     !.slot = [p \in Players |-> IF p \in ps THEN 0 ELSE @[p]]]))
    BY Zenon DEF Join
  <2>2. [s EXCEPT !.queue[t] = Append(@, g),
                  !.slot = [p \in Players |-> IF p \in ps THEN 0 ELSE @[p]]]
        = [s EXCEPT !.queue = nq, !.slot = sl]
    <3>1. s.slot = [s EXCEPT !.queue = nq].slot
      BY <1>1 DEF Good, States
    <3> QED BY <3>1
  <2> QED BY <2>1, <2>2
<1>3. /\ ps # {} /\ ps \in SUBSET Players /\ t \in Teams
      /\ \A p \in ps : Team(p) = t
  <2>1. ps # {} /\ (ps \subseteq Alliance \/ ps \subseteq Horde)
    BY QueueAssumption DEF Players
  <2>2. (CHOOSE p \in ps : TRUE) \in ps
    BY <2>1
  <2> QED BY <2>1, <2>2, Facts DEF Players
<1> HIDE DEF s, t
<1>4. s \in States /\ QueueOK(s.queue) /\ \A p \in Players : PlayerOK(s, p)
  BY <1>1 DEF Good
<1>5. \A p \in ps : ~Queued(s.queue, p)
  <2>1. ASSUME NEW p \in ps, NEW b, NEW l, Entry(s.queue, p, b, l) PROVE FALSE
    <3>1. p \in Players /\ b \in 0..MaxBattlegrounds
      BY <1>4, <2>1, EntryTyped DEF QueueOK
    <3>2. s.slot[p] \in {0, b}
      BY <1>4, <2>1, <3>1 DEF PlayerOK, WaitingOK
    <3> QED BY <1>1, <3>1, <3>2, Facts DEF NoSlot
  <2> QED BY <2>1, EntryQueued
<1>6. g \in Groups /\ g.players = ps /\ g.bg = 0 /\ g.left = 0
  BY <1>3, Facts DEF Groups
<1> HIDE DEF g
<1>7. /\ QueueOK(nq)
      /\ \A p, b, l : Entry(nq, p, b, l) <=> Entry(s.queue, p, b, l) \/ (p \in ps /\ b = 0 /\ l = 0)
  <2>1. \A p \in g.players : Team(p) = t /\ ~Queued(s.queue, p)
    BY <1>3, <1>5, <1>6
  <2>2. nq = [s.queue EXCEPT ![t] = Append(s.queue[t], g)]
    OBVIOUS
  <2> HIDE DEF nq
  <2>3. /\ QueueOK(nq)
        /\ \A p, b, l : Entry(nq, p, b, l) <=>
             Entry(s.queue, p, b, l) \/ (p \in g.players /\ b = g.bg /\ l = g.left)
    BY <1>3, <1>4, <1>6, <2>1, <2>2, AppendEntries
  <2> QED BY <1>6, <2>3
<1>8. /\ sl \in [Players -> NoSlot..MaxBattlegrounds]
      /\ \A p \in Players : sl[p] = IF p \in ps THEN 0 ELSE s.slot[p]
  <2>1. 0 \in NoSlot..MaxBattlegrounds
    BY Facts DEF NoSlot
  <2> QED BY <1>4, <2>1 DEF States
<1> HIDE DEF nq, sl
<1>9. /\ x \in States /\ x.queue = nq /\ x.slot = sl /\ x.instance = s.instance /\ x.place = s.place
      /\ x.bg = s.bg /\ x.events = s.events
  <2>1. nq \in [Teams -> Seq(Groups)]
    BY <1>7 DEF QueueOK
  <2> QED BY <1>4, <1>8, <2>1 DEF States
<1> HIDE DEF x
<1>10. SameStages(s, x)
  BY <1>9 DEF SameStages, Stage
<1>11. ASSUME NEW p \in Players PROVE PlayerOK(x, p)
  <2>1. CASE p \notin ps
    <3>1. SameFor(s, x, p)
      BY <1>7, <1>8, <1>9, <2>1 DEF SameFor
    <3> QED BY <1>4, <1>9, <1>10, <3>1, Undisturbed
  <2>2. CASE p \in ps
    <3>0. WaitingOK(s, p) /\ HolderOK(s, p) /\ InsideOK(s, p) /\ ParticipantOK(s, p)
      BY <1>4 DEF PlayerOK
    <3>1. s.instance[p] \in 0..MaxBattlegrounds /\ s.place[p] # "offline" /\ s.slot[p] = NoSlot
      BY <1>1, <1>4, <2>2 DEF States
    <3>2. ~InBattle(s, p)
      <4>1. s.instance[p] # NoSlot
        BY <3>1, Facts DEF NoSlot
      <4> QED BY <3>0, <3>1, <4>1 DEF InsideOK
    <3>3. InBattle(x, p) <=> InBattle(s, p)
      BY <1>4, <1>9, <1>10, <3>1, Live DEF InBattle, SameStages
    <3>4. x.slot[p] = 0 /\ Queued(x.queue, p)
      <4>1. Entry(x.queue, p, 0, 0)
        BY <1>7, <1>9, <2>2
      <4> QED BY <1>8, <1>9, <2>2, <4>1, EntryQueued
    <3>5. \A b, l : Entry(x.queue, p, b, l) => b = 0
      <4>1. \A b, l : ~Entry(s.queue, p, b, l)
        BY <1>5, <2>2, EntryQueued
      <4> QED BY <1>7, <1>9, <4>1
    <3>6. WaitingOK(x, p) /\ HolderOK(x, p)
      BY <1>9, <3>1, <3>2, <3>3, <3>4, <3>5 DEF WaitingOK, HolderOK
    <3>7. EventsOK(x, p)
      <4>1. 0 \notin Ids
        BY <1>4, Live DEF Ids
      <4> QED BY <3>5, <4>1 DEF EventsOK
    <3>8. InsideOK(x, p)
      BY <1>4, <1>9, <1>10, <3>0, <3>1, <3>2, <3>3, Live DEF InsideOK, SameStages
    <3>9. \A b \in Ids : p \notin s.bg[b].players
      <4>1. ASSUME NEW b \in Ids, p \in s.bg[b].players PROVE FALSE
        <5>1. s.slot[p] = b
          BY <3>0, <3>1, <4>1 DEF ParticipantOK
        <5> QED BY <3>1, <5>1 DEF Ids, NoSlot
      <4> QED BY <4>1
    <3>10. ParticipantOK(x, p)
      BY <1>9, <3>9 DEF ParticipantOK
    <3> QED BY <3>6, <3>7, <3>8, <3>10 DEF PlayerOK
  <2> QED BY <2>1, <2>2
<1>12. Good(x)
  BY <1>7, <1>9, <1>11 DEF Good
<1>13. Good(r)
  BY <1>9, <1>12, ScheduleStill, StillGood DEF ScheduleQueueUpdate
<1> HIDE DEF r
<1> QED BY <1>2, <1>13, BecomeIs DEF Good

-----------------------------------------------------------------------------
(* The update of the battlegrounds.                                          *)

\* who is queued is not disturbed
Quiet(s, r) ==
  /\ r.queue = s.queue /\ r.events = s.events
  /\ \A p \in Players : Queued(s.queue, p) => r.slot[p] = s.slot[p] /\ r.place[p] = s.place[p]

LEMMA QuietTwice ==
  ASSUME NEW s, NEW r, NEW x, Quiet(s, r), Quiet(r, x)
  PROVE  Quiet(s, x)
BY DEF Quiet

LEMMA StillQuiet ==
  ASSUME NEW s, NEW r, Still(s, r)
  PROVE  Quiet(s, r)
BY DEF Quiet, Still

LEMMA ParticipantQuiet ==
  ASSUME NEW s, Good(s), NEW b \in Ids, NEW p, p \in s.bg[b].players, NEW r, LeftBattle(s, r, b, p)
  PROVE  Quiet(s, r)
<1>1. p \in Players
  BY DEF Good, States, Battlegrounds
<1>2. ~Queued(s.queue, p)
  <2>1. PlayerOK(s, p) /\ s \in States
    BY <1>1 DEF Good
  <2>2. Stage(s, b) = "LIVE" /\ s.instance[p] = b /\ (s.place[p] = "offline" \/ s.place[p] = "battle")
    BY <2>1 DEF PlayerOK, ParticipantOK
  <2> QED BY <2>1, <2>2, Live DEF PlayerOK, WaitingOK, InBattle
<1>3. ASSUME NEW y \in Players, Queued(s.queue, y)
      PROVE  r.slot[y] = s.slot[y] /\ r.place[y] = s.place[y]
  BY <1>2, <1>3 DEF LeftBattle
<1> QED BY <1>3 DEF Quiet, LeftBattle

\* Everybody leaves a battleground that closes.
LEMMA ProcessLeaveGood ==
  ASSUME NEW s, Good(s), NEW b \in Ids
  PROVE  Good(ProcessLeave(s, b)) /\ Quiet(s, ProcessLeave(s, b))
<1> DEFINE D == s.bg[b].players
           c == [S \in SUBSET D |-> CHOOSE p \in S : TRUE]
           yes == TRUE
           step == [p \in D |-> [x \in States |-> RemovePlayerAtLeave(x, b, p, yes)]]
           F == CHOOSE g : g = [S \in SUBSET D |->
                  IF S = {} THEN s
                  ELSE RemovePlayerAtLeave(g[S \ {CHOOSE p \in S : TRUE}], b, CHOOSE p \in S : TRUE, yes)]
<1>0. ProcessLeave(s, b) = F[D]
  BY Zenon DEF ProcessLeave, FoldSet, MapThenFoldSet
<1> HIDE DEF yes
<1>1. s \in States /\ D \subseteq Players /\ IsFiniteSet(D)
  <2>1. s \in States /\ D \subseteq Players
    BY DEF Good, States, Battlegrounds
  <2> QED BY <2>1, Facts, FS_Subset
<1> HIDE DEF D
<1>2. Takes(c, D)
  BY DEF Takes
<1>3. \A S \in SUBSET D : c[S] = CHOOSE p \in S : TRUE
  OBVIOUS
<1>4. \A p \in D, x \in States : RemovePlayerAtLeave(x, b, p, yes) \in States
  BY <1>1, LeaveIs DEF LeftBattle
<1>5. step \in [D -> [States -> States]]
  BY <1>4
<1>6. \A p \in D, x \in States : step[p][x] = RemovePlayerAtLeave(x, b, p, yes)
  OBVIOUS
<1> HIDE DEF c, step
<1>7. PICK g \in [SUBSET D -> States] : Loop(g, D, c, s, step)
  BY <1>1, <1>2, <1>5, LoopExists, Zenon
<1>8. g = [S \in SUBSET D |->
        IF S = {} THEN s
        ELSE RemovePlayerAtLeave(g[S \ {CHOOSE p \in S : TRUE}], b, CHOOSE p \in S : TRUE, yes)]
  <2>1. ASSUME NEW S \in SUBSET D, S # {}
        PROVE  g[S] = RemovePlayerAtLeave(g[S \ {CHOOSE p \in S : TRUE}], b, CHOOSE p \in S : TRUE, yes)
    <3>1. g[S] = step[c[S]][g[S \ {c[S]}]]
      BY <1>7, <2>1, Zenon DEF Loop
    <3>2. c[S] \in D /\ g[S \ {c[S]}] \in States
      BY <1>2, <1>7, <2>1 DEF Takes
    <3>3. g[S] = RemovePlayerAtLeave(g[S \ {c[S]}], b, c[S], yes)
      BY <1>6, <3>1, <3>2
    <3> QED BY <1>3, <3>3, Zenon
  <2>2. g[{}] = s
    BY <1>7, Zenon DEF Loop
  <2>3. \A S \in SUBSET D : g[S] =
          IF S = {} THEN s
          ELSE RemovePlayerAtLeave(g[S \ {CHOOSE p \in S : TRUE}], b, CHOOSE p \in S : TRUE, yes)
    BY <2>1, <2>2, Zenon
  <2>4. g = [S \in SUBSET D |-> g[S]]
    BY <1>7
  <2> QED BY <2>3, <2>4, Zenon
<1>9. F = [S \in SUBSET D |->
        IF S = {} THEN s
        ELSE RemovePlayerAtLeave(F[S \ {CHOOSE p \in S : TRUE}], b, CHOOSE p \in S : TRUE, yes)]
  BY <1>8, Zenon
<1> HIDE DEF F
<1>10. F[{}] = s
  BY <1>9
<1>11. ASSUME NEW S \in SUBSET D, S # {} PROVE F[S] = RemovePlayerAtLeave(F[S \ {c[S]}], b, c[S], yes)
  <2>1. F[S] = RemovePlayerAtLeave(F[S \ {CHOOSE p \in S : TRUE}], b, CHOOSE p \in S : TRUE, yes)
    BY <1>9, <1>11
  <2> QED BY <1>3, <2>1, Zenon
<1> DEFINE T == {S \in SUBSET D : Good(F[S]) /\ Quiet(s, F[S]) /\ F[S].bg[b].players = D \ S}
<1>12. {} \in T
  BY <1>10, StillItself, StillQuiet, <1>1 DEF D
<1>13. ASSUME NEW S \in SUBSET D, S # {}, S \ {c[S]} \in T PROVE S \in T
  <2> DEFINE p == c[S]
             x == F[S \ {p}]
             r == RemovePlayerAtLeave(x, b, p, yes)
  <2>1. p \in S /\ p \in D /\ p \in Players
    BY <1>1, <1>2, <1>13 DEF Takes
  <2>2. F[S] = r
    BY <1>11, <1>13
  <2>3. Good(x) /\ Quiet(s, x) /\ x.bg[b].players = D \ (S \ {p})
    BY <1>13
  <2>4. p \in x.bg[b].players /\ x \in States
    BY <2>1, <2>3 DEF Good
  <2> HIDE DEF p, x, r
  <2>5. LeftBattle(x, r, b, p)
    BY <2>1, <2>4, LeaveIs DEF r
  <2>6. Good(r) /\ Quiet(x, r)
    BY <2>3, <2>4, <2>5, ParticipantLeaves, ParticipantQuiet
  <2>7. r.bg[b].players = D \ S
    <3>1. r.bg[b].players = x.bg[b].players \ {p}
      BY <2>5 DEF LeftBattle
    <3> QED BY <2>1, <2>3, <3>1
  <2>8. Quiet(s, r)
    BY <2>3, <2>6, QuietTwice
  <2> QED BY <2>2, <2>6, <2>7, <2>8
<1>14. \A S \in SUBSET D : S \in T
  <2> HIDE DEF T
  <2>1. \A S \in SUBSET D : S # {} /\ S \ {c[S]} \in T => S \in T
    BY <1>13
  <2> QED BY <1>1, <1>2, <1>12, <2>1, AllParts
<1>15. D \in T
  BY <1>14
<1> QED BY <1>0, <1>15

LEMMA ProcessOfflineQueueGood ==
  ASSUME NEW s, Good(s), NEW b \in Ids
  PROVE  Good(ProcessOfflineQueue(s, b)) /\ Quiet(s, ProcessOfflineQueue(s, b))
<1> DEFINE line == s.bg[b].offline
           p == Head(line)
<1>1. s \in States /\ line \in Seq(Players)
  BY DEF Good, States, Battlegrounds
<1>2. CASE line = <<>> \/ p \notin s.bg[b].players
  <2>1. ProcessOfflineQueue(s, b) = s
    BY <1>2, Zenon DEF ProcessOfflineQueue
  <2> QED BY <1>1, <2>1, StillItself, StillQuiet
<1>3. CASE ~(line = <<>> \/ p \notin s.bg[b].players)
  <2>1. PICK d : ProcessOfflineQueue(s, b)
                 = [RemovePlayerAtLeave(s, b, p, d) EXCEPT !.bg[b].offline = Tail(@)]
    BY <1>3, Zenon DEF ProcessOfflineQueue
  <2> DEFINE r == RemovePlayerAtLeave(s, b, p, d)
             o == Tail(r.bg[b].offline)
  <2>2. p \in s.bg[b].players /\ p \in Players
    BY <1>1, <1>3 DEF States, Battlegrounds
  <2>3. ProcessOfflineQueue(s, b) = [r EXCEPT !.bg[b].offline = o]
    BY <2>1
  <2> HIDE DEF p, r
  <2>4. LeftBattle(s, r, b, p)
    BY <1>1, <2>2, LeaveIs DEF r
  <2>5. Good(r) /\ Quiet(s, r)
    BY <2>2, <2>4, ParticipantLeaves, ParticipantQuiet
  <2> DEFINE ro == r.bg[b].offline
  <2>6. r \in States /\ ro \in Seq(Players)
    BY <2>5 DEF Good, States, Battlegrounds
  <2> HIDE DEF o
  <2> DEFINE n == [r EXCEPT !.bg[b].offline = o]
  <2>7. ro # <<>>
    BY <1>3, <2>4 DEF LeftBattle
  <2>8. Good(n) /\ Quiet(s, n)
    <3>1. o \in Seq(Players)
      <4> HIDE DEF ro
      <4>1. Tail(ro) \in Seq(Players)
        BY <2>6, <2>7, HeadTailProperties
      <4> QED BY <4>1 DEF o, ro
    <3>2. Still(r, n)
      BY <2>6, <3>1, OfflineStill
    <3> HIDE DEF n
    <3> QED BY <2>5, <3>2, StillGood, StillQuiet, QuietTwice
  <2> QED BY <2>3, <2>8
<1> QED BY <1>2, <1>3

LEMMA UpdateBattlegroundGood ==
  ASSUME NEW s, Good(s), NEW b \in Ids, NEW ripe
  PROVE  Good(UpdateBattleground(s, b, ripe)) /\ Quiet(s, UpdateBattleground(s, b, ripe))
<1> DEFINE r == UpdateBattleground(s, b, ripe)
<1>1. s \in States
  BY DEF Good
<1>2. Good(s) /\ Quiet(s, s)
  BY <1>1, StillItself, StillQuiet
<1>3. CASE r = s
  BY <1>2, <1>3
<1>4. CASE r = ProcessOfflineQueue(s, b)
  BY <1>4, ProcessOfflineQueueGood
<1>5. CASE r = ProcessLeave(s, b)
  BY <1>5, ProcessLeaveGood
<1>6. CASE GetBattleground(s, b) /\ r = [s EXCEPT !.bg[b].status = "IN_PROGRESS"]
  <2>1. r = WithStatus(s, b, "IN_PROGRESS") /\ "IN_PROGRESS" \in Statuses
    BY <1>6 DEF WithStatus, Statuses
  <2> HIDE DEF r
  <2>2. /\ r \in States /\ r.queue = s.queue /\ r.events = s.events
        /\ r.slot = s.slot /\ r.instance = s.instance /\ r.place = s.place
        /\ \A c \in Ids : r.bg[c].players = s.bg[c].players
        /\ \A c \in Ids : r.bg[c].status = IF c = b THEN "IN_PROGRESS" ELSE s.bg[c].status
    BY <1>1, <2>1, StatusIs
  <2>3. Stage(s, b) = "LIVE"
    BY <1>1, <1>6, Live
  <2>4. Restaged(s, r, b)
    BY <2>2, <2>3 DEF Restaged, Stage
  <2>5. Good(r) /\ Quiet(s, r)
    BY <2>2, <2>4, RestagedGood DEF Quiet
  <2> QED BY <2>5 DEF r
<1>7. CASE /\ GetBattleground(s, b) /\ s.bg[b].players = {}
           /\ r = RemoveFromFreeSlotQueue([s EXCEPT !.bg[b].status = "DELETED", !.bg[b].offline = <<>>], b)
  <2> DEFINE x == WithStatus(s, b, "DELETED")
             o == <<>>
             y == [x EXCEPT !.bg[b].offline = o]
  <2>1. r = RemoveFromFreeSlotQueue(y, b)
    BY <1>7, Zenon DEF WithStatus
  <2> HIDE DEF r, x
  <2>2. /\ x \in States /\ x.queue = s.queue /\ x.events = s.events
        /\ x.slot = s.slot /\ x.instance = s.instance /\ x.place = s.place
        /\ \A c \in Ids : x.bg[c].players = s.bg[c].players
        /\ \A c \in Ids : x.bg[c].status = IF c = b THEN "DELETED" ELSE s.bg[c].status
    <3>1. x = WithStatus(s, b, "DELETED") /\ "DELETED" \in Statuses
      BY DEF x, Statuses
    <3> QED BY <1>1, <3>1, StatusIs
  <2>3. Stage(s, b) = "LIVE"
    BY <1>1, <1>7, Live
  <2>4. Restaged(s, x, b)
    BY <1>7, <2>2, <2>3 DEF Restaged, Stage
  <2>5. Good(x) /\ Quiet(s, x)
    BY <2>2, <2>4, RestagedGood DEF Quiet
  <2>6. o \in Seq(Players)
    OBVIOUS
  <2> HIDE DEF o
  <2>7. Still(x, y)
    BY <2>2, <2>6, OfflineStill
  <2> HIDE DEF y
  <2>8. y \in States /\ Good(y) /\ Quiet(s, y)
    BY <2>5, <2>7, StillGood, StillQuiet, QuietTwice DEF Still
  <2>9. Still(y, RemoveFromFreeSlotQueue(y, b))
    BY <2>8, FreeSlotsStill
  <2>10. Good(r) /\ Quiet(s, r)
    BY <2>1, <2>8, <2>9, StillGood, StillQuiet, QuietTwice
  <2> QED BY <2>10 DEF r
<1>8. \/ r = s
      \/ r = ProcessOfflineQueue(s, b)
      \/ r = ProcessLeave(s, b)
      \/ GetBattleground(s, b) /\ r = [s EXCEPT !.bg[b].status = "IN_PROGRESS"]
      \/ /\ GetBattleground(s, b) /\ s.bg[b].players = {}
         /\ r = RemoveFromFreeSlotQueue([s EXCEPT !.bg[b].status = "DELETED", !.bg[b].offline = <<>>], b)
  <2>1. CASE ~GetBattleground(s, b)
    <3>1. b # 0
      BY Facts DEF Ids
    <3>2. r = s
      BY <2>1, <3>1 DEF UpdateBattleground, GetBattleground
    <3> QED BY <3>2
  <2>2. CASE GetBattleground(s, b) /\ s.bg[b].players = {}
    <3>1. r = IF \A t \in Teams : s.bg[b].invited[t] = 0
              THEN RemoveFromFreeSlotQueue([s EXCEPT !.bg[b].status = "DELETED", !.bg[b].offline = <<>>], b)
              ELSE s
      BY <2>2 DEF UpdateBattleground
    <3> QED BY <2>2, <3>1, Zenon
  <2>3. CASE GetBattleground(s, b) /\ s.bg[b].players # {}
    <3>1. CASE s.bg[b].status = "WAIT_JOIN"
      <4>1. r = IF ripe THEN [s EXCEPT !.bg[b].status = "IN_PROGRESS"] ELSE s
        BY <2>3, <3>1 DEF UpdateBattleground
      <4> QED BY <2>3, <4>1, Zenon
    <3>2. CASE s.bg[b].status = "IN_PROGRESS"
      <4>1. r = IF ripe THEN ProcessOfflineQueue(s, b) ELSE s
        BY <2>3, <3>2 DEF UpdateBattleground
      <4> QED BY <4>1, Zenon
    <3>3. CASE s.bg[b].status = "WAIT_LEAVE"
      <4>1. r = IF ripe THEN ProcessLeave(s, b) ELSE s
        BY <2>3, <3>3 DEF UpdateBattleground
      <4> QED BY <4>1, Zenon
    <3> QED BY <2>3, <3>1, <3>2, <3>3 DEF GetBattleground
  <2> QED BY <2>1, <2>2, <2>3
<1> QED BY <1>3, <1>4, <1>5, <1>6, <1>7, <1>8

LEMMA UpdateBattlegroundsGood ==
  ASSUME NEW s, Good(s), NEW ripe
  PROVE  Good(UpdateBattlegrounds(s, ripe)) /\ Quiet(s, UpdateBattlegrounds(s, ripe))
<1> DEFINE n == MaxBattlegrounds
           seq == [b \in Ids |-> b]
           op(r, b) == UpdateBattleground(r, b, b \in ripe)
           V == {x \in States : Good(x) /\ Quiet(s, x)}
           step == [b \in 1..n |-> [x \in V |-> op(x, b)]]
           F == CHOOSE g : g = [S \in SUBSET (DOMAIN seq) |->
                  IF S = {} THEN s ELSE op(g[S \ {Max(S)}], seq[Max(S)])]
<1>0. UpdateBattlegrounds(s, ripe) = F[DOMAIN seq]
  BY Zenon DEF UpdateBattlegrounds, FoldLeft, MapThenFoldSet
<1>1. n \in Nat /\ Ids = 1..n /\ DOMAIN seq = 1..n /\ \A b \in 1..n : seq[b] = b
  BY Facts DEF Ids
<1>2. s \in V
  BY StillItself, StillQuiet DEF Good
<1>3. ASSUME NEW b \in 1..n, NEW x \in V PROVE op(x, b) \in V
  <2>1. Good(x) /\ Quiet(s, x) /\ b \in Ids
    BY <1>1, <1>3
  <2>2. Good(op(x, b)) /\ Quiet(x, op(x, b))
    BY <2>1, UpdateBattlegroundGood
  <2> HIDE DEF op
  <2>3. Quiet(s, op(x, b)) /\ op(x, b) \in States
    BY <2>1, <2>2, QuietTwice DEF Good
  <2> QED BY <2>2, <2>3
<1> HIDE DEF op, seq, n
<1>4. step \in [1..n -> [V -> V]]
  BY <1>3
<1>5. \A b \in 1..n, x \in V : step[b][x] = op(x, b)
  OBVIOUS
<1> HIDE DEF step
<1>6. PICK g \in [SUBSET (1..n) -> V] : Folds(g, n, s, step)
  <2> HIDE DEF V
  <2> QED BY <1>1, <1>2, <1>4, SequenceLoop
<1>7. g = [S \in SUBSET (DOMAIN seq) |-> IF S = {} THEN s ELSE op(g[S \ {Max(S)}], seq[Max(S)])]
  <2> HIDE DEF V
  <2>1. ASSUME NEW S \in SUBSET (1..n), S # {} PROVE g[S] = op(g[S \ {Max(S)}], seq[Max(S)])
    <3>1. g[S] = step[Max(S)][g[S \ {Max(S)}]]
      BY <1>6, <2>1, Zenon DEF Folds
    <3>2. Max(S) \in S
      BY <1>1, <2>1, LastPosition
    <3>3. g[S \ {Max(S)}] \in V /\ Max(S) \in 1..n
      BY <1>6, <3>2
    <3> QED BY <1>1, <1>5, <3>1, <3>3
  <2>2. g[{}] = s
    BY <1>6, Zenon DEF Folds
  <2>3. \A S \in SUBSET (1..n) : g[S] = IF S = {} THEN s ELSE op(g[S \ {Max(S)}], seq[Max(S)])
    BY <2>1, <2>2, Zenon
  <2>4. g = [S \in SUBSET (1..n) |-> g[S]]
    BY <1>6
  <2> QED BY <1>1, <2>3, <2>4, Zenon
<1>8. F = [S \in SUBSET (DOMAIN seq) |-> IF S = {} THEN s ELSE op(F[S \ {Max(S)}], seq[Max(S)])]
  BY <1>7, Zenon
<1> HIDE DEF F
<1>9. F[{}] = s
  BY <1>8
<1>10. ASSUME NEW S \in SUBSET (1..n), S # {}, F[S \ {Max(S)}] \in V
       PROVE  F[S] = step[Max(S)][F[S \ {Max(S)}]]
  <2> HIDE DEF V
  <2>1. F[S] = op(F[S \ {Max(S)}], seq[Max(S)])
    BY <1>1, <1>8, <1>10
  <2>2. Max(S) \in 1..n
    <3>1. Max(S) \in S
      BY <1>1, <1>10, LastPosition
    <3> QED BY <3>1
  <2> QED BY <1>1, <1>5, <1>10, <2>1, <2>2
<1>11. PICK f \in [0..n -> V] : Steps(f, n, s, step) /\ f[n] = F[1..n]
  <2> HIDE DEF V
  <2>1. FoldsIn(F, n, V, s, step)
    BY <1>9, <1>10 DEF FoldsIn
  <2> QED BY <1>1, <1>2, <1>4, <2>1, SequenceSteps
<1>12. F[1..n] \in V
  <2> HIDE DEF V
  <2>1. n \in 0..n
    BY <1>1
  <2> QED BY <1>11, <2>1
<1> QED BY <1>0, <1>1, <1>12

-----------------------------------------------------------------------------
(* The events.                                                               *)

\* An invitation given at this moment has its event.
Fresh(s) ==
  \A p \in Players, b \in Ids : Event(p, b, AcceptTime) \in s.events => Entry(s.queue, p, b, AcceptTime)

\* the time an invitation to b with the time l has left after an Update
Older(b, l) == IF l > -1 /\ b # 0 THEN l - 1 ELSE l

LEMMA OlderTyped ==
  ASSUME NEW b, NEW l \in -1..AcceptTime
  PROVE  Older(b, l) \in -1..AcceptTime
BY Facts DEF Older

\* Time passes for the queue.
Aged(q, n) ==
  /\ n \in [Teams -> Seq(Groups)]
  /\ \A t \in Teams : Len(n[t]) = Len(q[t])
  /\ \A t \in Teams : \A i \in 1..Len(q[t]) :
       /\ n[t][i].players = q[t][i].players /\ n[t][i].bg = q[t][i].bg
       /\ n[t][i].left = Older(q[t][i].bg, q[t][i].left)

LEMMA LineTyped ==
  ASSUME NEW S, NEW m \in Nat, NEW line \in [1..m -> S]
  PROVE  line \in Seq(S) /\ Len(line) = m
OBVIOUS

LEMMA GroupWithTime ==
  ASSUME NEW g \in Groups, NEW l \in -1..AcceptTime, NEW h, h = [g EXCEPT !.left = l]
  PROVE  h \in Groups /\ h.players = g.players /\ h.bg = g.bg /\ h.left = l
<1> DEFINE Parts == (SUBSET Players) \ {{}}
           Numbers == 0..MaxBattlegrounds
           Times == -1..AcceptTime
<1>1. Groups = [players : Parts, bg : Numbers, left : Times] /\ l \in Times
  BY Zenon DEF Groups
<1> HIDE DEF Parts, Numbers, Times
<1>2. g \in [players : Parts, bg : Numbers, left : Times]
  BY <1>1, Zenon
<1>3. h = [players |-> g.players, bg |-> g.bg, left |-> l]
  BY <1>2
<1> QED BY <1>1, <1>2, <1>3

LEMMA AgedIs ==
  ASSUME NEW q, q \in [Teams -> Seq(Groups)], NEW n,
         n = [t \in Teams |-> [i \in DOMAIN q[t] |-> [q[t][i] EXCEPT !.left = Older(q[t][i].bg, q[t][i].left)]]]
  PROVE  Aged(q, n)
<1>1. ASSUME NEW t \in Teams
      PROVE  /\ n[t] \in Seq(Groups) /\ Len(n[t]) = Len(q[t])
             /\ \A i \in 1..Len(q[t]) :
                  /\ n[t][i].players = q[t][i].players /\ n[t][i].bg = q[t][i].bg
                  /\ n[t][i].left = Older(q[t][i].bg, q[t][i].left)
  <2> DEFINE line == q[t]
             m == Len(line)
  <2>1. line \in Seq(Groups) /\ m \in Nat /\ DOMAIN line = 1..m
    BY LenProperties
  <2>2. n[t] = [i \in 1..m |-> [line[i] EXCEPT !.left = Older(line[i].bg, line[i].left)]]
    BY <2>1
  <2> HIDE DEF line
  <2>3. \A i \in 1..m : line[i] \in Groups
    BY <2>1, ElementOfSeq
  <2> HIDE DEF m
  <2>4. ASSUME NEW i \in 1..m
        PROVE  /\ n[t][i] \in Groups
               /\ n[t][i].players = line[i].players /\ n[t][i].bg = line[i].bg
               /\ n[t][i].left = Older(line[i].bg, line[i].left)
    <3> DEFINE l == Older(line[i].bg, line[i].left)
               g == line[i]
               h == n[t][i]
    <3>1. g \in Groups /\ h = [g EXCEPT !.left = l]
      BY <2>2, <2>3
    <3>2. l \in -1..AcceptTime
      BY <2>3, OlderTyped DEF Groups
    <3> HIDE DEF l, g, h
    <3>3. h \in Groups /\ h.players = g.players /\ h.bg = g.bg /\ h.left = l
      BY <3>1, <3>2, GroupWithTime
    <3> QED BY <3>3 DEF l, g, h
  <2>5. n[t] \in [1..m -> Groups]
    BY <2>2, <2>4
  <2>6. n[t] \in Seq(Groups) /\ Len(n[t]) = m
    BY <2>1, <2>5, LineTyped
  <2> QED BY <2>4, <2>6 DEF line, m
<1>2. n \in [Teams -> Seq(Groups)]
  BY <1>1
<1> QED BY <1>1, <1>2 DEF Aged

LEMMA AgedEntries ==
  ASSUME NEW q, QueueOK(q), NEW n, Aged(q, n)
  PROVE  /\ QueueOK(n) /\ \A p : Queued(n, p) <=> Queued(q, p)
         /\ \A p, b, l : Entry(q, p, b, l) => Entry(n, p, b, Older(b, l))
         /\ \A p, b, l : Entry(n, p, b, l) => \E k : Entry(q, p, b, k) /\ l = Older(b, k)
<1>1. /\ \A t \in Teams : /\ Len(n[t]) = Len(q[t])
                          /\ \A i \in 1..Len(q[t]) : n[t][i].players = q[t][i].players
      /\ n \in [Teams -> Seq(Groups)]
  BY DEF Aged
<1>2. QueueOK(n) /\ \A p : Queued(n, p) <=> Queued(q, p)
  BY <1>1, ChangedEntries
<1>3. ASSUME NEW p, NEW b, NEW l, Entry(q, p, b, l) PROVE Entry(n, p, b, Older(b, l))
  BY <1>3 DEF Entry, Aged
<1>4. ASSUME NEW p, NEW b, NEW l, Entry(n, p, b, l) PROVE \E k : Entry(q, p, b, k) /\ l = Older(b, k)
  <2>1. PICK t \in Teams : \E i \in 1..Len(n[t]) :
           p \in n[t][i].players /\ n[t][i].bg = b /\ n[t][i].left = l
    BY <1>4 DEF Entry
  <2>2. PICK i \in 1..Len(n[t]) : p \in n[t][i].players /\ n[t][i].bg = b /\ n[t][i].left = l
    BY <2>1
  <2>3. /\ i \in 1..Len(q[t]) /\ p \in q[t][i].players /\ q[t][i].bg = b
        /\ l = Older(b, q[t][i].left)
    BY <2>2 DEF Aged
  <2>4. Entry(q, p, b, q[t][i].left)
    BY <2>3 DEF Entry
  <2> QED BY <2>3, <2>4
<1> QED BY <1>2, <1>3, <1>4

\* the events of an Update's time later
Later(E) == {[e EXCEPT !.left = @ - 1] : e \in E}
Due(E) == {e \in Later(E) : e.left = 0}

LEMMA LaterIs ==
  ASSUME NEW E \in SUBSET Events
  PROVE  /\ Later(E) \ Due(E) \in SUBSET Events
         /\ \A p \in Players, b \in Ids, l \in 1..AcceptTime :
              Event(p, b, l) \in Later(E) \ Due(E) <=> Event(p, b, l + 1) \in E
         /\ \A e \in Due(E) : \E p \in Players : \E b \in Ids :
              e = Event(p, b, 0) /\ Event(p, b, 1) \in E
         /\ \A p \in Players, b \in Ids : Event(p, b, 1) \in E => Event(p, b, 0) \in Due(E)
<1>1. ASSUME NEW e \in E
      PROVE  /\ e.player \in Players /\ e.bg \in Ids /\ e.left \in 1..AcceptTime
             /\ e = Event(e.player, e.bg, e.left)
             /\ [e EXCEPT !.left = @ - 1] = Event(e.player, e.bg, e.left - 1)
  BY DEF Events, Event
<1>2. ASSUME NEW f \in Later(E)
      PROVE  \E p \in Players : \E b \in Ids : \E l \in 1..AcceptTime :
               f = Event(p, b, l - 1) /\ Event(p, b, l) \in E
  <2>1. PICK e \in E : f = [e EXCEPT !.left = @ - 1]
    BY DEF Later
  <2>2. e.player \in Players /\ e.bg \in Ids /\ e.left \in 1..AcceptTime
    BY <1>1
  <2>3. f = Event(e.player, e.bg, e.left - 1) /\ Event(e.player, e.bg, e.left) \in E
    BY <1>1, <2>1
  <2> QED BY <2>2, <2>3
<1>3. ASSUME NEW p \in Players, NEW b \in Ids, NEW l \in 1..AcceptTime, Event(p, b, l) \in E
      PROVE  Event(p, b, l - 1) \in Later(E)
  <2> DEFINE e == Event(p, b, l)
  <2>1. e.player = p /\ e.bg = b /\ e.left = l
    BY DEF Event
  <2> HIDE DEF e
  <2>2. [e EXCEPT !.left = @ - 1] = Event(p, b, l - 1) /\ e \in E
    BY <1>1, <1>3, <2>1 DEF e
  <2> QED BY <2>2 DEF Later
<1>4. \A p, b, l : Event(p, b, l).player = p /\ Event(p, b, l).bg = b /\ Event(p, b, l).left = l
  BY DEF Event
<1>5. \A p, b, l, r, c, m : Event(p, b, l) = Event(r, c, m) => p = r /\ b = c /\ l = m
  BY DEF Event
<1>6. ASSUME NEW e \in Due(E)
      PROVE  \E p \in Players : \E b \in Ids : e = Event(p, b, 0) /\ Event(p, b, 1) \in E
  <2>1. e \in Later(E) /\ e.left = 0
    BY DEF Due
  <2>2. PICK p \in Players : \E b \in Ids : \E l \in 1..AcceptTime :
           e = Event(p, b, l - 1) /\ Event(p, b, l) \in E
    BY <1>2, <2>1
  <2>3. PICK b \in Ids : \E l \in 1..AcceptTime : e = Event(p, b, l - 1) /\ Event(p, b, l) \in E
    BY <2>2
  <2>4. PICK l \in 1..AcceptTime : e = Event(p, b, l - 1) /\ Event(p, b, l) \in E
    BY <2>3
  <2>5. l - 1 = 0 /\ l = 1
    BY <1>4, <2>1, <2>4
  <2> QED BY <2>4, <2>5
<1>7. ASSUME NEW p \in Players, NEW b \in Ids, Event(p, b, 1) \in E
      PROVE  Event(p, b, 0) \in Due(E)
  <2>1. 1 \in 1..AcceptTime /\ 1 - 1 = 0
    BY Facts
  <2>2. Event(p, b, 0) \in Later(E)
    BY <1>3, <1>7, <2>1
  <2> QED BY <1>4, <2>2 DEF Due
<1>8. ASSUME NEW p \in Players, NEW b \in Ids, NEW l \in 1..AcceptTime
      PROVE  Event(p, b, l) \in Later(E) \ Due(E) <=> Event(p, b, l + 1) \in E
  <2>1. ASSUME Event(p, b, l) \in Later(E) \ Due(E) PROVE Event(p, b, l + 1) \in E
    <3>1. PICK r \in Players : \E c \in Ids : \E m \in 1..AcceptTime :
             Event(p, b, l) = Event(r, c, m - 1) /\ Event(r, c, m) \in E
      BY <1>2, <2>1
    <3>2. PICK c \in Ids : \E m \in 1..AcceptTime :
             Event(p, b, l) = Event(r, c, m - 1) /\ Event(r, c, m) \in E
      BY <3>1
    <3>3. PICK m \in 1..AcceptTime : Event(p, b, l) = Event(r, c, m - 1) /\ Event(r, c, m) \in E
      BY <3>2
    <3>4. p = r /\ b = c /\ l = m - 1
      BY <1>5, <3>3
    <3>5. m = l + 1
      BY <3>4
    <3> QED BY <3>3, <3>4, <3>5
  <2>2. ASSUME Event(p, b, l + 1) \in E PROVE Event(p, b, l) \in Later(E) \ Due(E)
    <3>1. l + 1 \in 1..AcceptTime
      <4>1. Event(p, b, l + 1).left \in 1..AcceptTime
        BY <1>1, <2>2
      <4> QED BY <1>4, <4>1
    <3>2. l + 1 - 1 = l
      OBVIOUS
    <3>3. Event(p, b, l) \in Later(E)
      BY <1>3, <2>2, <3>1, <3>2
    <3>4. Event(p, b, l).left # 0
      BY <1>4
    <3> QED BY <3>3, <3>4 DEF Due
  <2> QED BY <2>1, <2>2
<1>9. Later(E) \ Due(E) \in SUBSET Events
  <2>1. ASSUME NEW f \in Later(E), f \notin Due(E) PROVE f \in Events
    <3>1. PICK p \in Players : \E b \in Ids : \E l \in 1..AcceptTime :
             f = Event(p, b, l - 1) /\ Event(p, b, l) \in E
      BY <1>2
    <3>2. PICK b \in Ids : \E l \in 1..AcceptTime : f = Event(p, b, l - 1) /\ Event(p, b, l) \in E
      BY <3>1
    <3>3. PICK l \in 1..AcceptTime : f = Event(p, b, l - 1)
      BY <3>2
    <3>4. l - 1 # 0
      BY <1>4, <2>1, <3>3 DEF Due
    <3>5. l - 1 \in 1..AcceptTime
      BY <3>4, Facts
    <3> QED BY <3>3, <3>5 DEF Events, Event
  <2> QED BY <2>1
<1> QED BY <1>6, <1>7, <1>8, <1>9

\* the state in which the due events are executed
Passed(s) == [Pass(s) EXCEPT !.events = @ \ {e \in Pass(s).events : e.left = 0}]

LEMMA PassedIs ==
  ASSUME NEW s, s \in States
  PROVE  /\ {e \in Pass(s).events : e.left = 0} = Due(s.events)
         /\ Passed(s) \in States /\ Aged(s.queue, Passed(s).queue)
         /\ Passed(s).events = Later(s.events) \ Due(s.events)
         /\ Passed(s).slot = s.slot /\ Passed(s).instance = s.instance /\ Passed(s).place = s.place
         /\ Passed(s).bg = s.bg
<1> DEFINE q == s.queue
           nq == [t \in Teams |-> [i \in DOMAIN q[t] |->
                    [q[t][i] EXCEPT !.left = Older(q[t][i].bg, q[t][i].left)]]]
           L == Later(s.events)
           D == Due(s.events)
           E == L \ D
           x == [s EXCEPT !.queue = nq, !.events = L]
           r == [x EXCEPT !.events = E]
<1>1. q \in [Teams -> Seq(Groups)] /\ s.events \in SUBSET Events
  BY DEF States
<1>2. Pass(s) = x
  <2>1. \A t \in Teams : \A i \in DOMAIN q[t] :
          Elapse(q[t][i]) = [q[t][i] EXCEPT !.left = Older(q[t][i].bg, q[t][i].left)]
    BY Zenon DEF Older, Elapse
  <2>2. [t \in Teams |-> [i \in DOMAIN q[t] |-> Elapse(q[t][i])]] = nq
    BY <2>1, Zenon
  <2>3. Pass(s) = [s EXCEPT !.queue = [t \in Teams |-> [i \in DOMAIN q[t] |-> Elapse(q[t][i])]],
                            !.events = {[e EXCEPT !.left = @ - 1] : e \in @}]
    BY Zenon DEF Pass
  <2>4. s.events = [s EXCEPT !.queue = nq].events
    BY DEF States
  <2> HIDE DEF nq
  <2> QED BY <2>2, <2>3, <2>4, Zenon DEF Later
<1>3. Aged(q, nq)
  <2>1. nq = [t \in Teams |-> [i \in DOMAIN q[t] |->
                [q[t][i] EXCEPT !.left = Older(q[t][i].bg, q[t][i].left)]]]
    OBVIOUS
  <2> HIDE DEF nq, q
  <2> QED BY <1>1, <2>1, AgedIs
<1>4. E \in SUBSET Events
  BY <1>1, LaterIs
<1> HIDE DEF nq, L, D, E
<1>5. x.events = L
  BY DEF States
<1>6. {e \in L : e.left = 0} = D
  BY Zenon DEF L, D, Due
<1>7. Passed(s) = r
  BY <1>2, <1>5, <1>6, Zenon DEF Passed, E
<1>8. nq \in [Teams -> Seq(Groups)]
  BY <1>3 DEF Aged
<1>9. /\ r \in States /\ r.queue = nq /\ r.events = E
      /\ r.slot = s.slot /\ r.instance = s.instance /\ r.place = s.place /\ r.bg = s.bg
  BY <1>4, <1>8 DEF States
<1> HIDE DEF r
<1>10. {e \in Pass(s).events : e.left = 0} = D
  BY <1>2, <1>5, <1>6, Zenon
<1> QED BY <1>3, <1>7, <1>9, <1>10 DEF E, L, D

LEMMA PassedGood ==
  ASSUME NEW s, Good(s)
  PROVE  Good(Passed(s)) /\ Fresh(Passed(s))
<1> DEFINE r == Passed(s)
<1>1. s \in States /\ QueueOK(s.queue) /\ s.events \in SUBSET Events
  BY DEF Good, States
<1>2. /\ r \in States /\ Aged(s.queue, r.queue)
      /\ r.events = Later(s.events) \ Due(s.events)
      /\ r.slot = s.slot /\ r.instance = s.instance /\ r.place = s.place /\ r.bg = s.bg
  BY <1>1, PassedIs
<1> HIDE DEF r
<1>3. /\ QueueOK(r.queue) /\ \A p : Queued(r.queue, p) <=> Queued(s.queue, p)
      /\ \A p, b, l : Entry(r.queue, p, b, l) => \E k : Entry(s.queue, p, b, k) /\ l = Older(b, k)
  BY <1>1, <1>2, AgedEntries
<1>4. \A p \in Players, b \in Ids, l \in 1..AcceptTime :
        Event(p, b, l) \in r.events <=> Event(p, b, l + 1) \in s.events
  BY <1>1, <1>2, LaterIs
<1>5. SameStages(s, r)
  BY <1>2 DEF SameStages, Stage
<1>6. ASSUME NEW p \in Players PROVE PlayerOK(r, p)
  <2>1. WaitingOK(s, p) /\ HolderOK(s, p) /\ InsideOK(s, p) /\ ParticipantOK(s, p) /\ EventsOK(s, p)
    BY DEF Good, PlayerOK
  <2>2. \A b : Stage(r, b) = Stage(s, b)
    BY <1>2 DEF Stage
  <2>3. InBattle(r, p) <=> InBattle(s, p)
    BY <1>2 DEF InBattle, GetBattleground
  <2>4. WaitingOK(r, p)
    BY <1>2, <1>3, <2>1, <2>2, <2>3 DEF WaitingOK
  <2>5. HolderOK(r, p)
    BY <1>2, <1>3, <2>1, <2>2 DEF HolderOK
  <2>6. InsideOK(r, p)
    BY <1>2, <2>1, <2>2, <2>3 DEF InsideOK
  <2>7. ParticipantOK(r, p)
    BY <1>2, <2>1, <2>2 DEF ParticipantOK
  <2>8. ASSUME NEW b \in Ids, NEW l \in 1..AcceptTime, Entry(r.queue, p, b, l)
        PROVE  r.slot[p] = b <=> Event(p, b, l) \in r.events
    <3>1. PICK k : Entry(s.queue, p, b, k) /\ l = Older(b, k)
      BY <1>3, <2>8
    <3>2. k \in -1..AcceptTime
      BY <1>1, <3>1, EntryTyped DEF QueueOK
    <3>3. b # 0
      BY Facts DEF Ids
    <3>4. k = l + 1 /\ l + 1 \in 1..AcceptTime
      BY <3>1, <3>2, <3>3, Facts DEF Older
    <3>5. s.slot[p] = b <=> Event(p, b, l + 1) \in s.events
      BY <2>1, <3>1, <3>4 DEF EventsOK
    <3> QED BY <1>2, <1>4, <3>5
  <2>9. EventsOK(r, p)
    BY <2>8 DEF EventsOK
  <2> QED BY <2>4, <2>5, <2>6, <2>7, <2>9 DEF PlayerOK
<1>7. Good(r)
  BY <1>2, <1>3, <1>6 DEF Good
<1>8. ASSUME NEW p \in Players, NEW b \in Ids, Event(p, b, AcceptTime) \in r.events PROVE FALSE
  <2>1. AcceptTime \in 1..AcceptTime
    BY Facts
  <2>2. Event(p, b, AcceptTime + 1) \in Events
    BY <1>1, <1>4, <1>8, <2>1
  <2>3. Event(p, b, AcceptTime + 1).left = AcceptTime + 1
    BY DEF Event
  <2>4. AcceptTime + 1 \in 1..AcceptTime
    BY <2>2, <2>3 DEF Events
  <2> QED BY <2>4, Facts
<1>9. Fresh(r)
  BY <1>8 DEF Fresh
<1> QED BY <1>7, <1>9 DEF r

\* The event e finds the invitation it is for.
Hits(x, p, b) == FindPlayer(x, p) /\ x.slot[p] # NoSlot /\ Entry(x.queue, p, b, 0)

\* the event of p for b has been executed, from x
RemovalOf(x, r, p, b) ==
  /\ Good(r) /\ r.events = x.events /\ r.place = x.place
  /\ \A y, c, l : Entry(r.queue, y, c, l) <=> Entry(x.queue, y, c, l) /\ ~(y = p /\ Hits(x, p, b))
  /\ \A y \in Players : ~(y = p /\ Hits(x, p, b)) => r.slot[y] = x.slot[y]

LEMMA RemoveEventGood ==
  ASSUME NEW x, Good(x), NEW p \in Players, NEW b \in Ids, NEW r, r = RemoveEvent(x, Event(p, b, 0))
  PROVE  RemovalOf(x, r, p, b)
<1> DEFINE e == Event(p, b, 0)
<1>1. x \in States /\ QueueOK(x.queue)
  BY DEF Good
<1>2. e.player = p /\ e.bg = b /\ e.left = 0
  BY DEF Event
<1>3. IsPlayerInvited(x, e) <=> Entry(x.queue, p, b, 0)
  <2>1. \A y : y \in QueuedPlayers(x) <=> Queued(x.queue, y)
    BY <1>1, QueuedPlayersAre
  <2>2. ASSUME Entry(x.queue, p, b, 0) PROVE IsPlayerInvited(x, e)
    <3>1. GroupInfo(x, p).bg = b /\ GroupInfo(x, p).left = 0
      BY <1>1, <2>2, GroupInfoIs
    <3>2. Queued(x.queue, p)
      BY <2>2, EntryQueued
    <3> HIDE DEF e
    <3> QED BY <1>2, <2>1, <3>1, <3>2 DEF IsPlayerInvited
  <2>3. ASSUME IsPlayerInvited(x, e) PROVE Entry(x.queue, p, b, 0)
    <3>0. p \in QueuedPlayers(x) /\ GroupInfo(x, p).bg = b /\ GroupInfo(x, p).left = 0
      <4> HIDE DEF e
      <4> QED BY <1>2, <2>3 DEF IsPlayerInvited
    <3>1. Queued(x.queue, p)
      BY <2>1, <3>0
    <3>2. PICK c, l : Entry(x.queue, p, c, l)
      BY <3>1, EntryQueued
    <3>3. GroupInfo(x, p).bg = c /\ GroupInfo(x, p).left = l
      BY <1>1, <3>2, GroupInfoIs
    <3> QED BY <3>0, <3>2, <3>3
  <2> QED BY <2>2, <2>3
<1>4. CASE ~Hits(x, p, b)
  <2>1. ~(FindPlayer(x, e.player) /\ x.slot[e.player] # NoSlot /\ IsPlayerInvited(x, e))
    BY <1>2, <1>3, <1>4 DEF Hits
  <2>2. r = x
    BY <2>1, Zenon DEF RemoveEvent
  <2> QED BY <1>4, <2>2 DEF RemovalOf
<1>5. CASE Hits(x, p, b)
  <2> DEFINE y == RemoveQueueId(x, p)
  <2>1. FindPlayer(x, e.player) /\ x.slot[e.player] # NoSlot /\ IsPlayerInvited(x, e)
    BY <1>2, <1>3, <1>5 DEF Hits
  <2>2. PICK d : r = LET z == RemovePlayer(RemoveQueueId(x, e.player), e.player, d)
                     IN  IF GetBattleground(x, e.bg) /\ Open(x, e.bg) THEN ScheduleQueueUpdate(z) ELSE z
    BY <2>1, Zenon DEF RemoveEvent
  <2> DEFINE z == RemovePlayer(y, p, d)
  <2>3. r = ScheduleQueueUpdate(z) \/ r = z
    BY <1>2, <2>2, Zenon
  <2>4. y \in States /\ y.queue = x.queue
    BY <1>1, DequeueTyped
  <2>5. LeftQueue(y, z, p)
    <3> HIDE DEF y
    <3> QED BY <1>1, <2>4, RemovePlayerIs
  <2>6. Queued(x.queue, p)
    BY <1>5, EntryQueued DEF Hits
  <2>7. y = RemoveQueueId(x, p)
    OBVIOUS
  <2> HIDE DEF y, z
  <2>8. /\ Good(z) /\ z.place = x.place /\ z.events = x.events
        /\ \A u, c, l : Entry(z.queue, u, c, l) <=> u # p /\ Entry(x.queue, u, c, l)
        /\ \A u \in Players \ {p} : z.slot[u] = x.slot[u]
        /\ SameStages(x, z)
    BY <2>5, <2>6, <2>7, Dequeue
  <2>9. Still(z, r)
    BY <2>3, <2>8, ScheduleStill, StillItself DEF Good, ScheduleQueueUpdate
  <2>10. Good(r) /\ r.queue = z.queue /\ r.place = z.place /\ r.events = z.events /\ r.slot = z.slot
    BY <2>8, <2>9, StillGood DEF Still
  <2> QED BY <1>5, <2>8, <2>10 DEF RemovalOf
<1> QED BY <1>4, <1>5

\* An invitation that ends now, of a player who is found, by its event in S.
Expired(x, S, p) ==
  FindPlayer(x, p) /\ x.slot[p] # NoSlot /\ \E b : Entry(x.queue, p, b, 0) /\ Event(p, b, 0) \in S

\* the events S have been executed, from x
Executed(x, r, S) ==
  /\ Good(r) /\ r.events = x.events /\ r.place = x.place
  /\ \A p, b, l : Entry(r.queue, p, b, l) <=> Entry(x.queue, p, b, l) /\ ~Expired(x, S, p)
  /\ \A p \in Players : ~Expired(x, S, p) => r.slot[p] = x.slot[p]

LEMMA OneExecuted ==
  ASSUME NEW x, Good(x), NEW S, NEW p \in Players, NEW b \in Ids, Event(p, b, 0) \in S,
         NEW y, Executed(x, y, S \ {Event(p, b, 0)}),
         NEW r, r = RemoveEvent(y, Event(p, b, 0))
  PROVE  Executed(x, r, S)
<1> DEFINE e == Event(p, b, 0)
           R == S \ {e}
<1>1. /\ Good(r) /\ r.events = y.events /\ r.place = y.place
      /\ \A u, c, l : Entry(r.queue, u, c, l) <=> Entry(y.queue, u, c, l) /\ ~(u = p /\ Hits(y, p, b))
      /\ \A u \in Players : ~(u = p /\ Hits(y, p, b)) => r.slot[u] = y.slot[u]
  <2>1. Good(y)
    BY DEF Executed
  <2>2. RemovalOf(y, r, p, b)
    BY <2>1, RemoveEventGood
  <2> QED BY <2>2 DEF RemovalOf
<1>2. /\ y.events = x.events /\ y.place = x.place
      /\ \A u, c, l : Entry(y.queue, u, c, l) <=> Entry(x.queue, u, c, l) /\ ~Expired(x, R, u)
      /\ \A u \in Players : ~Expired(x, R, u) => y.slot[u] = x.slot[u]
  BY DEF Executed
<1>3. QueueOK(x.queue)
  BY DEF Good
<1>4. \A u, c : Event(u, c, 0) \in S <=> Event(u, c, 0) \in R \/ (u = p /\ c = b)
  <2>1. \A u, c : Event(u, c, 0) = e <=> u = p /\ c = b
    BY DEF Event
  <2> HIDE DEF e
  <2> QED BY <2>1 DEF e
<1> HIDE DEF R
<1>5. \A u : u # p => (Expired(x, S, u) <=> Expired(x, R, u))
  BY <1>4 DEF Expired
<1>6. Expired(x, S, p) <=> Expired(x, R, p) \/ Hits(y, p, b)
  <2>1. Expired(x, R, p) => Expired(x, S, p)
    BY <1>4 DEF Expired
  <2>2. ASSUME ~Expired(x, R, p) PROVE Hits(y, p, b) <=> Expired(x, S, p)
    <3>1. Hits(y, p, b) <=> FindPlayer(x, p) /\ x.slot[p] # NoSlot /\ Entry(x.queue, p, b, 0)
      BY <1>2, <2>2 DEF Hits, FindPlayer
    <3>2. Expired(x, S, p) => FindPlayer(x, p) /\ x.slot[p] # NoSlot /\ Entry(x.queue, p, b, 0)
      BY <1>4, <2>2 DEF Expired
    <3>3. FindPlayer(x, p) /\ x.slot[p] # NoSlot /\ Entry(x.queue, p, b, 0) => Expired(x, S, p)
      BY DEF Expired
    <3> QED BY <3>1, <3>2, <3>3
  <2> QED
    <3>1. CASE Expired(x, R, p)
      BY <2>1, <3>1
    <3>2. CASE ~Expired(x, R, p)
      BY <2>2, <3>2
    <3> QED BY <3>1, <3>2
<1>7. ASSUME NEW u, NEW c, NEW l
      PROVE  Entry(r.queue, u, c, l) <=> Entry(x.queue, u, c, l) /\ ~Expired(x, S, u)
  <2>1. CASE u = p
    BY <1>1, <1>2, <1>6, <2>1
  <2>2. CASE u # p
    BY <1>1, <1>2, <1>5, <2>2
  <2> QED BY <2>1, <2>2
<1>8. ASSUME NEW u \in Players, ~Expired(x, S, u) PROVE r.slot[u] = x.slot[u]
  <2>1. CASE u = p
    BY <1>1, <1>2, <1>6, <1>8, <2>1
  <2>2. CASE u # p
    BY <1>1, <1>2, <1>5, <1>8, <2>2
  <2> QED BY <2>1, <2>2
<1> QED BY <1>1, <1>2, <1>7, <1>8 DEF Executed

LEMMA DueFinite ==
  ASSUME NEW E \in SUBSET Events
  PROVE  IsFiniteSet(Due(E))
<1> DEFINE A == Players \X Ids
           f == [z \in A |-> Event(z[1], z[2], 0)]
           B == {f[z] : z \in A}
<1>1. IsFiniteSet(A)
  <2>1. IsFiniteSet(Players) /\ IsFiniteSet(Ids)
    BY Facts, FS_Interval DEF Ids
  <2> QED BY <2>1, FS_Product
<1>2. f \in Surjection(A, B)
  BY DEF Surjection
<1>3. IsFiniteSet(B)
  <2> HIDE DEF A, f, B
  <2> QED BY <1>1, <1>2, FS_Surjection
<1>4. Due(E) \subseteq B
  <2>1. ASSUME NEW e \in Due(E) PROVE e \in B
    <3>1. PICK p \in Players : \E b \in Ids : e = Event(p, b, 0) /\ Event(p, b, 1) \in E
      BY LaterIs
    <3>2. PICK b \in Ids : e = Event(p, b, 0)
      BY <3>1
    <3>3. <<p, b>> \in A /\ f[<<p, b>>] = e
      BY <3>2
    <3> HIDE DEF A, f
    <3> QED BY <3>3
  <2> QED BY <2>1
<1> QED BY <1>3, <1>4, FS_Subset

LEMMA UpdateEventsIs ==
  ASSUME NEW s, Good(s)
  PROVE  Executed(Passed(s), UpdateEvents(s), Due(s.events))
<1> DEFINE D == Due(s.events)
           base == Passed(s)
           c == [S \in SUBSET D |-> CHOOSE e \in S : TRUE]
           V == {x \in States : Good(x)}
           step == [e \in D |-> [x \in V |-> RemoveEvent(x, e)]]
           F == CHOOSE g : g = [S \in SUBSET D |->
                  IF S = {} THEN base
                  ELSE RemoveEvent(g[S \ {CHOOSE e \in S : TRUE}], CHOOSE e \in S : TRUE)]
<1>1. s \in States /\ s.events \in SUBSET Events
  BY DEF Good, States
<1>2. {e \in Pass(s).events : e.left = 0} = D /\ Good(base)
  BY <1>1, PassedIs, PassedGood
<1>0. UpdateEvents(s) = F[D]
  <2> DEFINE U == {e \in Pass(s).events : e.left = 0}
             G == CHOOSE g : g = [S \in SUBSET U |->
                    IF S = {} THEN [Pass(s) EXCEPT !.events = @ \ U]
                    ELSE RemoveEvent(g[S \ {CHOOSE e \in S : TRUE}], CHOOSE e \in S : TRUE)]
  <2>1. UpdateEvents(s) = G[U]
    BY Zenon DEF UpdateEvents, FoldSet, MapThenFoldSet
  <2>2. base = [Pass(s) EXCEPT !.events = @ \ U]
    BY Zenon DEF Passed
  <2>3. U = D
    BY <1>2
  <2> HIDE DEF U, D, base
  <2>4. G = F
    BY <2>2, <2>3
  <2> QED BY <2>1, <2>3, <2>4
<1>3. IsFiniteSet(D)
  BY <1>1, DueFinite
<1>4. \A e \in D : \E p \in Players : \E b \in Ids : e = Event(p, b, 0)
  BY <1>1, LaterIs
<1>5. base \in V
  BY <1>2 DEF Good
<1> HIDE DEF D, base
<1>6. Takes(c, D)
  BY DEF Takes
<1>7. \A S \in SUBSET D : c[S] = CHOOSE e \in S : TRUE
  OBVIOUS
<1>8. ASSUME NEW e \in D, NEW x \in V PROVE RemoveEvent(x, e) \in V
  <2>1. PICK p \in Players : \E b \in Ids : e = Event(p, b, 0)
    BY <1>4
  <2>2. PICK b \in Ids : e = Event(p, b, 0)
    BY <2>1
  <2>3. Good(x)
    OBVIOUS
  <2>4. RemovalOf(x, RemoveEvent(x, e), p, b)
    BY <2>2, <2>3, RemoveEventGood
  <2> QED BY <2>4 DEF RemovalOf, Good
<1>9. step \in [D -> [V -> V]]
  BY <1>8
<1>10. \A e \in D, x \in V : step[e][x] = RemoveEvent(x, e)
  OBVIOUS
<1> HIDE DEF c, step, V
<1>11. PICK g \in [SUBSET D -> V] : Loop(g, D, c, base, step)
  BY <1>3, <1>5, <1>6, <1>9, LoopExists, Zenon
<1>12. g = [S \in SUBSET D |->
        IF S = {} THEN base
        ELSE RemoveEvent(g[S \ {CHOOSE e \in S : TRUE}], CHOOSE e \in S : TRUE)]
  <2>1. ASSUME NEW S \in SUBSET D, S # {}
        PROVE  g[S] = RemoveEvent(g[S \ {CHOOSE e \in S : TRUE}], CHOOSE e \in S : TRUE)
    <3>1. g[S] = step[c[S]][g[S \ {c[S]}]]
      BY <1>11, <2>1, Zenon DEF Loop
    <3>2. c[S] \in D /\ g[S \ {c[S]}] \in V
      BY <1>6, <1>11, <2>1 DEF Takes
    <3>3. g[S] = RemoveEvent(g[S \ {c[S]}], c[S])
      BY <1>10, <3>1, <3>2
    <3> QED BY <1>7, <3>3, Zenon
  <2>2. g[{}] = base
    BY <1>11, Zenon DEF Loop
  <2>3. \A S \in SUBSET D : g[S] =
          IF S = {} THEN base
          ELSE RemoveEvent(g[S \ {CHOOSE e \in S : TRUE}], CHOOSE e \in S : TRUE)
    BY <2>1, <2>2, Zenon
  <2>4. g = [S \in SUBSET D |-> g[S]]
    BY <1>11
  <2> QED BY <2>3, <2>4, Zenon
<1>13. F = [S \in SUBSET D |->
        IF S = {} THEN base
        ELSE RemoveEvent(F[S \ {CHOOSE e \in S : TRUE}], CHOOSE e \in S : TRUE)]
  BY <1>12, Zenon
<1> HIDE DEF F
<1>14. F[{}] = base
  BY <1>13
<1>15. ASSUME NEW S \in SUBSET D, S # {} PROVE F[S] = RemoveEvent(F[S \ {c[S]}], c[S])
  <2>1. F[S] = RemoveEvent(F[S \ {CHOOSE e \in S : TRUE}], CHOOSE e \in S : TRUE)
    BY <1>13, <1>15
  <2> QED BY <1>7, <2>1, Zenon
<1> DEFINE T == {S \in SUBSET D : Executed(base, F[S], S)}
<1>16. {} \in T
  <2>1. Executed(base, base, {})
    BY <1>2 DEF Executed, Expired
  <2> QED BY <1>14, <2>1
<1>17. ASSUME NEW S \in SUBSET D, S # {}, S \ {c[S]} \in T PROVE S \in T
  <2> DEFINE e == c[S]
             y == F[S \ {e}]
  <2>1. e \in S /\ e \in D
    BY <1>6, <1>17 DEF Takes
  <2>2. PICK p \in Players : \E b \in Ids : e = Event(p, b, 0)
    BY <1>4, <2>1
  <2>3. PICK b \in Ids : e = Event(p, b, 0)
    BY <2>2
  <2>4. F[S] = RemoveEvent(y, e) /\ Executed(base, y, S \ {e})
    BY <1>15, <1>17
  <2> DEFINE r == F[S]
  <2> HIDE DEF e, y, r
  <2>5. /\ Event(p, b, 0) \in S /\ Executed(base, y, S \ {Event(p, b, 0)})
        /\ r = RemoveEvent(y, Event(p, b, 0))
    BY <2>1, <2>3, <2>4 DEF r
  <2>6. Executed(base, r, S)
    BY <1>2, <2>5, OneExecuted
  <2> QED BY <2>6 DEF r
<1>18. \A S \in SUBSET D : S \in T
  <2> HIDE DEF T
  <2>1. \A S \in SUBSET D : S # {} /\ S \ {c[S]} \in T => S \in T
    BY <1>17
  <2> QED BY <1>3, <1>6, <1>16, <2>1, AllParts
<1>19. D \in T
  BY <1>18
<1> QED BY <1>0, <1>19 DEF base, D

\* What the events leave: who was queued stays, except who is found while its own
\* invitation to the battleground of its slot ends.
EndsNow(s, p) ==
  FindPlayer(s, p) /\ \E b : b # 0 /\ Entry(s.queue, p, b, 1) /\ s.slot[p] = b

LEMMA UpdateEventsGood ==
  ASSUME NEW s, Good(s)
  PROVE  /\ Good(UpdateEvents(s)) /\ Fresh(UpdateEvents(s))
         /\ \A p \in Players :
              Queued(UpdateEvents(s).queue, p) <=> Queued(s.queue, p) /\ ~EndsNow(s, p)
<1> DEFINE x == Passed(s)
           r == UpdateEvents(s)
           D == Due(s.events)
<1>1. s \in States /\ QueueOK(s.queue) /\ s.events \in SUBSET Events
  BY DEF Good, States
<1>2. Executed(x, r, D)
  BY UpdateEventsIs
<1>3. /\ Aged(s.queue, x.queue) /\ x.slot = s.slot /\ x.place = s.place
      /\ x.events = Later(s.events) \ Due(s.events)
  BY <1>1, PassedIs
<1>4. Good(x) /\ Fresh(x)
  BY PassedGood
<1>5. /\ \A p : Queued(x.queue, p) <=> Queued(s.queue, p)
      /\ \A p, b, l : Entry(s.queue, p, b, l) => Entry(x.queue, p, b, Older(b, l))
      /\ \A p, b, l : Entry(x.queue, p, b, l) => \E k : Entry(s.queue, p, b, k) /\ l = Older(b, k)
  BY <1>1, <1>3, AgedEntries
<1>6. /\ \A e \in D : \E p \in Players : \E b \in Ids : e = Event(p, b, 0) /\ Event(p, b, 1) \in s.events
      /\ \A p \in Players, b \in Ids : Event(p, b, 1) \in s.events => Event(p, b, 0) \in D
  BY <1>1, LaterIs
<1> HIDE DEF x, r, D
<1>7. Fresh(r)
  <2>1. ASSUME NEW p \in Players, NEW b \in Ids, Event(p, b, AcceptTime) \in r.events
        PROVE  Entry(r.queue, p, b, AcceptTime)
    <3>1. Event(p, b, AcceptTime) \in x.events
      BY <1>2, <2>1 DEF Executed
    <3>2. Event(p, b, AcceptTime + 1) \in s.events
      <4>1. AcceptTime \in 1..AcceptTime
        BY Facts
      <4> QED BY <1>1, <1>3, <3>1, <4>1, LaterIs
    <3>3. Event(p, b, AcceptTime + 1).left \in 1..AcceptTime
      BY <1>1, <3>2 DEF Events
    <3>4. Event(p, b, AcceptTime + 1).left = AcceptTime + 1
      BY DEF Event
    <3>5. FALSE
      BY <3>3, <3>4, Facts
    <3> QED BY <3>5
  <2> QED BY <2>1 DEF Fresh
<1>8. ASSUME NEW p \in Players PROVE Expired(x, D, p) <=> EndsNow(s, p)
  <2>0. EventsOK(s, p) /\ 1 \in 1..AcceptTime
    BY Facts DEF Good, PlayerOK
  <2>1. FindPlayer(x, p) <=> FindPlayer(s, p)
    BY <1>3 DEF FindPlayer
  <2>2. ASSUME Expired(x, D, p) PROVE EndsNow(s, p)
    <3>1. PICK b : Entry(x.queue, p, b, 0) /\ Event(p, b, 0) \in D
      BY <2>2 DEF Expired
    <3>2. PICK q \in Players : \E c \in Ids : Event(p, b, 0) = Event(q, c, 0) /\ Event(q, c, 1) \in s.events
      BY <1>6, <3>1
    <3>3. PICK c \in Ids : Event(p, b, 0) = Event(q, c, 0) /\ Event(q, c, 1) \in s.events
      BY <3>2
    <3>4. p = q /\ b = c
      BY <3>3 DEF Event
    <3>5. PICK k : Entry(s.queue, p, b, k) /\ 0 = Older(b, k)
      BY <1>5, <3>1
    <3>6. b # 0 /\ k \in -1..AcceptTime /\ b \in Ids
      <4>1. k \in -1..AcceptTime
        BY <1>1, <3>5, EntryTyped DEF QueueOK
      <4> QED BY <3>4, <4>1, Facts DEF Ids
    <3>7. k = 1
      BY <3>5, <3>6, Facts DEF Older
    <3>8. s.slot[p] = b
      BY <2>0, <3>3, <3>4, <3>5, <3>6, <3>7 DEF EventsOK
    <3>9. FindPlayer(s, p)
      BY <2>1, <2>2 DEF Expired
    <3> QED BY <3>5, <3>6, <3>7, <3>8, <3>9 DEF EndsNow
  <2>3. ASSUME EndsNow(s, p) PROVE Expired(x, D, p)
    <3>1. PICK b : b # 0 /\ Entry(s.queue, p, b, 1) /\ s.slot[p] = b
      BY <2>3 DEF EndsNow
    <3>2. b \in Ids
      <4>1. b \in 0..MaxBattlegrounds
        BY <1>1, <3>1, EntryTyped DEF QueueOK
      <4> QED BY <1>1, <3>1, <4>1, Live
    <3>3. Event(p, b, 0) \in D
      BY <1>6, <2>0, <3>1, <3>2 DEF EventsOK
    <3>4. Older(b, 1) = 0
      BY <3>1 DEF Older
    <3>5. Entry(x.queue, p, b, 0)
      BY <1>5, <3>1, <3>4
    <3>6. x.slot[p] # NoSlot
      BY <1>3, <3>1, <3>2, Facts DEF NoSlot, Ids
    <3>7. FindPlayer(x, p)
      BY <2>1, <2>3 DEF EndsNow
    <3> QED BY <3>3, <3>5, <3>6, <3>7 DEF Expired
  <2> QED BY <2>2, <2>3
<1>9. ASSUME NEW p \in Players PROVE Queued(r.queue, p) <=> Queued(s.queue, p) /\ ~EndsNow(s, p)
  <2>1. Queued(r.queue, p) <=> Queued(x.queue, p) /\ ~Expired(x, D, p)
    BY <1>2, EntryQueued DEF Executed
  <2> QED BY <1>5, <1>8, <2>1
<1>10. Good(r)
  BY <1>2 DEF Executed
<1> QED BY <1>7, <1>9, <1>10 DEF r

-----------------------------------------------------------------------------
(* The matching.                                                             *)

\* the group g waits in the queue q
Waits(q, g) == g.bg = 0 /\ \E t \in Teams : \E i \in 1..Len(q[t]) : q[t][i] = g

\* an invitation of some players of g to b
Invited(s, r, b, g, found) ==
  /\ r \in States /\ r.instance = s.instance /\ r.place = s.place
  /\ \A c \in Ids : r.bg[c].status = s.bg[c].status /\ r.bg[c].players = s.bg[c].players
  /\ found \in SUBSET g.players
  /\ \A p \in Players : r.slot[p] = IF p \in found THEN b ELSE s.slot[p]
  /\ r.events = s.events \cup {Event(p, b, AcceptTime) : p \in found}
  /\ \A t \in Teams : Len(r.queue[t]) = Len(s.queue[t])
  /\ \A t \in Teams : \A i \in 1..Len(s.queue[t]) :
       /\ s.queue[t][i] = g => /\ r.queue[t][i].players = g.players /\ r.queue[t][i].bg = b
                               /\ r.queue[t][i].left = AcceptTime
       /\ s.queue[t][i] # g => r.queue[t][i] = s.queue[t][i]

LEMMA GroupTyped ==
  ASSUME NEW q, QueueOK(q), NEW g, Waits(q, g)
  PROVE  /\ g \in Groups /\ g.players \in SUBSET Players /\ g.players # {} /\ IsFiniteSet(g.players)
         /\ \E t \in Teams : \E i \in 1..Len(q[t]) : q[t][i] = g
         /\ \A t \in Teams : \A i \in 1..Len(q[t]) : q[t][i] = g => \A p \in g.players : Team(p) = t
<1>1. PICK t \in Teams : \E i \in 1..Len(q[t]) : q[t][i] = g
  BY DEF Waits
<1>2. PICK i \in 1..Len(q[t]) : q[t][i] = g
  BY <1>1
<1>3. q[t] \in Seq(Groups)
  BY DEF QueueOK
<1>4. g \in Groups
  BY <1>2, <1>3, ElementOfSeq
<1>5. g.players \in SUBSET Players /\ g.players # {}
  BY <1>4 DEF Groups
<1>6. IsFiniteSet(g.players)
  BY <1>5, Facts, FS_Subset
<1> QED BY <1>1, <1>4, <1>5, <1>6 DEF QueueOK

LEMMA InviteGroupIs ==
  ASSUME NEW s, s \in States, NEW b \in Ids, NEW g \in Groups
  PROVE  /\ InviteGroup(s, b, g) \in States
         /\ QueueOK(s.queue) /\ Waits(s.queue, g) =>
              Invited(s, InviteGroup(s, b, g), b, g, {p \in g.players : FindPlayer(s, p)})
<1> DEFINE t == Team(CHOOSE p \in g.players : TRUE)
           found == {p \in g.players : FindPlayer(s, p)}
           n == Cardinality(found)
           x == ChangeInvited(s, b, t, n)
           q == x.queue
           h == [g EXCEPT !.bg = b, !.left = AcceptTime]
           line == [i \in DOMAIN q[t] |-> IF q[t][i] = g THEN h ELSE q[t][i]]
           nq == [q EXCEPT ![t] = line]
           sl == [p \in Players |-> IF p \in found THEN b ELSE x.slot[p]]
           ev == x.events \cup {Event(p, b, AcceptTime) : p \in found}
           r == [x EXCEPT !.queue = nq, !.slot = sl, !.events = ev]
<1>1. g \in Groups /\ g.players \in SUBSET Players /\ g.players # {} /\ IsFiniteSet(g.players)
  <2>1. g.players \in SUBSET Players /\ g.players # {}
    BY DEF Groups
  <2> QED BY <2>1, Facts, FS_Subset
<1>2. (CHOOSE p \in g.players : TRUE) \in g.players
  BY <1>1
<1>3. t \in Teams
  BY <1>1, <1>2, Facts
<1>17. ASSUME QueueOK(s.queue), Waits(s.queue, g)
       PROVE  \A u \in Teams : \A i \in 1..Len(s.queue[u]) : s.queue[u][i] = g => u = t
  BY <1>2, <1>17, GroupTyped
<1>4. found \in SUBSET g.players /\ n \in Int
  <2>1. found \in SUBSET g.players
    OBVIOUS
  <2>2. IsFiniteSet(found)
    BY <1>1, FS_Subset
  <2>3. n \in Nat
    BY <2>2, FS_CardinalityType
  <2> QED BY <2>1, <2>3
<1> HIDE DEF t, found, n
<1>5. Still(s, x)
  BY <1>3, <1>4, ChangeInvitedStill
<1>6. InviteGroup(s, b, g) = r
  <2>1. InviteGroup(s, b, g) = [x EXCEPT
         !.queue[t] = [i \in DOMAIN @ |-> IF @[i] = g THEN [g EXCEPT !.bg = b, !.left = AcceptTime]
                                                      ELSE @[i]],
         !.slot = [p \in Players |-> IF p \in found THEN b ELSE @[p]],
         !.events = @ \cup {[player |-> p, bg |-> b, left |-> AcceptTime] : p \in found}]
    BY Zenon DEF InviteGroup, t, found, n
  <2>2. {[player |-> p, bg |-> b, left |-> AcceptTime] : p \in found}
        = {Event(p, b, AcceptTime) : p \in found}
    BY Zenon DEF Event
  <2>3. [x EXCEPT !.queue = nq].slot = x.slot /\ [x EXCEPT !.queue = nq, !.slot = sl].events = x.events
    BY <1>5 DEF Still, States
  <2> HIDE DEF x
  <2> QED BY <2>1, <2>2, <2>3
<1>7. /\ x \in States /\ q = s.queue /\ x.slot = s.slot /\ x.events = s.events
      /\ x.instance = s.instance /\ x.place = s.place
      /\ \A c \in Ids : x.bg[c].status = s.bg[c].status /\ x.bg[c].players = s.bg[c].players
  BY <1>5 DEF Still
<1> HIDE DEF x
<1>8. h \in Groups /\ h.players = g.players /\ h.bg = b /\ h.left = AcceptTime
  <2>1. b \in 0..MaxBattlegrounds /\ AcceptTime \in -1..AcceptTime
    BY Facts DEF Ids
  <2> QED BY <1>1, <2>1 DEF Groups
<1> HIDE DEF h, q
<1>9. q[t] \in Seq(Groups) /\ q \in [Teams -> Seq(Groups)]
  BY <1>3, <1>7 DEF States
<1>10. /\ line \in Seq(Groups) /\ Len(line) = Len(q[t])
       /\ \A i \in 1..Len(q[t]) : line[i] = IF q[t][i] = g THEN h ELSE q[t][i]
  <2> DEFINE old == q[t]
             m == Len(old)
  <2>1. old \in Seq(Groups) /\ m \in Nat /\ DOMAIN old = 1..m
    BY <1>9, LenProperties
  <2>2. line = [i \in 1..m |-> IF old[i] = g THEN h ELSE old[i]]
    BY <2>1
  <2> HIDE DEF old, line
  <2>3. \A i \in 1..m : old[i] \in Groups
    BY <2>1, ElementOfSeq
  <2> HIDE DEF m
  <2>4. line \in [1..m -> Groups]
    BY <1>8, <2>2, <2>3
  <2>5. line \in Seq(Groups) /\ Len(line) = m
    BY <2>1, <2>4, LineTyped
  <2>6. \A i \in 1..m : line[i] = IF old[i] = g THEN h ELSE old[i]
    BY <2>2
  <2> QED BY <2>5, <2>6 DEF old, m
<1> HIDE DEF line
<1>11. nq \in [Teams -> Seq(Groups)] /\ nq[t] = line /\ \A u \in Teams \ {t} : nq[u] = q[u]
  BY <1>3, <1>9, <1>10
<1> HIDE DEF nq
<1>12. /\ sl \in [Players -> NoSlot..MaxBattlegrounds]
       /\ \A p \in Players : sl[p] = IF p \in found THEN b ELSE s.slot[p]
  <2>1. b \in NoSlot..MaxBattlegrounds
    BY Facts DEF Ids, NoSlot
  <2> QED BY <1>7, <2>1 DEF States
<1> HIDE DEF sl
<1>13. ev \in SUBSET Events /\ ev = s.events \cup {Event(p, b, AcceptTime) : p \in found}
  <2>1. \A p \in found : p \in Players
    BY <1>1, <1>4
  <2>2. \A p \in found : Event(p, b, AcceptTime) \in Events
    BY <2>1, Facts DEF Event, Events
  <2> QED BY <1>7, <2>2 DEF States
<1> HIDE DEF ev
<1>14. /\ r \in States /\ r.queue = nq /\ r.slot = sl /\ r.events = ev /\ r.instance = x.instance
       /\ r.place = x.place /\ r.bg = x.bg
  BY <1>7, <1>11, <1>12, <1>13 DEF States
<1> HIDE DEF r
<1>15. ASSUME QueueOK(s.queue), Waits(s.queue, g), NEW u \in Teams
       PROVE  /\ Len(nq[u]) = Len(s.queue[u])
              /\ \A i \in 1..Len(s.queue[u]) :
                   /\ s.queue[u][i] = g => /\ nq[u][i].players = g.players /\ nq[u][i].bg = b
                                           /\ nq[u][i].left = AcceptTime
                   /\ s.queue[u][i] # g => nq[u][i] = s.queue[u][i]
  <2>1. CASE u = t
    BY <1>7, <1>8, <1>10, <1>11, <2>1
  <2>2. CASE u # t
    BY <1>7, <1>11, <1>15, <1>17, <2>2
  <2> QED BY <2>1, <2>2
<1>16. ASSUME QueueOK(s.queue), Waits(s.queue, g) PROVE Invited(s, r, b, g, found)
  BY <1>4, <1>7, <1>12, <1>13, <1>14, <1>15, <1>16 DEF Invited
<1>18. QueueOK(s.queue) /\ Waits(s.queue, g) => Invited(s, r, b, g, found)
  BY <1>16
<1> QED BY <1>6, <1>14, <1>18 DEF found

\* the queue n is q, with g invited to b
Reinvited(q, n, b, g) ==
  /\ QueueOK(n) /\ \A p : Queued(n, p) <=> Queued(q, p)
  /\ \A p, c, l : p \in g.players => (Entry(n, p, c, l) <=> c = b /\ l = AcceptTime)
  /\ \A p, c, l : p \notin g.players => (Entry(n, p, c, l) <=> Entry(q, p, c, l))
  /\ \A p \in g.players : Entry(q, p, 0, g.left)
  /\ \A h : h # g /\ Waits(q, h) => Waits(n, h)

LEMMA InvitedEntries ==
  ASSUME NEW s, QueueOK(s.queue), NEW g, Waits(s.queue, g), NEW b, NEW found, NEW r,
         Invited(s, r, b, g, found)
  PROVE  Reinvited(s.queue, r.queue, b, g)
<1> DEFINE q == s.queue
           n == r.queue
<1>1. PICK t \in Teams : \E i \in 1..Len(q[t]) : q[t][i] = g
  BY DEF Waits
<1>2. PICK i \in 1..Len(q[t]) : q[t][i] = g
  BY <1>1
<1>3. /\ \A u \in Teams : Len(n[u]) = Len(q[u])
      /\ \A u \in Teams : \A j \in 1..Len(q[u]) :
           /\ q[u][j] = g => n[u][j].players = g.players /\ n[u][j].bg = b /\ n[u][j].left = AcceptTime
           /\ q[u][j] # g => n[u][j] = q[u][j]
  BY DEF Invited
<1>4. r \in States
  BY DEF Invited
<1>5. n \in [Teams -> Seq(Groups)]
  BY <1>4 DEF States
<1>6. QueueOK(q) /\ Waits(q, g)
  OBVIOUS
<1> HIDE DEF q, n
<1>7. \A u \in Teams : \A j \in 1..Len(q[u]) : n[u][j].players = q[u][j].players
  BY <1>3
<1>8. QueueOK(n) /\ \A p : Queued(n, p) <=> Queued(q, p)
  BY <1>3, <1>5, <1>6, <1>7, ChangedEntries
<1>9. ASSUME NEW p \in g.players, NEW u \in Teams, NEW j \in 1..Len(q[u]), p \in q[u][j].players
      PROVE  q[u][j] = g
  <2>1. u = t
    BY <1>2, <1>6, <1>9 DEF QueueOK
  <2>2. i = j
    BY <1>2, <1>6, <1>9, <2>1 DEF QueueOK, Apart
  <2> QED BY <1>2, <2>1, <2>2
<1>10. ASSUME NEW p \in g.players, NEW c, NEW l, Entry(n, p, c, l) PROVE c = b /\ l = AcceptTime
  <2>1. PICK u \in Teams : \E j \in 1..Len(n[u]) :
           p \in n[u][j].players /\ n[u][j].bg = c /\ n[u][j].left = l
    BY <1>10 DEF Entry
  <2>2. PICK j \in 1..Len(n[u]) : p \in n[u][j].players /\ n[u][j].bg = c /\ n[u][j].left = l
    BY <2>1
  <2>3. j \in 1..Len(q[u]) /\ p \in q[u][j].players
    BY <1>3, <1>7, <2>2
  <2>4. q[u][j] = g
    BY <1>9, <2>3
  <2> QED BY <1>3, <2>2, <2>3, <2>4
<1>11. ASSUME NEW p \in g.players PROVE Entry(n, p, b, AcceptTime) /\ Entry(q, p, 0, g.left)
  <2>1. n[t][i].players = g.players /\ n[t][i].bg = b /\ n[t][i].left = AcceptTime
    BY <1>2, <1>3
  <2>2. i \in 1..Len(n[t]) /\ g.bg = 0
    BY <1>3, <1>6 DEF Waits
  <2> QED BY <1>2, <2>1, <2>2 DEF Entry
<1>12. ASSUME NEW p, p \notin g.players, NEW c, NEW l
       PROVE  Entry(n, p, c, l) <=> Entry(q, p, c, l)
  <2>1. \A u \in Teams : \A j \in 1..Len(q[u]) : p \in q[u][j].players => n[u][j] = q[u][j]
    BY <1>3, <1>12
  <2>2. \A u \in Teams : \A j \in 1..Len(q[u]) :
          (p \in n[u][j].players /\ n[u][j].bg = c /\ n[u][j].left = l)
          <=> (p \in q[u][j].players /\ q[u][j].bg = c /\ q[u][j].left = l)
    BY <1>7, <2>1
  <2> QED BY <1>3, <2>2 DEF Entry
<1>13. ASSUME NEW h, h # g, Waits(q, h) PROVE Waits(n, h)
  <2>1. PICK u \in Teams : \E j \in 1..Len(q[u]) : q[u][j] = h
    BY <1>13 DEF Waits
  <2>2. PICK j \in 1..Len(q[u]) : q[u][j] = h
    BY <2>1
  <2>3. j \in 1..Len(n[u]) /\ n[u][j] = h /\ h.bg = 0
    BY <1>3, <1>13, <2>2 DEF Waits
  <2> QED BY <2>3 DEF Waits
<1>14. \A p, c, l : p \in g.players => (Entry(n, p, c, l) <=> c = b /\ l = AcceptTime)
  BY <1>10, <1>11
<1>15. \A p, c, l : p \notin g.players => (Entry(n, p, c, l) <=> Entry(q, p, c, l))
  BY <1>12
<1> QED BY <1>8, <1>11, <1>13, <1>14, <1>15 DEF q, n, Reinvited

\* Invitations leave everything as it must be, and everybody queued who was.
Inviting(s, r) ==
  /\ Good(r) /\ Fresh(r) /\ SameStages(s, r)
  /\ \A p : Queued(r.queue, p) <=> Queued(s.queue, p)

LEMMA InviteGroupGood ==
  ASSUME NEW s, Good(s), Fresh(s), NEW b \in Ids, Stage(s, b) = "LIVE", NEW g, Waits(s.queue, g),
         NEW r, r = InviteGroup(s, b, g)
  PROVE  Inviting(s, r) /\ \A h : h # g /\ Waits(s.queue, h) => Waits(r.queue, h)
<1>1. s \in States /\ QueueOK(s.queue)
  BY DEF Good
<1>2. PICK found : Invited(s, r, b, g, found)
  <2>1. g \in Groups
    BY <1>1, GroupTyped
  <2> QED BY <1>1, <2>1, InviteGroupIs
<1>3. /\ r \in States /\ r.instance = s.instance /\ r.place = s.place
      /\ \A c \in Ids : r.bg[c].status = s.bg[c].status /\ r.bg[c].players = s.bg[c].players
      /\ found \in SUBSET g.players
      /\ \A p \in Players : r.slot[p] = IF p \in found THEN b ELSE s.slot[p]
      /\ r.events = s.events \cup {Event(p, b, AcceptTime) : p \in found}
  BY <1>2 DEF Invited
<1>4. /\ QueueOK(r.queue) /\ \A p : Queued(r.queue, p) <=> Queued(s.queue, p)
      /\ \A p, c, l : p \in g.players => (Entry(r.queue, p, c, l) <=> c = b /\ l = AcceptTime)
      /\ \A p, c, l : p \notin g.players => (Entry(r.queue, p, c, l) <=> Entry(s.queue, p, c, l))
      /\ \A p \in g.players : Entry(s.queue, p, 0, g.left)
      /\ \A h : h # g /\ Waits(s.queue, h) => Waits(r.queue, h)
  <2>1. Reinvited(s.queue, r.queue, b, g)
    BY <1>1, <1>2, InvitedEntries
  <2> QED BY <2>1 DEF Reinvited
<1>5. SameStages(s, r)
  BY <1>3 DEF SameStages, Stage
<1>6. b # 0 /\ 0 \notin Ids /\ \A c \in Ids : c # 0
  BY Facts DEF Ids
<1>7. \A p, c, l : Event(p, c, l) \in r.events <=>
                    Event(p, c, l) \in s.events \/ (p \in found /\ c = b /\ l = AcceptTime)
  <2>1. \A p, c, l, y : Event(p, c, l) = Event(y, b, AcceptTime) <=> p = y /\ c = b /\ l = AcceptTime
    BY DEF Event
  <2> QED BY <1>3, <2>1
<1>8. ASSUME NEW p \in g.players, NEW c \in Ids, p \in Players PROVE Event(p, c, AcceptTime) \notin s.events
  <2>1. ASSUME Event(p, c, AcceptTime) \in s.events PROVE FALSE
    <3>1. Entry(s.queue, p, c, AcceptTime)
      BY <1>8, <2>1 DEF Fresh
    <3>2. Entry(s.queue, p, 0, g.left)
      BY <1>4
    <3> QED BY <1>1, <1>6, <3>1, <3>2, EntryUnique
  <2> QED BY <2>1
<1>9. ASSUME NEW p \in Players PROVE PlayerOK(r, p)
  <2>0. PlayerOK(s, p)
    BY DEF Good
  <2>1. CASE p \notin g.players
    <3>1. p \notin found
      BY <1>3, <2>1
    <3>2. SameFor(s, r, p)
      BY <1>3, <1>4, <1>7, <2>1, <3>1 DEF SameFor
    <3> QED BY <1>1, <1>3, <1>5, <2>0, <3>2, Undisturbed
  <2>2. CASE p \in g.players
    <3>0. WaitingOK(s, p) /\ InsideOK(s, p) /\ ParticipantOK(s, p)
      BY <2>0 DEF PlayerOK
    <3>1. Entry(s.queue, p, 0, g.left) /\ Queued(s.queue, p) /\ Queued(r.queue, p)
      BY <1>4, <2>2, EntryQueued
    <3>2. s.slot[p] = 0 /\ s.place[p] # "offline" /\ ~InBattle(s, p)
      BY <3>0, <3>1 DEF WaitingOK
    <3>3. r.slot[p] = IF p \in found THEN b ELSE 0
      BY <1>3, <3>2
    <3>4. s.instance[p] \in 0..MaxBattlegrounds
      BY <1>1 DEF States
    <3>5. InBattle(r, p) <=> InBattle(s, p)
      BY <1>1, <1>3, <1>5, <3>4, Live DEF InBattle, SameStages
    <3>6. WaitingOK(r, p)
      <4>1. Stage(r, b) # "NONE"
        BY <1>5 DEF SameStages
      <4> QED BY <1>3, <1>4, <2>2, <3>2, <3>3, <3>5, <4>1 DEF WaitingOK
    <3>7. HolderOK(r, p)
      BY <3>1 DEF HolderOK
    <3>8. InsideOK(r, p)
      BY <1>1, <1>3, <1>5, <3>0, <3>2, <3>4, <3>5, Live DEF InsideOK, SameStages
    <3>9. ParticipantOK(r, p)
      <4>1. \A c \in Ids : p \notin s.bg[c].players
        BY <1>6, <3>0, <3>2 DEF ParticipantOK
      <4> QED BY <1>3, <4>1 DEF ParticipantOK
    <3>10. EventsOK(r, p)
      <4>1. r.slot[p] = b <=> p \in found
        BY <1>6, <3>3
      <4>2. Event(p, b, AcceptTime) \in r.events <=> p \in found
        BY <1>7, <1>8, <2>2
      <4> QED BY <1>4, <2>2, <4>1, <4>2 DEF EventsOK
    <3> QED BY <3>6, <3>7, <3>8, <3>9, <3>10 DEF PlayerOK
  <2> QED BY <2>1, <2>2
<1>10. Fresh(r)
  <2>1. ASSUME NEW p \in Players, NEW c \in Ids, Event(p, c, AcceptTime) \in r.events
        PROVE  Entry(r.queue, p, c, AcceptTime)
    <3>1. CASE p \in g.players
      <4>1. c = b
        BY <1>7, <1>8, <2>1, <3>1
      <4> QED BY <1>4, <3>1, <4>1
    <3>2. CASE p \notin g.players
      <4>1. Event(p, c, AcceptTime) \in s.events
        BY <1>3, <1>7, <2>1, <3>2
      <4>2. Entry(s.queue, p, c, AcceptTime)
        BY <4>1 DEF Fresh
      <4> QED BY <1>4, <3>2, <4>2
    <3> QED BY <3>1, <3>2
  <2> QED BY <2>1 DEF Fresh
<1>11. Good(r)
  BY <1>3, <1>4, <1>9 DEF Good
<1> QED BY <1>4, <1>5, <1>10, <1>11 DEF Inviting

\* the groups chosen, each once, wait in q
Chosen(q, groups) ==
  /\ groups \in Seq(Groups)
  /\ \A i \in 1..Len(groups) : Waits(q, groups[i])
  /\ \A i, j \in 1..Len(groups) : i # j => groups[i] # groups[j]

LEMMA InviteGroupsGood ==
  ASSUME NEW s, Good(s), Fresh(s), NEW b \in Ids, Stage(s, b) = "LIVE", NEW groups, Chosen(s.queue, groups),
         NEW r, r = InviteGroups(s, b, groups)
  PROVE  /\ Inviting(s, r)
         /\ \A h : (\A i \in 1..Len(groups) : h # groups[i]) /\ Waits(s.queue, h) => Waits(r.queue, h)
<1> DEFINE n == Len(groups)
           op(x, g) == InviteGroup(x, b, g)
           V == States
           step == [k \in 1..n |-> [x \in V |-> op(x, groups[k])]]
           F == CHOOSE g : g = [S \in SUBSET (DOMAIN groups) |->
                  IF S = {} THEN s ELSE op(g[S \ {Max(S)}], groups[Max(S)])]
<1>0. r = F[DOMAIN groups]
  BY Zenon DEF InviteGroups, FoldLeft, MapThenFoldSet
<1>1. n \in Nat /\ DOMAIN groups = 1..n
  BY LenProperties DEF Chosen
<1>2. s \in V
  BY DEF Good
<1>3. ASSUME NEW k \in 1..n, NEW x \in V PROVE op(x, groups[k]) \in V
  <2>1. groups[k] \in Groups
    BY ElementOfSeq DEF Chosen
  <2> QED BY <2>1, InviteGroupIs
<1> HIDE DEF op, n
<1>4. step \in [1..n -> [V -> V]]
  BY <1>3
<1>5. \A k \in 1..n, x \in V : step[k][x] = op(x, groups[k])
  OBVIOUS
<1> HIDE DEF step
<1>6. PICK g \in [SUBSET (1..n) -> V] : Folds(g, n, s, step)
  <2> HIDE DEF V
  <2> QED BY <1>1, <1>2, <1>4, SequenceLoop
<1>7. g = [S \in SUBSET (DOMAIN groups) |-> IF S = {} THEN s ELSE op(g[S \ {Max(S)}], groups[Max(S)])]
  <2> HIDE DEF V
  <2>1. ASSUME NEW S \in SUBSET (1..n), S # {} PROVE g[S] = op(g[S \ {Max(S)}], groups[Max(S)])
    <3>1. g[S] = step[Max(S)][g[S \ {Max(S)}]]
      BY <1>6, <2>1, Zenon DEF Folds
    <3>2. Max(S) \in S
      BY <1>1, <2>1, LastPosition
    <3>3. g[S \ {Max(S)}] \in V /\ Max(S) \in 1..n
      BY <1>6, <3>2
    <3> QED BY <1>1, <1>5, <3>1, <3>3
  <2>2. g[{}] = s
    BY <1>6, Zenon DEF Folds
  <2>3. \A S \in SUBSET (1..n) : g[S] = IF S = {} THEN s ELSE op(g[S \ {Max(S)}], groups[Max(S)])
    BY <2>1, <2>2, Zenon
  <2>4. g = [S \in SUBSET (1..n) |-> g[S]]
    BY <1>6
  <2> QED BY <1>1, <2>3, <2>4, Zenon
<1>8. F = [S \in SUBSET (DOMAIN groups) |-> IF S = {} THEN s ELSE op(F[S \ {Max(S)}], groups[Max(S)])]
  BY <1>7, Zenon
<1> HIDE DEF F
<1>9. F[{}] = s
  BY <1>8
<1>10. ASSUME NEW S \in SUBSET (1..n), S # {}, F[S \ {Max(S)}] \in V
       PROVE  F[S] = step[Max(S)][F[S \ {Max(S)}]]
  <2> HIDE DEF V
  <2>1. F[S] = op(F[S \ {Max(S)}], groups[Max(S)])
    BY <1>1, <1>8, <1>10
  <2>2. Max(S) \in 1..n
    <3>1. Max(S) \in S
      BY <1>1, <1>10, LastPosition
    <3> QED BY <3>1
  <2> QED BY <1>1, <1>5, <1>10, <2>1, <2>2
<1>11. PICK f \in [0..n -> V] : Steps(f, n, s, step) /\ f[n] = F[1..n]
  <2> HIDE DEF V
  <2>1. FoldsIn(F, n, V, s, step)
    BY <1>9, <1>10 DEF FoldsIn
  <2> QED BY <1>1, <1>2, <1>4, <2>1, SequenceSteps
<1> DEFINE T == {k \in 0..n : /\ Inviting(s, f[k])
                              /\ \A h : (\A i \in 1..k : h # groups[i]) /\ Waits(s.queue, h) => Waits(f[k].queue, h)}
<1>12. 0 \in T
  <2>1. Inviting(s, s)
    BY DEF Inviting, SameStages
  <2>2. f[0] = s
    BY <1>11 DEF Steps
  <2>3. 0 \in 0..n
    BY <1>1
  <2> QED BY <2>1, <2>2, <2>3
<1>13. ASSUME NEW k \in 1..n, k - 1 \in T PROVE k \in T
  <2> DEFINE x == f[k - 1]
             y == f[k]
             g1 == groups[k]
  <2>1. y = op(x, g1) /\ x \in V
    <3>1. k - 1 \in 0..n
      BY <1>13
    <3>2. f[k] = step[k][f[k - 1]]
      BY <1>11 DEF Steps
    <3> QED BY <1>5, <1>11, <3>1, <3>2
  <2>2. /\ Inviting(s, x)
        /\ \A h : (\A i \in 1..(k - 1) : h # groups[i]) /\ Waits(s.queue, h) => Waits(x.queue, h)
    BY <1>13
  <2>3. \A i \in 1..(k - 1) : g1 # groups[i]
    <3>1. \A i \in 1..(k - 1) : i \in 1..n /\ i # k
      BY <1>1
    <3> QED BY <3>1 DEF Chosen, n
  <2>4. Waits(s.queue, g1)
    BY DEF Chosen, n
  <2>5. Waits(x.queue, g1)
    BY <2>2, <2>3, <2>4
  <2>6. Good(x) /\ Fresh(x) /\ Stage(x, b) = "LIVE"
    BY <2>2 DEF Inviting, SameStages
  <2> HIDE DEF x, y, g1
  <2>7. y = InviteGroup(x, b, g1)
    BY <2>1 DEF op
  <2>8. Inviting(x, y) /\ \A h : h # g1 /\ Waits(x.queue, h) => Waits(y.queue, h)
    BY <2>5, <2>6, <2>7, InviteGroupGood
  <2>9. Inviting(s, y)
    BY <2>2, <2>8 DEF Inviting, SameStages
  <2>10. ASSUME NEW h, \A i \in 1..k : h # groups[i], Waits(s.queue, h) PROVE Waits(y.queue, h)
    <3>1. k \in 1..k /\ \A i \in 1..(k - 1) : i \in 1..k
      BY <1>1
    <3>2. Waits(x.queue, h) /\ h # g1
      BY <2>2, <2>10, <3>1 DEF g1
    <3> QED BY <2>8, <3>2
  <2> QED BY <2>9, <2>10 DEF y
<1>14. n \in T
  <2> HIDE DEF T
  <2> QED BY <1>1, <1>12, <1>13, UpTo
<1>15. r = f[n]
  BY <1>0, <1>1, <1>11
<1>16. /\ Inviting(s, f[n])
       /\ \A h : (\A i \in 1..n : h # groups[i]) /\ Waits(s.queue, h) => Waits(f[n].queue, h)
  BY <1>14
<1> QED BY <1>15, <1>16 DEF n

\* The selection pools: some of the waiting groups of a line, in its order.
Pools == [groups : Seq(Groups), count : Nat, more : BOOLEAN]
Picked(line, k, groups) ==
  /\ groups \in Seq(Groups)
  /\ \A i \in 1..Len(groups) : groups[i].bg = 0 /\ \E j \in 1..k : groups[i] = line[j]
  /\ \A i, j \in 1..Len(groups) : i # j => groups[i] # groups[j]
Grows(x, r, g) == r.groups = x.groups \/ (g.bg = 0 /\ r.groups = Append(x.groups, g))

LEMMA NoGroupsIs ==
  NoGroups \in Pools /\ NoGroups.groups = <<>>
<1>1. <<>> \in Seq(Groups) /\ TRUE \in BOOLEAN /\ 0 \in Nat
  OBVIOUS
<1> QED BY <1>1 DEF NoGroups, Pools

LEMMA AddGroupIs ==
  ASSUME NEW x \in Pools, NEW g \in Groups, NEW desired, NEW r, r = AddGroup(x, g, desired)
  PROVE  r \in Pools /\ Grows(x, r, g)
<1> DEFINE c == x.count + Cardinality(g.players)
           m == x.count < desired
           gs == Append(x.groups, g)
           yes == TRUE
<1>1. c \in Nat
  <2>1. IsFiniteSet(g.players)
    BY Facts, FS_Subset DEF Groups
  <2>2. Cardinality(g.players) \in Nat
    BY <2>1, FS_CardinalityType
  <2> DEFINE k == Cardinality(g.players)
  <2>3. k \in Nat /\ x.count \in Nat
    BY <2>2 DEF Pools
  <2> HIDE DEF k
  <2>4. x.count + k \in Nat
    BY <2>3
  <2> QED BY <2>4 DEF k
<1>2. m \in BOOLEAN
  OBVIOUS
<1>3. gs \in Seq(Groups)
  BY DEF Pools
<1>4. \/ g.bg = 0 /\ r = [groups |-> gs, count |-> c, more |-> yes]
      \/ r = [x EXCEPT !.more = m]
  BY Zenon DEF AddGroup
<1>5. yes \in BOOLEAN
  OBVIOUS
<1> HIDE DEF c, m, yes
<1>6. CASE g.bg = 0 /\ r = [groups |-> gs, count |-> c, more |-> yes]
  BY <1>1, <1>3, <1>5, <1>6 DEF Grows, Pools
<1>7. CASE r = [x EXCEPT !.more = m]
  BY <1>2, <1>7 DEF Grows, Pools
<1> QED BY <1>4, <1>6, <1>7

LEMMA PickedGrows ==
  ASSUME NEW line \in Seq(Groups), Apart(line), NEW k \in 1..Len(line), NEW x, NEW r,
         Picked(line, k - 1, x.groups), Grows(x, r, line[k])
  PROVE  Picked(line, k, r.groups)
<1> DEFINE gs == x.groups
           ns == r.groups
           g == line[k]
           m == Len(gs)
<1>1. /\ gs \in Seq(Groups) /\ m \in Nat
      /\ \A i \in 1..m : gs[i].bg = 0 /\ \E j \in 1..(k - 1) : gs[i] = line[j]
      /\ \A i, j \in 1..m : i # j => gs[i] # gs[j]
  BY LenProperties DEF Picked
<1>2. \A j \in 1..(k - 1) : j \in 1..k /\ j \in 1..Len(line) /\ j # k
  BY LenProperties
<1>3. k \in 1..k
  OBVIOUS
<1>4. \A j \in 1..(k - 1) : line[j] # g
  <2>1. \A j \in 1..Len(line) : line[j].players # {}
    <3>1. \A j \in 1..Len(line) : line[j] \in Groups
      BY ElementOfSeq
    <3>2. \A h \in Groups : h.players # {}
      BY DEF Groups
    <3> QED BY <3>1, <3>2
  <2>2. \A j \in 1..Len(line) : j # k => line[j].players \cap g.players = {}
    BY DEF Apart
  <2> HIDE DEF g
  <2> QED BY <1>2, <2>1, <2>2
<1>5. g \in Groups
  BY ElementOfSeq
<1>6. CASE ns = gs
  BY <1>1, <1>2, <1>6 DEF Picked
<1>7. CASE g.bg = 0 /\ ns = Append(gs, g)
  <2> HIDE DEF gs, ns, g
  <2>1. ns \in Seq(Groups) /\ Len(ns) = m + 1 /\ (\A i \in 1..m : ns[i] = gs[i]) /\ ns[m + 1] = g
    BY <1>1, <1>5, <1>7, AppendProperties
  <2>2. \A i \in 1..(m + 1) : i \in 1..m \/ i = m + 1
    <3> HIDE DEF m
    <3> QED BY <1>1
  <2>3. \A i \in 1..m : \E j \in 1..k : gs[i] = line[j]
    BY <1>1, <1>2
  <2>4. \A i \in 1..m : gs[i] # g
    BY <1>1, <1>4
  <2>5. \A i \in 1..Len(ns) : ns[i].bg = 0 /\ \E j \in 1..k : ns[i] = line[j]
    BY <1>1, <1>3, <1>7, <2>1, <2>2, <2>3 DEF g
  <2>6. ASSUME NEW i \in 1..Len(ns), NEW j \in 1..Len(ns), i # j PROVE ns[i] # ns[j]
    <3>1. CASE i \in 1..m /\ j \in 1..m
      BY <1>1, <2>1, <2>6, <3>1
    <3>2. CASE i \in 1..m /\ j = m + 1
      BY <2>1, <2>4, <3>2
    <3>3. CASE i = m + 1 /\ j \in 1..m
      BY <2>1, <2>4, <3>3
    <3> QED BY <2>1, <2>2, <2>6, <3>1, <3>2, <3>3
  <2> QED BY <2>1, <2>5, <2>6 DEF Picked, ns
<1> QED BY <1>6, <1>7 DEF Grows

\* what a loop over a line does to the pool at every step
PoolSteps(line, step) ==
  /\ step \in [1..Len(line) -> [Pools -> Pools]]
  /\ \A k \in 1..Len(line), x \in Pools : Grows(x, step[k][x], line[k])

LEMMA PoolLoop ==
  ASSUME NEW line \in Seq(Groups), Apart(line), NEW step, PoolSteps(line, step),
         NEW f \in [0..Len(line) -> Pools], Steps(f, Len(line), NoGroups, step)
  PROVE  Picked(line, Len(line), f[Len(line)].groups)
<1> DEFINE n == Len(line)
           T == {k \in 0..n : Picked(line, k, f[k].groups)}
<1>1. n \in Nat
  BY LenProperties
<1>2. 0 \in T
  <2>1. f[0].groups = <<>>
    BY NoGroupsIs DEF Steps
  <2>2. Picked(line, 0, <<>>)
    BY DEF Picked
  <2>3. 0 \in 0..n
    BY <1>1
  <2> QED BY <2>1, <2>2, <2>3
<1>3. ASSUME NEW k \in 1..n, k - 1 \in T PROVE k \in T
  <2>1. Picked(line, k - 1, f[k - 1].groups) /\ f[k - 1] \in Pools
    BY <1>3
  <2>2. Grows(f[k - 1], f[k], line[k])
    BY <2>1 DEF Steps, PoolSteps
  <2>3. Picked(line, k, f[k].groups)
    BY <2>1, <2>2, PickedGrows
  <2> QED BY <2>3
<1>4. n \in T
  <2> HIDE DEF T
  <2> QED BY <1>1, <1>2, <1>3, UpTo
<1> QED BY <1>4

LEMMA FillPlayersIs ==
  ASSUME NEW line \in Seq(Groups), Apart(line), NEW desired
  PROVE  Picked(line, Len(line), FillPlayers(line, desired).groups)
<1> DEFINE n == Len(line)
           op(x, g) == IF x.more THEN AddGroup(x, g, desired) ELSE x
           V == Pools
           step == [k \in 1..n |-> [x \in V |-> op(x, line[k])]]
           F == CHOOSE g : g = [S \in SUBSET (DOMAIN line) |->
                  IF S = {} THEN NoGroups ELSE op(g[S \ {Max(S)}], line[Max(S)])]
<1>0. FillPlayers(line, desired) = F[DOMAIN line]
  BY Zenon DEF FillPlayers, FoldLeft, MapThenFoldSet
<1>1. n \in Nat /\ DOMAIN line = 1..n
  BY LenProperties
<1>2. NoGroups \in V
  BY NoGroupsIs
<1>3. ASSUME NEW k \in 1..n, NEW x \in V PROVE op(x, line[k]) \in V /\ Grows(x, op(x, line[k]), line[k])
  <2>1. line[k] \in Groups
    BY ElementOfSeq
  <2>2. op(x, line[k]) = AddGroup(x, line[k], desired) \/ op(x, line[k]) = x
    BY Zenon
  <2> HIDE DEF op
  <2>3. CASE op(x, line[k]) = AddGroup(x, line[k], desired)
    BY <2>1, <2>3, AddGroupIs
  <2>4. CASE op(x, line[k]) = x
    BY <2>4 DEF Grows
  <2> QED BY <2>2, <2>3, <2>4
<1> HIDE DEF op, n
<1>4. step \in [1..n -> [V -> V]]
  BY <1>3
<1>5. \A k \in 1..n, x \in V : step[k][x] = op(x, line[k])
  OBVIOUS
<1>16. PoolSteps(line, step)
  <2>1. \A k \in 1..n, x \in V : Grows(x, step[k][x], line[k])
    BY <1>3, <1>5
  <2> QED BY <1>4, <2>1 DEF PoolSteps, n
<1> HIDE DEF step
<1>6. PICK g \in [SUBSET (1..n) -> V] : Folds(g, n, NoGroups, step)
  <2> HIDE DEF V
  <2> QED BY <1>1, <1>2, <1>4, SequenceLoop
<1>7. g = [S \in SUBSET (DOMAIN line) |-> IF S = {} THEN NoGroups ELSE op(g[S \ {Max(S)}], line[Max(S)])]
  <2> HIDE DEF V
  <2>1. ASSUME NEW S \in SUBSET (1..n), S # {} PROVE g[S] = op(g[S \ {Max(S)}], line[Max(S)])
    <3>1. g[S] = step[Max(S)][g[S \ {Max(S)}]]
      BY <1>6, <2>1, Zenon DEF Folds
    <3>2. Max(S) \in S
      BY <1>1, <2>1, LastPosition
    <3>3. g[S \ {Max(S)}] \in V /\ Max(S) \in 1..n
      BY <1>6, <3>2
    <3> QED BY <1>1, <1>5, <3>1, <3>3
  <2>2. g[{}] = NoGroups
    BY <1>6, Zenon DEF Folds
  <2>3. \A S \in SUBSET (1..n) : g[S] = IF S = {} THEN NoGroups ELSE op(g[S \ {Max(S)}], line[Max(S)])
    BY <2>1, <2>2, Zenon
  <2>4. g = [S \in SUBSET (1..n) |-> g[S]]
    BY <1>6
  <2> QED BY <1>1, <2>3, <2>4, Zenon
<1>8. F = [S \in SUBSET (DOMAIN line) |-> IF S = {} THEN NoGroups ELSE op(F[S \ {Max(S)}], line[Max(S)])]
  BY <1>7, Zenon
<1> HIDE DEF F
<1>9. F[{}] = NoGroups
  BY <1>8
<1>10. ASSUME NEW S \in SUBSET (1..n), S # {}, F[S \ {Max(S)}] \in V
       PROVE  F[S] = step[Max(S)][F[S \ {Max(S)}]]
  <2> HIDE DEF V
  <2>1. F[S] = op(F[S \ {Max(S)}], line[Max(S)])
    BY <1>1, <1>8, <1>10
  <2>2. Max(S) \in 1..n
    <3>1. Max(S) \in S
      BY <1>1, <1>10, LastPosition
    <3> QED BY <3>1
  <2> QED BY <1>1, <1>5, <1>10, <2>1, <2>2
<1>11. PICK f \in [0..n -> V] : Steps(f, n, NoGroups, step) /\ f[n] = F[1..n]
  <2> HIDE DEF V
  <2>1. FoldsIn(F, n, V, NoGroups, step)
    BY <1>9, <1>10 DEF FoldsIn
  <2> QED BY <1>1, <1>2, <1>4, <2>1, SequenceSteps
<1>12. Picked(line, n, f[n].groups)
  BY <1>11, <1>16, PoolLoop DEF n
<1> QED BY <1>0, <1>1, <1>11, <1>12 DEF n

LEMMA MatchPoolIs ==
  ASSUME NEW line \in Seq(Groups), Apart(line)
  PROVE  Picked(line, Len(line), MatchPool(line).groups)
<1> DEFINE n == Len(line)
           op(x, g) == IF g.bg = 0 /\ x.count < MinPlayers THEN AddGroup(x, g, MaxPlayers) ELSE x
           V == Pools
           step == [k \in 1..n |-> [x \in V |-> op(x, line[k])]]
           F == CHOOSE g : g = [S \in SUBSET (DOMAIN line) |->
                  IF S = {} THEN NoGroups ELSE op(g[S \ {Max(S)}], line[Max(S)])]
<1>0. MatchPool(line) = F[DOMAIN line]
  BY Zenon DEF MatchPool, FoldLeft, MapThenFoldSet
<1>1. n \in Nat /\ DOMAIN line = 1..n
  BY LenProperties
<1>2. NoGroups \in V
  BY NoGroupsIs
<1>3. ASSUME NEW k \in 1..n, NEW x \in V PROVE op(x, line[k]) \in V /\ Grows(x, op(x, line[k]), line[k])
  <2>1. line[k] \in Groups
    BY ElementOfSeq
  <2>2. op(x, line[k]) = AddGroup(x, line[k], MaxPlayers) \/ op(x, line[k]) = x
    BY Zenon
  <2> HIDE DEF op
  <2>3. CASE op(x, line[k]) = AddGroup(x, line[k], MaxPlayers)
    BY <2>1, <2>3, AddGroupIs
  <2>4. CASE op(x, line[k]) = x
    BY <2>4 DEF Grows
  <2> QED BY <2>2, <2>3, <2>4
<1> HIDE DEF op, n
<1>4. step \in [1..n -> [V -> V]]
  BY <1>3
<1>5. \A k \in 1..n, x \in V : step[k][x] = op(x, line[k])
  OBVIOUS
<1>16. PoolSteps(line, step)
  <2>1. \A k \in 1..n, x \in V : Grows(x, step[k][x], line[k])
    BY <1>3, <1>5
  <2> QED BY <1>4, <2>1 DEF PoolSteps, n
<1> HIDE DEF step
<1>6. PICK g \in [SUBSET (1..n) -> V] : Folds(g, n, NoGroups, step)
  <2> HIDE DEF V
  <2> QED BY <1>1, <1>2, <1>4, SequenceLoop
<1>7. g = [S \in SUBSET (DOMAIN line) |-> IF S = {} THEN NoGroups ELSE op(g[S \ {Max(S)}], line[Max(S)])]
  <2> HIDE DEF V
  <2>1. ASSUME NEW S \in SUBSET (1..n), S # {} PROVE g[S] = op(g[S \ {Max(S)}], line[Max(S)])
    <3>1. g[S] = step[Max(S)][g[S \ {Max(S)}]]
      BY <1>6, <2>1, Zenon DEF Folds
    <3>2. Max(S) \in S
      BY <1>1, <2>1, LastPosition
    <3>3. g[S \ {Max(S)}] \in V /\ Max(S) \in 1..n
      BY <1>6, <3>2
    <3> QED BY <1>1, <1>5, <3>1, <3>3
  <2>2. g[{}] = NoGroups
    BY <1>6, Zenon DEF Folds
  <2>3. \A S \in SUBSET (1..n) : g[S] = IF S = {} THEN NoGroups ELSE op(g[S \ {Max(S)}], line[Max(S)])
    BY <2>1, <2>2, Zenon
  <2>4. g = [S \in SUBSET (1..n) |-> g[S]]
    BY <1>6
  <2> QED BY <1>1, <2>3, <2>4, Zenon
<1>8. F = [S \in SUBSET (DOMAIN line) |-> IF S = {} THEN NoGroups ELSE op(F[S \ {Max(S)}], line[Max(S)])]
  BY <1>7, Zenon
<1> HIDE DEF F
<1>9. F[{}] = NoGroups
  BY <1>8
<1>10. ASSUME NEW S \in SUBSET (1..n), S # {}, F[S \ {Max(S)}] \in V
       PROVE  F[S] = step[Max(S)][F[S \ {Max(S)}]]
  <2> HIDE DEF V
  <2>1. F[S] = op(F[S \ {Max(S)}], line[Max(S)])
    BY <1>1, <1>8, <1>10
  <2>2. Max(S) \in 1..n
    <3>1. Max(S) \in S
      BY <1>1, <1>10, LastPosition
    <3> QED BY <3>1
  <2> QED BY <1>1, <1>5, <1>10, <2>1, <2>2
<1>11. PICK f \in [0..n -> V] : Steps(f, n, NoGroups, step) /\ f[n] = F[1..n]
  <2> HIDE DEF V
  <2>1. FoldsIn(F, n, V, NoGroups, step)
    BY <1>9, <1>10 DEF FoldsIn
  <2> QED BY <1>1, <1>2, <1>4, <2>1, SequenceSteps
<1>12. Picked(line, n, f[n].groups)
  BY <1>11, <1>16, PoolLoop DEF n
<1> QED BY <1>0, <1>1, <1>11, <1>12 DEF n

\* The groups picked for the two teams.
LEMMA TwoTeams ==
  ASSUME NEW q, QueueOK(q), NEW a, NEW h,
         Picked(q["ALLIANCE"], Len(q["ALLIANCE"]), a), Picked(q["HORDE"], Len(q["HORDE"]), h)
  PROVE  /\ Chosen(q, a) /\ Chosen(q, h)
         /\ \A i \in 1..Len(h), j \in 1..Len(a) : h[i] # a[j]
<1>1. "ALLIANCE" \in Teams /\ "HORDE" \in Teams /\ "ALLIANCE" # "HORDE"
  BY DEF Teams
<1>2. ASSUME NEW t \in Teams, NEW gs, Picked(q[t], Len(q[t]), gs)
      PROVE  Chosen(q, gs) /\ \A i \in 1..Len(gs) : \E j \in 1..Len(q[t]) : q[t][j] = gs[i]
  <2>1. \A i \in 1..Len(gs) : gs[i].bg = 0 /\ \E j \in 1..Len(q[t]) : gs[i] = q[t][j]
    BY <1>2 DEF Picked
  <2>2. \A i \in 1..Len(gs) : Waits(q, gs[i])
    BY <2>1 DEF Waits
  <2> QED BY <1>2, <2>1, <2>2 DEF Picked, Chosen
<1>3. /\ Chosen(q, a) /\ \A i \in 1..Len(a) : \E j \in 1..Len(q["ALLIANCE"]) : q["ALLIANCE"][j] = a[i]
      /\ Chosen(q, h) /\ \A i \in 1..Len(h) : \E j \in 1..Len(q["HORDE"]) : q["HORDE"][j] = h[i]
  BY <1>1, <1>2
<1>4. ASSUME NEW i \in 1..Len(h), NEW j \in 1..Len(a), h[i] = a[j] PROVE FALSE
  <2> DEFINE g == h[i]
  <2>1. Waits(q, g)
    BY <1>3 DEF Chosen
  <2>2. \E k \in 1..Len(q["ALLIANCE"]) : q["ALLIANCE"][k] = g
    BY <1>3, <1>4
  <2>3. \E k \in 1..Len(q["HORDE"]) : q["HORDE"][k] = g
    BY <1>3
  <2> HIDE DEF g
  <2>4. g.players # {} /\ \A t \in Teams : \A k \in 1..Len(q[t]) : q[t][k] = g => \A p \in g.players : Team(p) = t
    BY <2>1, GroupTyped
  <2> QED BY <1>1, <2>2, <2>3, <2>4
<1> QED BY <1>3, <1>4

LEMMA InviteBoth ==
  ASSUME NEW s, Good(s), Fresh(s), NEW b \in Ids, Stage(s, b) = "LIVE", NEW a, NEW h,
         Picked(s.queue["ALLIANCE"], Len(s.queue["ALLIANCE"]), a),
         Picked(s.queue["HORDE"], Len(s.queue["HORDE"]), h)
  PROVE  Inviting(s, InviteGroups(InviteGroups(s, b, a), b, h))
<1> DEFINE x == InviteGroups(s, b, a)
           r == InviteGroups(x, b, h)
<1>1. /\ Chosen(s.queue, a) /\ Chosen(s.queue, h)
      /\ \A i \in 1..Len(h), j \in 1..Len(a) : h[i] # a[j]
  BY TwoTeams DEF Good
<1>2. /\ Inviting(s, x)
      /\ \A g : (\A i \in 1..Len(a) : g # a[i]) /\ Waits(s.queue, g) => Waits(x.queue, g)
  BY <1>1, InviteGroupsGood
<1> HIDE DEF x
<1>3. Chosen(x.queue, h)
  <2>1. \A i \in 1..Len(h) : Waits(s.queue, h[i])
    BY <1>1 DEF Chosen
  <2>2. \A i \in 1..Len(h) : Waits(x.queue, h[i])
    BY <1>1, <1>2, <2>1
  <2> QED BY <1>1, <2>2 DEF Chosen
<1>4. Good(x) /\ Fresh(x) /\ Stage(x, b) = "LIVE"
  BY <1>2 DEF Inviting, SameStages
<1>5. Inviting(x, r)
  BY <1>3, <1>4, InviteGroupsGood
<1> HIDE DEF r
<1>6. Inviting(s, r)
  BY <1>2, <1>5 DEF Inviting, SameStages
<1> QED BY <1>6 DEF r, x

LEMMA StillInviting ==
  ASSUME NEW s, NEW r, NEW x, Inviting(s, r), Still(r, x)
  PROVE  Inviting(s, x)
<1>1. Good(x) /\ SameStages(r, x)
  BY StillGood, StillSame DEF Inviting
<1> QED BY <1>1 DEF Inviting, Still, Fresh, SameStages

LEMMA FillGood ==
  ASSUME NEW s, Good(s), Fresh(s), NEW b \in Ids
  PROVE  Inviting(s, Fill(s, b))
<1> DEFINE da == GetFreeSlotsForTeam(s, b, "ALLIANCE")
           dh == GetFreeSlotsForTeam(s, b, "HORDE")
           a == FillPlayers(s.queue["ALLIANCE"], da).groups
           h == FillPlayers(s.queue["HORDE"], dh).groups
           r == InviteGroups(InviteGroups(s, b, a), b, h)
<1>1. s \in States /\ QueueOK(s.queue)
  BY DEF Good
<1>2. \/ Fill(s, b) = s
      \/ Open(s, b) /\ (Fill(s, b) = r \/ Fill(s, b) = RemoveFromFreeSlotQueue(r, b))
  BY Zenon DEF Fill
<1>3. Inviting(s, s)
  BY DEF Inviting, SameStages
<1>4. ASSUME Open(s, b) PROVE Inviting(s, r)
  <2>1. Stage(s, b) = "LIVE"
    BY <1>4 DEF Open, Stage
  <2>2. "ALLIANCE" \in Teams /\ "HORDE" \in Teams
    BY DEF Teams
  <2>3. \A t \in Teams : s.queue[t] \in Seq(Groups) /\ Apart(s.queue[t])
    BY <1>1 DEF QueueOK
  <2>4. /\ Picked(s.queue["ALLIANCE"], Len(s.queue["ALLIANCE"]), a)
        /\ Picked(s.queue["HORDE"], Len(s.queue["HORDE"]), h)
    BY <2>2, <2>3, FillPlayersIs
  <2> HIDE DEF a, h
  <2> QED BY <2>1, <2>4, InviteBoth
<1> HIDE DEF r
<1>5. ASSUME Open(s, b) PROVE Inviting(s, RemoveFromFreeSlotQueue(r, b))
  <2>1. Inviting(s, r)
    BY <1>4, <1>5
  <2>2. r \in States
    BY <2>1 DEF Inviting, Good
  <2>3. Still(r, RemoveFromFreeSlotQueue(r, b))
    BY <2>2, FreeSlotsStill
  <2> QED BY <2>1, <2>3, StillInviting
<1> QED BY <1>2, <1>3, <1>4, <1>5

LEMMA FillAllGood ==
  ASSUME NEW s, Good(s), Fresh(s)
  PROVE  Inviting(s, FoldLeft(Fill, s, s.freeSlots))
<1> DEFINE seq == s.freeSlots
           n == Len(seq)
           op(x, b) == Fill(x, b)
           V == {x \in States : Inviting(s, x)}
           step == [k \in 1..n |-> [x \in V |-> op(x, seq[k])]]
           F == CHOOSE g : g = [S \in SUBSET (DOMAIN seq) |->
                  IF S = {} THEN s ELSE op(g[S \ {Max(S)}], seq[Max(S)])]
<1>0. FoldLeft(Fill, s, seq) = F[DOMAIN seq]
  BY Zenon DEF FoldLeft, MapThenFoldSet
<1>17. s \in States /\ seq \in Seq(Ids)
  BY DEF Good, States
<1>1. n \in Nat /\ DOMAIN seq = 1..n
  BY <1>17, LenProperties
<1>2. s \in V
  BY <1>17 DEF Inviting, SameStages
<1>3. ASSUME NEW k \in 1..n, NEW x \in V PROVE op(x, seq[k]) \in V
  <2>1. seq[k] \in Ids
    BY <1>17, ElementOfSeq
  <2>2. Inviting(s, x)
    OBVIOUS
  <2>3. Inviting(x, op(x, seq[k]))
    BY <2>1, <2>2, FillGood DEF Inviting
  <2> HIDE DEF op
  <2>4. Inviting(s, op(x, seq[k])) /\ op(x, seq[k]) \in States
    BY <2>2, <2>3 DEF Inviting, SameStages, Good
  <2> QED BY <2>4
<1> HIDE DEF op, n, seq
<1>4. step \in [1..n -> [V -> V]]
  BY <1>3
<1>5. \A k \in 1..n, x \in V : step[k][x] = op(x, seq[k])
  OBVIOUS
<1> HIDE DEF step
<1>6. PICK g \in [SUBSET (1..n) -> V] : Folds(g, n, s, step)
  <2> HIDE DEF V
  <2> QED BY <1>1, <1>2, <1>4, SequenceLoop
<1>7. g = [S \in SUBSET (DOMAIN seq) |-> IF S = {} THEN s ELSE op(g[S \ {Max(S)}], seq[Max(S)])]
  <2> HIDE DEF V
  <2>1. ASSUME NEW S \in SUBSET (1..n), S # {} PROVE g[S] = op(g[S \ {Max(S)}], seq[Max(S)])
    <3>1. g[S] = step[Max(S)][g[S \ {Max(S)}]]
      BY <1>6, <2>1, Zenon DEF Folds
    <3>2. Max(S) \in S
      BY <1>1, <2>1, LastPosition
    <3>3. g[S \ {Max(S)}] \in V /\ Max(S) \in 1..n
      BY <1>6, <3>2
    <3> QED BY <1>1, <1>5, <3>1, <3>3
  <2>2. g[{}] = s
    BY <1>6, Zenon DEF Folds
  <2>3. \A S \in SUBSET (1..n) : g[S] = IF S = {} THEN s ELSE op(g[S \ {Max(S)}], seq[Max(S)])
    BY <2>1, <2>2, Zenon
  <2>4. g = [S \in SUBSET (1..n) |-> g[S]]
    BY <1>6
  <2> QED BY <1>1, <2>3, <2>4, Zenon
<1>8. F = [S \in SUBSET (DOMAIN seq) |-> IF S = {} THEN s ELSE op(F[S \ {Max(S)}], seq[Max(S)])]
  BY <1>7, Zenon
<1> HIDE DEF F
<1>9. F[{}] = s
  BY <1>8
<1>10. ASSUME NEW S \in SUBSET (1..n), S # {}, F[S \ {Max(S)}] \in V
       PROVE  F[S] = step[Max(S)][F[S \ {Max(S)}]]
  <2> HIDE DEF V
  <2>1. F[S] = op(F[S \ {Max(S)}], seq[Max(S)])
    BY <1>1, <1>8, <1>10
  <2>2. Max(S) \in 1..n
    <3>1. Max(S) \in S
      BY <1>1, <1>10, LastPosition
    <3> QED BY <3>1
  <2> QED BY <1>1, <1>5, <1>10, <2>1, <2>2
<1>11. PICK f \in [0..n -> V] : Steps(f, n, s, step) /\ f[n] = F[1..n]
  <2> HIDE DEF V
  <2>1. FoldsIn(F, n, V, s, step)
    BY <1>9, <1>10 DEF FoldsIn
  <2> QED BY <1>1, <1>2, <1>4, <2>1, SequenceSteps
<1>12. n \in 0..n
  BY <1>1
<1>13. f[n] \in V
  <2> HIDE DEF V
  <2> QED BY <1>11, <1>12
<1>14. Inviting(s, f[n])
  BY <1>13
<1> QED BY <1>0, <1>1, <1>11, <1>14 DEF seq

LEMMA MatchGood ==
  ASSUME NEW s, Good(s), Fresh(s)
  PROVE  /\ Good(Match(s)) /\ \A p : Queued(Match(s).queue, p) <=> Queued(s.queue, p)
<1> DEFINE unused == {c \in Ids : s.bg[c].status = "NONE"}
           b == Min(unused)
           a == MatchPool(s.queue["ALLIANCE"]).groups
           h == MatchPool(s.queue["HORDE"]).groups
           x == WithStatus(s, b, "WAIT_JOIN")
           r == InviteGroups(InviteGroups(x, b, a), b, h)
<1>0. s \in States /\ QueueOK(s.queue)
  BY DEF Good
<1>1. Match(s) = s \/ (unused # {} /\ Match(s) = AddToFreeSlotQueue(r, b))
  <2> DEFINE pool == [t \in Teams |-> MatchPool(s.queue[t])]
             z == InviteGroups(InviteGroups([s EXCEPT !.bg[b].status = "WAIT_JOIN"], b,
                                            pool["ALLIANCE"].groups), b, pool["HORDE"].groups)
  <2>1. Match(s) = IF (\E t \in Teams : pool[t].count < MinPlayers) \/ unused = {} THEN s
                   ELSE AddToFreeSlotQueue(z, b)
    BY Zenon DEF Match
  <2>2. pool["ALLIANCE"] = MatchPool(s.queue["ALLIANCE"]) /\ pool["HORDE"] = MatchPool(s.queue["HORDE"])
    BY DEF Teams
  <2> HIDE DEF pool
  <2>3. z = r
    BY <2>2, Zenon DEF WithStatus
  <2> HIDE DEF z, r
  <2> QED BY <2>1, <2>3, Zenon
<1>2. ASSUME unused # {} PROVE b \in Ids /\ s.bg[b].status = "NONE"
  <2>1. unused \in SUBSET Nat
    BY DEF Ids
  <2> HIDE DEF unused
  <2>2. PICK c \in unused : \A k \in unused : c <= k
    BY <1>2, <2>1, LeastNumber, Zenon
  <2>3. b \in unused
    BY <2>2, Zenon DEF Min
  <2> QED BY <2>3 DEF unused
<1>3. ASSUME unused # {}
      PROVE  /\ Inviting(x, AddToFreeSlotQueue(r, b)) /\ x.queue = s.queue
  <2>1. b \in Ids /\ s.bg[b].status = "NONE"
    BY <1>2, <1>3
  <2> HIDE DEF b, x
  <2>2. /\ x \in States /\ x.queue = s.queue /\ x.events = s.events
        /\ x.slot = s.slot /\ x.instance = s.instance /\ x.place = s.place
        /\ \A c \in Ids : x.bg[c].players = s.bg[c].players
        /\ \A c \in Ids : x.bg[c].status = IF c = b THEN "WAIT_JOIN" ELSE s.bg[c].status
    <3>1. x = WithStatus(s, b, "WAIT_JOIN") /\ "WAIT_JOIN" \in Statuses
      BY DEF x, Statuses
    <3> QED BY <1>0, <2>1, <3>1, StatusIs
  <2>3. Stage(x, b) = "LIVE"
    BY <2>1, <2>2 DEF Stage
  <2>4. Restaged(s, x, b)
    BY <2>1, <2>2, <2>3 DEF Restaged, Stage
  <2>5. Good(x) /\ Fresh(x)
    BY <2>1, <2>2, <2>4, RestagedGood DEF Fresh
  <2>6. "ALLIANCE" \in Teams /\ "HORDE" \in Teams
    BY DEF Teams
  <2>7. \A t \in Teams : x.queue[t] \in Seq(Groups) /\ Apart(x.queue[t])
    BY <1>0, <2>2 DEF QueueOK
  <2>8. /\ Picked(x.queue["ALLIANCE"], Len(x.queue["ALLIANCE"]), a)
        /\ Picked(x.queue["HORDE"], Len(x.queue["HORDE"]), h)
    BY <2>2, <2>6, <2>7, MatchPoolIs
  <2> HIDE DEF a, h
  <2>9. Inviting(x, r)
    BY <2>1, <2>3, <2>5, <2>8, InviteBoth
  <2> HIDE DEF r
  <2>10. r \in States
    BY <2>9 DEF Inviting, Good
  <2>11. Still(r, AddToFreeSlotQueue(r, b))
    BY <2>1, <2>10, FreeSlotsStill
  <2> QED BY <2>2, <2>9, <2>11, StillInviting
<1> HIDE DEF unused, r, x, b
<1>4. CASE Match(s) = s
  BY <1>4
<1>5. CASE unused # {} /\ Match(s) = AddToFreeSlotQueue(r, b)
  <2>1. Inviting(x, Match(s)) /\ x.queue = s.queue
    BY <1>3, <1>5
  <2> QED BY <2>1 DEF Inviting
<1> QED BY <1>1, <1>4, <1>5

LEMMA QueueUpdateGood ==
  ASSUME NEW s, Good(s), Fresh(s), NEW r, r = BattlegroundQueueUpdate(s)
  PROVE  Good(r) /\ \A p : Queued(r.queue, p) <=> Queued(s.queue, p)
<1> DEFINE x == FoldLeft(Fill, s, s.freeSlots)
<1>1. r = s \/ r = Match(x)
  BY Zenon DEF BattlegroundQueueUpdate
<1>2. Inviting(s, x)
  BY FillAllGood
<1> HIDE DEF x
<1>3. Good(x) /\ Fresh(x) /\ \A p : Queued(x.queue, p) <=> Queued(s.queue, p)
  BY <1>2 DEF Inviting
<1>4. CASE r = s
  BY <1>4
<1>5. CASE r = Match(x)
  <2>1. Good(Match(x)) /\ \A p : Queued(Match(x).queue, p) <=> Queued(x.queue, p)
    BY <1>3, MatchGood
  <2> QED BY <1>3, <1>5, <2>1
<1> QED BY <1>1, <1>4, <1>5

-----------------------------------------------------------------------------
(* The invariant, and what follows.                                          *)

LEMMA UpdateGood ==
  ASSUME BInv, Update
  PROVE  /\ Good(Now')
         /\ \A p \in Players : Queued(Now'.queue, p) <=> Queued(Now.queue, p) /\ ~EndsNow(Now, p)
<1> DEFINE s == Now
<1>1. Good(s)
  BY DEF BInv
<1>2. PICK ripe : LET r == UpdateEvents(UpdateBattlegrounds(s, ripe))
                  IN  Become(IF r.scheduled THEN BattlegroundQueueUpdate([r EXCEPT !.scheduled = FALSE]) ELSE r)
  BY Zenon DEF Update
<1> DEFINE x == UpdateBattlegrounds(s, ripe)
           r == UpdateEvents(x)
           no == FALSE
           y == [r EXCEPT !.scheduled = no]
           z == BattlegroundQueueUpdate(y)
<1>3. Become(r) \/ Become(z)
  BY <1>2, Zenon
<1> HIDE DEF s
<1>4. Good(x) /\ Quiet(s, x)
  BY <1>1, UpdateBattlegroundsGood
<1> HIDE DEF x
<1>5. /\ Good(r) /\ Fresh(r)
      /\ \A p \in Players : Queued(r.queue, p) <=> Queued(x.queue, p) /\ ~EndsNow(x, p)
  BY <1>4, UpdateEventsGood
<1>6. \A p \in Players : Queued(x.queue, p) <=> Queued(s.queue, p)
  BY <1>4 DEF Quiet
<1>7. ASSUME NEW p \in Players, Queued(s.queue, p) PROVE EndsNow(x, p) <=> EndsNow(s, p)
  BY <1>4, <1>7 DEF Quiet, EndsNow, FindPlayer
<1> HIDE DEF r
<1>8. \A p \in Players : Queued(r.queue, p) <=> Queued(s.queue, p) /\ ~EndsNow(s, p)
  BY <1>5, <1>6, <1>7
<1>9. no \in BOOLEAN
  OBVIOUS
<1> HIDE DEF no
<1>10. Still(r, y)
  BY <1>5, <1>9, ScheduleStill DEF Good
<1> HIDE DEF y
<1>11. Good(y) /\ Fresh(y) /\ y.queue = r.queue
  BY <1>5, <1>10, StillGood DEF Still, Fresh
<1>12. Good(z) /\ \A p : Queued(z.queue, p) <=> Queued(y.queue, p)
  BY <1>11, QueueUpdateGood
<1> HIDE DEF z
<1>13. CASE Become(r)
  <2>1. Now' = r
    BY <1>5, <1>13, BecomeIs DEF Good
  <2> QED BY <1>5, <1>8, <2>1 DEF s
<1>14. CASE Become(z)
  <2>1. Now' = z
    BY <1>12, <1>14, BecomeIs DEF Good
  <2> QED BY <1>8, <1>11, <1>12, <2>1 DEF s
<1> QED BY <1>3, <1>13, <1>14

LEMMA InitGood ==
  Init => BInv
<1> SUFFICES ASSUME Init PROVE BInv
  OBVIOUS
<1> DEFINE s == Now
<1>1. /\ queue = [t \in Teams |-> <<>>] /\ slot = [p \in Players |-> NoSlot]
      /\ instance = [p \in Players |-> 0] /\ place = [p \in Players |-> "world"]
      /\ bg = [b \in Ids |-> [status |-> "NONE", invited |-> [t \in Teams |-> 0],
                              players |-> {}, offline |-> <<>>]]
      /\ freeSlots = <<>> /\ events = {} /\ scheduled = FALSE
  BY DEF Init
<1>2. /\ s.queue = queue /\ s.slot = slot /\ s.instance = instance /\ s.place = place
      /\ s.bg = bg /\ s.freeSlots = freeSlots /\ s.events = events
      /\ s.scheduled = scheduled
  BY NowIs
<1>3. \A t \in Teams : queue[t] = <<>>
  BY <1>1
<1>4. QueueOK(queue)
  <2>1. queue \in [Teams -> Seq(Groups)]
    BY <1>1
  <2>2. \A t \in Teams : Len(queue[t]) = 0
    BY <1>3
  <2> QED BY <2>1, <2>2 DEF QueueOK, Apart
<1>5. \A p : ~Queued(queue, p)
  BY <1>3 DEF Queued
<1>6. \A p, b, l : ~Entry(queue, p, b, l)
  BY <1>5, EntryQueued
<1>7. /\ \A b \in Ids : bg[b].status = "NONE" /\ bg[b].players = {} /\ bg[b] \in Battlegrounds
      /\ bg \in [Ids -> Battlegrounds]
  <2> DEFINE zero == [t \in Teams |-> 0]
             new == [status |-> "NONE", invited |-> zero, players |-> {}, offline |-> <<>>]
  <2>1. zero \in [Teams -> 0..CounterSize - 1]
    BY Facts
  <2> HIDE DEF zero
  <2>2. new \in Battlegrounds /\ new.status = "NONE" /\ new.players = {}
    BY <2>1 DEF Battlegrounds, Statuses
  <2>3. bg = [b \in Ids |-> new]
    BY <1>1 DEF zero
  <2> HIDE DEF new
  <2> QED BY <2>2, <2>3
<1>8. /\ slot \in [Players -> NoSlot..MaxBattlegrounds] /\ instance \in [Players -> 0..MaxBattlegrounds]
      /\ place \in [Players -> Places] /\ freeSlots \in Seq(Ids) /\ events \in SUBSET Events
      /\ scheduled \in BOOLEAN
  <2>1. NoSlot \in NoSlot..MaxBattlegrounds /\ 0 \in 0..MaxBattlegrounds /\ "world" \in Places
    BY Facts DEF NoSlot, Places
  <2>2. freeSlots \in Seq(Ids)
    BY <1>1
  <2> QED BY <1>1, <2>1, <2>2
<1>9. s \in States
  BY <1>4, <1>7, <1>8 DEF States, Now, QueueOK
<1> HIDE DEF s
<1>10. ASSUME NEW p \in Players PROVE PlayerOK(s, p)
  <2>1. s.slot[p] = NoSlot /\ s.instance[p] = 0 /\ s.place[p] = "world"
    BY <1>1, <1>2
  <2>2. ~InBattle(s, p)
    BY <2>1 DEF InBattle
  <2>3. WaitingOK(s, p)
    BY <1>2, <1>5, <1>6 DEF WaitingOK
  <2>4. HolderOK(s, p)
    BY <2>1 DEF HolderOK
  <2>5. InsideOK(s, p)
    BY <2>1, <2>2 DEF InsideOK
  <2>6. ParticipantOK(s, p)
    BY <1>2, <1>7 DEF ParticipantOK
  <2>7. EventsOK(s, p)
    BY <1>2, <1>6 DEF EventsOK
  <2> QED BY <2>3, <2>4, <2>5, <2>6, <2>7 DEF PlayerOK
<1>11. Good(s)
  BY <1>2, <1>4, <1>9, <1>10 DEF Good
<1> QED BY <1>11 DEF BInv, s

LEMMA NextGood ==
  BInv /\ [Next]_vars => BInv'
<1> SUFFICES ASSUME BInv, [Next]_vars PROVE BInv'
  OBVIOUS
<1>0. BInv' <=> Good(Now')
  BY DEF BInv
<1>1. ASSUME NEW ps \in Parties \cup {{p} : p \in Players}, Join(ps) PROVE BInv'
  BY <1>0, <1>1, JoinGood
<1>2. ASSUME NEW p \in Players, LeaveQueue(p) PROVE BInv'
  BY <1>0, <1>2, LeaveQueueGood
<1>3. ASSUME NEW p \in Players, Enter(p) PROVE BInv'
  BY <1>0, <1>3, EnterGood
<1>4. ASSUME NEW p \in Players, LeaveBattleground(p) PROVE BInv'
  BY <1>0, <1>4, LeaveBattlegroundGood
<1>5. ASSUME NEW p \in Players, WorldportAck(p) PROVE BInv'
  BY <1>0, <1>5, WorldportAckGood
<1>6. ASSUME NEW p \in Players, Login(p) PROVE BInv'
  BY <1>0, <1>6, LoginGood
<1>7. ASSUME NEW p \in Travellers, TeleportTo(p) PROVE BInv'
  <2>1. p \in Players
    BY QueueAssumption
  <2> QED BY <1>0, <1>7, <2>1, TeleportToGood
<1>8. ASSUME NEW p \in Droppers, Logout(p) PROVE BInv'
  <2>1. p \in Players
    BY QueueAssumption
  <2> QED BY <1>0, <1>8, <2>1, LogoutGood
<1>9. ASSUME NEW b \in Ids, EndBattleground(b) PROVE BInv'
  BY <1>0, <1>9, EndBattlegroundGood
<1>10. ASSUME Update PROVE BInv'
  BY <1>0, <1>10, UpdateGood
<1>11. ASSUME UNCHANGED vars PROVE BInv'
  <2>1. Now' = Now
    BY <1>11 DEF Now, vars
  <2> QED BY <1>0, <2>1 DEF BInv
<1>12. CASE Next
  BY <1>1, <1>2, <1>3, <1>4, <1>5, <1>6, <1>7, <1>8, <1>9, <1>10, <1>12 DEF Next
<1> QED BY <1>11, <1>12

\* Every state the specification reaches is a good one.
LEMMA AlwaysGood ==
  Spec => []BInv
BY InitGood, NextGood, PTL DEF Spec

LEMMA GoodTyped ==
  BInv => TypeOK
<1> SUFFICES ASSUME BInv PROVE TypeOK
  OBVIOUS
<1> DEFINE s == Now
<1>1. s \in States
  BY DEF BInv, Good
<1>2. /\ s.queue = queue /\ s.slot = slot /\ s.instance = instance /\ s.place = place
      /\ s.bg = bg /\ s.freeSlots = freeSlots /\ s.events = events
      /\ s.scheduled = scheduled
  BY NowIs
<1> HIDE DEF s
<1>3. /\ s.queue \in [Teams -> Seq(Groups)] /\ s.slot \in [Players -> NoSlot..MaxBattlegrounds]
      /\ s.instance \in [Players -> 0..MaxBattlegrounds] /\ s.place \in [Players -> Places]
      /\ s.bg \in [Ids -> Battlegrounds] /\ s.freeSlots \in Seq(Ids) /\ s.events \subseteq Events
      /\ s.scheduled \in BOOLEAN
  BY <1>1 DEF States
<1> QED BY <1>2, <1>3 DEF TypeOK

LEMMA GoodSlots ==
  BInv => SlotsMatchQueue
<1> SUFFICES ASSUME BInv PROVE SlotsMatchQueue
  OBVIOUS
<1> DEFINE s == Now
<1>1. s \in States /\ QueueOK(s.queue) /\ \A p \in Players : PlayerOK(s, p)
  BY DEF BInv, Good
<1>2. s.queue = queue /\ s.slot = slot /\ s.instance = instance /\ s.place = place /\ s.bg = bg
  BY NowIs
<1> HIDE DEF s
<1>3. /\ \A p : p \in QueuedPlayers(s) <=> Queued(s.queue, p)
      /\ \A p : Queued(s.queue, p) => p \in Players
  BY <1>1, QueuedPlayersAre
<1>4. OneGroupEach
  <2>1. \A t \in Teams : queue[t] \in Seq(Groups) /\ Apart(queue[t])
    BY <1>1, <1>2 DEF QueueOK
  <2>2. \A t \in Teams : DOMAIN queue[t] = 1..Len(queue[t])
    BY <2>1, LenProperties
  <2> QED BY <2>1, <2>2 DEF OneGroupEach, Apart
<1>5. ASSUME NEW p \in QueuedPlayers(s) PROVE QueuedHoldsSlot(p)
  <2>1. Queued(s.queue, p) /\ WaitingOK(s, p)
    BY <1>1, <1>3 DEF PlayerOK
  <2>2. PICK b, l : Entry(s.queue, p, b, l)
    BY <2>1, EntryQueued, Zenon
  <2>3. GroupInfo(s, p).bg = b
    BY <1>1, <2>2, GroupInfoIs
  <2>4. s.place[p] # "offline" /\ ~InBattle(s, p) /\ s.slot[p] \in {0, b}
    BY <2>1, <2>2 DEF WaitingOK
  <2>5. QueuedHoldsSlot(p) <=>
          /\ place[p] # "offline" /\ ~(place[p] \in {"battle", "coming"} /\ GetBattleground(s, instance[p]))
          /\ slot[p] \in {0, GroupInfo(s, p).bg}
    BY Zenon DEF QueuedHoldsSlot, s
  <2> QED BY <1>2, <2>3, <2>4, <2>5 DEF InBattle
<1>6. ASSUME NEW p \in Players \ QueuedPlayers(s), slot[p] # NoSlot
      PROVE  slot[p] > 0 /\ SlotOutlivesQueue(p)
  <2>1. HolderOK(s, p) /\ ~Queued(s.queue, p)
    BY <1>1, <1>3 DEF PlayerOK
  <2>2. Stage(s, slot[p]) = "DELETED" => bg[slot[p]].status = "DELETED"
    BY <1>2 DEF Stage
  <2> QED BY <1>2, <1>6, <2>1, <2>2 DEF HolderOK, SlotOutlivesQueue
<1>7. ASSUME NEW b \in Ids, NEW p \in bg[b].players, place[p] # "offline"
      PROVE  instance[p] = b /\ slot[p] = b /\ place[p] = "battle"
  <2>1. p \in Players
    BY <1>1, <1>2 DEF States, Battlegrounds
  <2>2. ParticipantOK(s, p)
    BY <1>1, <2>1 DEF PlayerOK
  <2> QED BY <1>2, <1>7, <2>2 DEF ParticipantOK
<1>8. \A p \in QueuedPlayers(Now) : QueuedHoldsSlot(p)
  BY <1>5 DEF s
<1>9. \A p \in Players \ QueuedPlayers(Now) : slot[p] # NoSlot => slot[p] > 0 /\ SlotOutlivesQueue(p)
  BY <1>6 DEF s
<1> QED BY <1>4, <1>7, <1>8, <1>9 DEF SlotsMatchQueue

\* The state has its type, and the invited counts and times stay in their ranges.
THEOREM QueueTyped ==
  Spec => []TypeOK
BY AlwaysGood, GoodTyped, PTL

\* The players' slots and the queue tell the same story, whatever the order of the
\* players' packets, the far teleports, the logouts and the updates.
THEOREM SlotsAgree ==
  Spec => []SlotsMatchQueue
BY AlwaysGood, GoodSlots, PTL

\* Now and after a step: who is queued, and whose invitation ends.
LEMMA EndsNowIs ==
  ASSUME BInv, NEW p \in QueuedPlayers(Now)
  PROVE  /\ p \in Players /\ Queued(Now.queue, p)
         /\ EndsNow(Now, p) <=> InvitationEnds(p) /\ FindPlayer(Now, p)
<1> DEFINE s == Now
<1>1. s \in States /\ QueueOK(s.queue)
  BY DEF BInv, Good
<1>2. p \in QueuedPlayers(s) /\ s.slot = slot
  BY NowIs
<1>3. InvitationEnds(p) <=> GroupInfo(s, p).bg # 0 /\ GroupInfo(s, p).left = 1 /\ slot[p] = GroupInfo(s, p).bg
  BY Zenon DEF InvitationEnds
<1> HIDE DEF s
<1>4. Queued(s.queue, p) /\ p \in Players
  BY <1>1, <1>2, QueuedPlayersAre
<1>5. PICK b, l : Entry(s.queue, p, b, l)
  BY <1>4, EntryQueued, Zenon
<1>6. GroupInfo(s, p).bg = b /\ GroupInfo(s, p).left = l
  BY <1>1, <1>5, GroupInfoIs
<1>7. \A c, m : Entry(s.queue, p, c, m) => c = b /\ m = l
  BY <1>1, <1>5, EntryUnique
<1>8. EndsNow(s, p) <=> FindPlayer(s, p) /\ b # 0 /\ l = 1 /\ s.slot[p] = b
  BY <1>5, <1>7 DEF EndsNow
<1> QED BY <1>2, <1>3, <1>4, <1>6, <1>8 DEF s

ExpiryStep ==
  Update => \A p \in QueuedPlayers(Now) :
    (p \notin QueuedPlayers(Now)') <=> (InvitationEnds(p) /\ FindPlayer(Now, p))

LEMMA ExpiryStepHolds ==
  BInv /\ BInv' /\ [Next]_vars => ExpiryStep
<1> SUFFICES ASSUME BInv, BInv', Update, NEW p \in QueuedPlayers(Now)
             PROVE  (p \notin QueuedPlayers(Now)') <=> (InvitationEnds(p) /\ FindPlayer(Now, p))
  BY Zenon DEF ExpiryStep
<1> DEFINE n == Now'
<1>1. /\ p \in Players /\ Queued(Now.queue, p)
      /\ EndsNow(Now, p) <=> InvitationEnds(p) /\ FindPlayer(Now, p)
  BY EndsNowIs
<1>2. Good(n) /\ (Queued(n.queue, p) <=> Queued(Now.queue, p) /\ ~EndsNow(Now, p))
  BY <1>1, UpdateGood
<1>3. QueuedPlayers(Now)' = QueuedPlayers(n)
  BY DEF QueuedPlayers
<1> HIDE DEF n
<1>4. p \in QueuedPlayers(n) <=> Queued(n.queue, p)
  BY <1>2, QueuedPlayersAre DEF Good
<1> QED BY <1>1, <1>2, <1>3, <1>4

\* An Update takes out of the queue exactly the players it finds whose own
\* invitation ends: no event of an earlier invitation does, and their own always does.
THEOREM ExpiryExact ==
  Spec => ExpiryIsExact
<1>1. BInv /\ BInv' /\ [Next]_vars => [ExpiryStep]_vars
  BY ExpiryStepHolds
<1>2. Spec => [][ExpiryStep]_vars
  BY <1>1, AlwaysGood, PTL DEF Spec
<1> QED BY <1>2 DEF ExpiryIsExact, ExpiryStep
=============================================================================
