--------------------------- MODULE LootRollsProofs ---------------------------
(***************************************************************************)
(* Group loot, for any players, creatures and items: the counts of a roll  *)
(* are those of its votes whatever the members do, an open roll can still  *)
(* end well, an item is received once, and by the best answer.             *)
(***************************************************************************)
EXTENDS LootRolls, FiniteSetTheorems, TLAPS

-----------------------------------------------------------------------------
(* The counts of a roll.                                                     *)

\* The number of players who answered so is a size.
LEMMA VotedSize ==
  ASSUME NEW r, NEW kinds
  PROVE  /\ IsFiniteSet(Voted(r, kinds)) /\ IsFiniteSet(InRoll(r))
         /\ Cardinality(Voted(r, kinds)) \in Size /\ Cardinality(InRoll(r)) \in Size
         /\ Cardinality(Voted(r, kinds)) = 0 <=> Voted(r, kinds) = {}
         /\ Cardinality(Players) \in Nat
<1>1. IsFiniteSet(Players) BY LootAssumption
<1>2. Voted(r, kinds) \subseteq Players /\ InRoll(r) \subseteq Players BY DEF Voted, InRoll
<1>3. /\ IsFiniteSet(Voted(r, kinds)) /\ Cardinality(Voted(r, kinds)) <= Cardinality(Players)
      /\ IsFiniteSet(InRoll(r)) /\ Cardinality(InRoll(r)) <= Cardinality(Players)
  BY <1>1, <1>2, FS_Subset
<1>4. /\ Cardinality(Voted(r, kinds)) \in Nat /\ Cardinality(InRoll(r)) \in Nat
      /\ Cardinality(Players) \in Nat
  BY <1>1, <1>3, FS_CardinalityType
<1>5. Cardinality(Voted(r, kinds)) = 0 <=> Voted(r, kinds) = {}
  BY <1>3, FS_EmptySet
<1> QED BY <1>3, <1>4, <1>5 DEF Size

Record(r) ==
  r \in [vote : [Players -> Votes], totalPlayersRolling : Int, totalNeed : Int, totalGreed : Int,
         totalPass : Int]

\* Counts that match the votes are sizes.
LEMMA MatchingCountsAreSizes ==
  ASSUME NEW r, Record(r), CountsMatch(r)
  PROVE  r \in Rolls
<1>1. /\ r.totalPlayersRolling \in Size /\ r.totalNeed \in Size /\ r.totalGreed \in Size
      /\ r.totalPass \in Size
  BY VotedSize DEF CountsMatch
<1> QED BY <1>1 DEF Record, Rolls

\* One more, and one less, of a set of players.
LEMMA OneMore ==
  ASSUME NEW S, NEW T, NEW p, IsFiniteSet(S), p \notin S, T = S \cup {p}
  PROVE  Cardinality(T) = Cardinality(S) + 1
BY FS_AddElement

LEMMA OneLess ==
  ASSUME NEW S, NEW T, NEW p, IsFiniteSet(S), p \in S, T = S \ {p}
  PROVE  Cardinality(T) = Cardinality(S) - 1
BY FS_RemoveElement

\* The roll that GroupLoot begins counts those who pass on all loot.
LEMMA NewRollMatches ==
  ASSUME NEW near \in SUBSET Players, passing \subseteq Players
  PROVE  /\ NewRoll(near) \in Rolls /\ CountsMatch(NewRoll(near)) /\ InRoll(NewRoll(near)) = near
<1> DEFINE r == NewRoll(near)
<1>1. /\ r.vote = [p \in Players |->
            IF p \notin near THEN "NONE" ELSE IF p \in passing THEN "PASS" ELSE "NOT_EMITED_YET"]
      /\ r.totalPlayersRolling = Cardinality(near) /\ r.totalNeed = 0 /\ r.totalGreed = 0
      /\ r.totalPass = Cardinality(near \cap passing)
  BY DEF NewRoll
<1>2. InRoll(r) = near BY <1>1 DEF InRoll
<1>3. Voted(r, {"PASS"}) = near \cap passing BY <1>1 DEF Voted
<1>4. Voted(r, {"NEED"}) = {} /\ Voted(r, {"GREED", "DISENCHANT"}) = {} BY <1>1 DEF Voted
<1>5. CountsMatch(r) BY <1>1, <1>2, <1>3, <1>4, FS_EmptySet DEF CountsMatch
<1>6. r.vote \in [Players -> Votes] BY <1>1 DEF Votes, Answers
<1>7. Cardinality(near) \in Int /\ Cardinality(near \cap passing) \in Int
  <2>1. Cardinality(InRoll(r)) \in Size /\ Cardinality(Voted(r, {"PASS"})) \in Size
    BY VotedSize
  <2>2. Cardinality(near) \in Size /\ Cardinality(near \cap passing) \in Size
    BY <1>2, <1>3, <2>1
  <2>3. \A x \in Size : x \in Int BY VotedSize DEF Size
  <2> QED BY <2>2, <2>3
<1>8. Record(r) BY <1>6, <1>7 DEF Record, NewRoll
<1> QED BY <1>2, <1>5, <1>8, MatchingCountsAreSizes

\* CountRollVote adds the answer to the count of its kind.
LEMMA CastMatches ==
  ASSUME NEW r \in Rolls, CountsMatch(r), NEW p \in Players, r.vote[p] = "NOT_EMITED_YET",
         NEW v \in Answers
  PROVE  /\ Cast(r, p, v) \in Rolls /\ CountsMatch(Cast(r, p, v))
         /\ InRoll(Cast(r, p, v)) = InRoll(r) /\ Cast(r, p, v).vote = [r.vote EXCEPT ![p] = v]
<1> DEFINE x == Cast(r, p, v)
<1>1. r.vote \in [Players -> Votes] BY DEF Rolls
<1>2. /\ r.totalPlayersRolling \in Nat /\ r.totalNeed \in Nat /\ r.totalGreed \in Nat
      /\ r.totalPass \in Nat
  BY VotedSize DEF CountsMatch, Size
<1>3. /\ x.vote = [r.vote EXCEPT ![p] = v]
      /\ x.totalPlayersRolling = r.totalPlayersRolling
      /\ x.totalNeed = IF v = "NEED" THEN r.totalNeed + 1 ELSE r.totalNeed
      /\ x.totalPass = IF v = "PASS" THEN r.totalPass + 1 ELSE r.totalPass
      /\ x.totalGreed = IF v \in {"GREED", "DISENCHANT"} THEN r.totalGreed + 1 ELSE r.totalGreed
      /\ Record(x)
  <2>1. [r.vote EXCEPT ![p] = v] \in [Players -> Votes] BY <1>1 DEF Votes
  <2>2. r = [vote |-> r.vote, totalPlayersRolling |-> r.totalPlayersRolling,
              totalNeed |-> r.totalNeed, totalGreed |-> r.totalGreed, totalPass |-> r.totalPass]
    BY DEF Rolls
  <2> DEFINE cast == [r EXCEPT !.vote[p] = v]
  <2>3. cast = [vote |-> [r.vote EXCEPT ![p] = v], totalPlayersRolling |-> r.totalPlayersRolling,
                totalNeed |-> r.totalNeed, totalGreed |-> r.totalGreed, totalPass |-> r.totalPass]
    BY <2>2
  <2>4. x = CASE v = "PASS" -> [cast EXCEPT !.totalPass = @ + 1]
              [] v = "NEED" -> [cast EXCEPT !.totalNeed = @ + 1]
              [] OTHER -> [cast EXCEPT !.totalGreed = @ + 1]
    BY DEF Cast
  <2> HIDE DEF cast, x
  <2>5. v \in {"PASS", "NEED"} \/ v \in {"GREED", "DISENCHANT"} BY DEF Answers
  <2>6. CASE v = "PASS" BY <1>2, <2>1, <2>3, <2>4, <2>6 DEF Record
  <2>7. CASE v = "NEED" BY <1>2, <2>1, <2>3, <2>4, <2>7 DEF Record
  <2>8. CASE v \in {"GREED", "DISENCHANT"} BY <1>2, <2>1, <2>3, <2>4, <2>8 DEF Record
  <2> QED BY <2>5, <2>6, <2>7, <2>8
<1>4. InRoll(x) = InRoll(r) BY <1>1, <1>3 DEF InRoll, Answers
<1>5. ASSUME NEW kinds \in SUBSET Answers
      PROVE  Cardinality(Voted(x, kinds)) =
               Cardinality(Voted(r, kinds)) + (IF v \in kinds THEN 1 ELSE 0)
  <2>1. p \notin Voted(r, kinds) BY DEF Voted, Answers
  <2>2. IsFiniteSet(Voted(r, kinds)) /\ Cardinality(Voted(r, kinds)) \in Nat
    BY VotedSize DEF Size
  <2>3. CASE v \in kinds
    <3>1. Voted(x, kinds) = Voted(r, kinds) \cup {p} BY <1>1, <1>3, <2>3 DEF Voted
    <3> QED BY <2>1, <2>2, <2>3, <3>1, OneMore
  <2>4. CASE v \notin kinds
    <3>1. Voted(x, kinds) = Voted(r, kinds) BY <1>1, <1>3, <2>1, <2>4 DEF Voted
    <3> QED BY <2>2, <2>4, <3>1
  <2> QED BY <2>3, <2>4
<1>6. /\ {"NEED"} \subseteq Answers /\ {"GREED", "DISENCHANT"} \subseteq Answers
      /\ {"PASS"} \subseteq Answers
  BY DEF Answers
<1>7. x.totalNeed = Cardinality(Voted(x, {"NEED"}))
  BY <1>2, <1>3, <1>5, <1>6 DEF CountsMatch
<1>8. x.totalGreed = Cardinality(Voted(x, {"GREED", "DISENCHANT"}))
  BY <1>2, <1>3, <1>5, <1>6 DEF CountsMatch
<1>9. x.totalPass = Cardinality(Voted(x, {"PASS"}))
  BY <1>2, <1>3, <1>5, <1>6 DEF CountsMatch
<1>10. CountsMatch(x) BY <1>3, <1>4, <1>7, <1>8, <1>9 DEF CountsMatch
<1> QED BY <1>3, <1>4, <1>10, MatchingCountsAreSizes

\* Group::RemoveMember takes the answer of who leaves out of the count of its kind.
LEMMA WithoutVoterMatches ==
  ASSUME NEW r \in Rolls, CountsMatch(r), NEW p \in Players
  PROVE  /\ WithoutVoter(r, p) \in Rolls /\ CountsMatch(WithoutVoter(r, p))
         /\ InRoll(WithoutVoter(r, p)) = InRoll(r) \ {p}
<1> DEFINE x == WithoutVoter(r, p)
           v == r.vote[p]
<1>1. r.vote \in [Players -> Votes] /\ v \in Votes /\ r # NoRoll BY NoRollAssumption DEF Rolls
<1>2. /\ r.totalPlayersRolling \in Nat /\ r.totalNeed \in Nat /\ r.totalGreed \in Nat
      /\ r.totalPass \in Nat
  BY VotedSize DEF CountsMatch, Size
<1>3. CASE p \notin InRoll(r)
  <2>1. x = r /\ InRoll(r) \ {p} = InRoll(r) BY <1>3 DEF WithoutVoter
  <2> QED BY <2>1
<1>4. CASE p \in InRoll(r)
  <2>1. x = [Uncount(r, v) EXCEPT !.totalPlayersRolling = @ - 1, !.vote[p] = "NONE"]
    BY <1>1, <1>4 DEF WithoutVoter
  <2>2. /\ Record(Uncount(r, v)) /\ Uncount(r, v).vote = r.vote
        /\ Uncount(r, v).totalPlayersRolling = r.totalPlayersRolling
        /\ Uncount(r, v).totalNeed = IF v = "NEED" THEN r.totalNeed - 1 ELSE r.totalNeed
        /\ Uncount(r, v).totalPass = IF v = "PASS" THEN r.totalPass - 1 ELSE r.totalPass
        /\ Uncount(r, v).totalGreed =
             IF v \in {"GREED", "DISENCHANT"} THEN r.totalGreed - 1 ELSE r.totalGreed
    BY <1>1, <1>2 DEF Uncount, Rolls, Record
  <2>3. /\ x.vote = [r.vote EXCEPT ![p] = "NONE"]
        /\ x.totalPlayersRolling = r.totalPlayersRolling - 1
        /\ x.totalNeed = IF v = "NEED" THEN r.totalNeed - 1 ELSE r.totalNeed
        /\ x.totalPass = IF v = "PASS" THEN r.totalPass - 1 ELSE r.totalPass
        /\ x.totalGreed = IF v \in {"GREED", "DISENCHANT"} THEN r.totalGreed - 1 ELSE r.totalGreed
        /\ Record(x)
    <3>1. [r.vote EXCEPT ![p] = "NONE"] \in [Players -> Votes] BY <1>1 DEF Votes
    <3> HIDE DEF x, v
    <3> DEFINE u == Uncount(r, v)
    <3>2. u \in [vote : [Players -> Votes], totalPlayersRolling : Int, totalNeed : Int,
                  totalGreed : Int, totalPass : Int]
      BY <2>2 DEF Record
    <3>3. x = [u EXCEPT !.totalPlayersRolling = @ - 1, !.vote[p] = "NONE"] BY <2>1
    <3> HIDE DEF u
    <3>4. /\ x.vote = [u.vote EXCEPT ![p] = "NONE"]
          /\ x.totalPlayersRolling = u.totalPlayersRolling - 1
          /\ x.totalNeed = u.totalNeed /\ x.totalPass = u.totalPass /\ x.totalGreed = u.totalGreed
          /\ x = [vote |-> x.vote, totalPlayersRolling |-> x.totalPlayersRolling,
                  totalNeed |-> x.totalNeed, totalGreed |-> x.totalGreed, totalPass |-> x.totalPass]
      BY <3>2, <3>3
    <3>5. x.vote = [r.vote EXCEPT ![p] = "NONE"] BY <2>2, <3>4 DEF u
    <3>6. Record(x) BY <3>1, <3>2, <3>4, <3>5 DEF Record
    <3> QED BY <2>2, <3>4, <3>5, <3>6 DEF u
  <2>4. InRoll(x) = InRoll(r) \ {p} BY <1>1, <2>3 DEF InRoll
  <2>5. x.totalPlayersRolling = Cardinality(InRoll(x))
    BY <1>2, <1>4, <2>3, <2>4, VotedSize, OneLess DEF CountsMatch
  <2>6. ASSUME NEW kinds \in SUBSET Answers
        PROVE  Cardinality(Voted(x, kinds)) =
                 Cardinality(Voted(r, kinds)) - (IF v \in kinds THEN 1 ELSE 0)
    <3>1. IsFiniteSet(Voted(r, kinds)) /\ Cardinality(Voted(r, kinds)) \in Nat
      BY VotedSize DEF Size
    <3>2. Voted(x, kinds) = Voted(r, kinds) \ {p} BY <1>1, <2>3 DEF Voted, Answers
    <3>3. CASE v \in kinds
      <4>1. p \in Voted(r, kinds) BY <3>3 DEF Voted
      <4> QED BY <3>1, <3>2, <3>3, <4>1, OneLess
    <3>4. CASE v \notin kinds
      <4>1. Voted(x, kinds) = Voted(r, kinds) BY <3>2, <3>4 DEF Voted
      <4> QED BY <3>1, <3>4, <4>1
    <3> QED BY <3>3, <3>4
  <2>7. /\ {"NEED"} \subseteq Answers /\ {"GREED", "DISENCHANT"} \subseteq Answers
        /\ {"PASS"} \subseteq Answers
    BY DEF Answers
  <2>8. x.totalNeed = Cardinality(Voted(x, {"NEED"}))
    BY <1>2, <2>3, <2>6, <2>7 DEF CountsMatch
  <2>9. x.totalGreed = Cardinality(Voted(x, {"GREED", "DISENCHANT"}))
    BY <1>2, <2>3, <2>6, <2>7 DEF CountsMatch
  <2>10. x.totalPass = Cardinality(Voted(x, {"PASS"}))
    BY <1>2, <2>3, <2>6, <2>7 DEF CountsMatch
  <2>11. CountsMatch(x) BY <2>5, <2>8, <2>9, <2>10 DEF CountsMatch
  <2> QED BY <2>3, <2>4, <2>11, MatchingCountsAreSizes
<1> QED BY <1>3, <1>4

-----------------------------------------------------------------------------
(* What the end of a roll may decide.                                        *)

\* the item goes to one who was asked, is in the world, and by the best answer
Wins(r, f) ==
  /\ f \in [to : Players, as : Answers] /\ f.to \in online /\ f.to \in InRoll(r)
  /\ f.as = r.vote[f.to]
  /\ f.as # "NEED" => f.as \in {"GREED", "DISENCHANT"} /\ Voted(r, {"NEED"}) = {}

\* Who wins is told apart from an item that nobody receives.
LEMMA WinnersAreSomeone ==
  ASSUME NEW f \in [to : Players, as : Answers]
  PROVE  f # Free /\ f # Lost
<1>1. f.to \in Players /\ Free.to = NoPlayer /\ Lost.to = NoPlayer BY DEF Free, Lost
<1> QED BY <1>1, LootAssumption

LEMMA FreeIsNotLost == Free # Lost
<1>1. Free.as = "FREE" /\ Lost.as = "LOST" BY DEF Free, Lost
<1> QED BY <1>1

\* CountTheRoll takes the winner among those who gave the best answer.
LEMMA BestAnswer ==
  ASSUME online \subseteq Players, NEW r \in Rolls, CountsMatch(r), NEW f \in CountTheRoll(r)
  PROVE  f \in Fates /\ (f = Free \/ f = Lost \/ Wins(r, f))
<1>1. /\ r.totalNeed \in Nat /\ r.totalGreed \in Nat
      /\ r.totalNeed = 0 <=> Voted(r, {"NEED"}) = {}
      /\ r.totalGreed = 0 <=> Voted(r, {"GREED", "DISENCHANT"}) = {}
  BY VotedSize DEF CountsMatch, Size
<1>2. r.vote \in [Players -> Votes] BY DEF Rolls
<1>3. CASE r.totalNeed > 0
  <2>1. Highest(r, {"NEED"}) = Voted(r, {"NEED"}) BY <1>1, <1>3 DEF Highest
  <2>2. f \in NeedWins(r) BY <1>3 DEF CountTheRoll
  <2>3. PICK p \in Voted(r, {"NEED"}) : f \in WonAs(p, "NEED") BY <2>1, <2>2 DEF NeedWins
  <2>4. p \in Players /\ r.vote[p] = "NEED" BY <2>3 DEF Voted
  <2>5. f = Free \/ f = Lost \/ (p \in online /\ f = [to |-> p, as |-> "NEED"])
    BY <2>3 DEF WonAs
  <2>6. ASSUME p \in online, f = [to |-> p, as |-> "NEED"] PROVE Wins(r, f)
    BY <2>4, <2>6 DEF Wins, InRoll, Answers
  <2> QED BY <2>5, <2>6 DEF Fates, Wins
<1>4. CASE r.totalNeed = 0 /\ r.totalGreed > 0
  <2>1. Highest(r, {"GREED", "DISENCHANT"}) = Voted(r, {"GREED", "DISENCHANT"})
    BY <1>1, <1>4 DEF Highest
  <2>2. f \in GreedWins(r) BY <1>4 DEF CountTheRoll
  <2>3. PICK p \in Voted(r, {"GREED", "DISENCHANT"}) :
          f \in WonAs(p, IF r.vote[p] = "DISENCHANT" THEN "DISENCHANT" ELSE "GREED")
    BY <2>1, <2>2 DEF GreedWins
  <2>4. p \in Players /\ r.vote[p] \in {"GREED", "DISENCHANT"} BY <2>3 DEF Voted
  <2>5. f \in WonAs(p, r.vote[p]) BY <2>3, <2>4
  <2>6. f = Free \/ f = Lost \/ (p \in online /\ f = [to |-> p, as |-> r.vote[p]])
    BY <2>5 DEF WonAs
  <2>7. ASSUME p \in online, f = [to |-> p, as |-> r.vote[p]] PROVE Wins(r, f)
    BY <1>1, <1>4, <2>4, <2>7 DEF Wins, InRoll, Answers
  <2> QED BY <2>6, <2>7 DEF Fates, Wins
<1>5. CASE r.totalNeed = 0 /\ ~(r.totalGreed > 0)
  <2>1. f = Free BY <1>5 DEF CountTheRoll
  <2> QED BY <2>1 DEF Fates
<1> QED BY <1>1, <1>3, <1>4, <1>5

-----------------------------------------------------------------------------
(* The inductive invariant.                                                  *)

NothingGot == [s \in Slots |-> <<>>]

\* what a corpse is before it is opened, and after its loot is gone
Life(c) ==
  /\ corpse[c].filled => corpse[c].dead
  /\ ~corpse[c].filled =>
       corpse[c].blocked = {} /\ corpse[c].looted = {} /\ corpse[c].looters = {} /\ roll[c] = NoRolls
  /\ ~corpse[c].lootForBody =>
       corpse[c].looted = {} /\ corpse[c].looters = {} /\ roll[c] = NoRolls
  /\ ~corpse[c].dead => got[c] = NothingGot

Guarded(c) ==
  \A s \in Slots : roll[c][s] # NoRoll =>
    /\ s \in corpse[c].blocked /\ s \notin corpse[c].looted
    /\ CountsMatch(roll[c][s]) /\ InRoll(roll[c][s]) \subseteq members
    /\ corpse[c].timer = group \/ [group |-> group, creature |-> c] \in due

GivenOnce(c) ==
  /\ \A s \in Slots : Len(got[c][s]) <= 1
  /\ corpse[c].filled =>
       /\ corpse[c].unlootedCount = Cardinality(Slots \ corpse[c].looted)
       /\ \A s \in Slots : s \in corpse[c].looted <=> got[c][s] # <<>>

\* the rolls of a group end with it
CorpseInv(c) ==
  Life(c) /\ Guarded(c) /\ GivenOnce(c) /\ (members = {} => roll[c] = NoRolls)

LInv == TypeOK /\ \A c \in Creatures : CorpseInv(c)

\* The invariant holds the properties that the runs check.
LEMMA InvariantImplies == LInv => TypeOK /\ RollsGuardTheirItem /\ ItemsGivenOnce
BY DEF LInv, CorpseInv, Guarded, GivenOnce, RollsGuardTheirItem, ItemsGivenOnce

\* An open roll, as the invariant has it.
LEMMA OpenRoll ==
  ASSUME LInv, NEW c \in Creatures, NEW s \in Slots, roll[c][s] # NoRoll
  PROVE  /\ roll[c][s] \in Rolls /\ CountsMatch(roll[c][s]) /\ InRoll(roll[c][s]) \subseteq members
         /\ corpse[c].filled /\ corpse[c].dead /\ corpse[c].lootForBody /\ members # {}
         /\ s \in corpse[c].blocked /\ s \notin corpse[c].looted /\ got[c][s] = <<>>
<1>1. roll[c] # NoRolls BY DEF NoRolls
<1>2. corpse[c].filled /\ corpse[c].dead /\ corpse[c].lootForBody /\ members # {}
  BY <1>1 DEF LInv, CorpseInv, Life, TypeOK, Corpses
<1>3. roll[c][s] \in Rolls BY DEF LInv, TypeOK
<1>4. /\ CountsMatch(roll[c][s]) /\ InRoll(roll[c][s]) \subseteq members
      /\ s \in corpse[c].blocked /\ s \notin corpse[c].looted
  BY DEF LInv, CorpseInv, Guarded
<1>5. corpse[c].filled =>
        \A i \in Slots : i \in corpse[c].looted <=> got[c][i] # <<>>
  BY DEF LInv, CorpseInv, GivenOnce
<1>6. got[c][s] = <<>> BY <1>2, <1>4, <1>5
<1> QED BY <1>2, <1>3, <1>4, <1>6

\* A creature that a step leaves alone keeps its part of the invariant, if the group is
\* the same, or has no roll there.
LEMMA Untouched ==
  ASSUME NEW d \in Creatures, CorpseInv(d),
         corpse'[d] = corpse[d], roll'[d] = roll[d], got'[d] = got[d],
         roll[d] = NoRolls \/ (group' = group /\ members \subseteq members'),
         [group |-> group, creature |-> d] \in due => [group |-> group, creature |-> d] \in due'
  PROVE  CorpseInv(d)'
<1>1. Life(d)' BY DEF CorpseInv, Life
<1>2. GivenOnce(d)' BY DEF CorpseInv, GivenOnce
<1>3. CASE roll[d] = NoRolls
  <2>1. Guarded(d)' BY <1>3 DEF Guarded, NoRolls
  <2> QED BY <1>1, <1>2, <1>3, <2>1 DEF CorpseInv, NoRolls
<1>4. CASE group' = group /\ members \subseteq members'
  <2>1. Guarded(d)' BY <1>4 DEF CorpseInv, Guarded
  <2>2. members' = {} => roll'[d] = NoRolls BY <1>4 DEF CorpseInv
  <2> QED BY <1>1, <1>2, <2>1, <2>2 DEF CorpseInv, NoRolls
<1> QED BY <1>3, <1>4

\* The items left in a corpse when some of them are taken.
LEMMA ItemsLeft ==
  ASSUME NEW looted \in SUBSET Slots, NEW won \in SUBSET (Slots \ looted)
  PROVE  /\ Cardinality(Slots \ (looted \cup won)) = Cardinality(Slots \ looted) - Cardinality(won)
         /\ Cardinality(Slots \ looted) - Cardinality(won) \in 0..Cardinality(Slots)
<1> DEFINE left == Slots \ looted
<1>1. IsFiniteSet(left) /\ Cardinality(left) <= Cardinality(Slots) /\ Cardinality(Slots) \in Nat
  BY LootAssumption, FS_Subset, FS_CardinalityType
<1>2. left \cap won = won /\ left \ won = Slots \ (looted \cup won) OBVIOUS
<1>3. IsFiniteSet(left \ won) /\ Cardinality(left \ won) = Cardinality(left) - Cardinality(won)
  BY <1>1, <1>2, FS_Difference
<1>4. IsFiniteSet(won) BY <1>1, FS_Subset
<1>5. Cardinality(left) \in Nat /\ Cardinality(left \ won) \in Nat /\ Cardinality(won) \in Nat
  BY <1>1, <1>3, <1>4, FS_CardinalityType
<1>6. ASSUME NEW n \in Nat, NEW a \in Nat, NEW b \in Nat, NEW d \in Nat, a <= n, d = a - b
      PROVE  a - b \in 0..n
  BY <1>6
<1>7. Cardinality(left) - Cardinality(won) \in 0..Cardinality(Slots)
  BY <1>1, <1>3, <1>5, <1>6
<1> QED BY <1>2, <1>3, <1>7

-----------------------------------------------------------------------------
(* The end of some of the rolls for a corpse.                                *)

\* When rolls are over, what was received is no longer left, and received once; the rolls that
\* stay open are as they were.
LEMMA OverKeeps ==
  ASSUME LInv, NEW c \in Creatures, NEW S \in SUBSET Open(c), NEW fate \in [S -> Fates],
         Over(c, fate), group' = group, members' = members,
         S = Open(c) \/ due' = due
  PROVE  /\ corpse' \in [Creatures -> Corpses]
         /\ roll' \in [Creatures -> [Slots -> Rolls \cup {NoRoll}]]
         /\ got' \in [Creatures -> [Slots -> Seq([to : Players, as : Answers \cup {"LOOT"}])]]
         /\ CorpseInv(c)'
         /\ \A d \in Creatures : d # c =>
              corpse'[d] = corpse[d] /\ roll'[d] = roll[d] /\ got'[d] = got[d]
<1> DEFINE won == {s \in DOMAIN fate : fate[s] \notin {Free, Lost}}
           free == {s \in DOMAIN fate : fate[s] = Free}
<1>1. /\ corpse \in [Creatures -> Corpses]
      /\ roll \in [Creatures -> [Slots -> Rolls \cup {NoRoll}]]
      /\ got \in [Creatures -> [Slots -> Seq([to : Players, as : Answers \cup {"LOOT"}])]]
  BY DEF LInv, TypeOK
<1>2. DOMAIN fate = S /\ S \subseteq Slots BY DEF Open
<1>3. /\ corpse' = [corpse EXCEPT ![c] = Given(corpse[c], won, free)]
      /\ roll' = [roll EXCEPT ![c] = [s \in Slots |-> IF s \in DOMAIN fate THEN NoRoll ELSE @[s]]]
      /\ got' = [got EXCEPT ![c] = [s \in Slots |-> IF s \in won THEN Append(@[s], fate[s]) ELSE @[s]]]
  BY DEF Over
<1>4. \A d \in Creatures : d # c =>
        corpse'[d] = corpse[d] /\ roll'[d] = roll[d] /\ got'[d] = got[d]
  BY <1>1, <1>3
<1>5. \A s \in S : /\ corpse[c].filled /\ corpse[c].dead /\ corpse[c].lootForBody
                   /\ s \in corpse[c].blocked /\ s \notin corpse[c].looted /\ got[c][s] = <<>>
  BY <1>2, OpenRoll DEF Open
<1>6. won \subseteq Slots \ corpse[c].looted BY <1>2, <1>5 DEF won
<1>7. corpse[c] \in Corpses BY <1>1
<1>8. /\ corpse'[c] = [corpse[c] EXCEPT !.looted = @ \cup won,
                        !.unlootedCount = @ - Cardinality(won), !.blocked = @ \ free]
      /\ roll'[c] = [s \in Slots |-> IF s \in S THEN NoRoll ELSE roll[c][s]]
      /\ got'[c] = [s \in Slots |-> IF s \in won THEN Append(got[c][s], fate[s]) ELSE got[c][s]]
  <2> HIDE DEF won, free
  <2>1. corpse'[c] = [corpse[c] EXCEPT !.looted = @ \cup won,
                       !.unlootedCount = @ - Cardinality(won), !.blocked = @ \ free]
    BY <1>1, <1>3 DEF Given
  <2>2. roll'[c] = [s \in Slots |-> IF s \in S THEN NoRoll ELSE roll[c][s]] BY <1>1, <1>2, <1>3
  <2>3. got'[c] = [s \in Slots |-> IF s \in won THEN Append(got[c][s], fate[s]) ELSE got[c][s]]
    BY <1>1, <1>3
  <2> QED BY <2>1, <2>2, <2>3
<1> HIDE DEF won, free
<1>9. /\ corpse'[c].looted = corpse[c].looted \cup won
      /\ corpse'[c].unlootedCount = corpse[c].unlootedCount - Cardinality(won)
      /\ corpse'[c].blocked = corpse[c].blocked \ free
      /\ corpse'[c].filled = corpse[c].filled /\ corpse'[c].dead = corpse[c].dead
      /\ corpse'[c].lootForBody = corpse[c].lootForBody /\ corpse'[c].timer = corpse[c].timer
      /\ corpse'[c].looters = corpse[c].looters /\ corpse'[c].recipient = corpse[c].recipient
  BY <1>7, <1>8 DEF Corpses
<1>10. corpse[c].looted \in SUBSET Slots BY <1>7 DEF Corpses
<1>11. GivenOnce(c) /\ Life(c) /\ Guarded(c) BY DEF LInv, CorpseInv
<1>12. corpse[c].filled =>
         /\ corpse'[c].unlootedCount = Cardinality(Slots \ corpse'[c].looted)
         /\ corpse'[c].unlootedCount \in 0..Cardinality(Slots)
  <2> DEFINE old == corpse[c].looted
  <2>1. /\ Cardinality(Slots \ (old \cup won)) = Cardinality(Slots \ old) - Cardinality(won)
        /\ Cardinality(Slots \ old) - Cardinality(won) \in 0..Cardinality(Slots)
    BY <1>6, <1>10, ItemsLeft
  <2>2. corpse[c].filled => corpse[c].unlootedCount = Cardinality(Slots \ old)
    BY <1>11 DEF GivenOnce
  <2> QED BY <1>9, <2>1, <2>2
<1>13. corpse'[c].unlootedCount \in 0..Cardinality(Slots)
  <2>1. CASE corpse[c].filled BY <1>12, <2>1
  <2>2. CASE ~corpse[c].filled
    <3>1. won = {} BY <1>2, <1>5, <2>2 DEF won
    <3>2. /\ Cardinality(won) = 0 /\ corpse[c].unlootedCount \in 0..Cardinality(Slots)
          /\ Cardinality(Slots) \in Nat
      BY <1>7, <3>1, FS_EmptySet, LootAssumption, FS_CardinalityType DEF Corpses
    <3> QED BY <1>9, <3>2
  <2> QED BY <2>1, <2>2
<1>14. corpse'[c] \in Corpses
  <2>1. corpse'[c].looted \in SUBSET Slots BY <1>6, <1>9, <1>10
  <2>2. corpse'[c].blocked \in SUBSET Slots BY <1>7, <1>9 DEF Corpses
  <2> QED BY <1>7, <1>8, <1>9, <1>13, <2>1, <2>2 DEF Corpses
<1>15. roll'[c] \in [Slots -> Rolls \cup {NoRoll}] BY <1>1, <1>8
<1>16. \A s \in won : fate[s] \in [to : Players, as : Answers] /\ s \in S BY <1>2 DEF won, Fates
<1>17. got'[c] \in [Slots -> Seq([to : Players, as : Answers \cup {"LOOT"}])]
  <2>1. SUFFICES ASSUME NEW s \in Slots
                 PROVE  got'[c][s] \in Seq([to : Players, as : Answers \cup {"LOOT"}])
    BY <1>8
  <2>2. got[c][s] \in Seq([to : Players, as : Answers \cup {"LOOT"}]) BY <1>1
  <2>3. CASE s \in won
    <3>1. fate[s] \in [to : Players, as : Answers \cup {"LOOT"}] BY <1>16, <2>3
    <3> QED BY <1>8, <2>2, <2>3, <3>1
  <2> QED BY <1>8, <2>2, <2>3
<1>18. \A s \in Slots : /\ s \in won => Len(got'[c][s]) = 1 /\ got'[c][s] # <<>>
                        /\ s \notin won => got'[c][s] = got[c][s]
  BY <1>5, <1>8, <1>16
<1>19. GivenOnce(c)'
  <2>1. ASSUME NEW s \in Slots PROVE Len(got'[c][s]) <= 1
    <3>1. Len(got[c][s]) <= 1 BY <1>11 DEF GivenOnce
    <3>2. CASE s \in won
      <4>1. Len(got'[c][s]) = 1 BY <1>18, <3>2
      <4> QED BY <4>1
    <3>3. CASE s \notin won
      <4>1. got'[c][s] = got[c][s] BY <1>18, <3>3
      <4> QED BY <3>1, <4>1
    <3> QED BY <3>2, <3>3
  <2>2. corpse'[c].filled =>
          \A s \in Slots : s \in corpse'[c].looted <=> got'[c][s] # <<>>
    BY <1>9, <1>11, <1>18 DEF GivenOnce
  <2> QED BY <1>9, <1>12, <2>1, <2>2 DEF GivenOnce
<1>20. S = {} => roll'[c] = roll[c] BY <1>1, <1>8
<1>21. roll[c] = NoRolls => roll'[c] = NoRolls BY <1>8 DEF NoRolls
<1>22. S = {} => won = {} BY <1>16
<1>23. Life(c)'
  <2>1. CASE S = {}
    <3>1. corpse'[c].looted = corpse[c].looted /\ roll'[c] = roll[c] /\ got'[c] = got[c]
      BY <1>1, <1>8, <1>9, <1>20, <1>22, <2>1
    <3> QED BY <1>9, <1>11, <3>1 DEF Life, NothingGot, NoRolls
  <2>2. CASE S # {}
    <3>1. corpse[c].filled /\ corpse[c].dead /\ corpse[c].lootForBody BY <1>5, <2>2
    <3> QED BY <1>9, <3>1 DEF Life
  <2> QED BY <2>1, <2>2
<1>24. Guarded(c)'
  <2>1. SUFFICES ASSUME NEW s \in Slots, roll'[c][s] # NoRoll
                 PROVE  /\ s \in corpse'[c].blocked /\ s \notin corpse'[c].looted
                        /\ CountsMatch(roll'[c][s]) /\ InRoll(roll'[c][s]) \subseteq members'
                        /\ corpse'[c].timer = group' \/ [group |-> group', creature |-> c] \in due'
    BY DEF Guarded, CountsMatch, InRoll, Voted
  <2>2. s \notin S /\ roll'[c][s] = roll[c][s] BY <1>8, <2>1
  <2>3. s \notin free /\ s \notin won BY <1>2, <2>2 DEF free, won
  <2>4. S # Open(c) /\ due' = due BY <2>1, <2>2 DEF Open
  <2> QED BY <1>9, <1>11, <2>1, <2>2, <2>3, <2>4 DEF Guarded
<1>25. CorpseInv(c)'
  BY <1>19, <1>21, <1>23, <1>24 DEF LInv, CorpseInv, NoRolls
<1>26. /\ corpse' \in [Creatures -> Corpses]
       /\ roll' \in [Creatures -> [Slots -> Rolls \cup {NoRoll}]]
       /\ got' \in [Creatures -> [Slots -> Seq([to : Players, as : Answers \cup {"LOOT"}])]]
  BY <1>1, <1>3, <1>4, <1>14, <1>15, <1>17
<1> QED BY <1>4, <1>25, <1>26

-----------------------------------------------------------------------------
(* Every step keeps the invariant.                                           *)

\* A step on one creature, within the group.
LEMMA OneCreature ==
  ASSUME LInv, TypeOK', NEW c \in Creatures, CorpseInv(c)', group' = group, members' = members,
         \A d \in Creatures : d # c =>
           /\ corpse'[d] = corpse[d] /\ roll'[d] = roll[d] /\ got'[d] = got[d]
           /\ [group |-> group, creature |-> d] \in due => [group |-> group, creature |-> d] \in due'
  PROVE  LInv'
<1>1. ASSUME NEW d \in Creatures, d # c PROVE CorpseInv(d)' BY <1>1, Untouched DEF LInv
<1> QED BY <1>1 DEF LInv

\* A step that touches no corpse and no roll.
LEMMA NoCreature ==
  ASSUME LInv, TypeOK', UNCHANGED <<corpse, roll, got>>, due \subseteq due',
         members = {} \/ (group' = group /\ members \subseteq members')
  PROVE  LInv'
<1>1. ASSUME NEW d \in Creatures PROVE CorpseInv(d)'
  <2>1. CorpseInv(d) BY DEF LInv
  <2>2. roll[d] = NoRolls \/ (group' = group /\ members \subseteq members')
    BY <2>1 DEF CorpseInv
  <2> QED BY <2>1, <2>2, Untouched
<1> QED BY <1>1 DEF LInv

\* An answer: the roll goes on, or ends.
LEMMA CountRollVoteKeeps ==
  ASSUME LInv, NEW p \in Players, NEW c \in Creatures, NEW s \in Slots, NEW v \in Answers,
         CountRollVote(p, c, s, v)
  PROVE  LInv'
<1> DEFINE r == Cast(roll[c][s], p, v)
<1>1. /\ roll[c][s] # NoRoll /\ roll[c][s].vote[p] = "NOT_EMITED_YET"
      /\ UNCHANGED <<online, group, members, passing, due, kills>>
  BY DEF CountRollVote
<1>2. roll[c][s] \in Rolls /\ CountsMatch(roll[c][s]) BY <1>1, OpenRoll
<1>3. r \in Rolls /\ CountsMatch(r) /\ InRoll(r) = InRoll(roll[c][s])
  BY <1>1, <1>2, CastMatches
<1>4. online \subseteq Players BY DEF LInv, TypeOK
<1>5. CASE \E f \in CountTheRoll(r) : Over(c, [i \in {s} |-> f])
  <2>1. PICK f \in CountTheRoll(r) : Over(c, [i \in {s} |-> f]) BY <1>5
  <2>2. f \in Fates BY <1>3, <1>4, BestAnswer
  <2>3. {s} \in SUBSET Open(c) /\ [i \in {s} |-> f] \in [{s} -> Fates] BY <1>1, <2>2 DEF Open
  <2>4. /\ corpse' \in [Creatures -> Corpses]
        /\ roll' \in [Creatures -> [Slots -> Rolls \cup {NoRoll}]]
        /\ got' \in [Creatures -> [Slots -> Seq([to : Players, as : Answers \cup {"LOOT"}])]]
        /\ CorpseInv(c)'
        /\ \A d \in Creatures : d # c =>
             corpse'[d] = corpse[d] /\ roll'[d] = roll[d] /\ got'[d] = got[d]
    BY <1>1, <2>1, <2>3, OverKeeps
  <2>5. TypeOK' BY <1>1, <2>4 DEF LInv, TypeOK
  <2> QED BY <1>1, <2>4, <2>5, OneCreature
<1>6. CASE roll' = [roll EXCEPT ![c][s] = r] /\ UNCHANGED <<corpse, got>>
  <2> HIDE DEF r
  <2>1. roll \in [Creatures -> [Slots -> Rolls \cup {NoRoll}]] BY DEF LInv, TypeOK
  <2>2. /\ roll' \in [Creatures -> [Slots -> Rolls \cup {NoRoll}]]
        /\ roll'[c] = [roll[c] EXCEPT ![s] = r] /\ \A d \in Creatures : d # c => roll'[d] = roll[d]
    BY <1>3, <1>6, <2>1
  <2>3. TypeOK' BY <1>1, <1>6, <2>2 DEF LInv, TypeOK
  <2>4. CorpseInv(c) BY DEF LInv
  <2>5. roll[c] # NoRolls BY <1>1 DEF NoRolls
  <2>6. Life(c)' BY <1>6, <2>4, <2>5 DEF CorpseInv, Life, NoRolls, NothingGot
  <2>7. GivenOnce(c)' BY <1>6, <2>4 DEF CorpseInv, GivenOnce
  <2>8. ASSUME NEW i \in Slots, roll'[c][i] # NoRoll
        PROVE  /\ i \in corpse[c].blocked /\ i \notin corpse[c].looted
               /\ CountsMatch(roll'[c][i]) /\ InRoll(roll'[c][i]) \subseteq members
               /\ corpse[c].timer = group \/ [group |-> group, creature |-> c] \in due
    <3>1. CASE i = s
      <4>1. roll'[c][i] = r BY <2>1, <2>2, <3>1
      <4> QED BY <1>1, <1>3, <2>4, <3>1, <4>1 DEF CorpseInv, Guarded
    <3>2. CASE i # s
      <4>1. roll'[c][i] = roll[c][i] BY <2>1, <2>2, <3>2
      <4> QED BY <2>4, <2>8, <4>1 DEF CorpseInv, Guarded
    <3> QED BY <3>1, <3>2
  <2>9. Guarded(c)' BY <1>1, <1>6, <2>8 DEF Guarded, CountsMatch, InRoll, Voted
  <2>10. members' # {} BY <1>1, <2>4, <2>5 DEF CorpseInv
  <2>11. CorpseInv(c)' BY <2>6, <2>7, <2>9, <2>10 DEF CorpseInv
  <2> QED BY <1>1, <1>6, <2>2, <2>3, <2>11, OneCreature
<1> QED BY <1>5, <1>6 DEF CountRollVote

\* Group::RemoveMember: who leaves is taken out of the rolls, or the rolls end.
LEMMA RemoveMemberKeeps ==
  ASSUME LInv, NEW p \in Players, RemoveMember(p)
  PROVE  LInv'
<1>1. UNCHANGED <<online, group, passing, corpse, due, kills, got>> /\ p \in members
  BY DEF RemoveMember
<1>2. CASE members' = {} /\ roll' = [c \in Creatures |-> NoRolls]
  <2>1. TypeOK' BY <1>1, <1>2 DEF LInv, TypeOK, NoRolls
  <2>2. ASSUME NEW c \in Creatures PROVE CorpseInv(c)'
    <3>1. CorpseInv(c) /\ roll'[c] = NoRolls BY <1>2 DEF LInv
    <3>2. Guarded(c)' BY <3>1 DEF Guarded, NoRolls
    <3> QED BY <1>1, <3>1, <3>2 DEF CorpseInv, Life, GivenOnce, NoRolls, NothingGot
  <2> QED BY <2>1, <2>2 DEF LInv
<1>3. CASE /\ Cardinality(members) > 2 /\ members' = members \ {p}
           /\ roll' = [c \in Creatures |-> [s \in Slots |-> WithoutVoter(roll[c][s], p)]]
  <2>1. roll \in [Creatures -> [Slots -> Rolls \cup {NoRoll}]] BY DEF LInv, TypeOK
  <2>2. members' # {}
    <3>1. SUFFICES ASSUME members \ {p} = {} PROVE FALSE BY <1>3
    <3>2. members = {p} BY <1>1, <3>1
    <3>3. Cardinality({p}) = 1 BY FS_Singleton
    <3> QED BY <1>3, <3>2, <3>3
  <2>3. ASSUME NEW c \in Creatures, NEW s \in Slots
        PROVE  /\ roll'[c][s] \in Rolls \cup {NoRoll}
               /\ roll[c][s] = NoRoll => roll'[c][s] = NoRoll
               /\ roll'[c][s] # NoRoll =>
                    /\ roll[c][s] # NoRoll /\ CountsMatch(roll'[c][s])
                    /\ InRoll(roll'[c][s]) \subseteq members'
    <3>1. roll'[c][s] = WithoutVoter(roll[c][s], p) BY <1>3
    <3>2. CASE roll[c][s] = NoRoll BY <3>1, <3>2 DEF WithoutVoter
    <3>3. CASE roll[c][s] # NoRoll
      <4>1. /\ roll[c][s] \in Rolls /\ CountsMatch(roll[c][s])
            /\ InRoll(roll[c][s]) \subseteq members
        BY <3>3, OpenRoll
      <4>2. /\ roll'[c][s] \in Rolls /\ CountsMatch(roll'[c][s])
            /\ InRoll(roll'[c][s]) = InRoll(roll[c][s]) \ {p}
        BY <3>1, <4>1, WithoutVoterMatches
      <4> QED BY <1>3, <3>3, <4>1, <4>2
    <3> QED BY <3>2, <3>3
  <2>4. /\ roll' \in [Creatures -> [Slots -> Rolls \cup {NoRoll}]]
        /\ \A c \in Creatures : roll[c] = NoRolls => roll'[c] = NoRolls
    BY <1>3, <2>3 DEF NoRolls
  <2>5. TypeOK' BY <1>1, <1>3, <2>4 DEF LInv, TypeOK
  <2>6. ASSUME NEW c \in Creatures PROVE CorpseInv(c)'
    <3>1. CorpseInv(c) BY DEF LInv
    <3>2. Life(c)' BY <1>1, <2>4, <3>1 DEF CorpseInv, Life, NoRolls, NothingGot
    <3>3. GivenOnce(c)' BY <1>1, <3>1 DEF CorpseInv, GivenOnce
    <3>4. ASSUME NEW s \in Slots, roll'[c][s] # NoRoll
          PROVE  /\ s \in corpse[c].blocked /\ s \notin corpse[c].looted
                 /\ corpse[c].timer = group \/ [group |-> group, creature |-> c] \in due
      BY <2>3, <3>1, <3>4 DEF CorpseInv, Guarded
    <3>5. Guarded(c)' BY <1>1, <2>3, <3>4 DEF Guarded, CountsMatch, InRoll, Voted
    <3> QED BY <2>2, <3>2, <3>3, <3>5 DEF CorpseInv
  <2> QED BY <2>5, <2>6 DEF LInv
<1> QED BY <1>2, <1>3 DEF RemoveMember

\* Who is in the world, in the group, or passes, touches no corpse.
LEMMA PeopleKeep ==
  ASSUME LInv, NEW p \in Players, NEW q \in Players,
         SetPassOnGroupLoot(p) \/ Login(p) \/ Join(p, q)
  PROVE  LInv'
<1>1. UNCHANGED <<corpse, roll, got, due>>
  BY DEF SetPassOnGroupLoot, Login, Join
<1>2. members = {} \/ (group' = group /\ members \subseteq members')
  BY DEF SetPassOnGroupLoot, Login, Join
<1>3. CASE SetPassOnGroupLoot(p)
  <2>1. passing' \subseteq Players BY <1>3 DEF SetPassOnGroupLoot, LInv, TypeOK
  <2>2. TypeOK' BY <1>1, <1>3, <2>1 DEF SetPassOnGroupLoot, LInv, TypeOK
  <2> QED BY <1>1, <1>2, <2>2, NoCreature
<1>4. CASE Login(p)
  <2>1. TypeOK'
    <3>1. online' \subseteq Players BY <1>4 DEF Login, LInv, TypeOK
    <3>2. UNCHANGED <<group, members, passing, corpse, roll, due, kills, got>> BY <1>4 DEF Login
    <3> QED BY <3>1, <3>2 DEF LInv, TypeOK
  <2> QED BY <1>1, <1>2, <2>1, NoCreature
<1>5. CASE Join(p, q)
  <2>1. group' \in 0..MaxGroups /\ members' \subseteq Players
    <3>1. group \in 0..MaxGroups /\ members \subseteq Players /\ MaxGroups \in Nat
      BY LootAssumption DEF LInv, TypeOK
    <3>2. CASE UNCHANGED group /\ members' = members \cup {p}
      BY <3>1, <3>2
    <3>3. CASE group < MaxGroups /\ group' = group + 1 /\ members' = {p, q}
      <4>1. group' \in 0..MaxGroups BY <3>1, <3>3
      <4> QED BY <3>3, <4>1
    <3> QED BY <1>5, <3>2, <3>3 DEF Join
  <2>2. UNCHANGED <<online, passing, corpse, roll, due, kills, got>> BY <1>5 DEF Join
  <2>3. TypeOK' BY <2>1, <2>2 DEF LInv, TypeOK
  <2> QED BY <1>1, <1>2, <2>3, NoCreature
<1> QED BY <1>3, <1>4, <1>5

\* Player::SendLoot: the rolls begin on a corpse of which nothing has been taken.
LEMMA SendLootKeeps ==
  ASSUME LInv, NEW p \in Players, NEW c \in Creatures, NEW near \in SUBSET members,
         SendLoot(p, c, near)
  PROVE  LInv'
<1> DEFINE k == corpse[c]
           permitted == IF p \in members THEN k.recipient \in members ELSE k.recipient = p
           opened == [k EXCEPT !.lootForBody = TRUE, !.looters = IF permitted THEN @ \cup {p} ELSE @]
           first == ~k.lootForBody /\ k.recipient \in members
<1>1. /\ k.dead /\ k.filled
      /\ IF first THEN GroupLoot(c, opened, near)
         ELSE corpse' = [corpse EXCEPT ![c] = opened] /\ UNCHANGED roll
      /\ UNCHANGED <<online, group, members, passing, due, kills, got>>
  BY DEF SendLoot
<1>2. /\ corpse \in [Creatures -> Corpses] /\ k \in Corpses /\ CorpseInv(c)
      /\ roll \in [Creatures -> [Slots -> Rolls \cup {NoRoll}]] /\ group \in 0..MaxGroups
      /\ near \subseteq Players /\ passing \subseteq Players
  BY DEF LInv, TypeOK
<1>3. /\ opened \in Corpses /\ opened.lootForBody
      /\ opened.dead = k.dead /\ opened.filled = k.filled /\ opened.blocked = k.blocked
      /\ opened.looted = k.looted /\ opened.unlootedCount = k.unlootedCount /\ opened.timer = k.timer
  BY <1>2 DEF Corpses
<1> HIDE DEF opened
<1>4. CASE corpse' = [corpse EXCEPT ![c] = opened] /\ UNCHANGED roll
  <2>1. /\ corpse' \in [Creatures -> Corpses] /\ corpse'[c] = opened
        /\ \A d \in Creatures : d # c => corpse'[d] = corpse[d]
    BY <1>2, <1>3, <1>4
  <2>2. TypeOK' BY <1>1, <1>4, <2>1 DEF LInv, TypeOK
  <2>3. Life(c)' BY <1>1, <1>2, <1>3, <1>4, <2>1 DEF CorpseInv, Life
  <2>4. GivenOnce(c)' BY <1>1, <1>2, <1>3, <2>1 DEF CorpseInv, GivenOnce
  <2>5. Guarded(c)' BY <1>1, <1>2, <1>3, <1>4, <2>1 DEF CorpseInv, Guarded
  <2>6. CorpseInv(c)' BY <1>1, <1>2, <1>4, <2>3, <2>4, <2>5 DEF CorpseInv, NoRolls
  <2> QED BY <1>1, <1>4, <2>1, <2>2, <2>6, OneCreature
<1>5. CASE first /\ near # {}
  <2> DEFINE begun == [opened EXCEPT !.blocked = Slots, !.timer = group]
  <2>1. /\ corpse' = [corpse EXCEPT ![c] = begun]
        /\ roll' = [roll EXCEPT ![c] = [s \in Slots |-> NewRoll(near)]]
    BY <1>1, <1>5 DEF GroupLoot
  <2>2. /\ begun \in Corpses /\ begun.lootForBody /\ begun.dead = k.dead /\ begun.filled = k.filled
        /\ begun.blocked = Slots /\ begun.looted = k.looted
        /\ begun.unlootedCount = k.unlootedCount /\ begun.timer = group
    BY <1>2, <1>3 DEF Corpses
  <2> HIDE DEF begun
  <2>3. NewRoll(near) \in Rolls /\ CountsMatch(NewRoll(near)) /\ InRoll(NewRoll(near)) = near
    BY <1>2, NewRollMatches
  <2>4. k.looted = {} BY <1>2, <1>5 DEF CorpseInv, Life
  <2>5. /\ corpse' \in [Creatures -> Corpses] /\ corpse'[c] = begun
        /\ \A d \in Creatures : d # c => corpse'[d] = corpse[d]
    BY <1>2, <2>1, <2>2
  <2>6. /\ roll' \in [Creatures -> [Slots -> Rolls \cup {NoRoll}]]
        /\ \A s \in Slots : roll'[c][s] = NewRoll(near)
        /\ \A d \in Creatures : d # c => roll'[d] = roll[d]
    BY <1>2, <2>1, <2>3
  <2>7. TypeOK' BY <1>1, <2>5, <2>6 DEF LInv, TypeOK
  <2>8. Life(c)' BY <1>1, <2>2, <2>5 DEF Life
  <2>9. GivenOnce(c)' BY <1>1, <1>2, <2>2, <2>5 DEF CorpseInv, GivenOnce
  <2>10. ASSUME NEW s \in Slots
         PROVE  CountsMatch(roll'[c][s]) /\ InRoll(roll'[c][s]) \subseteq members
    BY <2>3, <2>6
  <2>11. Guarded(c)'
    BY <1>1, <2>2, <2>4, <2>5, <2>10 DEF Guarded, CountsMatch, InRoll, Voted
  <2>12. members' # {} BY <1>1, <1>5
  <2>13. CorpseInv(c)' BY <2>8, <2>9, <2>11, <2>12 DEF CorpseInv
  <2> QED BY <1>1, <2>5, <2>6, <2>7, <2>13, OneCreature
<1> QED BY <1>1, <1>4, <1>5 DEF GroupLoot

\* An item taken from the window was in the corpse, and nobody rolls for it.
LEMMA StoreLootItemKeeps ==
  ASSUME LInv, NEW p \in Players, NEW c \in Creatures, NEW s \in Slots, StoreLootItem(p, c, s)
  PROVE  LInv'
<1> DEFINE k == corpse[c]
           left == [k EXCEPT !.looted = @ \cup {s}, !.unlootedCount = @ - 1]
           item == [to |-> p, as |-> "LOOT"]
<1>1. /\ k.dead /\ s \notin k.looted /\ s \notin k.blocked /\ p \in k.looters
      /\ got' = [got EXCEPT ![c][s] = Append(@, item)]
      /\ UNCHANGED <<online, group, members, passing, roll, due, kills>>
  BY DEF StoreLootItem, MayTake
<1>2. corpse' = [corpse EXCEPT ![c].looted = @ \cup {s}, ![c].unlootedCount = @ - 1]
  BY DEF StoreLootItem
<1>3. /\ corpse \in [Creatures -> Corpses] /\ k \in Corpses /\ CorpseInv(c)
      /\ got \in [Creatures -> [Slots -> Seq([to : Players, as : Answers \cup {"LOOT"}])]]
  BY DEF LInv, TypeOK
<1>4. /\ corpse'[c] = left /\ \A d \in Creatures : d # c => corpse'[d] = corpse[d]
      /\ DOMAIN corpse' = Creatures /\ corpse' = [d \in Creatures |-> corpse'[d]]
  BY <1>2, <1>3
<1>5. /\ k.filled /\ k.lootForBody BY <1>1, <1>3 DEF CorpseInv, Life, Corpses
<1>6. /\ left.looted = k.looted \cup {s} /\ left.unlootedCount = k.unlootedCount - 1
      /\ left.dead = k.dead /\ left.filled = k.filled /\ left.lootForBody = k.lootForBody
      /\ left.blocked = k.blocked /\ left.timer = k.timer
  BY <1>3 DEF Corpses
<1>7. /\ left.unlootedCount = Cardinality(Slots \ left.looted)
      /\ left.unlootedCount \in 0..Cardinality(Slots)
  <2>1. k.unlootedCount = Cardinality(Slots \ k.looted) BY <1>3, <1>5 DEF CorpseInv, GivenOnce
  <2>2. k.looted \in SUBSET Slots /\ {s} \in SUBSET (Slots \ k.looted) BY <1>1, <1>3 DEF Corpses
  <2>3. Cardinality({s}) = 1 BY FS_Singleton
  <2> DEFINE won == {s}
             looted == k.looted
  <2>4. looted \in SUBSET Slots /\ won \in SUBSET (Slots \ looted) BY <2>2
  <2>5. left.looted = looted \cup won BY <1>6
  <2>6. left.unlootedCount = Cardinality(Slots \ looted) - Cardinality(won) BY <1>6, <2>1, <2>3
  <2> HIDE DEF won, looted, left
  <2> QED BY <2>4, <2>5, <2>6, ItemsLeft
<1>8. left \in Corpses
  <2>1. left.looted \in SUBSET Slots BY <1>3, <1>6 DEF Corpses
  <2> QED BY <1>3, <1>7, <2>1 DEF Corpses
<1> HIDE DEF left
<1>9. corpse' \in [Creatures -> Corpses] BY <1>3, <1>4, <1>8
<1>10. got[c][s] = <<>> BY <1>1, <1>3, <1>5 DEF CorpseInv, GivenOnce
<1>11. /\ got'[c] = [got[c] EXCEPT ![s] = Append(got[c][s], item)]
       /\ \A d \in Creatures : d # c => got'[d] = got[d]
  BY <1>1, <1>3
<1>12. item \in [to : Players, as : Answers \cup {"LOOT"}] OBVIOUS
<1> HIDE DEF item
<1>13. /\ got'[c][s] = <<item>> /\ Len(got'[c][s]) = 1 /\ got'[c][s] # <<>>
       /\ \A i \in Slots : i # s => got'[c][i] = got[c][i]
  BY <1>3, <1>10, <1>11
<1>14. got' \in [Creatures -> [Slots -> Seq([to : Players, as : Answers \cup {"LOOT"}])]]
  <2> DEFINE Items == [to : Players, as : Answers \cup {"LOOT"}]
  <2>1. got \in [Creatures -> [Slots -> Seq(Items)]] /\ item \in Items BY <1>3, <1>12
  <2> HIDE DEF Items
  <2>2. Append(got[c][s], item) \in Seq(Items) BY <2>1
  <2>3. got'[c] \in [Slots -> Seq(Items)] BY <1>11, <2>1, <2>2
  <2>4. got' \in [Creatures -> [Slots -> Seq(Items)]] BY <1>1, <2>1, <2>3, <1>11
  <2> QED BY <2>4 DEF Items
<1>15. TypeOK' BY <1>1, <1>9, <1>14 DEF LInv, TypeOK
<1>16. Life(c)' BY <1>1, <1>4, <1>5, <1>6 DEF Life
<1>17. GivenOnce(c)'
  <2>1. ASSUME NEW i \in Slots PROVE Len(got'[c][i]) <= 1
    <3>1. CASE i = s
      <4>1. Len(got'[c][i]) = 1 BY <1>13, <3>1
      <4> QED BY <4>1
    <3>2. CASE i # s
      <4>1. got'[c][i] = got[c][i] /\ Len(got[c][i]) <= 1
        BY <1>3, <1>13, <3>2 DEF CorpseInv, GivenOnce
      <4> QED BY <4>1
    <3> QED BY <3>1, <3>2
  <2>2. \A i \in Slots : i \in k.looted <=> got[c][i] # <<>>
    BY <1>3, <1>5 DEF CorpseInv, GivenOnce
  <2>3. \A i \in Slots : i \in left.looted <=> got'[c][i] # <<>>
    BY <1>6, <1>13, <2>2
  <2> QED BY <1>4, <1>7, <2>1, <2>3 DEF GivenOnce
<1>18. Guarded(c)'
  <2>1. ASSUME NEW i \in Slots, roll'[c][i] # NoRoll
        PROVE  /\ i \in left.blocked /\ i \notin left.looted
               /\ CountsMatch(roll'[c][i]) /\ InRoll(roll'[c][i]) \subseteq members'
               /\ left.timer = group' \/ [group |-> group', creature |-> c] \in due'
    <3>1. roll'[c][i] = roll[c][i] BY <1>1
    <3> QED BY <1>1, <1>3, <1>6, <2>1, <3>1 DEF CorpseInv, Guarded
  <2> QED BY <1>4, <2>1 DEF Guarded, CountsMatch, InRoll, Voted
<1>19. CorpseInv(c)' BY <1>1, <1>3, <1>16, <1>17, <1>18 DEF CorpseInv, NoRolls
<1> QED BY <1>1, <1>4, <1>11, <1>15, <1>19, OneCreature

\* The loot of a corpse is cleared, with its rolls.
LEMMA Cleared ==
  ASSUME NEW k \in Corpses
  PROVE  /\ Clear(k) \in Corpses /\ ~Clear(k).filled /\ Clear(k).blocked = {} /\ Clear(k).looted = {}
         /\ Clear(k).looters = {} /\ Clear(k).dead = k.dead /\ Clear(k).timer = k.timer
<1>1. Cardinality(Slots) \in Nat BY LootAssumption, FS_CardinalityType
<1>2. 0 \in 0..Cardinality(Slots) BY <1>1
<1> QED BY <1>2 DEF Clear, Corpses

\* Whoever looks away or logs out leaves each corpse with its rolls, or an empty one without.
LEMMA DoLootReleaseKeeps ==
  ASSUME LInv, NEW p \in Players, NEW Cs \in SUBSET Creatures, DoLootRelease(p, Cs),
         online' \subseteq Players, passing' \subseteq Players,
         UNCHANGED <<group, members, due, kills, got>>
  PROVE  LInv'
<1> DEFINE left == {c \in Cs : corpse[c].dead /\ p \in corpse[c].looters}
           empty == {c \in left : corpse[c].unlootedCount = 0}
<1>1. /\ corpse' = [c \in Creatures |->
           IF c \in empty THEN Clear(corpse[c])
           ELSE IF c \in left THEN [corpse[c] EXCEPT !.looters = @ \ {p}] ELSE corpse[c]]
      /\ roll' = [c \in Creatures |-> IF c \in empty THEN NoRolls ELSE roll[c]]
  BY DEF DoLootRelease
<1>2. /\ corpse \in [Creatures -> Corpses]
      /\ roll \in [Creatures -> [Slots -> Rolls \cup {NoRoll}]]
  BY DEF LInv, TypeOK
<1>3. ASSUME NEW c \in Creatures
      PROVE  corpse'[c] \in Corpses /\ CorpseInv(c)'
  <2> DEFINE k == corpse[c]
  <2>1. k \in Corpses /\ CorpseInv(c) BY <1>2 DEF LInv
  <2>2. CASE c \in empty
    <3>1. corpse'[c] = Clear(k) /\ roll'[c] = NoRolls BY <1>1, <2>2
    <3>2. /\ corpse'[c] \in Corpses /\ ~corpse'[c].filled /\ corpse'[c].blocked = {}
          /\ corpse'[c].looted = {} /\ corpse'[c].looters = {} /\ corpse'[c].dead = k.dead
      BY <2>1, <3>1, Cleared
    <3>3. Life(c)' BY <2>1, <3>1, <3>2 DEF CorpseInv, Life, NoRolls, NothingGot
    <3>4. Guarded(c)' BY <3>1 DEF Guarded, NoRolls
    <3>5. GivenOnce(c)' BY <2>1, <3>2 DEF CorpseInv, GivenOnce
    <3> QED BY <3>1, <3>2, <3>3, <3>4, <3>5 DEF CorpseInv, NoRolls
  <2>3. CASE c \in left /\ c \notin empty
    <3>1. corpse'[c] = [k EXCEPT !.looters = @ \ {p}] /\ roll'[c] = roll[c] BY <1>1, <2>3
    <3>2. /\ corpse'[c] \in Corpses
          /\ corpse'[c].filled = k.filled /\ corpse'[c].dead = k.dead
          /\ corpse'[c].blocked = k.blocked /\ corpse'[c].looted = k.looted
          /\ corpse'[c].unlootedCount = k.unlootedCount /\ corpse'[c].timer = k.timer
          /\ corpse'[c].lootForBody = k.lootForBody /\ corpse'[c].looters = k.looters \ {p}
      BY <2>1, <3>1 DEF Corpses
    <3>3. Life(c)' BY <2>1, <3>1, <3>2 DEF CorpseInv, Life, NoRolls, NothingGot
    <3>4. Guarded(c)' BY <2>1, <3>1, <3>2 DEF CorpseInv, Guarded
    <3>5. GivenOnce(c)' BY <2>1, <3>2 DEF CorpseInv, GivenOnce
    <3> QED BY <2>1, <3>1, <3>2, <3>3, <3>4, <3>5 DEF CorpseInv, NoRolls
  <2>4. CASE c \notin left
    <3>1. corpse'[c] = corpse[c] /\ roll'[c] = roll[c] BY <1>1, <2>4
    <3> QED BY <2>1, <3>1, Untouched
  <2> QED BY <2>2, <2>3, <2>4
<1>4. corpse' \in [Creatures -> Corpses]
  <2>1. DOMAIN corpse' = Creatures /\ corpse' = [c \in Creatures |-> corpse'[c]]
    BY <1>1, Zenon
  <2> QED BY <1>3, <2>1
<1>5. roll' \in [Creatures -> [Slots -> Rolls \cup {NoRoll}]] BY <1>1, <1>2 DEF NoRolls
<1>6. TypeOK' BY <1>4, <1>5 DEF LInv, TypeOK
<1> QED BY <1>3, <1>6 DEF LInv

LEMMA LootReleaseKeeps ==
  ASSUME LInv, NEW p \in Players, NEW c \in Creatures, LootRelease(p, c)
  PROVE  LInv'
BY DoLootReleaseKeeps DEF LootRelease, LInv, TypeOK

LEMMA LogoutKeeps ==
  ASSUME LInv, NEW p \in Players, Logout(p)
  PROVE  LInv'
BY DoLootReleaseKeeps DEF Logout, LInv, TypeOK

\* A creature that is killed has no rolls, and nothing of it has been received.
LEMMA KillKeeps ==
  ASSUME LInv, NEW p \in Players, NEW c \in Creatures, Kill(c, p)
  PROVE  LInv'
<1> DEFINE k == [dead |-> TRUE, recipient |-> p, lootForBody |-> FALSE,
              filled |-> TRUE, blocked |-> {}, looted |-> {}, unlootedCount |-> Cardinality(Slots),
              looters |-> {}, timer |-> corpse[c].timer]
<1>1. /\ ~corpse[c].dead /\ kills < MaxKills /\ kills' = kills + 1
      /\ corpse' = [corpse EXCEPT ![c] = k]
      /\ UNCHANGED <<online, group, members, passing, roll, due, got>>
  BY DEF Kill
<1>2. /\ corpse \in [Creatures -> Corpses] /\ corpse[c] \in Corpses /\ CorpseInv(c)
      /\ kills \in 0..MaxKills
  BY DEF LInv, TypeOK
<1>3. Cardinality(Slots) \in Nat BY LootAssumption, FS_CardinalityType
<1>4. k \in Corpses BY <1>2, <1>3 DEF Corpses
<1>5. /\ k.filled /\ k.dead /\ k.looted = {} /\ k.looters = {}
      /\ k.unlootedCount = Cardinality(Slots)
  OBVIOUS
<1> HIDE DEF k
<1>6. /\ corpse' \in [Creatures -> Corpses] /\ corpse'[c] = k
      /\ \A d \in Creatures : d # c => corpse'[d] = corpse[d]
  BY <1>1, <1>2, <1>4
<1>7. kills' \in 0..MaxKills BY <1>1, <1>2, LootAssumption
<1>8. TypeOK' BY <1>1, <1>6, <1>7 DEF LInv, TypeOK
<1>9. roll[c] = NoRolls /\ got[c] = NothingGot BY <1>1, <1>2 DEF CorpseInv, Life, Corpses
<1>10. Life(c)' BY <1>1, <1>5, <1>6, <1>9 DEF Life, NoRolls
<1>11. Guarded(c)' BY <1>1, <1>9 DEF Guarded, NoRolls
<1>12. GivenOnce(c)'
  <2>1. Slots \ {} = Slots OBVIOUS
  <2>2. \A s \in Slots : got'[c][s] = <<>> BY <1>1, <1>9 DEF NothingGot
  <2>3. \A s \in Slots : Len(got'[c][s]) <= 1 BY <2>2
  <2> QED BY <1>5, <1>6, <2>1, <2>2, <2>3 DEF GivenOnce
<1>13. CorpseInv(c)' BY <1>1, <1>9, <1>10, <1>11, <1>12 DEF CorpseInv, NoRolls
<1> QED BY <1>1, <1>6, <1>8, <1>13, OneCreature

\* The timer hands the rolls over to the task it posts.
LEMMA ExpireKeeps ==
  ASSUME LInv, NEW c \in Creatures, Expire(c)
  PROVE  LInv'
<1> DEFINE k == [corpse[c] EXCEPT !.timer = 0]
           e == [group |-> corpse[c].timer, creature |-> c]
<1>1. /\ due' = due \cup {e} /\ UNCHANGED <<online, group, members, passing, roll, kills, got>>
      /\ corpse' = [corpse EXCEPT ![c].timer = 0]
  BY DEF Expire
<1>2. /\ corpse \in [Creatures -> Corpses] /\ corpse[c] \in Corpses /\ CorpseInv(c)
      /\ due \subseteq [group : 0..MaxGroups, creature : Creatures]
  BY DEF LInv, TypeOK
<1>3. 0 \in 0..MaxGroups BY LootAssumption
<1>4. /\ k \in Corpses /\ k.filled = corpse[c].filled /\ k.dead = corpse[c].dead
      /\ k.blocked = corpse[c].blocked /\ k.looted = corpse[c].looted
      /\ k.unlootedCount = corpse[c].unlootedCount /\ k.looters = corpse[c].looters
      /\ k.lootForBody = corpse[c].lootForBody
  BY <1>2, <1>3 DEF Corpses
<1>5. e \in [group : 0..MaxGroups, creature : Creatures] BY <1>2 DEF Corpses
<1>6. /\ corpse'[c] = k /\ \A d \in Creatures : d # c => corpse'[d] = corpse[d]
      /\ corpse' \in [Creatures -> Corpses]
  BY <1>1, <1>2, <1>4
<1>7. TypeOK' BY <1>1, <1>2, <1>5, <1>6 DEF LInv, TypeOK
<1> HIDE DEF k
<1>8. Life(c)' BY <1>1, <1>2, <1>4, <1>6 DEF CorpseInv, Life, NoRolls, NothingGot
<1>9. GivenOnce(c)' BY <1>1, <1>2, <1>4, <1>6 DEF CorpseInv, GivenOnce
<1>10. Guarded(c)'
  <2>1. ASSUME NEW s \in Slots, roll'[c][s] # NoRoll
        PROVE  /\ s \in k.blocked /\ s \notin k.looted
               /\ CountsMatch(roll'[c][s]) /\ InRoll(roll'[c][s]) \subseteq members'
               /\ [group |-> group', creature |-> c] \in due'
    <3>1. roll'[c][s] = roll[c][s] BY <1>1
    <3>2. corpse[c].timer = group \/ [group |-> group, creature |-> c] \in due
      BY <1>2, <2>1, <3>1 DEF CorpseInv, Guarded
    <3>3. [group |-> group, creature |-> c] \in due' BY <1>1, <3>2
    <3> QED BY <1>1, <1>2, <1>4, <2>1, <3>1, <3>3 DEF CorpseInv, Guarded
  <2> QED BY <1>6, <2>1 DEF Guarded, CountsMatch, InRoll, Voted
<1>11. CorpseInv(c)' BY <1>1, <1>2, <1>8, <1>9, <1>10 DEF CorpseInv, NoRolls
<1> QED BY <1>1, <1>6, <1>7, <1>11, OneCreature

\* The task ends every roll of its group for its creature; a task of another group finds
\* no rolls that need it.
LEMMA RunTaskKeeps ==
  ASSUME LInv, NEW e \in due, RunTask(e)
  PROVE  LInv'
<1>1. due' = due \ {e} /\ UNCHANGED <<online, group, members, passing, kills>> BY DEF RunTask
<1>2. due \subseteq [group : 0..MaxGroups, creature : Creatures] BY DEF LInv, TypeOK
<1>3. PICK g \in 0..MaxGroups, c \in Creatures : e = [group |-> g, creature |-> c] BY <1>2
<1>4. CASE g = group /\ members # {}
  <2>1. EndRoll(c) BY <1>3, <1>4 DEF RunTask
  <2>2. PICK fate \in [Open(c) -> Fates] : Over(c, fate) BY <2>1 DEF EndRoll
  <2>3. /\ corpse' \in [Creatures -> Corpses]
        /\ roll' \in [Creatures -> [Slots -> Rolls \cup {NoRoll}]]
        /\ got' \in [Creatures -> [Slots -> Seq([to : Players, as : Answers \cup {"LOOT"}])]]
        /\ CorpseInv(c)'
        /\ \A d \in Creatures : d # c =>
             corpse'[d] = corpse[d] /\ roll'[d] = roll[d] /\ got'[d] = got[d]
    BY <1>1, <2>2, OverKeeps
  <2>4. TypeOK' BY <1>1, <1>2, <2>3 DEF LInv, TypeOK
  <2>5. \A d \in Creatures : d # c => [group |-> group, creature |-> d] # e BY <1>3
  <2> QED BY <1>1, <2>3, <2>4, <2>5, OneCreature
<1>5. CASE ~(g = group /\ members # {})
  <2>1. UNCHANGED <<corpse, roll, got>> BY <1>3, <1>5 DEF RunTask
  <2>2. TypeOK' BY <1>1, <1>2, <2>1 DEF LInv, TypeOK
  <2>3. ASSUME NEW d \in Creatures PROVE CorpseInv(d)'
    <3>1. CorpseInv(d) BY DEF LInv
    <3>2. CASE members = {}
      <4>1. roll[d] = NoRolls BY <3>1, <3>2 DEF CorpseInv
      <4>2. Guarded(d)' BY <2>1, <4>1 DEF Guarded, NoRolls
      <4>3. Life(d)' BY <2>1, <3>1 DEF CorpseInv, Life
      <4>4. GivenOnce(d)' BY <2>1, <3>1 DEF CorpseInv, GivenOnce
      <4> QED BY <2>1, <4>1, <4>2, <4>3, <4>4 DEF CorpseInv, NoRolls
    <3>3. CASE members # {}
      <4>1. g # group BY <1>5, <3>3
      <4>2. [group |-> group, creature |-> d] # e BY <1>3, <4>1
      <4> QED BY <1>1, <2>1, <3>1, <4>2, Untouched
    <3> QED BY <3>2, <3>3
  <2> QED BY <2>2, <2>3 DEF LInv
<1> QED BY <1>4, <1>5

\* A corpse that disappears takes its loot and its rolls along.
LEMMA GoneKeeps ==
  ASSUME LInv, NEW c \in Creatures, Gone(c)
  PROVE  LInv'
<1> DEFINE k == [Clear(corpse[c]) EXCEPT !.dead = FALSE]
<1>1. /\ UNCHANGED <<online, group, members, passing, due, kills>>
      /\ roll' = [roll EXCEPT ![c] = NoRolls]
      /\ got' = [got EXCEPT ![c] = NothingGot]
      /\ corpse' = [corpse EXCEPT ![c] = k]
  BY DEF Gone, NothingGot
<1>2. /\ corpse \in [Creatures -> Corpses] /\ corpse[c] \in Corpses
      /\ roll \in [Creatures -> [Slots -> Rolls \cup {NoRoll}]]
      /\ got \in [Creatures -> [Slots -> Seq([to : Players, as : Answers \cup {"LOOT"}])]]
  BY DEF LInv, TypeOK
<1> DEFINE x == Clear(corpse[c])
<1>3. /\ x \in Corpses /\ ~x.filled /\ x.blocked = {} /\ x.looted = {} /\ x.looters = {}
  BY <1>2, Cleared
<1> HIDE DEF x
<1>4. k = [x EXCEPT !.dead = FALSE] BY DEF x
<1> HIDE DEF k
<1>5. /\ k \in Corpses /\ ~k.filled /\ k.blocked = {} /\ k.looted = {} /\ k.looters = {} /\ ~k.dead
  BY <1>3, <1>4 DEF Corpses
<1>6. /\ corpse'[c] = k /\ roll'[c] = NoRolls /\ got'[c] = NothingGot
      /\ \A d \in Creatures : d # c =>
           corpse'[d] = corpse[d] /\ roll'[d] = roll[d] /\ got'[d] = got[d]
  BY <1>1, <1>2
<1>7. corpse' \in [Creatures -> Corpses] BY <1>1, <1>2, <1>5
<1>8. roll' \in [Creatures -> [Slots -> Rolls \cup {NoRoll}]] BY <1>1, <1>2 DEF NoRolls
<1>9. got' \in [Creatures -> [Slots -> Seq([to : Players, as : Answers \cup {"LOOT"}])]]
  <2> DEFINE Items == [to : Players, as : Answers \cup {"LOOT"}]
  <2> HIDE DEF Items
  <2>1. NothingGot \in [Slots -> Seq(Items)] BY DEF NothingGot
  <2>2. got \in [Creatures -> [Slots -> Seq(Items)]] BY <1>2 DEF Items
  <2>3. got' \in [Creatures -> [Slots -> Seq(Items)]] BY <1>1, <2>1, <2>2
  <2> QED BY <2>3 DEF Items
<1>10. TypeOK' BY <1>1, <1>7, <1>8, <1>9 DEF LInv, TypeOK
<1>11. Life(c)' BY <1>5, <1>6 DEF Life, NoRolls, NothingGot
<1>12. Guarded(c)' BY <1>6 DEF Guarded, NoRolls
<1>13. GivenOnce(c)'
  <2>1. \A s \in Slots : got'[c][s] = <<>> BY <1>6 DEF NothingGot
  <2>2. \A s \in Slots : Len(got'[c][s]) <= 1 BY <2>1
  <2> QED BY <1>5, <1>6, <2>2 DEF GivenOnce
<1>14. CorpseInv(c)' BY <1>6, <1>11, <1>12, <1>13 DEF CorpseInv, NoRolls
<1> QED BY <1>1, <1>6, <1>10, <1>14, OneCreature

-----------------------------------------------------------------------------
(* The theorems.                                                             *)

LEMMA Initially == Init => LInv
<1> SUFFICES ASSUME Init PROVE LInv OBVIOUS
<1>1. Cardinality(Slots) \in Nat BY LootAssumption, FS_CardinalityType
<1>2. Alive \in Corpses BY <1>1, LootAssumption DEF Alive, Corpses
<1>3. /\ corpse = [c \in Creatures |-> Alive] /\ roll = [c \in Creatures |-> NoRolls]
      /\ got = [c \in Creatures |-> NothingGot] /\ members = {}
  BY DEF Init, NothingGot
<1>4. got \in [Creatures -> [Slots -> Seq([to : Players, as : Answers \cup {"LOOT"}])]]
  <2> DEFINE Items == [to : Players, as : Answers \cup {"LOOT"}]
  <2> HIDE DEF Items
  <2>1. NothingGot \in [Slots -> Seq(Items)] BY DEF NothingGot
  <2>2. got \in [Creatures -> [Slots -> Seq(Items)]] BY <1>3, <2>1
  <2> QED BY <2>2 DEF Items
<1>5. corpse \in [Creatures -> Corpses] BY <1>2, <1>3
<1>6. roll \in [Creatures -> [Slots -> Rolls \cup {NoRoll}]] BY <1>3 DEF NoRolls
<1>7. TypeOK BY <1>4, <1>5, <1>6, LootAssumption DEF Init, TypeOK
<1>8. ASSUME NEW c \in Creatures PROVE CorpseInv(c)
  <2>1. corpse[c] = Alive /\ roll[c] = NoRolls /\ got[c] = NothingGot BY <1>3
  <2>2. Life(c) BY <2>1 DEF Life, Alive
  <2>3. Guarded(c) BY <2>1 DEF Guarded, NoRolls
  <2>4. \A s \in Slots : got[c][s] = <<>> BY <2>1 DEF NothingGot
  <2>5. \A s \in Slots : Len(got[c][s]) <= 1 BY <2>4
  <2>6. GivenOnce(c) BY <2>1, <2>5 DEF GivenOnce, Alive
  <2> QED BY <2>1, <2>2, <2>3, <2>6 DEF CorpseInv
<1> QED BY <1>7, <1>8 DEF LInv

LEMMA EveryStepKeeps ==
  ASSUME LInv, [Next]_vars
  PROVE  LInv'
<1>1. ASSUME NEW p \in Players, NEW q \in Players,
             SetPassOnGroupLoot(p) \/ Login(p) \/ Join(p, q)
      PROVE  LInv'
  BY <1>1, PeopleKeep
<1>2. ASSUME NEW p \in Players, RemoveMember(p) PROVE LInv' BY <1>2, RemoveMemberKeeps
<1>3. ASSUME NEW p \in Players, Logout(p) PROVE LInv' BY <1>3, LogoutKeeps
<1>4. ASSUME NEW p \in Players, NEW c \in Creatures, Kill(c, p) PROVE LInv' BY <1>4, KillKeeps
<1>5. ASSUME NEW p \in Players, NEW c \in Creatures, LootRelease(p, c) PROVE LInv'
  BY <1>5, LootReleaseKeeps
<1>6. ASSUME NEW p \in Players, NEW c \in Creatures, NEW near \in SUBSET members,
             SendLoot(p, c, near)
      PROVE  LInv'
  BY <1>6, SendLootKeeps
<1>7. ASSUME NEW p \in Players, NEW c \in Creatures, NEW s \in Slots, StoreLootItem(p, c, s)
      PROVE  LInv'
  BY <1>7, StoreLootItemKeeps
<1>8. ASSUME NEW p \in Players, NEW c \in Creatures, NEW s \in Slots, NEW v \in Offered(s),
             CountRollVote(p, c, s, v)
      PROVE  LInv'
  <2>1. v \in Answers BY DEF Offered
  <2> QED BY <1>8, <2>1, CountRollVoteKeeps
<1>9. ASSUME NEW c \in Creatures, Expire(c) PROVE LInv' BY <1>9, ExpireKeeps
<1>10. ASSUME NEW c \in Creatures, RemoveCorpse(c) \/ Despawn(c) PROVE LInv'
  BY <1>10, GoneKeeps DEF RemoveCorpse, Despawn
<1>11. ASSUME NEW e \in due, RunTask(e) PROVE LInv' BY <1>11, RunTaskKeeps
<1>12. CASE UNCHANGED vars
  <2>1. UNCHANGED <<online, group, members, passing, corpse, roll, due, kills, got>>
    BY <1>12 DEF vars
  <2>2. TypeOK' BY <2>1 DEF LInv, TypeOK
  <2> QED BY <2>1, <2>2, NoCreature
<1> QED
  BY <1>1, <1>2, <1>3, <1>4, <1>5, <1>6, <1>7, <1>8, <1>9, <1>10, <1>11, <1>12 DEF Next

LEMMA Invariant == Spec => []LInv
<1>1. LInv /\ [Next]_vars => LInv' BY EveryStepKeeps
<1> QED BY Initially, <1>1, PTL DEF Spec

\* Every variable keeps its type: no count of a roll, and no count of the items left, goes below
\* zero or beyond the players and items there are.
THEOREM TypeCorrect == Spec => []TypeOK
BY Invariant, InvariantImplies, PTL

\* Whatever the group does between the opening of a corpse and its end, an open roll can still
\* end well (Group::CountRollVote, RemoveMember, Disband, Creature::Update).
THEOREM OpenRollsEndWell == Spec => []RollsGuardTheirItem
BY Invariant, InvariantImplies, PTL

\* No item is received twice, and Loot::unlootedCount is exact.
THEOREM ReceivedOnce == Spec => []ItemsGivenOnce
BY Invariant, InvariantImplies, PTL

\* Who receives an item at the end of rolls is the one its fate names.
LEMMA OverGives ==
  ASSUME LInv, NEW c \in Creatures, NEW S \in SUBSET Open(c), NEW fate \in [S -> Fates],
         Over(c, fate), NEW d \in Creatures, NEW s \in Slots, NEW p, Receives(p, d, s)
  PROVE  d = c /\ s \in S /\ Last(got'[d][s]) = fate[s] /\ fate[s].to = p /\ fate[s] \notin {Free, Lost}
<1> DEFINE won == {i \in DOMAIN fate : fate[i] \notin {Free, Lost}}
<1>1. got' = [got EXCEPT ![c] = [i \in Slots |-> IF i \in won THEN Append(@[i], fate[i]) ELSE @[i]]]
  BY DEF Over
<1>2. got \in [Creatures -> [Slots -> Seq([to : Players, as : Answers \cup {"LOOT"}])]]
  BY DEF LInv, TypeOK
<1>3. Len(got[d][s]) \in Nat BY <1>2
<1>4. got'[d][s] # got[d][s] BY <1>3 DEF Receives
<1>5. d = c /\ s \in won /\ got'[d][s] = Append(got[d][s], fate[s])
  <2> HIDE DEF won
  <2> QED BY <1>1, <1>2, <1>4
<1>6. s \in S /\ fate[s] \notin {Free, Lost} BY <1>5
<1>7. fate[s] \in [to : Players, as : Answers \cup {"LOOT"}] BY <1>6 DEF Fates
<1>8. got[d][s] \in Seq([to : Players, as : Answers \cup {"LOOT"}]) BY <1>2
<1>9. Last(got'[d][s]) = fate[s] BY <1>5, <1>7, <1>8 DEF Last
<1> QED BY <1>5, <1>6, <1>9 DEF Receives

\* Who wins a roll was asked, is in the world and has given the best answer, at the latest
\* in this step.
LEMMA BestVote ==
  ASSUME LInv, Next, NEW c \in Creatures, NEW s \in Slots, NEW p \in Players,
         Receives(p, c, s), roll[c][s] # NoRoll
  PROVE  LET r == roll[c][s]
             as == Last(got'[c][s]).as
         IN  /\ p \in online /\ p \in InRoll(r) /\ r.vote[p] \in {as, "NOT_EMITED_YET"}
             /\ as # "NEED" => as \in {"GREED", "DISENCHANT"} /\ Voted(r, {"NEED"}) = {}
<1> DEFINE r == roll[c][s]
           as == Last(got'[c][s]).as
           Goal == /\ p \in online /\ p \in InRoll(r) /\ r.vote[p] \in {as, "NOT_EMITED_YET"}
                   /\ as # "NEED" => as \in {"GREED", "DISENCHANT"} /\ Voted(r, {"NEED"}) = {}
<1>1. r \in Rolls /\ CountsMatch(r) /\ s \in corpse[c].blocked /\ got[c][s] = <<>> BY OpenRoll
<1>2. online \subseteq Players BY DEF LInv, TypeOK
<1>3. Len(got'[c][s]) > 0 BY <1>1 DEF Receives
<1>4. got' # got BY <1>1, <1>3
<1>5. ASSUME NEW q \in Players, NEW d \in Creatures, NEW i \in Slots, NEW v \in Answers,
             CountRollVote(q, d, i, v)
      PROVE  Goal
  <2> DEFINE x == Cast(roll[d][i], q, v)
  <2>1. roll[d][i] # NoRoll /\ roll[d][i].vote[q] = "NOT_EMITED_YET" BY <1>5 DEF CountRollVote
  <2>2. roll[d][i] \in Rolls /\ CountsMatch(roll[d][i]) BY <2>1, OpenRoll
  <2>3. /\ x \in Rolls /\ CountsMatch(x) /\ InRoll(x) = InRoll(roll[d][i])
        /\ x.vote = [roll[d][i].vote EXCEPT ![q] = v]
    BY <2>1, <2>2, CastMatches
  <2>4. PICK f \in CountTheRoll(x) : Over(d, [j \in {i} |-> f]) BY <1>4, <1>5 DEF CountRollVote
  <2> HIDE DEF x
  <2>5. f \in Fates /\ (f = Free \/ f = Lost \/ Wins(x, f)) BY <1>2, <2>3, <2>4, BestAnswer
  <2>6. {i} \in SUBSET Open(d) /\ [j \in {i} |-> f] \in [{i} -> Fates] BY <2>1, <2>5 DEF Open
  <2>7. c = d /\ s = i /\ Last(got'[c][s]) = f /\ f.to = p /\ f \notin {Free, Lost}
    BY <2>4, <2>6, OverGives
  <2>8. Wins(x, f) /\ as = f.as BY <2>5, <2>7
  <2>9. p \in online /\ p \in InRoll(r) BY <2>3, <2>7, <2>8 DEF Wins
  <2>10. as = x.vote[p] BY <2>7, <2>8 DEF Wins
  <2>11. r.vote \in [Players -> Votes] /\ x.vote = [r.vote EXCEPT ![q] = v]
    BY <1>1, <2>3, <2>7 DEF Rolls
  <2>12. r.vote[p] \in {as, "NOT_EMITED_YET"} BY <2>1, <2>7, <2>10, <2>11
  <2>13. Voted(x, {"NEED"}) = {} => Voted(r, {"NEED"}) = {}
    BY <2>1, <2>7, <2>11 DEF Voted
  <2> QED BY <2>7, <2>8, <2>9, <2>12, <2>13 DEF Wins
<1>6. ASSUME NEW q \in Players, NEW d \in Creatures, NEW i \in Slots, StoreLootItem(q, d, i)
      PROVE  FALSE
  <2>1. i \notin corpse[d].blocked /\ got' = [got EXCEPT ![d][i] = Append(@, [to |-> q, as |-> "LOOT"])]
    BY <1>6 DEF StoreLootItem, MayTake
  <2>2. got \in [Creatures -> [Slots -> Seq([to : Players, as : Answers \cup {"LOOT"}])]]
    BY DEF LInv, TypeOK
  <2>3. ~(c = d /\ s = i) BY <1>1, <2>1
  <2>4. got'[c][s] = got[c][s] BY <2>1, <2>2, <2>3
  <2> QED BY <1>1, <1>3, <2>4
<1>7. ASSUME NEW e \in due, RunTask(e) PROVE Goal
  <2>1. EndRoll(e.creature) BY <1>4, <1>7 DEF RunTask
  <2>2. e.creature \in Creatures BY DEF LInv, TypeOK
  <2> DEFINE d == e.creature
  <2>3. PICK fate \in [Open(d) -> Fates] :
          (\A i \in Open(d) : fate[i] \in CountTheRoll(roll[d][i])) /\ Over(d, fate)
    BY <2>1 DEF EndRoll
  <2>4. /\ c = d /\ s \in Open(d) /\ Last(got'[c][s]) = fate[s] /\ fate[s].to = p
        /\ fate[s] \notin {Free, Lost}
    BY <2>2, <2>3, OverGives
  <2>5. fate[s] \in CountTheRoll(r) BY <2>3, <2>4
  <2>6. Wins(r, fate[s]) BY <1>1, <1>2, <2>4, <2>5, BestAnswer
  <2> QED BY <2>4, <2>6 DEF Wins
<1>8. ASSUME NEW d \in Creatures, Gone(d) PROVE FALSE
  <2>1. got' = [got EXCEPT ![d] = NothingGot] BY <1>8 DEF Gone, NothingGot
  <2>2. got \in [Creatures -> [Slots -> Seq([to : Players, as : Answers \cup {"LOOT"}])]]
    BY DEF LInv, TypeOK
  <2>3. got'[c][s] = <<>> BY <1>1, <2>1, <2>2 DEF NothingGot
  <2> QED BY <1>3, <2>3
<1>9. \/ \E q \in Players, d \in Creatures, i \in Slots, v \in Answers : CountRollVote(q, d, i, v)
      \/ \E q \in Players, d \in Creatures, i \in Slots : StoreLootItem(q, d, i)
      \/ (\E e \in due : RunTask(e)) \/ (\E d \in Creatures : Gone(d))
  <2>1. \A i \in Slots : Offered(i) \subseteq Answers BY DEF Offered
  <2>2. ASSUME NEW q \in Players, NEW t \in Players
        PROVE  ~(\/ SetPassOnGroupLoot(q) \/ RemoveMember(q) \/ Logout(q) \/ Login(q) \/ Join(q, t))
    BY <1>4 DEF SetPassOnGroupLoot, RemoveMember, Logout, Login, Join
  <2>3. ASSUME NEW q \in Players, NEW d \in Creatures, NEW near
        PROVE  ~(Kill(d, q) \/ LootRelease(q, d) \/ SendLoot(q, d, near) \/ Expire(d))
    BY <1>4 DEF Kill, LootRelease, SendLoot, Expire
  <2>4. ASSUME NEW d \in Creatures, RemoveCorpse(d) \/ Despawn(d) PROVE Gone(d)
    BY <2>4 DEF RemoveCorpse, Despawn
  <2> QED BY <2>1, <2>2, <2>3, <2>4 DEF Next
<1> QED BY <1>5, <1>6, <1>7, <1>8, <1>9

\* Need goes before greed, and a roll is won by one of those who were asked: Group::CountTheRoll,
\* on votes, counts and departures in any order.
THEOREM TheBestVoteWins == Spec => BestVoteWins
<1> DEFINE Best ==
      \A c \in Creatures, s \in Slots, p \in Players :
        Receives(p, c, s) /\ roll[c][s] # NoRoll =>
          LET r == roll[c][s]
              as == Last(got'[c][s]).as
          IN  /\ p \in online /\ p \in InRoll(r) /\ r.vote[p] \in {as, "NOT_EMITED_YET"}
              /\ as # "NEED" => as \in {"GREED", "DISENCHANT"} /\ Voted(r, {"NEED"}) = {}
<1>1. LInv /\ [Next]_vars => [Best]_vars BY BestVote
<1>2. Spec => [][Best]_vars BY <1>1, Invariant, PTL DEF Spec
<1> QED BY <1>2 DEF BestVoteWins

=============================================================================
