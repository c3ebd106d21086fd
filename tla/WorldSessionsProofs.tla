------------------------- MODULE WorldSessionsProofs -------------------------
(***************************************************************************)
(* The session table and the login queue, for any number of accounts,      *)
(* connections and limits: who owns a session object, what the queue's     *)
(* pointers name, and what a shutdown leaves behind.                       *)
(***************************************************************************)
EXTENDS WorldSessions, SequenceTheorems, FiniteSetTheorems, TLAPS

-----------------------------------------------------------------------------
(* Sequences without repetitions.                                            *)

LEMMA SequenceSets ==
  ASSUME NEW S, NEW q \in Seq(S)
  PROVE  /\ ToSet(q) = {q[i] : i \in 1..Len(q)}
         /\ IsInjective(q) <=> \A i, j \in 1..Len(q) : q[i] = q[j] => i = j
BY DEF ToSet, IsInjective

LEMMA TailInjective ==
  ASSUME NEW S, NEW q \in Seq(S), q # <<>>, IsInjective(q)
  PROVE  /\ Tail(q) \in Seq(S)
         /\ IsInjective(Tail(q))
         /\ ToSet(Tail(q)) = ToSet(q) \ {Head(q)}
<1>1. /\ Tail(q) \in Seq(S) /\ Len(Tail(q)) = Len(q) - 1 /\ Len(q) > 0
      /\ \A i \in 1..Len(Tail(q)) : Tail(q)[i] = q[i + 1]
      /\ Head(q) = q[1]
  BY HeadTailProperties
<1>2. IsInjective(Tail(q))
  <2>1. \A i, j \in 1..Len(q) : q[i] = q[j] => i = j
    BY SequenceSets
  <2>2. \A i, j \in 1..Len(Tail(q)) : Tail(q)[i] = Tail(q)[j] => i = j
    BY <1>1, <2>1
  <2> QED BY <1>1, <2>2, SequenceSets
<1>3. ToSet(Tail(q)) = {Tail(q)[j] : j \in 1..Len(Tail(q))}
  <2> DEFINE r == Tail(q)
  <2>1. r \in Seq(S)
    BY <1>1
  <2> HIDE DEF r
  <2>2. ToSet(r) = {r[j] : j \in 1..Len(r)}
    BY <2>1, SequenceSets
  <2> QED BY <2>2 DEF r
<1>4. ToSet(Tail(q)) = ToSet(q) \ {Head(q)}
  <2>1. ASSUME NEW x \in ToSet(q), x # Head(q) PROVE x \in ToSet(Tail(q))
    <3>1. PICK i \in 1..Len(q) : q[i] = x
      BY <2>1, SequenceSets
    <3>2. i - 1 \in 1..Len(Tail(q)) /\ Tail(q)[i - 1] = x
      BY <1>1, <2>1, <3>1
    <3> QED BY <1>3, <3>2
  <2>2. ASSUME NEW x \in ToSet(Tail(q)) PROVE x \in ToSet(q) /\ x # Head(q)
    <3>1. PICK i \in 1..Len(Tail(q)) : Tail(q)[i] = x
      BY <1>3, <2>2
    <3>2. i + 1 \in 1..Len(q) /\ q[i + 1] = x /\ i + 1 # 1 /\ 1 \in 1..Len(q)
      BY <1>1, <3>1
    <3>3. \A j, k \in 1..Len(q) : q[j] = q[k] => j = k
      BY SequenceSets
    <3>4. x # q[1]
      <4>1. q[i + 1] = q[1] => i + 1 = 1
        BY <3>2, <3>3
      <4> QED BY <3>2, <4>1
    <3>5. x \in {q[j] : j \in 1..Len(q)}
      BY <3>2
    <3> QED BY <1>1, <3>4, <3>5, SequenceSets
  <2> QED BY <2>1, <2>2
<1> QED BY <1>1, <1>2, <1>4

LEMMA AppendInjectiveSeq ==
  ASSUME NEW S, NEW q \in Seq(S), NEW x \in S, IsInjective(q), x \notin ToSet(q)
  PROVE  /\ Append(q, x) \in Seq(S)
         /\ IsInjective(Append(q, x))
         /\ ToSet(Append(q, x)) = ToSet(q) \cup {x}
<1>1. /\ Append(q, x) \in Seq(S) /\ Len(Append(q, x)) = Len(q) + 1
      /\ \A i \in 1..Len(q) : Append(q, x)[i] = q[i]
      /\ Append(q, x)[Len(q) + 1] = x
  BY AppendProperties
<1>2. IsInjective(Append(q, x))
  <2>1. /\ \A i, j \in 1..Len(q) : q[i] = q[j] => i = j
        /\ \A i \in 1..Len(q) : q[i] # x
    BY SequenceSets
  <2>2. \A i, j \in 1..Len(Append(q, x)) : Append(q, x)[i] = Append(q, x)[j] => i = j
    BY <1>1, <2>1
  <2> QED BY <1>1, <2>2, SequenceSets
<1>3. ToSet(Append(q, x)) = ToSet(q) \cup {x}
  <2>1. ToSet(Append(q, x)) = {Append(q, x)[i] : i \in 1..Len(Append(q, x))}
    BY <1>1, SequenceSets
  <2>2. ToSet(q) = {q[i] : i \in 1..Len(q)}
    BY SequenceSets
  <2> QED BY <1>1, <2>1, <2>2
<1> QED BY <1>1, <1>2, <1>3

\* The loop of RemoveQueuedPlayer takes out the one place of the session.
LEMMA UnlinkedForm ==
  ASSUME NEW S, NEW q \in Seq(S), NEW x, IsInjective(q), x \in ToSet(q)
  PROVE  /\ Unlinked(q, x) \in Seq(S)
         /\ \E k \in 1..Len(q) :
              /\ q[k] = x /\ Len(Unlinked(q, x)) = Len(q) - 1
              /\ \A j \in 1..Len(Unlinked(q, x)) :
                   Unlinked(q, x)[j] = IF j < k THEN q[j] ELSE q[j + 1]
<1> DEFINE i == Position(q, x)
           r == Unlinked(q, x)
           front == SubSeq(q, 1, i - 1)
           back == SubSeq(q, i + 1, Len(q))
<1>1. PICK k \in 1..Len(q) : q[k] = x
  BY SequenceSets
<1>2. \A j \in 1..(k - 1) : q[j] # x
  BY <1>1, SequenceSets
<1>3. i \in 1..Len(q) /\ q[i] = x
  BY <1>1, <1>2 DEF Position
<1>4. r = front \o back
  BY DEF RemoveAt, Unlinked
<1> HIDE DEF i, r
<1>5. /\ front \in Seq(S) /\ Len(front) = i - 1
      /\ \A j \in 1..(i - 1) : front[j] = q[j]
  BY <1>3, SubSeqProperties
<1>6. /\ back \in Seq(S) /\ Len(back) = Len(q) - i
      /\ \A j \in 1..(Len(q) - i) : back[j] = q[j + i]
  BY <1>3, SubSeqProperties
<1> HIDE DEF front, back
<1>7. /\ r \in Seq(S) /\ Len(r) = (i - 1) + (Len(q) - i)
      /\ \A j \in 1..((i - 1) + (Len(q) - i)) :
           r[j] = IF j <= i - 1 THEN front[j] ELSE back[j - (i - 1)]
  BY <1>4, <1>5, <1>6, ConcatProperties
<1>8. ASSUME NEW j \in 1..Len(r) PROVE r[j] = IF j < i THEN q[j] ELSE q[j + 1]
  <2>1. CASE j < i
    BY <1>3, <1>5, <1>7, <2>1
  <2>2. CASE ~(j < i)
    <3>1. j - (i - 1) \in 1..(Len(q) - i) /\ (j - (i - 1)) + i = j + 1
      BY <1>3, <1>7, <2>2
    <3> QED BY <1>3, <1>6, <1>7, <2>2, <3>1
  <2> QED BY <2>1, <2>2
<1>9. Len(r) = Len(q) - 1
  BY <1>3, <1>7
<1> QED BY <1>3, <1>7, <1>8, <1>9 DEF r

\* It takes out the session and nothing else.
LEMMA UnlinkedProperties ==
  ASSUME NEW S, NEW q \in Seq(S), NEW x, IsInjective(q)
  PROVE  /\ Unlinked(q, x) \in Seq(S)
         /\ IsInjective(Unlinked(q, x))
         /\ ToSet(Unlinked(q, x)) = ToSet(q) \ {x}
<1> DEFINE r == Unlinked(q, x)
<1>1. CASE x \notin ToSet(q)
  BY <1>1 DEF Unlinked
<1>2. CASE x \in ToSet(q)
  <2>1. r \in Seq(S)
    BY <1>2, UnlinkedForm
  <2>2. PICK i \in 1..Len(q) :
          /\ q[i] = x /\ Len(r) = Len(q) - 1
          /\ \A j \in 1..Len(r) : r[j] = IF j < i THEN q[j] ELSE q[j + 1]
    BY <1>2, UnlinkedForm
  <2> HIDE DEF r
  <2>3. \A j, k \in 1..Len(q) : q[j] = q[k] => j = k
    BY SequenceSets
  <2>4. /\ ToSet(q) = {q[j] : j \in 1..Len(q)} /\ ToSet(r) = {r[j] : j \in 1..Len(r)}
        /\ IsInjective(r) <=> \A j, k \in 1..Len(r) : r[j] = r[k] => j = k
    BY <2>1, SequenceSets
  <2>5. IsInjective(r)
    <3>1. ASSUME NEW j \in 1..Len(r), NEW k \in 1..Len(r), r[j] = r[k] PROVE j = k
      <4> DEFINE a == IF j < i THEN j ELSE j + 1
                 b == IF k < i THEN k ELSE k + 1
      <4>1. a \in 1..Len(q) /\ b \in 1..Len(q) /\ r[j] = q[a] /\ r[k] = q[b]
        BY <2>2, LenProperties
      <4>2. a = b
        BY <2>3, <3>1, <4>1
      <4> QED BY <4>2
    <3> QED BY <2>4, <3>1
  <2>6. ToSet(r) \subseteq ToSet(q) \ {x}
    <3>1. ASSUME NEW j \in 1..Len(r) PROVE r[j] \in ToSet(q) /\ r[j] # x
      <4> DEFINE a == IF j < i THEN j ELSE j + 1
      <4>1. a \in 1..Len(q) /\ r[j] = q[a] /\ a # i
        BY <2>2, LenProperties
      <4> HIDE DEF a
      <4> QED BY <2>2, <2>3, <2>4, <4>1
    <3> QED BY <2>4, <3>1
  <2>7. ASSUME NEW y \in ToSet(q), y # x PROVE y \in ToSet(r)
    <3>1. PICK j \in 1..Len(q) : q[j] = y
      BY <2>4, <2>7
    <3>2. CASE j < i
      BY <2>2, <2>4, <3>1, <3>2
    <3>3. CASE j > i
      <4>1. j - 1 \in 1..Len(r) /\ r[j - 1] = y
        BY <2>2, <3>1, <3>3
      <4> QED BY <2>4, <4>1
    <3> QED BY <2>2, <2>7, <3>1, <3>2, <3>3
  <2> QED BY <1>2, <2>1, <2>5, <2>6, <2>7 DEF r
<1> QED BY <1>1, <1>2

\* r is q after departures of x and admissions from the front: what is gone, x
\* apart, was in front of all that is left, and what is left is in order.
KeepsOrder(q, r, x) ==
  \A i, j \in 1..Len(q) : i < j =>
    /\ q[j] \notin ToSet(r) /\ q[j] # x => q[i] \notin ToSet(r)
    /\ {q[i], q[j]} \subseteq ToSet(r) =>
         \E m, n \in 1..Len(r) : m < n /\ r[m] = q[i] /\ r[n] = q[j]

LEMMA KeepsOrderTransitive ==
  ASSUME NEW q, NEW r, NEW t, NEW x, ToSet(t) \subseteq ToSet(r),
         KeepsOrder(q, r, x), KeepsOrder(r, t, x)
  PROVE  KeepsOrder(q, t, x)
<1> SUFFICES ASSUME NEW i \in 1..Len(q), NEW j \in 1..Len(q), i < j
             PROVE  /\ q[j] \notin ToSet(t) /\ q[j] # x => q[i] \notin ToSet(t)
                    /\ {q[i], q[j]} \subseteq ToSet(t) =>
                         \E m, n \in 1..Len(t) : m < n /\ t[m] = q[i] /\ t[n] = q[j]
  BY DEF KeepsOrder
<1>1. /\ q[j] \notin ToSet(r) /\ q[j] # x => q[i] \notin ToSet(r)
      /\ {q[i], q[j]} \subseteq ToSet(r) =>
           \E m, n \in 1..Len(r) : m < n /\ r[m] = q[i] /\ r[n] = q[j]
  BY DEF KeepsOrder
<1>2. CASE {q[i], q[j]} \subseteq ToSet(r)
  <2>1. PICK m \in 1..Len(r), n \in 1..Len(r) : m < n /\ r[m] = q[i] /\ r[n] = q[j]
    BY <1>1, <1>2
  <2>2. /\ r[n] \notin ToSet(t) /\ r[n] # x => r[m] \notin ToSet(t)
        /\ {r[m], r[n]} \subseteq ToSet(t) =>
             \E k, l \in 1..Len(t) : k < l /\ t[k] = r[m] /\ t[l] = r[n]
    BY <2>1 DEF KeepsOrder
  <2> QED BY <2>1, <2>2
<1>3. CASE ~({q[i], q[j]} \subseteq ToSet(r))
  BY <1>1, <1>3
<1> QED BY <1>2, <1>3

LEMMA TailKeepsOrder ==
  ASSUME NEW S, NEW q \in Seq(S), q # <<>>, IsInjective(q), NEW x
  PROVE  KeepsOrder(q, Tail(q), x)
<1>1. /\ Tail(q) \in Seq(S) /\ Len(Tail(q)) = Len(q) - 1
      /\ \A i \in 1..Len(Tail(q)) : Tail(q)[i] = q[i + 1]
      /\ Head(q) = q[1]
      /\ ToSet(Tail(q)) = ToSet(q) \ {Head(q)}
  BY HeadTailProperties, TailInjective
<1>2. \A i, j \in 1..Len(q) : q[i] = q[j] => i = j
  BY SequenceSets
<1>3. \A i \in 1..Len(q) : q[i] \in ToSet(q)
  BY SequenceSets
<1> SUFFICES ASSUME NEW i \in 1..Len(q), NEW j \in 1..Len(q), i < j
             PROVE  /\ q[j] \in ToSet(Tail(q))
                    /\ q[i] \in ToSet(Tail(q)) =>
                         \E m, n \in 1..Len(Tail(q)) :
                           m < n /\ Tail(q)[m] = q[i] /\ Tail(q)[n] = q[j]
  BY DEF KeepsOrder
<1>4. 1 \in 1..Len(q) /\ q[j] # q[1] /\ (i # 1 => i - 1 \in 1..Len(Tail(q)))
      /\ j - 1 \in 1..Len(Tail(q))
  <2>1. 1 \in 1..Len(q) /\ j # 1
    OBVIOUS
  <2>2. q[j] = q[1] => j = 1
    BY <1>2, <2>1
  <2> QED BY <1>1, <2>1, <2>2
<1>5. q[j] \in ToSet(Tail(q))
  BY <1>1, <1>3, <1>4
<1>6. CASE i = 1
  BY <1>1, <1>5, <1>6
<1>7. CASE i # 1
  <2>1. Tail(q)[i - 1] = q[i] /\ Tail(q)[j - 1] = q[j] /\ i - 1 < j - 1
    BY <1>1, <1>4, <1>7
  <2> QED BY <1>4, <1>5, <1>7, <2>1
<1> QED BY <1>6, <1>7

LEMMA UnlinkedKeepsOrder ==
  ASSUME NEW S, NEW q \in Seq(S), NEW x, IsInjective(q)
  PROVE  KeepsOrder(q, Unlinked(q, x), x)
<1> DEFINE r == Unlinked(q, x)
<1>1. ToSet(r) = ToSet(q) \ {x} /\ \A i \in 1..Len(q) : q[i] \in ToSet(q)
  BY UnlinkedProperties, SequenceSets
<1>2. CASE x \notin ToSet(q)
  BY <1>1, <1>2 DEF Unlinked, KeepsOrder
<1>3. CASE x \in ToSet(q)
  <2>1. PICK k \in 1..Len(q) :
          /\ q[k] = x /\ Len(r) = Len(q) - 1
          /\ \A j \in 1..Len(r) : r[j] = IF j < k THEN q[j] ELSE q[j + 1]
    BY <1>3, UnlinkedForm
  <2> HIDE DEF r
  <2> SUFFICES ASSUME NEW i \in 1..Len(q), NEW j \in 1..Len(q), i < j, q[i] # x, q[j] # x
               PROVE  \E m, n \in 1..Len(r) : m < n /\ r[m] = q[i] /\ r[n] = q[j]
    BY <1>1 DEF KeepsOrder, r
  <2> DEFINE at(l) == IF l < k THEN l ELSE l - 1
  <2>2. i # k /\ j # k
    BY <2>1
  <2>3. at(i) \in 1..Len(r) /\ at(j) \in 1..Len(r) /\ at(i) < at(j)
    BY <2>1, <2>2
  <2>4. r[at(i)] = q[i] /\ r[at(j)] = q[j]
    <3>1. ASSUME NEW l \in 1..Len(q), l # k, at(l) \in 1..Len(r) PROVE r[at(l)] = q[l]
      <4>1. r[at(l)] = IF at(l) < k THEN q[at(l)] ELSE q[at(l) + 1]
        BY <2>1, <3>1
      <4>2. CASE l < k
        BY <4>1, <4>2
      <4>3. CASE l > k
        <5>1. at(l) = l - 1 /\ ~(at(l) < k) /\ at(l) + 1 = l
          BY <4>3
        <5> QED BY <4>1, <5>1
      <4> QED BY <3>1, <4>2, <4>3
    <3> QED BY <2>2, <2>3, <3>1
  <2> HIDE DEF at
  <2> QED BY <2>3, <2>4
<1> QED BY <1>2, <1>3

\* RemoveQueuedPlayer leaves a part of the queue, without the session.
LEMMA RemoveQueuedPlayerProperties ==
  ASSUME NEW S, NEW tbl, NEW q \in Seq(S), NEW x, IsInjective(q)
  PROVE  /\ RemoveQueuedPlayer(tbl, q, x) \in Seq(S)
         /\ IsInjective(RemoveQueuedPlayer(tbl, q, x))
         /\ ToSet(RemoveQueuedPlayer(tbl, q, x)) \subseteq ToSet(q) \ {x}
<1> DEFINE rest == Unlinked(q, x)
<1>1. rest \in Seq(S) /\ IsInjective(rest) /\ ToSet(rest) = ToSet(q) \ {x}
  BY UnlinkedProperties
<1>2. RemoveQueuedPlayer(tbl, q, x) \in {rest} \cup (IF rest = <<>> THEN {} ELSE {Tail(rest)})
  BY DEF RemoveQueuedPlayer, AfterAdmission
<1> HIDE DEF rest
<1>3. rest # <<>> => /\ Tail(rest) \in Seq(S) /\ IsInjective(Tail(rest))
                     /\ ToSet(Tail(rest)) = ToSet(rest) \ {Head(rest)}
  BY <1>1, TailInjective
<1> QED BY <1>1, <1>2, <1>3

LEMMA RemoveQueuedPlayerKeepsOrder ==
  ASSUME NEW S, NEW tbl, NEW q \in Seq(S), NEW x, IsInjective(q)
  PROVE  KeepsOrder(q, RemoveQueuedPlayer(tbl, q, x), x)
<1> DEFINE rest == Unlinked(q, x)
<1>1. /\ rest \in Seq(S) /\ IsInjective(rest)
      /\ KeepsOrder(q, rest, x)
  BY UnlinkedProperties, UnlinkedKeepsOrder
<1>2. RemoveQueuedPlayer(tbl, q, x) \in {rest} \cup (IF rest = <<>> THEN {} ELSE {Tail(rest)})
  BY DEF RemoveQueuedPlayer, AfterAdmission
<1> HIDE DEF rest
<1>3. rest # <<>> => KeepsOrder(q, Tail(rest), x)
  <2>1. rest # <<>> => KeepsOrder(rest, Tail(rest), x) /\ ToSet(Tail(rest)) \subseteq ToSet(rest)
    BY <1>1, TailKeepsOrder, TailInjective
  <2> QED BY <1>1, <2>1, KeepsOrderTransitive
<1> QED BY <1>1, <1>2, <1>3

-----------------------------------------------------------------------------
(* The strengthening.  Whoever is flagged, loading or in the world is the     *)
(* entry of its own account in m_sessions, so that deleting an entry deletes  *)
(* nothing the queue or the world still uses; and from the moment the server  *)
(* stops, a session in the world is one that the last UpdateSessions visits   *)
(* with a closed socket.                                                      *)

EntriesAreOfTheirAccount ==
  \A a \in Registered : sessions[a] \in Existing /\ account[sessions[a]] = a

UsersAreRegistered ==
  \A s \in inQueue \cup loading \cup inWorld : sessions[account[s]] = s

ListedAreFlagged == ToSet(queue) \subseteq inQueue

StopCloses ==
  /\ stopEvent => pc # "tick" /\ inWorld \cap open = {}
  /\ stopEvent /\ pc = "update" => \A s \in inWorld : account[s] \in todo
  /\ ShutdownUnloadsPlayers

SInv ==
  /\ TypeOK
  /\ SessionsAreOwnedOnce
  /\ QueueEntriesAreRegistered
  /\ EntriesAreOfTheirAccount
  /\ UsersAreRegistered
  /\ QueuedFlagMeansListed
  /\ ListedAreFlagged
  /\ StopCloses

LEMMA SInitially == Init => SInv
<1> SUFFICES ASSUME Init PROVE SInv
  OBVIOUS
<1>1. Existing = {} /\ Registered = {} /\ ToSet(addSessQueue) = {} /\ ToSet(queue) = {}
  BY SessionAssumption DEF Init, Existing, Registered, ToSet
<1>2. TypeOK
  <2>1. <<>> \in Seq(Accounts) /\ <<>> \in Seq(Existing) /\ Len(<<>>) = 0
    BY EmptySeq
  <2>2. account \in Seq(Accounts) /\ Len(account) <= MaxSessions
    BY <2>1, SessionAssumption DEF Init
  <2>3. addSessQueue \in Seq(Existing) /\ queue \in Seq(Existing)
    BY <2>1 DEF Init
  <2>4. /\ sessions \in [Accounts -> SessionIds \cup {NoSession}]
        /\ disconnects \in [Accounts -> (0..MaxTime) \cup {Never}]
        /\ limit \in Limits /\ now \in 0..MaxTime
    BY SessionAssumption DEF Init
  <2> QED BY <2>2, <2>3, <2>4 DEF Init, TypeOK
<1>3. IsInjective(addSessQueue) /\ IsInjective(queue)
  BY DEF Init, IsInjective
<1>4. /\ SessionsAreOwnedOnce /\ QueueEntriesAreRegistered
      /\ EntriesAreOfTheirAccount /\ QueuedFlagMeansListed /\ ListedAreFlagged
  BY <1>1, <1>3 DEF Init, SessionsAreOwnedOnce, QueueEntriesAreRegistered,
     EntriesAreOfTheirAccount, QueuedFlagMeansListed, ListedAreFlagged
<1>5. UsersAreRegistered /\ StopCloses
  BY DEF Init, UsersAreRegistered, StopCloses, ShutdownUnloadsPlayers
<1> QED BY <1>2, <1>4, <1>5 DEF SInv

\* What SInv says of a state, without the sequences' definitions.
LEMMA SFacts ==
  ASSUME SInv
  PROVE  /\ account \in Seq(Accounts) /\ Len(account) \in 0..MaxSessions
         /\ Existing = 1..Len(account)
         /\ \A s \in Existing : account[s] \in Accounts /\ s \in Nat /\ s # NoSession
         /\ alive \subseteq Existing /\ ToSet(queue) \subseteq alive
         /\ ToSet(addSessQueue) \subseteq alive
         /\ \A a \in Registered : sessions[a] \in alive
<1>1. /\ account \in Seq(Accounts) /\ Len(account) \in 0..MaxSessions
      /\ Existing = 1..Len(account)
      /\ \A s \in 1..Len(account) : account[s] \in Accounts
  BY SessionAssumption, LenProperties DEF SInv, TypeOK, Existing
<1>2. \A s \in 1..Len(account) : s \in Nat /\ s # NoSession
  BY SessionAssumption, <1>1
<1>3. /\ alive \subseteq Existing /\ ToSet(queue) \subseteq alive
      /\ ToSet(addSessQueue) \subseteq alive
      /\ \A a \in Registered : sessions[a] \in alive
  BY DEF SInv, TypeOK, SessionsAreOwnedOnce, QueueEntriesAreRegistered
<1> QED BY <1>1, <1>2, <1>3

-----------------------------------------------------------------------------
(* Network threads.                                                           *)

LEMMA ConnectKeepsSInv ==
  ASSUME SInv, NEW a \in Accounts, Connect(a)
  PROVE  SInv'
<1> DEFINE n == Len(account) + 1
<1>1. /\ account' \in Seq(Accounts) /\ Len(account') = n /\ n \in 1..MaxSessions
      /\ \A s \in 1..Len(account) : account'[s] = account[s]
      /\ account'[n] = a
  BY SFacts, AppendProperties, SessionAssumption DEF Connect
<1> HIDE DEF n
<1>2. /\ Existing = 1..(n - 1) /\ Existing' = 1..n /\ n \notin Existing
      /\ Existing' = Existing \cup {n}
      /\ \A s \in Existing : account'[s] = account[s]
  BY <1>1, SFacts, LenProperties DEF Existing, n
<1>3. /\ alive' = alive \cup {n} /\ open' = open \cup {n}
      /\ addSessQueue' = Append(addSessQueue, n)
      /\ UNCHANGED <<inQueue, loading, inWorld, sessions, queue, disconnects, limit, now,
                     pc, todo, stopEvent>>
  BY <1>1 DEF Connect
<1>4. Registered' = Registered
  BY <1>3 DEF Registered
<1>5. /\ addSessQueue \in Seq(Existing') /\ queue' \in Seq(Existing')
      /\ n \notin ToSet(addSessQueue) /\ n \in Existing'
  BY <1>1, <1>2, <1>3, SFacts, SeqMonotonic DEF SInv, TypeOK
<1>6. /\ addSessQueue' \in Seq(Existing') /\ IsInjective(addSessQueue')
      /\ ToSet(addSessQueue') = ToSet(addSessQueue) \cup {n}
  BY <1>3, <1>5, AppendInjectiveSeq DEF SInv, SessionsAreOwnedOnce
<1>7. TypeOK'
  BY <1>1, <1>2, <1>3, <1>5, <1>6 DEF SInv, TypeOK, SessionIds
<1>8. SessionsAreOwnedOnce'
  BY <1>2, <1>3, <1>4, <1>6 DEF SInv, SessionsAreOwnedOnce, EntriesAreOfTheirAccount
<1>9. QueueEntriesAreRegistered' /\ EntriesAreOfTheirAccount' /\ UsersAreRegistered'
  BY <1>2, <1>3, <1>4, SFacts
     DEF SInv, TypeOK, QueueEntriesAreRegistered, EntriesAreOfTheirAccount, UsersAreRegistered
<1>10. QueuedFlagMeansListed' /\ ListedAreFlagged'
  BY <1>3, <1>4 DEF SInv, QueuedFlagMeansListed, ListedAreFlagged
<1>11. StopCloses'
  BY <1>2, <1>3 DEF SInv, TypeOK, StopCloses, ShutdownUnloadsPlayers
<1> QED BY <1>7, <1>8, <1>9, <1>10, <1>11 DEF SInv

\* A step that leaves the table, the queues and their sessions alone, and opens
\* no socket, keeps what the invariant says of them.
LEMMA TableUntouched ==
  ASSUME SInv, UNCHANGED <<account, alive, inQueue, addSessQueue, sessions, queue>>,
         loading' \subseteq loading \cup {sessions[a] : a \in Registered},
         inWorld' \subseteq loading \cup inWorld,
         stopEvent => stopEvent'
  PROVE  /\ SessionsAreOwnedOnce' /\ QueueEntriesAreRegistered' /\ EntriesAreOfTheirAccount'
         /\ UsersAreRegistered' /\ QueuedFlagMeansListed' /\ ListedAreFlagged'
<1>1. Registered' = Registered /\ Existing' = Existing
  BY DEF Registered, Existing
<1> QED BY <1>1 DEF SInv, SessionsAreOwnedOnce, QueueEntriesAreRegistered,
     EntriesAreOfTheirAccount, UsersAreRegistered, QueuedFlagMeansListed, ListedAreFlagged

LEMMA LoseConnectionKeepsSInv ==
  ASSUME SInv, NEW s \in SessionIds, LoseConnection(s)
  PROVE  SInv'
<1>1. TypeOK' /\ StopCloses'
  BY DEF SInv, TypeOK, StopCloses, ShutdownUnloadsPlayers, Existing, LoseConnection
<1> QED BY <1>1, TableUntouched DEF SInv, LoseConnection

-----------------------------------------------------------------------------
(* World thread.                                                              *)

\* What the head of addSessQueue is, and what is left behind it.
LEMMA HeadFacts ==
  ASSUME SInv, addSessQueue # <<>>
  PROVE  /\ Head(addSessQueue) \in alive
         /\ account[Head(addSessQueue)] \in Accounts
         /\ Tail(addSessQueue) \in Seq(Existing)
         /\ IsInjective(Tail(addSessQueue))
         /\ ToSet(Tail(addSessQueue)) = ToSet(addSessQueue) \ {Head(addSessQueue)}
         /\ Head(addSessQueue) \in ToSet(addSessQueue)
         /\ Head(addSessQueue) \notin inQueue \cup loading \cup inWorld \cup ToSet(queue)
<1> DEFINE s == Head(addSessQueue)
<1>1. addSessQueue \in Seq(Existing) /\ IsInjective(addSessQueue)
  BY DEF SInv, TypeOK, SessionsAreOwnedOnce
<1>2. /\ Tail(addSessQueue) \in Seq(Existing) /\ IsInjective(Tail(addSessQueue))
      /\ ToSet(Tail(addSessQueue)) = ToSet(addSessQueue) \ {s}
  BY <1>1, TailInjective
<1>3. s = addSessQueue[1] /\ 1 \in DOMAIN addSessQueue
  BY <1>1, LenProperties, HeadTailProperties
<1>4. s \in ToSet(addSessQueue)
  BY <1>3 DEF ToSet
<1> HIDE DEF s
<1>5. s \in alive /\ account[s] \in Accounts /\ s # NoSession
  BY <1>4, SFacts
<1>6. sessions[account[s]] # s
  BY <1>4, <1>5 DEF SInv, SessionsAreOwnedOnce, Registered
<1>7. s \notin inQueue \cup loading \cup inWorld \cup ToSet(queue)
  BY <1>6 DEF SInv, UsersAreRegistered, QueueEntriesAreRegistered
<1> QED BY <1>2, <1>4, <1>5, <1>7 DEF s

LEMMA AddRefusedKeepsSInv ==
  ASSUME SInv, AddRefused
  PROVE  SInv'
<1> DEFINE s == Head(addSessQueue)
<1>1. /\ addSessQueue # <<>> /\ pc = "add"
      /\ addSessQueue' = Tail(addSessQueue) /\ open' = open \ {s}
      /\ alive' = alive \ {s} /\ inWorld' = inWorld \ {s} /\ loading' = loading \ {s}
      /\ inQueue' = inQueue \ {s}
      /\ UNCHANGED <<account, sessions, queue, disconnects, limit, now, pc, todo, stopEvent>>
  BY DEF AddRefused, Delete
<1>2. /\ s \in alive /\ addSessQueue' \in Seq(Existing) /\ IsInjective(addSessQueue')
      /\ ToSet(addSessQueue') = ToSet(addSessQueue) \ {s} /\ s \in ToSet(addSessQueue)
      /\ s \notin inQueue \cup loading \cup inWorld \cup ToSet(queue)
  BY <1>1, HeadFacts
<1> HIDE DEF s
<1>3. Registered' = Registered /\ Existing' = Existing
  BY <1>1 DEF Registered, Existing
<1>4. TypeOK'
  BY <1>1, <1>2, <1>3 DEF SInv, TypeOK
<1>5. SessionsAreOwnedOnce'
  BY <1>1, <1>2, <1>3 DEF SInv, SessionsAreOwnedOnce
<1>6. QueueEntriesAreRegistered' /\ EntriesAreOfTheirAccount' /\ UsersAreRegistered'
  BY <1>1, <1>2, <1>3
     DEF SInv, QueueEntriesAreRegistered, EntriesAreOfTheirAccount, UsersAreRegistered
<1>7. QueuedFlagMeansListed' /\ ListedAreFlagged'
  BY <1>1, <1>2, <1>3 DEF SInv, QueuedFlagMeansListed, ListedAreFlagged
<1>8. StopCloses'
  BY <1>1 DEF SInv, StopCloses, ShutdownUnloadsPlayers
<1> QED BY <1>4, <1>5, <1>6, <1>7, <1>8 DEF SInv

LEMMA AddSessionKeepsSInv ==
  ASSUME SInv, AddSession_
  PROVE  SInv'
<1> DEFINE s == Head(addSessQueue)
           a == account[s]
           old == sessions[a]
           replaced == Replaced(old)
           rest == IF old = NoSession THEN queue ELSE RemoveQueuedPlayer(sessions, queue, old)
<1>1. PICK queued \in BOOLEAN :
      /\ addSessQueue # <<>> /\ pc = "add"
      /\ addSessQueue' = Tail(addSessQueue) /\ open' = open \ replaced
      /\ alive' = alive \ replaced /\ inWorld' = inWorld \ replaced
      /\ loading' = loading \ replaced
      /\ sessions' = [sessions EXCEPT ![a] = s]
      /\ queue' = (IF queued THEN Append(rest, s) ELSE rest)
      /\ inQueue' = Unflag(queue, rest, replaced) \cup (IF queued THEN {s} ELSE {})
      /\ UNCHANGED <<account, disconnects, limit, now, pc, todo, stopEvent>>
  BY DEF AddSession_, Delete, MustQueue
<1>2. /\ s \in alive /\ a \in Accounts
      /\ addSessQueue' \in Seq(Existing) /\ IsInjective(addSessQueue')
      /\ ToSet(addSessQueue') = ToSet(addSessQueue) \ {s} /\ s \in ToSet(addSessQueue)
      /\ s \notin inQueue \cup loading \cup inWorld \cup ToSet(queue)
  BY <1>1, HeadFacts
<1>3. replaced = {old} \ {NoSession}
  BY DEF Replaced
<1>4. /\ rest \in Seq(Existing) /\ IsInjective(rest)
      /\ ToSet(rest) \subseteq ToSet(queue) \ replaced
  <2>1. queue \in Seq(Existing) /\ IsInjective(queue)
    BY DEF SInv, TypeOK, QueueEntriesAreRegistered
  <2>2. CASE old = NoSession
    BY <1>3, <2>1, <2>2
  <2>3. CASE old # NoSession
    BY <1>3, <2>1, <2>3, RemoveQueuedPlayerProperties
  <2> QED BY <2>2, <2>3
<1> HIDE DEF rest
<1>5. inQueue' = (inQueue \ (replaced \cup (ToSet(queue) \ ToSet(rest)))) \cup (IF queued THEN {s} ELSE {})
  BY <1>1 DEF Unflag
<1>6. /\ s \in Existing /\ s # NoSession /\ a = account[s]
      /\ old = sessions[a] /\ (old # NoSession => old \in alive /\ account[old] = a)
      /\ s # old
  <2>1. s \in Existing /\ s # NoSession /\ a = account[s]
    BY <1>2, SFacts
  <2>2. old # NoSession => a \in Registered
    BY <1>2 DEF Registered
  <2> QED BY <1>2, <2>1, <2>2, SFacts DEF SInv, EntriesAreOfTheirAccount, SessionsAreOwnedOnce
<1> HIDE DEF s, a, old, replaced
<1>7. /\ queue' \in Seq(Existing) /\ IsInjective(queue')
      /\ ToSet(queue') = ToSet(rest) \cup (IF queued THEN {s} ELSE {})
  <2>1. CASE queued
    <3>1. s \notin ToSet(rest)
      BY <1>2, <1>4
    <3> QED BY <1>1, <1>4, <1>6, <2>1, <3>1, AppendInjectiveSeq
  <2>2. CASE ~queued
    BY <1>1, <1>4, <2>2
  <2> QED BY <2>1, <2>2
<1>8. /\ \A b \in Accounts : sessions'[b] = IF b = a THEN s ELSE sessions[b]
      /\ sessions' \in [Accounts -> SessionIds \cup {NoSession}]
      /\ Registered' = Registered \cup {a} /\ Existing' = Existing
  <2>1. Existing' = Existing /\ Existing \subseteq SessionIds
    BY <1>1, SFacts, SessionAssumption DEF Existing, SessionIds
  <2>2. sessions \in [Accounts -> SessionIds \cup {NoSession}]
    BY DEF SInv, TypeOK
  <2>3. /\ \A b \in Accounts : sessions'[b] = IF b = a THEN s ELSE sessions[b]
        /\ sessions' \in [Accounts -> SessionIds \cup {NoSession}]
    BY <1>1, <1>2, <1>6, <2>1, <2>2
  <2> QED BY <1>2, <1>6, <2>1, <2>3 DEF Registered
<1>9. TypeOK'
  BY <1>1, <1>2, <1>3, <1>5, <1>6, <1>7, <1>8 DEF SInv, TypeOK
<1>10. {sessions'[b] : b \in Registered'} = ({sessions[b] : b \in Registered} \ replaced) \cup {s}
  <2>1. \A b \in Registered : b # a => sessions[b] # old
    BY <1>2, <1>6 DEF SInv, EntriesAreOfTheirAccount, Registered
  <2>2. a \in Registered <=> old # NoSession
    BY <1>2, <1>6 DEF Registered
  <2>3. Registered \subseteq Accounts
    BY DEF Registered
  <2>4. {sessions[b] : b \in Registered} \ replaced = {sessions[b] : b \in Registered \ {a}}
    <3>1. replaced = {old} \ {NoSession}
      BY <1>3
    <3>2. \A b \in Registered : sessions[b] \in replaced <=> b = a
      BY <1>6, <2>1, <2>2, <3>1 DEF Registered
    <3> QED BY <3>2
  <2>5. {sessions'[b] : b \in Registered \ {a}} = {sessions[b] : b \in Registered \ {a}}
    BY <1>8, <2>3
  <2> QED BY <1>2, <1>8, <2>3, <2>4, <2>5
<1>11. SessionsAreOwnedOnce'
  <2>1. replaced \cap ToSet(addSessQueue) = {}
    BY <1>2, <1>3, <1>6 DEF SInv, SessionsAreOwnedOnce, Registered
  <2> DEFINE Owned == {sessions[b] : b \in Registered}
             waiting == ToSet(addSessQueue)
  <2>2. waiting \cap Owned = {} /\ alive = waiting \cup Owned
    BY DEF SInv, SessionsAreOwnedOnce
  <2>3. /\ s \in waiting /\ ToSet(addSessQueue)' = waiting \ {s} /\ alive' = alive \ replaced
        /\ Owned' = (Owned \ replaced) \cup {s} /\ IsInjective(addSessQueue)'
    BY <1>1, <1>2, <1>10
  <2>4. s \notin replaced
    BY <1>3, <1>6
  <2>5. replaced \cap waiting = {}
    BY <2>1
  <2> HIDE DEF Owned, waiting
  <2>6. /\ ToSet(addSessQueue)' \cap Owned' = {}
        /\ alive' = ToSet(addSessQueue)' \cup Owned'
    BY <2>2, <2>3, <2>4, <2>5
  <2> QED BY <2>3, <2>6 DEF SessionsAreOwnedOnce, Owned
<1>12. QueueEntriesAreRegistered'
  <2>1. ASSUME NEW t \in ToSet(rest) PROVE t \in alive' /\ sessions'[account'[t]] = t
    <3>1. t \in alive /\ t \notin replaced /\ sessions[account[t]] = t /\ account[t] \in Accounts
      BY <1>4, <2>1, SFacts DEF SInv, QueueEntriesAreRegistered
    <3>2. account[t] # a
      BY <1>3, <1>6, <3>1, SFacts
    <3> QED BY <1>1, <1>8, <3>1, <3>2
  <2>2. s \in alive' /\ sessions'[account'[s]] = s
    BY <1>1, <1>2, <1>3, <1>6, <1>8
  <2> QED BY <1>7, <2>1, <2>2 DEF QueueEntriesAreRegistered
<1>13. EntriesAreOfTheirAccount'
  BY <1>1, <1>6, <1>8 DEF SInv, EntriesAreOfTheirAccount, Registered
<1>14. UsersAreRegistered'
  <2>1. ASSUME NEW t \in (inQueue \cup loading \cup inWorld) \ replaced
        PROVE  sessions'[account'[t]] = t
    <3>1. sessions[account[t]] = t /\ account[t] \in Accounts /\ t \in alive
      BY <2>1, SFacts DEF SInv, UsersAreRegistered, TypeOK
    <3>2. account[t] # a
      BY <1>3, <1>6, <2>1, <3>1, SFacts
    <3> QED BY <1>1, <1>8, <3>1, <3>2
  <2>2. sessions'[account'[s]] = s
    BY <1>1, <1>2, <1>6, <1>8
  <2> QED BY <1>1, <1>5, <2>1, <2>2 DEF UsersAreRegistered
<1>15. QueuedFlagMeansListed' /\ ListedAreFlagged'
  <2>1. ASSUME NEW b \in Registered', sessions'[b] \in inQueue', ~stopEvent'
        PROVE  sessions'[b] \in ToSet(queue')
    <3>1. CASE sessions'[b] = s
      BY <1>2, <1>5, <1>7, <2>1, <3>1
    <3>2. CASE sessions'[b] # s
      <4>1. b \in Registered /\ sessions'[b] = sessions[b]
        BY <1>2, <1>8, <2>1, <3>2 DEF Registered
      <4> QED BY <1>1, <1>5, <1>7, <2>1, <3>2, <4>1 DEF SInv, QueuedFlagMeansListed
    <3> QED BY <3>1, <3>2
  <2>2. ListedAreFlagged'
    BY <1>4, <1>5, <1>7 DEF SInv, ListedAreFlagged
  <2> QED BY <2>1, <2>2 DEF QueuedFlagMeansListed
<1>16. StopCloses'
  BY <1>1 DEF SInv, StopCloses, ShutdownUnloadsPlayers
<1> QED BY <1>9, <1>11, <1>12, <1>13, <1>14, <1>15, <1>16 DEF SInv

LEMMA UpdateOpenKeepsSInv ==
  ASSUME SInv, NEW a \in Accounts, UpdateOpen(a)
  PROVE  SInv'
<1> DEFINE s == sessions[a]
<1>1. /\ pc = "update" /\ a \in todo /\ s \in open /\ todo' = todo \ {a}
      /\ loading' \in {loading, loading \cup {s}}
      /\ inWorld' \in {inWorld, inWorld \ {s}}
      /\ UNCHANGED <<account, alive, open, inQueue, addSessQueue, sessions,
                     queue, disconnects, limit, now, pc, stopEvent>>
  BY DEF UpdateOpen
<1>2. s # NoSession /\ a \in Registered /\ s \in alive /\ account[s] = a
  <2>1. s # NoSession
    BY <1>1, SFacts DEF SInv, TypeOK
  <2> QED BY <2>1, SFacts DEF Registered, SInv, EntriesAreOfTheirAccount
<1>3. TypeOK'
  BY <1>1, <1>2 DEF SInv, TypeOK, Existing
<1>4. StopCloses'
  <2>1. ASSUME stopEvent, NEW t \in inWorld PROVE account[t] # a
    BY <1>1, <1>2, <2>1 DEF SInv, StopCloses, UsersAreRegistered
  <2> QED BY <1>1, <2>1 DEF SInv, StopCloses, ShutdownUnloadsPlayers
<1> QED BY <1>1, <1>2, <1>3, <1>4, TableUntouched DEF SInv

LEMMA UpdateClosedKeepsSInv ==
  ASSUME SInv, NEW a \in Accounts, UpdateClosed(a)
  PROVE  SInv'
<1> DEFINE s == sessions[a]
           once == RemoveQueuedPlayer(sessions, queue, s)
           twice == RemoveQueuedPlayer(sessions, once, s)
<1>1. /\ pc = "update" /\ todo' = todo \ {a} /\ open' = open \ {s} /\ queue' = twice
      /\ inQueue' = inQueue \ ({s} \cup (ToSet(queue) \ ToSet(twice)))
      /\ sessions' = [sessions EXCEPT ![a] = NoSession]
      /\ alive' = alive \ {s} /\ inWorld' = inWorld \ {s} /\ loading' = loading \ {s}
      /\ disconnects' \in {disconnects, [disconnects EXCEPT ![a] = now]}
      /\ UNCHANGED <<account, addSessQueue, limit, now, pc, stopEvent>>
  BY DEF UpdateClosed, Delete, Unflag
<1>2. /\ twice \in Seq(Existing) /\ IsInjective(twice)
      /\ ToSet(twice) \subseteq ToSet(queue) \ {s}
  <2>1. queue \in Seq(Existing) /\ IsInjective(queue)
    BY DEF SInv, TypeOK, QueueEntriesAreRegistered
  <2>2. /\ once \in Seq(Existing) /\ IsInjective(once)
        /\ ToSet(once) \subseteq ToSet(queue) \ {s}
    BY <2>1, RemoveQueuedPlayerProperties
  <2> HIDE DEF once
  <2>3. /\ twice \in Seq(Existing) /\ IsInjective(twice)
        /\ ToSet(twice) \subseteq ToSet(once) \ {s}
    BY <2>2, RemoveQueuedPlayerProperties
  <2> QED BY <2>2, <2>3
<1> HIDE DEF once, twice
<1>3. /\ \A b \in Accounts : sessions'[b] = IF b = a THEN NoSession ELSE sessions[b]
      /\ sessions' \in [Accounts -> SessionIds \cup {NoSession}]
      /\ Registered' = Registered \ {a} /\ Existing' = Existing
  BY <1>1 DEF SInv, TypeOK, Registered, Existing
<1>4. /\ a \in Registered => account[s] = a
      /\ a \notin Registered => s \notin Existing
      /\ \A b \in Registered \ {a} : sessions[b] # s
  BY SFacts DEF SInv, EntriesAreOfTheirAccount, Registered
<1>5. TypeOK'
  <2>1. disconnects' \in [Accounts -> (0..MaxTime) \cup {Never}]
    BY <1>1 DEF SInv, TypeOK
  <2> QED BY <1>1, <1>2, <1>3, <2>1 DEF SInv, TypeOK
<1>6. SessionsAreOwnedOnce'
  <2>1. {sessions'[b] : b \in Registered'} = {sessions[b] : b \in Registered \ {a}}
    BY <1>3 DEF Registered
  <2>2. {sessions[b] : b \in Registered \ {a}} = {sessions[b] : b \in Registered} \ {s}
    BY <1>4
  <2>3. s \notin ToSet(addSessQueue)
    BY <1>4, SFacts DEF SInv, SessionsAreOwnedOnce
  <2> QED BY <1>1, <2>1, <2>2, <2>3 DEF SInv, SessionsAreOwnedOnce
<1>7. ASSUME NEW t \in (inQueue \cup loading \cup inWorld \cup ToSet(queue)) \ {s}
      PROVE  t \in alive' /\ sessions'[account'[t]] = t
  <2>1. sessions[account[t]] = t /\ account[t] \in Accounts /\ t \in alive
    BY <1>7, SFacts DEF SInv, UsersAreRegistered, QueueEntriesAreRegistered, TypeOK
  <2> QED BY <1>1, <1>3, <1>7, <2>1
<1>8. QueueEntriesAreRegistered' /\ UsersAreRegistered'
  BY <1>1, <1>2, <1>7 DEF QueueEntriesAreRegistered, UsersAreRegistered
<1>9. EntriesAreOfTheirAccount'
  BY <1>1, <1>3 DEF SInv, EntriesAreOfTheirAccount, Registered
<1>10. QueuedFlagMeansListed' /\ ListedAreFlagged'
  <2>1. QueuedFlagMeansListed'
    BY <1>1, <1>3 DEF SInv, QueuedFlagMeansListed, Registered
  <2>2. ListedAreFlagged'
    BY <1>1, <1>2 DEF SInv, ListedAreFlagged
  <2> QED BY <2>1, <2>2
<1>11. StopCloses'
  <2>1. ASSUME stopEvent, NEW t \in inWorld \ {s} PROVE account[t] # a
    BY <2>1 DEF SInv, UsersAreRegistered
  <2> QED BY <1>1, <2>1 DEF SInv, StopCloses, ShutdownUnloadsPlayers
<1> QED BY <1>5, <1>6, <1>8, <1>9, <1>10, <1>11 DEF SInv

\* The steps that only move the world thread on.
LEMMA ThreadStepKeepsSInv ==
  ASSUME SInv, EndAdd \/ EndUpdate \/ BeginUpdateSessions
  PROVE  SInv'
<1>1. /\ UNCHANGED <<account, alive, inQueue, addSessQueue, sessions, queue>>
      /\ UNCHANGED <<open, loading, inWorld, disconnects, limit, now, stopEvent>>
      /\ pc' \in {"tick", "add", "update", "stopped"} /\ todo' \subseteq Accounts
  BY DEF EndAdd, EndUpdate, BeginUpdateSessions, SInv, TypeOK, Registered
<1>2. TypeOK'
  BY <1>1 DEF SInv, TypeOK, Existing
<1>3. StopCloses'
  <2>1. ASSUME NEW t \in inWorld PROVE account[t] \in Registered
    BY <2>1, SFacts DEF SInv, UsersAreRegistered, Registered, TypeOK
  <2>2. CASE EndAdd
    BY <2>1, <2>2 DEF EndAdd, SInv, StopCloses, ShutdownUnloadsPlayers
  <2>3. CASE EndUpdate
    BY <2>3 DEF EndUpdate, SInv, StopCloses, ShutdownUnloadsPlayers
  <2>4. CASE BeginUpdateSessions
    BY <2>4 DEF BeginUpdateSessions, SInv, StopCloses, ShutdownUnloadsPlayers
  <2> QED BY <2>2, <2>3, <2>4
<1> QED BY <1>1, <1>2, <1>3, TableUntouched DEF SInv

LEMMA LoginDoneKeepsSInv ==
  ASSUME SInv, NEW s \in SessionIds, LoginDone(s)
  PROVE  SInv'
<1>1. TypeOK' /\ StopCloses'
  BY DEF SInv, TypeOK, StopCloses, ShutdownUnloadsPlayers, Existing, LoginDone
<1> QED BY <1>1, TableUntouched DEF SInv, LoginDone

LEMMA OperatorKeepsSInv ==
  ASSUME SInv, (\E n \in Limits : SetPlayerAmountLimit(n)) \/ PassTime
  PROVE  SInv'
<1>1. /\ UNCHANGED <<account, alive, inQueue, addSessQueue, sessions, queue>>
      /\ UNCHANGED <<open, loading, inWorld, disconnects, stopEvent, pc, todo>>
      /\ limit' \in Limits /\ now' \in 0..MaxTime
  BY SessionAssumption DEF SetPlayerAmountLimit, PassTime, SInv, TypeOK
<1>2. TypeOK' /\ StopCloses'
  BY <1>1 DEF SInv, TypeOK, Existing, StopCloses, ShutdownUnloadsPlayers
<1> QED BY <1>1, <1>2, TableUntouched DEF SInv

LEMMA KickAllKeepsSInv ==
  ASSUME SInv, KickAll
  PROVE  SInv'
<1>1. /\ pc = "tick" /\ stopEvent' = TRUE /\ queue' = <<>> /\ open' = open \ KickTargets
      /\ pc' = "add"
      /\ UNCHANGED <<account, alive, inQueue, loading, inWorld, addSessQueue,
                     sessions, disconnects, limit, now, todo>>
  BY DEF KickAll
<1>2. Registered' = Registered /\ Existing' = Existing
  BY <1>1 DEF Registered, Existing
<1>3. queue' \in Seq(Existing) /\ ToSet(queue') = {} /\ IsInjective(queue')
  BY <1>1, EmptySeq DEF ToSet, IsInjective
<1>4. TypeOK'
  BY <1>1, <1>2, <1>3 DEF SInv, TypeOK
<1>5. /\ SessionsAreOwnedOnce' /\ QueueEntriesAreRegistered' /\ EntriesAreOfTheirAccount'
      /\ UsersAreRegistered' /\ QueuedFlagMeansListed' /\ ListedAreFlagged'
  BY <1>1, <1>2, <1>3 DEF SInv, SessionsAreOwnedOnce, QueueEntriesAreRegistered,
     EntriesAreOfTheirAccount, UsersAreRegistered, QueuedFlagMeansListed, ListedAreFlagged
<1>6. inWorld \subseteq KickTargets
  BY SFacts DEF SInv, TypeOK, UsersAreRegistered, KickTargets
<1>7. StopCloses'
  BY <1>1, <1>6 DEF StopCloses, ShutdownUnloadsPlayers
<1> QED BY <1>4, <1>5, <1>7 DEF SInv

LEMMA SInvStep == SInv /\ [Next]_vars => SInv'
<1> SUFFICES ASSUME SInv, [Next]_vars PROVE SInv'
  OBVIOUS
<1>1. CASE WorldThread
  <2>1. ASSUME NEW a \in Accounts, UpdateOpen(a) \/ UpdateClosed(a) PROVE SInv'
    BY <2>1, UpdateOpenKeepsSInv, UpdateClosedKeepsSInv
  <2> QED BY <1>1, <2>1, AddRefusedKeepsSInv, AddSessionKeepsSInv, ThreadStepKeepsSInv
          DEF WorldThread
<1>2. ASSUME NEW a \in Accounts, Connect(a) PROVE SInv'
  BY <1>2, ConnectKeepsSInv
<1>3. ASSUME NEW s \in SessionIds, LoseConnection(s) \/ LoginDone(s) PROVE SInv'
  BY <1>3, LoseConnectionKeepsSInv, LoginDoneKeepsSInv
<1>4. CASE KickAll \/ PassTime \/ \E n \in Limits : SetPlayerAmountLimit(n)
  BY <1>4, KickAllKeepsSInv, OperatorKeepsSInv
<1>5. CASE UNCHANGED vars
  <2>1. TypeOK' /\ StopCloses'
    BY <1>5 DEF vars, SInv, TypeOK, Existing, StopCloses, ShutdownUnloadsPlayers
  <2> QED BY <1>5, <2>1, TableUntouched DEF vars, SInv
<1> QED BY <1>1, <1>2, <1>3, <1>4, <1>5 DEF Next, Stopped

-----------------------------------------------------------------------------
(* What a step does to the queue, until the server stops: a session that does *)
(* not outlive the step leaves its place, sessions are admitted from the      *)
(* front, and at most one newcomer is put at the end.                         *)

Moves(x, rest) ==
  /\ KeepsOrder(queue, rest, x) /\ x \notin alive'
  /\ rest \in Seq(Existing)
  /\ queue' = rest \/ \E s \in Existing \ ToSet(queue) : queue' = Append(rest, s)

LEMMA QueueUntouched ==
  ASSUME SInv, SInv', queue' = queue
  PROVE  \E x, rest : Moves(x, rest)
<1>1. /\ queue \in Seq(Existing) /\ NoSession \notin alive'
      /\ \A i \in 1..Len(queue) : queue[i] \in ToSet(queue)
  <2>1. queue \in Seq(Existing)
    BY DEF SInv, TypeOK
  <2>2. NoSession \notin alive'
    <3>1. (alive \subseteq Nat)'
      BY SessionAssumption, LenProperties DEF SInv, TypeOK, Existing
    <3> QED BY <3>1, SessionAssumption
  <2> QED BY <2>1, <2>2, SequenceSets
<1>2. KeepsOrder(queue, queue, NoSession)
  BY <1>1 DEF KeepsOrder
<1> QED BY <1>1, <1>2 DEF Moves

LEMMA AddSessionMoves ==
  ASSUME SInv, SInv', AddSession_
  PROVE  \E x, rest : Moves(x, rest)
<1> DEFINE s == Head(addSessQueue)
           old == sessions[account[s]]
           rest == IF old = NoSession THEN queue ELSE RemoveQueuedPlayer(sessions, queue, old)
<1>1. /\ addSessQueue # <<>> /\ alive' = alive \ ({old} \ {NoSession})
      /\ queue' = rest \/ queue' = Append(rest, s)
  BY DEF AddSession_, Delete, Replaced
<1>2. s \in Existing \ ToSet(queue)
  BY <1>1, HeadFacts, SFacts
<1>3. queue \in Seq(Existing) /\ IsInjective(queue)
  BY DEF SInv, TypeOK, QueueEntriesAreRegistered
<1>4. CASE old = NoSession
  <2>1. PICK x, r : KeepsOrder(queue, r, x) /\ x \notin alive' /\ r = queue
    <3>1. \A i \in 1..Len(queue) : queue[i] \in ToSet(queue)
      BY <1>3, SequenceSets
    <3>2. NoSession \notin alive'
      BY <1>1, SFacts
    <3> QED BY <3>1, <3>2 DEF KeepsOrder
  <2> QED BY <1>1, <1>2, <1>3, <1>4, <2>1 DEF Moves
<1>5. CASE old # NoSession
  <2>1. rest \in Seq(Existing) /\ KeepsOrder(queue, rest, old)
    BY <1>3, <1>5, RemoveQueuedPlayerProperties, RemoveQueuedPlayerKeepsOrder
  <2> QED BY <1>1, <1>2, <1>5, <2>1 DEF Moves
<1> QED BY <1>4, <1>5

LEMMA UpdateClosedMoves ==
  ASSUME SInv, NEW a \in Accounts, UpdateClosed(a)
  PROVE  \E x, rest : Moves(x, rest)
<1> DEFINE s == sessions[a]
           once == RemoveQueuedPlayer(sessions, queue, s)
           twice == RemoveQueuedPlayer(sessions, once, s)
<1>1. queue' = twice /\ s \notin alive'
  BY DEF UpdateClosed, Delete
<1>2. queue \in Seq(Existing) /\ IsInjective(queue)
  BY DEF SInv, TypeOK, QueueEntriesAreRegistered
<1>3. once \in Seq(Existing) /\ IsInjective(once) /\ KeepsOrder(queue, once, s)
  BY <1>2, RemoveQueuedPlayerProperties, RemoveQueuedPlayerKeepsOrder
<1> HIDE DEF once
<1>4. /\ twice \in Seq(Existing) /\ KeepsOrder(once, twice, s)
      /\ ToSet(twice) \subseteq ToSet(once)
  BY <1>3, RemoveQueuedPlayerProperties, RemoveQueuedPlayerKeepsOrder
<1> HIDE DEF twice
<1>5. KeepsOrder(queue, twice, s)
  BY <1>3, <1>4, KeepsOrderTransitive
<1> QED BY <1>1, <1>4, <1>5 DEF Moves

LEMMA QueueMoves ==
  ASSUME SInv, SInv', [Next]_vars, ~stopEvent'
  PROVE  \E x, rest : Moves(x, rest)
<1>1. CASE AddSession_
  BY <1>1, AddSessionMoves
<1>2. ASSUME NEW a \in Accounts, UpdateClosed(a) PROVE \E x, rest : Moves(x, rest)
  BY <1>2, UpdateClosedMoves
<1>3. CASE KickAll
  BY <1>3 DEF KickAll
<1>4. ASSUME ~AddSession_, \A a \in Accounts : ~UpdateClosed(a), ~KickAll
      PROVE  queue' = queue
  BY <1>4 DEF Next, WorldThread, vars, AddRefused, EndAdd, UpdateOpen, EndUpdate,
     BeginUpdateSessions, Connect, LoseConnection, LoginDone, SetPlayerAmountLimit,
     Stopped, PassTime
<1> QED BY <1>1, <1>2, <1>3, <1>4, QueueUntouched

LEMMA QueueOrderStep ==
  ASSUME SInv, SInv', [Next]_vars, NEW i \in DOMAIN queue, NEW j \in DOMAIN queue,
         i < j, ~stopEvent'
  PROVE  /\ Admits(queue[j]) => queue[i] \notin ToSet(queue')
         /\ {queue[i], queue[j]} \subseteq ToSet(queue') =>
              \E m, n \in DOMAIN queue' :
                 m < n /\ queue'[m] = queue[i] /\ queue'[n] = queue[j]
<1>1. PICK x, rest : Moves(x, rest)
  BY QueueMoves
<1>2. /\ i \in 1..Len(queue) /\ j \in 1..Len(queue)
      /\ queue[i] \in ToSet(queue) /\ queue[j] \in ToSet(queue)
  BY LenProperties DEF SInv, TypeOK, ToSet
<1>3. /\ queue[j] \notin ToSet(rest) /\ queue[j] # x => queue[i] \notin ToSet(rest)
      /\ {queue[i], queue[j]} \subseteq ToSet(rest) =>
           \E m, n \in 1..Len(rest) : m < n /\ rest[m] = queue[i] /\ rest[n] = queue[j]
  BY <1>1, <1>2 DEF Moves, KeepsOrder
<1>4. /\ ToSet(rest) \subseteq ToSet(queue')
      /\ \A y \in ToSet(queue) : y \in ToSet(queue') => y \in ToSet(rest)
      /\ \A m \in 1..Len(rest) : m \in DOMAIN queue' /\ queue'[m] = rest[m]
  <2>1. rest \in Seq(Existing)
    BY <1>1 DEF Moves
  <2>2. CASE queue' = rest
    BY <2>1, <2>2, LenProperties
  <2>3. ASSUME NEW s \in Existing \ ToSet(queue), queue' = Append(rest, s)
        PROVE  <1>4!1 /\ <1>4!2 /\ <1>4!3
    <3>1. /\ queue' \in Seq(Existing) /\ Len(queue') = Len(rest) + 1
          /\ \A m \in 1..Len(rest) : queue'[m] = rest[m]
          /\ queue'[Len(rest) + 1] = s /\ Len(rest) \in Nat
      BY <2>1, <2>3, AppendProperties, LenProperties
    <3>2. /\ ToSet(rest) = {rest[m] : m \in 1..Len(rest)}
          /\ ToSet(queue') = {queue'[m] : m \in 1..(Len(rest) + 1)}
      BY <2>1, <3>1, SequenceSets
    <3>3. DOMAIN queue' = 1..(Len(rest) + 1)
      BY <3>1, LenProperties
    <3>4. ToSet(queue') = ToSet(rest) \cup {s}
      BY <3>1, <3>2
    <3> QED BY <2>3, <3>1, <3>3, <3>4
  <2> QED BY <1>1, <2>2, <2>3 DEF Moves
<1>5. Admits(queue[j]) => queue[j] \notin ToSet(queue') /\ queue[j] # x
  BY <1>1 DEF Admits, Moves, SInv, ListedAreFlagged
<1>6. Admits(queue[j]) => queue[i] \notin ToSet(queue')
  BY <1>2, <1>3, <1>4, <1>5
<1>7. ASSUME {queue[i], queue[j]} \subseteq ToSet(queue')
      PROVE  \E m, n \in DOMAIN queue' :
                m < n /\ queue'[m] = queue[i] /\ queue'[n] = queue[j]
  <2>1. PICK m \in 1..Len(rest), n \in 1..Len(rest) :
          m < n /\ rest[m] = queue[i] /\ rest[n] = queue[j]
    BY <1>2, <1>3, <1>4, <1>7
  <2> QED BY <1>4, <2>1
<1> QED BY <1>6, <1>7

-----------------------------------------------------------------------------
(* Slots.  The limit counts the entries of m_sessions that are not in line,   *)
(* so what RemoveQueuedPlayer admits is a matter of two lengths: the table's  *)
(* and the queue's.                                                           *)

\* The accounts of the sessions in a line.
InLine(q) == {account[s] : s \in ToSet(q)}

\* The length of the line RemoveQueuedPlayer leaves, for a limit m, a table of N
\* entries, a line of L, and a session that was listed (1) or not (0).
Left(m, N, L, listed) ==
  LET active == IF N - L > 0 THEN (N - L) - (1 - listed) ELSE N - L
      rest == L - listed
  IN  IF (m = 0 \/ active < m) /\ rest > 0 THEN rest - 1 ELSE rest

LEMMA LeftLength ==
  ASSUME NEW S, NEW tbl, NEW q \in Seq(S), NEW x, NEW N, IsInjective(q),
         N = Cardinality({a \in Accounts : tbl[a] # NoSession})
  PROVE  Len(RemoveQueuedPlayer(tbl, q, x))
           = Left(limit, N, Len(q), IF x \in ToSet(q) THEN 1 ELSE 0)
<1> DEFINE rest == Unlinked(q, x)
           listed == IF x \in ToSet(q) THEN 1 ELSE 0
<1>1. rest \in Seq(S) /\ Len(rest) = Len(q) - listed
  <2>1. CASE x \in ToSet(q)
    BY <2>1, UnlinkedForm
  <2>2. CASE x \notin ToSet(q)
    BY <2>2, LenProperties DEF Unlinked
  <2> QED BY <2>1, <2>2
<1>2. ActiveWithout(tbl, q, x)
        = IF N - Len(q) > 0 THEN (N - Len(q)) - (1 - listed) ELSE N - Len(q)
  <2>1. FreedSlots(q, x) = 1 - listed
    BY DEF FreedSlots
  <2> QED BY <2>1 DEF ActiveWithout, GetActiveSessionCount
<1>3. RemoveQueuedPlayer(tbl, q, x)
        = IF HasFreeSlot(ActiveWithout(tbl, q, x)) /\ rest # <<>> THEN Tail(rest) ELSE rest
  BY DEF RemoveQueuedPlayer, AfterAdmission
<1> HIDE DEF rest, listed
<1>4. /\ (rest # <<>>) <=> (Len(rest) > 0)
      /\ rest # <<>> => Len(Tail(rest)) = Len(rest) - 1
  BY <1>1, EmptySeq, HeadTailProperties, LenProperties
<1> QED BY <1>1, <1>2, <1>3, <1>4 DEF Left, HasFreeSlot, listed

\* What the lengths obey.  A departure leaves one entry less; while someone
\* waits there is no slot free.
LEMMA LeftHandsOn ==
  ASSUME NEW m \in Nat, NEW N \in Nat, NEW L \in Nat, NEW listed \in {0, 1},
         listed <= L, L <= N, listed = 0 => L < N,
         L > 0 => m > 0 /\ N - L >= m,
         NEW K, K = Left(m, N, L, listed),
         NEW J, J = Left(m, N, K, 0)
  PROVE  /\ K \in Nat /\ (K > 0 => m > 0 /\ N - 1 - K >= m)
         /\ J \in Nat /\ (J > 0 => m > 0 /\ N - 1 - J >= m)
<1>1. /\ K \in Nat /\ K <= L - listed /\ (K > 0 => m > 0 /\ N - 1 - K >= m)
      /\ K < N
  <2>1. CASE listed = 1
    BY <2>1 DEF Left
  <2>2. CASE listed = 0
    BY <2>2 DEF Left
  <2> QED BY <2>1, <2>2
<1>2. CASE K > 0
  BY <1>1, <1>2 DEF Left
<1>3. CASE K = 0
  BY <1>1, <1>3 DEF Left
<1> QED BY <1>1, <1>2, <1>3

\* An admission leaves no more active entries, the one departing aside, than the
\* limit allows, at the first call and at the second.
LEMMA LeftAdmitsWithin ==
  ASSUME NEW m \in Nat, NEW N \in Nat, NEW L \in Nat, NEW listed \in {0, 1},
         listed <= L, L <= N, listed = 0 => L < N, m > 0,
         NEW K, K = Left(m, N, L, listed),
         NEW J, J = Left(m, N, K, 0)
  PROVE  /\ K < L - listed => N - 1 - K <= m
         /\ J < L - listed => N - 1 - J <= m
<1>1. /\ K \in Nat /\ K <= L - listed /\ (K < L - listed => N - 1 - K <= m)
      /\ K < N
      /\ K = L - listed => K = 0 \/ N - 1 - K >= m
  <2>1. CASE listed = 1
    BY <2>1 DEF Left
  <2>2. CASE listed = 0
    BY <2>2 DEF Left
  <2> QED BY <2>1, <2>2
<1>2. J = K \/ (J = K - 1 /\ N - 1 - K < m)
  BY <1>1 DEF Left
<1> QED BY <1>1, <1>2

LEMMA RegisteredFinite ==
  ASSUME SInv
  PROVE  IsFiniteSet(Registered) /\ Cardinality(Registered) \in Nat
<1> DEFINE f == [a \in Registered |-> sessions[a]]
<1>1. f \in Injection(Registered, 1..Len(account))
  <2>1. \A a \in Registered : sessions[a] \in 1..Len(account) /\ account[sessions[a]] = a
    BY SFacts DEF SInv, EntriesAreOfTheirAccount
  <2> QED BY <2>1 DEF Injection, IsInjective
<1>2. IsFiniteSet(1..Len(account))
  BY SFacts, FS_Interval
<1> HIDE DEF f
<1>3. IsFiniteSet(Registered)
  BY <1>1, <1>2, FS_Injection
<1> QED BY <1>3, FS_CardinalityType

\* Each session in line stands for one account of the table.
LEMMA LineCounts ==
  ASSUME SInv, NEW q \in Seq(Existing), IsInjective(q), ToSet(q) \subseteq ToSet(queue)
  PROVE  /\ InLine(q) \subseteq Registered /\ IsFiniteSet(InLine(q))
         /\ Cardinality(InLine(q)) = Len(q) /\ Len(q) \in Nat
<1> DEFINE f == [i \in 1..Len(q) |-> account[q[i]]]
<1>1. \A s \in ToSet(q) : sessions[account[s]] = s /\ account[s] \in Registered
  <2>1. ASSUME NEW s \in ToSet(q) PROVE sessions[account[s]] = s /\ account[s] \in Registered
    <3>1. s \in ToSet(queue) /\ s \in Existing
      BY <2>1, SFacts
    <3>2. sessions[account[s]] = s /\ account[s] \in Accounts /\ s # NoSession
      BY <3>1, SFacts DEF SInv, QueueEntriesAreRegistered
    <3> QED BY <3>2 DEF Registered
  <2> QED BY <2>1
<1>2. /\ ToSet(q) = {q[i] : i \in 1..Len(q)}
      /\ \A i, j \in 1..Len(q) : q[i] = q[j] => i = j
      /\ Len(q) \in Nat
  BY SequenceSets, LenProperties
<1>3. f \in Bijection(1..Len(q), InLine(q))
  <2>1. f \in [1..Len(q) -> InLine(q)]
    BY <1>2 DEF InLine
  <2>2. \A i, j \in 1..Len(q) : f[i] = f[j] => i = j
    BY <1>1, <1>2
  <2>3. \A a \in InLine(q) : \E i \in 1..Len(q) : f[i] = a
    BY <1>2 DEF InLine
  <2> HIDE DEF f
  <2>4. f \in Injection(1..Len(q), InLine(q))
    BY <2>1, <2>2 DEF Injection, IsInjective
  <2>5. f \in Surjection(1..Len(q), InLine(q))
    BY <2>1, <2>3 DEF Surjection
  <2> QED BY <2>4, <2>5 DEF Bijection
<1>4. ExistsBijection(1..Len(q), InLine(q))
  BY <1>3 DEF ExistsBijection
<1>5. IsFiniteSet(1..Len(q)) /\ Cardinality(1..Len(q)) = Len(q)
  <2>1. \A n \in Nat : IsFiniteSet(1..n) /\ Cardinality(1..n) = n
    BY FS_Interval
  <2> QED BY <1>2, <2>1
<1>6. IsFiniteSet(InLine(q)) /\ Cardinality(InLine(q)) = Len(q)
  BY <1>4, <1>5, FS_Bijection
<1>7. InLine(q) \subseteq Registered
  <2>1. \A i \in 1..Len(q) : q[i] \in ToSet(q)
    BY <1>2
  <2> QED BY <1>1, <2>1 DEF InLine
<1> QED BY <1>2, <1>6, <1>7


\* What a departure of the session s of the account a starts from, and what the
\* calls of RemoveQueuedPlayer leave.
Listed(s) == IF s \in ToSet(queue) THEN 1 ELSE 0

LEMMA DepartureLengths ==
  ASSUME SInv, NEW a \in Registered,
         NEW once, once = RemoveQueuedPlayer(sessions, queue, sessions[a]),
         NEW twice, twice = RemoveQueuedPlayer(sessions, once, sessions[a])
  PROVE  LET N == Cardinality(Registered)
             L == Len(queue)
         IN  /\ N \in Nat /\ L \in Nat /\ Listed(sessions[a]) \in {0, 1} /\ limit \in Nat
             /\ Listed(sessions[a]) <= L /\ L <= N
             /\ Listed(sessions[a]) = 0 => L < N
             /\ Len(once) = Left(limit, N, L, Listed(sessions[a]))
             /\ Len(twice) = Left(limit, N, Len(once), 0)
<1> DEFINE N == Cardinality(Registered)
           s == sessions[a]
<1>1. queue \in Seq(Existing) /\ IsInjective(queue) /\ limit \in Nat
  BY SessionAssumption DEF SInv, TypeOK, QueueEntriesAreRegistered
<1>2. N \in Nat /\ IsFiniteSet(Registered)
  BY RegisteredFinite
<1>3. /\ InLine(queue) \subseteq Registered /\ IsFiniteSet(InLine(queue))
      /\ Cardinality(InLine(queue)) = Len(queue) /\ Len(queue) \in Nat
  BY <1>1, LineCounts
<1>4. Len(queue) <= N
  BY <1>2, <1>3, FS_Subset
<1>5. s \notin ToSet(queue) => Len(queue) < N
  <2>1. ASSUME s \notin ToSet(queue) PROVE a \notin InLine(queue)
    BY <2>1 DEF InLine, SInv, QueueEntriesAreRegistered
  <2>2. InLine(queue) = Registered => s \in ToSet(queue)
    BY <2>1
  <2>3. N = Len(queue) => InLine(queue) = Registered
    BY <1>2, <1>3, FS_Subset
  <2> QED BY <1>2, <1>3, <1>4, <2>2, <2>3
<1>6. s \in ToSet(queue) => 1 <= Len(queue)
  BY <1>1, <1>3, SequenceSets
<1>7. /\ once \in Seq(Existing) /\ IsInjective(once) /\ s \notin ToSet(once)
      /\ Len(once) = Left(limit, N, Len(queue), Listed(s))
  <2>1. N = Cardinality({b \in Accounts : sessions[b] # NoSession})
    BY DEF Registered
  <2> HIDE DEF N
  <2>2. Len(once) = Left(limit, N, Len(queue), IF s \in ToSet(queue) THEN 1 ELSE 0)
    BY <1>1, <2>1, LeftLength
  <2> QED BY <1>1, <2>2, RemoveQueuedPlayerProperties DEF Listed
<1>8. Len(twice) = Left(limit, N, Len(once), 0)
  <2>1. N = Cardinality({b \in Accounts : sessions[b] # NoSession})
    BY DEF Registered
  <2> HIDE DEF N
  <2>2. Len(twice) = Left(limit, N, Len(once), IF s \in ToSet(once) THEN 1 ELSE 0)
    BY <1>7, <2>1, LeftLength
  <2> QED BY <1>7, <2>2
<1> QED BY <1>1, <1>2, <1>3, <1>4, <1>5, <1>6, <1>7, <1>8 DEF Listed

\* The loop over m_sessions visits accounts that have an entry.
VisitsEntries == pc = "update" => todo \subseteq Registered

\* While the limit stays what it is, who waits waits for a slot.
WaitsForASlot == queue # <<>> => limit > 0 /\ Active >= limit

LEMMA VisitsEntriesStep == SInv /\ VisitsEntries /\ [Next]_vars => VisitsEntries'
<1> SUFFICES ASSUME SInv, VisitsEntries, [Next]_vars, pc' = "update"
             PROVE  todo' \subseteq Registered'
  BY DEF VisitsEntries
<1>1. CASE AddSession_ \/ AddRefused \/ BeginUpdateSessions \/ KickAll \/ PassTime
           \/ EndUpdate \/ \E n \in Limits : SetPlayerAmountLimit(n)
  BY <1>1 DEF AddSession_, AddRefused, BeginUpdateSessions, KickAll, PassTime, EndUpdate,
     SetPlayerAmountLimit, VisitsEntries
<1>2. CASE EndAdd
  BY <1>2 DEF EndAdd, Registered
<1>3. ASSUME NEW a \in Accounts, UpdateOpen(a) PROVE todo' \subseteq Registered'
  BY <1>3 DEF UpdateOpen, Registered, VisitsEntries
<1>4. ASSUME NEW a \in Accounts, UpdateClosed(a) PROVE todo' \subseteq Registered'
  <2>1. /\ pc = "update" /\ todo' = todo \ {a}
        /\ sessions' = [sessions EXCEPT ![a] = NoSession]
    BY <1>4 DEF UpdateClosed
  <2>2. Registered \ {a} \subseteq Registered'
    BY <2>1 DEF Registered, SInv, TypeOK
  <2> QED BY <2>1, <2>2 DEF VisitsEntries
<1>5. ASSUME NEW a \in Accounts, Connect(a) PROVE todo' \subseteq Registered'
  BY <1>5 DEF Connect, Registered, VisitsEntries
<1>6. ASSUME NEW s \in SessionIds, LoseConnection(s) \/ LoginDone(s)
      PROVE  todo' \subseteq Registered'
  BY <1>6 DEF LoseConnection, LoginDone, Registered, VisitsEntries
<1>7. CASE UNCHANGED vars
  BY <1>7 DEF vars, Registered, VisitsEntries
<1> QED BY <1>1, <1>2, <1>3, <1>4, <1>5, <1>6, <1>7 DEF Next, WorldThread, Stopped

\* The table with one entry less, or one entry replaced or added.
LEMMA TableCounts ==
  ASSUME SInv, NEW a \in Accounts, sessions' \in [Accounts -> SessionIds \cup {NoSession}],
         \A b \in Accounts \ {a} : sessions'[b] = sessions[b]
  PROVE  LET N == Cardinality(Registered)
         IN  /\ sessions'[a] = NoSession => Cardinality(Registered') = IF a \in Registered THEN N - 1 ELSE N
             /\ sessions'[a] # NoSession => Cardinality(Registered') = IF a \in Registered THEN N ELSE N + 1
<1>1. IsFiniteSet(Registered) /\ Cardinality(Registered) \in Nat
  BY RegisteredFinite
<1>2. CASE sessions'[a] = NoSession
  <2>1. Registered' = Registered \ {a}
    BY <1>2 DEF Registered
  <2> QED BY <1>1, <1>2, <2>1, FS_RemoveElement
<1>3. CASE sessions'[a] # NoSession
  <2>1. Registered' = Registered \cup {a}
    BY <1>3 DEF Registered
  <2> QED BY <1>1, <1>3, <2>1, FS_AddElement
<1> QED BY <1>2, <1>3

LEMMA ActiveCount == Active = Cardinality(Registered) - Len(queue)
BY DEF Active, GetActiveSessionCount, Registered

LEMMA SomebodyWaits ==
  ASSUME SInv
  PROVE  /\ Len(queue) \in Nat /\ (queue # <<>> <=> Len(queue) > 0)
         /\ limit \in Nat
BY EmptySeq, LenProperties, SessionAssumption DEF SInv, TypeOK

LEMMA UpdateClosedHandsOn ==
  ASSUME SInv, SInv', VisitsEntries, WaitsForASlot, NEW a \in Accounts, UpdateClosed(a)
  PROVE  WaitsForASlot'
<1> DEFINE s == sessions[a]
           N == Cardinality(Registered)
<1>1. PICK once, twice :
        /\ once = RemoveQueuedPlayer(sessions, queue, s)
        /\ twice = RemoveQueuedPlayer(sessions, once, s)
        /\ queue' = twice
        /\ sessions' = [sessions EXCEPT ![a] = NoSession] /\ limit' = limit
        /\ pc = "update" /\ a \in todo
  BY DEF UpdateClosed
<1>2. a \in Registered
  BY <1>1 DEF VisitsEntries
<1>3. /\ N \in Nat /\ Len(queue) \in Nat /\ Listed(s) \in {0, 1} /\ limit \in Nat
      /\ Listed(s) <= Len(queue) /\ Len(queue) <= N /\ (Listed(s) = 0 => Len(queue) < N)
      /\ Len(once) = Left(limit, N, Len(queue), Listed(s))
      /\ Len(twice) = Left(limit, N, Len(once), 0)
  BY <1>1, <1>2, DepartureLengths
<1>4. Cardinality(Registered') = N - 1
  <2>1. /\ sessions' \in [Accounts -> SessionIds \cup {NoSession}] /\ sessions'[a] = NoSession
        /\ \A b \in Accounts \ {a} : sessions'[b] = sessions[b]
    BY <1>1 DEF SInv, TypeOK
  <2> QED BY <1>2, <2>1, TableCounts
<1>5. Len(queue) > 0 => limit > 0 /\ N - Len(queue) >= limit
  BY ActiveCount, SomebodyWaits DEF WaitsForASlot
<1> HIDE DEF N, s
<1>6. Len(twice) \in Nat /\ (Len(twice) > 0 => limit > 0 /\ N - 1 - Len(twice) >= limit)
  BY <1>3, <1>5, LeftHandsOn
<1>7. Active' = N - 1 - Len(twice)
  <2>1. Active' = Cardinality(Registered') - Len(queue')
    BY DEF Active, GetActiveSessionCount, Registered
  <2> QED BY <1>1, <1>4, <2>1
<1>8. queue' # <<>> => Len(queue') > 0
  BY EmptySeq, LenProperties DEF SInv, TypeOK
<1> QED BY <1>1, <1>6, <1>7, <1>8 DEF WaitsForASlot

LEMMA AddSessionHandsOn ==
  ASSUME SInv, SInv', WaitsForASlot, AddSession_
  PROVE  WaitsForASlot'
<1> DEFINE s == Head(addSessQueue)
           a == account[s]
           old == sessions[a]
           N == Cardinality(Registered)
           rest == IF old = NoSession THEN queue ELSE RemoveQueuedPlayer(sessions, queue, old)
           count == Cardinality(Registered \cup {a}) - (IF old \in ToSet(queue) THEN 0 ELSE 1)
<1>1. /\ addSessQueue # <<>> /\ limit' = limit
      /\ sessions' = [sessions EXCEPT ![a] = s]
      /\ \/ queue' = rest
         \/ queue' = Append(rest, s) /\ limit > 0 /\ count >= limit
  BY DEF AddSession_, MustQueue
<1>2. /\ s \in Existing /\ s # NoSession /\ a \in Accounts /\ s \in 1..MaxSessions
  <2>1. s \in Existing /\ s # NoSession /\ a \in Accounts
    BY <1>1, HeadFacts, SFacts
  <2> QED BY <2>1, SFacts, SessionAssumption
<1>3. /\ IsFiniteSet(Registered) /\ N \in Nat
      /\ Cardinality(Registered \cup {a}) = IF a \in Registered THEN N ELSE N + 1
  BY RegisteredFinite, FS_AddElement
<1>4. Cardinality(Registered') = Cardinality(Registered \cup {a})
  <2>1. /\ sessions' \in [Accounts -> SessionIds \cup {NoSession}] /\ sessions'[a] = s
        /\ \A b \in Accounts \ {a} : sessions'[b] = sessions[b]
    BY <1>1, <1>2 DEF SInv, TypeOK, SessionIds
  <2> HIDE DEF a
  <2> QED BY <1>2, <1>3, <2>1, TableCounts
<1>5. a \in Registered <=> old # NoSession
  BY <1>2 DEF Registered
<1>6. /\ limit \in Nat /\ Len(queue) \in Nat /\ Len(queue) <= N
      /\ Len(queue) > 0 => limit > 0 /\ N - Len(queue) >= limit
  <2>1. Len(queue) <= N
    <3>1. queue \in Seq(Existing) /\ IsInjective(queue)
      BY DEF SInv, TypeOK, QueueEntriesAreRegistered
    <3> QED BY <1>3, <3>1, LineCounts, FS_Subset
  <2> QED BY <2>1, ActiveCount, SomebodyWaits DEF WaitsForASlot
<1>7. rest \in Seq(Existing)
  <2>1. queue \in Seq(Existing) /\ IsInjective(queue)
    BY DEF SInv, TypeOK, QueueEntriesAreRegistered
  <2> QED BY <2>1, RemoveQueuedPlayerProperties
<1>8. /\ \/ Len(queue') = Len(rest)
         \/ Len(queue') = Len(rest) + 1 /\ limit > 0 /\ count >= limit
      /\ Len(rest) \in Nat
  BY <1>1, <1>2, <1>7, AppendProperties, LenProperties
<1>9. Active' = Cardinality(Registered \cup {a}) - Len(queue')
  <2>1. Active' = Cardinality(Registered') - Len(queue')
    BY DEF Active, GetActiveSessionCount, Registered
  <2> QED BY <1>4, <2>1
<1>10. Len(queue') > 0 => limit > 0 /\ Cardinality(Registered \cup {a}) - Len(queue') >= limit
  <2>1. CASE old = NoSession
    <3>1. old \notin ToSet(queue)
      BY <2>1, SFacts
    <3>2. count = N /\ Cardinality(Registered \cup {a}) = N + 1 /\ rest = queue
      BY <1>3, <1>5, <2>1, <3>1
    <3> HIDE DEF count, N, rest, a, old
    <3> QED BY <1>3, <1>6, <1>8, <3>2
  <2>2. CASE old # NoSession
    <3>1. /\ N \in Nat /\ Listed(old) \in {0, 1}
          /\ Listed(old) <= Len(queue) /\ (Listed(old) = 0 => Len(queue) < N)
          /\ Len(rest) = Left(limit, N, Len(queue), Listed(old))
      BY <1>5, <2>2, DepartureLengths
    <3>2. count = N - (1 - Listed(old)) /\ Cardinality(Registered \cup {a}) = N
      BY <1>3, <1>5, <2>2, <3>1 DEF Listed
    <3> HIDE DEF count, N, rest, a, old
    <3>3. Len(rest) > 0 => limit > 0 /\ N - 1 - Len(rest) >= limit
      BY <1>6, <3>1, LeftHandsOn
    <3>4. Len(rest) = 0 => N - 1 >= 0
      BY <1>6, <3>1
    <3> QED BY <1>6, <1>8, <3>1, <3>2, <3>3
  <2> QED BY <2>1, <2>2
<1>11. queue' # <<>> => Len(queue') > 0
  BY EmptySeq, LenProperties DEF SInv, TypeOK
<1> QED BY <1>1, <1>9, <1>10, <1>11 DEF WaitsForASlot


\* Who was in the table before a step, and is in it and not in line after it.
Stayed == {a \in Registered : sessions'[a] = sessions[a]} \ {account[s] : s \in ToSet(queue')}

\* An entry is taken from the table, or replaced, and rest is what is left of the
\* line, but for a newcomer of the same account.
LEMMA StayedCounts ==
  ASSUME SInv, NEW a \in Registered, NEW rest \in Seq(Existing), IsInjective(rest),
         ToSet(rest) \subseteq ToSet(queue) \ {sessions[a]},
         sessions'[a] # sessions[a], \A b \in Accounts \ {a} : sessions'[b] = sessions[b],
         ToSet(queue') = ToSet(rest) \/ \E s : account[s] = a /\ ToSet(queue') = ToSet(rest) \cup {s}
  PROVE  Cardinality(Stayed) = Cardinality(Registered) - 1 - Len(rest)
<1>1. /\ InLine(rest) \subseteq Registered /\ IsFiniteSet(InLine(rest))
      /\ Cardinality(InLine(rest)) = Len(rest) /\ Len(rest) \in Nat
  BY LineCounts
<1>2. IsFiniteSet(Registered) /\ Cardinality(Registered) \in Nat
  BY RegisteredFinite
<1>3. a \notin InLine(rest)
  BY DEF InLine, SInv, QueueEntriesAreRegistered
<1>4. Stayed = (Registered \ {a}) \ InLine(rest)
  <2>1. {b \in Registered : sessions'[b] = sessions[b]} = Registered \ {a}
    BY DEF Registered
  <2>2. {account[s] : s \in ToSet(queue')} \cup {a} = InLine(rest) \cup {a}
    BY DEF InLine
  <2> QED BY <2>1, <2>2 DEF Stayed
<1> DEFINE R == Registered \ {a}
<1>5. IsFiniteSet(R) /\ Cardinality(R) = Cardinality(Registered) - 1
  BY <1>2, FS_RemoveElement
<1>6. R \cap InLine(rest) = InLine(rest)
  BY <1>1, <1>3
<1> HIDE DEF R
<1>7. Cardinality(R \ InLine(rest)) = Cardinality(R) - Cardinality(InLine(rest))
  <2>1. Cardinality(R \ InLine(rest)) = Cardinality(R) - Cardinality(R \cap InLine(rest))
    BY <1>5, FS_Difference
  <2> QED BY <1>6, <2>1
<1> QED BY <1>1, <1>4, <1>5, <1>7 DEF R

\* A line that lost somebody is shorter.
LEMMA LostOne ==
  ASSUME NEW S, NEW q \in Seq(S), NEW r \in Seq(S), IsInjective(q), IsInjective(r),
         ToSet(r) \subseteq ToSet(q), NEW x \in ToSet(q), x \notin ToSet(r)
  PROVE  Len(r) < Len(q)
<1>1. ASSUME NEW t \in Seq(S), IsInjective(t)
      PROVE  IsFiniteSet(ToSet(t)) /\ Cardinality(ToSet(t)) = Len(t) /\ Len(t) \in Nat
  <2>1. /\ ToSet(t) = {t[i] : i \in 1..Len(t)}
        /\ \A i, j \in 1..Len(t) : t[i] = t[j] => i = j
        /\ Len(t) \in Nat /\ DOMAIN t = 1..Len(t) /\ t \in [1..Len(t) -> S]
    <3>1. /\ ToSet(t) = {t[i] : i \in 1..Len(t)}
          /\ IsInjective(t) <=> \A i, j \in 1..Len(t) : t[i] = t[j] => i = j
      BY <1>1, SequenceSets
    <3>2. Len(t) \in Nat /\ DOMAIN t = 1..Len(t) /\ t \in [1..Len(t) -> S]
      BY <1>1, LenProperties
    <3> QED BY <1>1, <3>1, <3>2
  <2>2. t \in Bijection(1..Len(t), ToSet(t))
    <3>1. t \in [1..Len(t) -> ToSet(t)]
      BY <2>1
    <3> QED BY <1>1, <2>1, <3>1 DEF Bijection, Injection, Surjection
  <2>3. IsFiniteSet(1..Len(t)) /\ Cardinality(1..Len(t)) = Len(t)
    <3>1. ASSUME NEW n \in Nat PROVE IsFiniteSet(1..n) /\ Cardinality(1..n) = n
      BY <3>1, FS_Interval
    <3> QED BY <2>1, <3>1
  <2>4. ExistsBijection(1..Len(t), ToSet(t))
    BY <2>2 DEF ExistsBijection
  <2> QED BY <2>1, <2>3, <2>4, FS_Bijection
<1>2. /\ IsFiniteSet(ToSet(q)) /\ Cardinality(ToSet(q)) = Len(q) /\ Len(q) \in Nat
      /\ Cardinality(ToSet(r)) = Len(r) /\ Len(r) \in Nat
  BY <1>1
<1>3. /\ Cardinality(ToSet(r)) <= Cardinality(ToSet(q))
      /\ Cardinality(ToSet(q)) = Cardinality(ToSet(r)) => ToSet(q) = ToSet(r)
  BY <1>2, FS_Subset
<1> QED BY <1>2, <1>3

LEMMA UpdateClosedAdmits ==
  ASSUME SInv, VisitsEntries, NEW a \in Accounts, UpdateClosed(a),
         NEW x, Admits(x), limit > 0
  PROVE  Cardinality(Stayed) <= limit
<1> DEFINE s == sessions[a]
           N == Cardinality(Registered)
<1>1. PICK once, twice :
        /\ once = RemoveQueuedPlayer(sessions, queue, s)
        /\ twice = RemoveQueuedPlayer(sessions, once, s)
        /\ queue' = twice
        /\ inQueue' = inQueue \ ({s} \cup (ToSet(queue) \ ToSet(twice)))
        /\ alive' = alive \ {s}
        /\ sessions' = [sessions EXCEPT ![a] = NoSession]
        /\ pc = "update" /\ a \in todo
  BY DEF UpdateClosed, Unflag, Delete
<1>2. a \in Registered
  BY <1>1 DEF VisitsEntries
<1>3. /\ N \in Nat /\ Len(queue) \in Nat /\ Listed(s) \in {0, 1} /\ limit \in Nat
      /\ Listed(s) <= Len(queue) /\ Len(queue) <= N /\ (Listed(s) = 0 => Len(queue) < N)
      /\ Len(once) = Left(limit, N, Len(queue), Listed(s))
      /\ Len(twice) = Left(limit, N, Len(once), 0)
  BY <1>1, <1>2, DepartureLengths
<1>4. queue \in Seq(Existing) /\ IsInjective(queue)
  BY DEF SInv, TypeOK, QueueEntriesAreRegistered
<1>5. /\ once \in Seq(Existing) /\ IsInjective(once) /\ ToSet(once) \subseteq ToSet(queue) \ {s}
      /\ twice \in Seq(Existing) /\ IsInjective(twice) /\ ToSet(twice) \subseteq ToSet(once) \ {s}
  <2>1. once \in Seq(Existing) /\ IsInjective(once) /\ ToSet(once) \subseteq ToSet(queue) \ {s}
    BY <1>1, <1>4, RemoveQueuedPlayerProperties
  <2> QED BY <1>1, <2>1, RemoveQueuedPlayerProperties
<1>6. Cardinality(Stayed) = N - 1 - Len(twice)
  <2>1. /\ sessions'[a] # sessions[a] /\ \A b \in Accounts \ {a} : sessions'[b] = sessions[b]
    BY <1>1, <1>2 DEF SInv, TypeOK, Registered
  <2> QED BY <1>1, <1>2, <1>5, <2>1, StayedCounts
<1>7. Len(twice) < Len(queue) - Listed(s)
  <2>1. x \in ToSet(queue) /\ x # s /\ x \in inQueue /\ x \notin inQueue'
    BY <1>1 DEF Admits, SInv, ListedAreFlagged
  <2>2. x \notin ToSet(twice)
    BY <1>1, <2>1
  <2> DEFINE u == Unlinked(queue, s)
  <2>3. u \in Seq(Existing) /\ IsInjective(u) /\ ToSet(u) = ToSet(queue) \ {s}
    BY <1>4, UnlinkedProperties
  <2>4. Len(u) = Len(queue) - Listed(s)
    BY <1>3, <1>4, UnlinkedForm DEF Unlinked, Listed
  <2> HIDE DEF u
  <2>5. Len(twice) < Len(u)
    BY <1>5, <2>1, <2>2, <2>3, LostOne
  <2> QED BY <2>4, <2>5
<1> HIDE DEF N, s
<1> QED BY <1>3, <1>6, <1>7, LeftAdmitsWithin

LEMMA AddSessionAdmits ==
  ASSUME SInv, AddSession_, NEW x, Admits(x), limit > 0
  PROVE  Cardinality(Stayed) <= limit
<1> DEFINE s == Head(addSessQueue)
           a == account[s]
           old == sessions[a]
           N == Cardinality(Registered)
           rest == IF old = NoSession THEN queue ELSE RemoveQueuedPlayer(sessions, queue, old)
<1>1. /\ addSessQueue # <<>>
      /\ sessions' = [sessions EXCEPT ![a] = s]
      /\ queue' = rest \/ queue' = Append(rest, s)
      /\ alive' = alive \ ({old} \ {NoSession})
      /\ inQueue \ (({old} \ {NoSession}) \cup (ToSet(queue) \ ToSet(rest))) \subseteq inQueue'
  BY DEF AddSession_, Delete, Replaced, Unflag
<1>2. s \in Existing /\ s # NoSession /\ a \in Accounts /\ s \notin ToSet(queue) /\ s # old
  <2>1. s \in Existing /\ s # NoSession /\ a \in Accounts /\ s \notin ToSet(queue)
    BY <1>1, HeadFacts, SFacts
  <2>2. s # old
    BY <1>1, <2>1, HeadFacts DEF SInv, SessionsAreOwnedOnce, Registered
  <2> QED BY <2>1, <2>2
<1>3. queue \in Seq(Existing) /\ IsInjective(queue)
  BY DEF SInv, TypeOK, QueueEntriesAreRegistered
<1>4. x \in ToSet(queue) /\ x # old /\ x \in inQueue /\ x \notin inQueue' /\ x \notin ToSet(rest)
  <2>1. x \in ToSet(queue) /\ x \in inQueue /\ x \notin inQueue' /\ x \in alive' /\ x # NoSession
    BY SFacts DEF Admits, SInv, ListedAreFlagged
  <2> HIDE DEF rest, old
  <2> QED BY <1>1, <2>1
<1>5. old # NoSession
  BY <1>4
<1>6. a \in Registered
  BY <1>2, <1>5 DEF Registered
<1>7. /\ N \in Nat /\ Len(queue) \in Nat /\ Listed(old) \in {0, 1} /\ limit \in Nat
      /\ Listed(old) <= Len(queue) /\ Len(queue) <= N /\ (Listed(old) = 0 => Len(queue) < N)
      /\ Len(rest) = Left(limit, N, Len(queue), Listed(old))
  BY <1>5, <1>6, DepartureLengths
<1>8. rest \in Seq(Existing) /\ IsInjective(rest) /\ ToSet(rest) \subseteq ToSet(queue) \ {old}
  BY <1>3, <1>5, RemoveQueuedPlayerProperties
<1>9. Cardinality(Stayed) = N - 1 - Len(rest)
  <2>1. sessions'[a] # sessions[a] /\ \A b \in Accounts \ {a} : sessions'[b] = sessions[b]
    BY <1>1, <1>2 DEF SInv, TypeOK
  <2>2. ToSet(queue') = ToSet(rest) \/ ToSet(queue') = ToSet(rest) \cup {s}
    <3>1. s \notin ToSet(rest)
      BY <1>2, <1>8
    <3> HIDE DEF rest
    <3>2. ToSet(Append(rest, s)) = ToSet(rest) \cup {s}
      BY <1>2, <1>8, <3>1, AppendInjectiveSeq
    <3> QED BY <1>1, <3>2
  <2> HIDE DEF rest
  <2> QED BY <1>6, <1>8, <2>1, <2>2, StayedCounts
<1>10. Len(rest) < Len(queue) - Listed(old)
  <2> DEFINE u == Unlinked(queue, old)
  <2>1. u \in Seq(Existing) /\ IsInjective(u) /\ ToSet(u) = ToSet(queue) \ {old}
    BY <1>3, UnlinkedProperties
  <2>2. Len(u) = Len(queue) - Listed(old)
    BY <1>3, <1>7, UnlinkedForm DEF Unlinked, Listed
  <2> HIDE DEF u, rest, old
  <2>3. Len(rest) < Len(u)
    BY <1>4, <1>8, <2>1, LostOne
  <2> QED BY <2>2, <2>3
<1> HIDE DEF N, rest, old
<1> QED BY <1>7, <1>9, <1>10, LeftAdmitsWithin

LEMMA AdmissionStep ==
  ASSUME SInv, VisitsEntries, [Next]_vars, NEW x, Admits(x), limit > 0
  PROVE  Cardinality(Stayed) <= limit
<1>1. x \in inQueue /\ x \notin inQueue' /\ x \in alive'
  BY DEF Admits, SInv, ListedAreFlagged
<1>2. CASE AddSession_
  BY <1>2, AddSessionAdmits
<1>3. ASSUME NEW a \in Accounts, UpdateClosed(a) PROVE Cardinality(Stayed) <= limit
  BY <1>3, UpdateClosedAdmits
<1>4. CASE AddRefused
  BY <1>1, <1>4 DEF AddRefused, Delete
<1>5. ASSUME ~AddSession_, ~AddRefused, \A a \in Accounts : ~UpdateClosed(a)
      PROVE  inQueue' = inQueue
  BY <1>5 DEF Next, WorldThread, vars, EndAdd, UpdateOpen, EndUpdate, KickAll,
     BeginUpdateSessions, Connect, LoseConnection, LoginDone, SetPlayerAmountLimit,
     Stopped, PassTime
<1> QED BY <1>1, <1>2, <1>3, <1>4, <1>5

LEMMA HandsOnStep ==
  ASSUME SInv, SInv', VisitsEntries, WaitsForASlot, [Next]_vars, limit' = limit
  PROVE  WaitsForASlot'
<1>1. CASE AddSession_
  BY <1>1, AddSessionHandsOn
<1>2. ASSUME NEW a \in Accounts, UpdateClosed(a) PROVE WaitsForASlot'
  BY <1>2, UpdateClosedHandsOn
<1>3. CASE KickAll
  BY <1>3 DEF KickAll, WaitsForASlot
<1>4. ASSUME ~AddSession_, ~KickAll, \A a \in Accounts : ~UpdateClosed(a)
      PROVE  UNCHANGED <<sessions, queue>>
  BY <1>4 DEF Next, WorldThread, vars, AddRefused, EndAdd, UpdateOpen, EndUpdate,
     BeginUpdateSessions, Connect, LoseConnection, LoginDone, SetPlayerAmountLimit,
     Stopped, PassTime
<1>5. CASE UNCHANGED <<sessions, queue>>
  BY <1>5 DEF WaitsForASlot, Active, GetActiveSessionCount
<1> QED BY <1>1, <1>2, <1>3, <1>4, <1>5

-----------------------------------------------------------------------------
(* Theorems.                                                                  *)

LEMMA SInvAlways == Spec => []SInv
<1> QED BY SInitially, SInvStep, PTL DEF Spec

\* Type correctness.
THEOREM SessionsTyped == Spec => []TypeOK
<1>1. SInv => TypeOK
  BY DEF SInv
<1> QED BY <1>1, SInvAlways, PTL

\* For any number of accounts and connections, no WorldSession leaks and none is
\* deleted twice: each waits in addSessQueue or is its account's m_sessions entry.
THEOREM SessionsOwnedOnce == Spec => []SessionsAreOwnedOnce
<1>1. SInv => SessionsAreOwnedOnce
  BY DEF SInv
<1> QED BY <1>1, SInvAlways, PTL

\* m_QueuedPlayer never holds the pointer of a deleted or replaced session.
THEOREM QueueNamesLiveSessions == Spec => []QueueEntriesAreRegistered
<1>1. SInv => QueueEntriesAreRegistered
  BY DEF SInv
<1> QED BY <1>1, SInvAlways, PTL

\* Nobody is left flagged as queued outside m_QueuedPlayer, whatever limits the
\* operator sets.
THEOREM QueuedAreListed == Spec => []QueuedFlagMeansListed
<1>1. SInv => QueuedFlagMeansListed
  BY DEF SInv
<1> QED BY <1>1, SInvAlways, PTL

\* The three together.
THEOREM QueueSound == Spec => []QueueIsSound
<1>1. SInv => QueueIsSound
  BY DEF SInv, QueueIsSound
<1> QED BY <1>1, SInvAlways, PTL

\* The single UpdateSessions after KickAll logs out everybody in the world.
THEOREM StopUnloadsPlayers == Spec => []ShutdownUnloadsPlayers
<1>1. SInv => ShutdownUnloadsPlayers
  BY DEF SInv, StopCloses
<1> QED BY <1>1, SInvAlways, PTL

\* The login queue is first come, first served, for any number of sessions: a
\* step admits a session only with all those in front of it, and the departures
\* from the middle of m_QueuedPlayer leave the others in their order.
THEOREM QueueOrderKept == Spec => QueueKeepsOrder
<1>1. SInv /\ SInv' /\ [Next]_vars =>
        [\A i, j \in DOMAIN queue : i < j /\ ~stopEvent' =>
           /\ Admits(queue[j]) => queue[i] \notin ToSet(queue')
           /\ {queue[i], queue[j]} \subseteq ToSet(queue') =>
                \E m, n \in DOMAIN queue' :
                   m < n /\ queue'[m] = queue[i] /\ queue'[n] = queue[j]]_vars
  BY QueueOrderStep
<1> QED BY <1>1, SInvAlways, PTL DEF Spec, QueueKeepsOrder

LEMMA VisitsAlways == Spec => []VisitsEntries
<1>1. Init => VisitsEntries
  BY DEF Init, VisitsEntries
<1> QED BY <1>1, SInvAlways, VisitsEntriesStep, PTL DEF Spec

\* Nobody waits in front of a free slot, in a behaviour in which the operator
\* leaves the limit alone: a departure or a reconnection hands on every slot it
\* frees, although UpdateSessions calls RemoveQueuedPlayer twice.
THEOREM SlotsAreHandedOn ==
  Spec /\ [][limit' = limit]_vars => []NoIdleSlotWhileQueueing
<1>1. Init => WaitsForASlot
  BY DEF Init, WaitsForASlot
<1>2. SInv /\ SInv' /\ VisitsEntries /\ WaitsForASlot /\ [Next]_vars /\ [limit' = limit]_vars
        => WaitsForASlot'
  <2>1. UNCHANGED vars => limit' = limit
    BY DEF vars
  <2> QED BY <2>1, HandsOnStep
<1>3. WaitsForASlot => NoIdleSlotWhileQueueing
  BY DEF WaitsForASlot, NoIdleSlotWhileQueueing
<1> QED BY <1>1, <1>2, <1>3, SInvAlways, VisitsAlways, PTL DEF Spec

\* The queue never admits one too many, whatever the limits the operator sets in
\* between: those who were in the table and are active after an admission fit the
\* limit.
THEOREM AdmissionsFit == Spec => AdmissionNeedsAFreeSlot
<1>1. SInv /\ VisitsEntries /\ [Next]_vars =>
        [(\E s \in SessionIds : Admits(s)) /\ limit > 0 =>
           Cardinality({a \in Registered : sessions'[a] = sessions[a]} \
                         {account[s] : s \in ToSet(queue')}) <= limit]_vars
  BY AdmissionStep DEF Stayed
<1> QED BY <1>1, SInvAlways, VisitsAlways, PTL DEF Spec, AdmissionNeedsAFreeSlot
=============================================================================
