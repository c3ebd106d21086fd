------------------------- MODULE SessionPacketsProofs -------------------------
(***************************************************************************)
(* The packets of one session, for any number of packets, logins,          *)
(* teleports and maps: however late a packet is taken from the queue, it   *)
(* is carried out on the character it was sent for or not at all, and only *)
(* packets that came before the login was over are ever overtaken.         *)
(***************************************************************************)
EXTENDS SessionPackets, SequenceTheorems, TLAPS

-----------------------------------------------------------------------------
(* The inductive invariant.  While the socket is open, the session is in one *)
(* of four phases; the login number is the client's.                         *)

\* the login that the packets before the next login packet came from
Before == IF client.shows = "list" THEN client.login ELSE client.login - 1

\* the server's messages while a character plays, and after it has logged out
Talk(s, shows) ==
  \A i \in DOMAIN s : /\ s[i] = "verify" <=> i = 1 /\ shows = "entering"
                      /\ s[i] # "loggedOut"
Farewell(s, shows) ==
  \A i \in DOMAIN s : /\ s[i] = "verify" <=> i = 1 /\ shows = "entering"
                      /\ s[i] = "loggedOut" <=> i = Len(s)

\* packets of one login, sent once its character was chosen
OfLogin(s, login) ==
  \A i \in DOMAIN s : s[i].by = login /\ s[i].op \notin {"charEnum", "login"}
EarlyCasts(s, login) ==
  \A i \in DOMAIN s : s[i].by = login /\ s[i].op = "cast" /\ s[i].early

\* no session yet, or the last one is over; its packets are still there
Idle ==
  /\ player = 0 /\ loading = 0 /\ client.shows # "list"
  /\ OfLogin(queue, client.login)
  /\ queue = <<>> \/ recent
  /\ recent => client.login # 0
  /\ IF client.shows = "start" THEN toClient = <<>> ELSE recent /\ toClient # <<>>
  /\ Farewell(toClient, client.shows)

\* the client looks at its characters, or has chosen one: packet k is, or will be, its login
ChoosingAt(k) ==
  /\ player = 0 /\ loading = 0 /\ toClient = <<>>
  /\ \/ client.shows = "list" /\ k = Len(queue) + 1
     \/ client.shows = "entering" /\ k <= Len(queue) /\ client.login # 0
  /\ \A i \in DOMAIN queue :
       /\ i < k => /\ queue[i].by = Before /\ queue[i].op # "login"
                   /\ queue[i].op = "charEnum" <=> i = k - 1
       /\ i = k => queue[i].by = client.login /\ queue[i].op = "login"
       /\ i > k => queue[i].by = client.login /\ queue[i].op = "cast" /\ queue[i].early
  /\ IF recent THEN k > 1 /\ Before # 0 ELSE k <= 2
Choosing == \E k \in 1..(Len(queue) + 1) : ChoosingAt(k)

\* the character is being loaded
Entering ==
  /\ player = 0 /\ loading = client.login /\ loading # 0 /\ toClient = <<>> /\ ~recent
  /\ client.shows = "entering"
  /\ EarlyCasts(queue, client.login)

\* it is in the game
Playing ==
  /\ player = client.login /\ player # 0 /\ loading = 0
  /\ OfLogin(queue, client.login)
  /\ client.shows = "playing" \/ (client.shows = "entering" /\ toClient # <<>>)
  /\ Talk(toClient, client.shows)

Phase == Idle \/ Choosing \/ Entering \/ Playing

\* Packets are in the order of their numbers, but for early ones.
Ordered(s, sent) ==
  /\ \A i \in DOMAIN s : s[i].n <= sent
  /\ \A i, j \in DOMAIN s : i < j /\ s[i].n > s[j].n => s[j].early
InOrder == Ordered(queue, client.sent)

\* a far teleport that may be refused: one more message
Refusable(b) == IF b.far /\ b.dest \in Instances THEN 1 ELSE 0

\* What the client still has to answer: the messages on their way, the logout to come, the
\* refusal to come of a far teleport or of a login.
Unread == IF client.shows = "entering" /\ toClient # <<>> THEN Len(toClient) - 1 ELSE Len(toClient)
Pending ==
  IF player # 0 THEN 1 + Refusable(body)
  ELSE IF client.shows = "entering" /\ toClient = <<>> THEN 2 ELSE 0
Answerable ==
  \E answers \in 0..client.sent :
    /\ client.sent - answers <= MaxSent
    /\ answers + Unread + Pending <= 2 * teleports + 2 * client.login

PInv == TypeOK /\ (open => Phase /\ InOrder /\ Answerable)

-----------------------------------------------------------------------------
(* Sequences.                                                                *)

\* What is left of a sequence without its head.
LEMMA TailElements ==
  ASSUME NEW S, NEW s \in Seq(S), s # <<>>
  PROVE  /\ Tail(s) \in Seq(S) /\ Len(Tail(s)) = Len(s) - 1 /\ Len(s) \in Nat \ {0} /\ 1 \in DOMAIN s
         /\ Head(s) = s[1] /\ s[1] \in S /\ DOMAIN Tail(s) = 1..(Len(s) - 1)
         /\ \A i \in DOMAIN Tail(s) : i \in Nat /\ i + 1 \in DOMAIN s /\ Tail(s)[i] = s[i + 1]
<1>1. Len(s) \in Nat \ {0} BY EmptySeq
<1>2. /\ Tail(s) \in Seq(S) /\ Len(Tail(s)) = Len(s) - 1
      /\ \A i \in 1..Len(Tail(s)) : Tail(s)[i] = s[i + 1]
  BY HeadTailProperties
<1>3. DOMAIN s = 1..Len(s) /\ DOMAIN Tail(s) = 1..Len(Tail(s)) BY <1>2, LenProperties
<1>4. 1 \in DOMAIN s BY <1>1, <1>3
<1>5. s[1] \in S BY <1>3, <1>4, ElementOfSeq
<1>6. Head(s) = s[1] OBVIOUS
<1>7. \A i \in DOMAIN Tail(s) : i \in Nat /\ i + 1 \in DOMAIN s BY <1>1, <1>2, <1>3
<1> QED BY <1>1, <1>2, <1>3, <1>4, <1>5, <1>6, <1>7

\* What a sequence holds that grows by one.
LEMMA AppendElements ==
  ASSUME NEW S, NEW s \in Seq(S), NEW e \in S
  PROVE  /\ Append(s, e) \in Seq(S) /\ Len(Append(s, e)) = Len(s) + 1 /\ Len(s) \in Nat
         /\ Append(s, e) # <<>> /\ DOMAIN s = 1..Len(s) /\ DOMAIN Append(s, e) = 1..(Len(s) + 1)
         /\ Append(s, e)[Len(s) + 1] = e
         /\ \A i \in DOMAIN s : i \in Nat /\ i # Len(s) + 1 /\ Append(s, e)[i] = s[i]
         /\ \A i \in DOMAIN Append(s, e) : i \in Nat /\ (i \in DOMAIN s \/ i = Len(s) + 1)
<1>1. Len(s) \in Nat /\ DOMAIN s = 1..Len(s) BY LenProperties
<1>2. /\ Append(s, e) \in Seq(S) /\ Len(Append(s, e)) = Len(s) + 1
      /\ Append(s, e)[Len(s) + 1] = e
      /\ \A i \in 1..Len(s) : Append(s, e)[i] = s[i]
  BY AppendProperties
<1>3. DOMAIN Append(s, e) = 1..(Len(s) + 1) BY <1>2, LenProperties
<1>4. Append(s, e) # <<>> BY <1>1, <1>2, EmptySeq
<1> QED BY <1>1, <1>2, <1>3, <1>4

\* The order of the packets outlives each way the queue changes: a packet is taken from it, is
\* new, or is put back, all of them being early.
LEMMA OrderTaken ==
  ASSUME NEW S, NEW s \in Seq(S), s # <<>>, NEW sent, Ordered(s, sent)
  PROVE  Ordered(Tail(s), sent)
<1>1. \A i \in DOMAIN Tail(s) : i \in Nat /\ i + 1 \in DOMAIN s /\ Tail(s)[i] = s[i + 1]
  BY TailElements
<1>2. ASSUME NEW i \in DOMAIN Tail(s), NEW j \in DOMAIN Tail(s), i < j,
             Tail(s)[i].n > Tail(s)[j].n
      PROVE  Tail(s)[j].early
  <2>1. i + 1 < j + 1 BY <1>1, <1>2
  <2> QED BY <1>1, <1>2, <2>1 DEF Ordered
<1> QED BY <1>1, <1>2 DEF Ordered

LEMMA OrderSent ==
  ASSUME NEW S, NEW s \in Seq(S), NEW e \in S, NEW sent \in Nat, Ordered(s, sent),
         \A x \in S : x.n \in Nat, e.n = sent + 1
  PROVE  Ordered(Append(s, e), sent + 1)
<1> DEFINE t == Append(s, e)
           m == Len(s) + 1
<1>1. /\ t \in Seq(S) /\ t[m] = e /\ \A i \in DOMAIN s : i \in Nat /\ i # m /\ t[i] = s[i]
      /\ \A i \in DOMAIN t : i \in Nat /\ (i \in DOMAIN s \/ i = m)
      /\ DOMAIN s = 1..Len(s) /\ Len(s) \in Nat
  BY AppendElements
<1>2. \A i \in DOMAIN s : s[i].n \in Nat /\ s[i].n <= sent BY <1>1, ElementOfSeq DEF Ordered
<1> HIDE DEF t
<1>3. \A i \in DOMAIN t : t[i].n <= sent + 1 BY <1>1, <1>2
<1>4. ASSUME NEW i \in DOMAIN t, NEW j \in DOMAIN t, i < j, t[i].n > t[j].n
      PROVE  t[j].early
  <2>1. i \in DOMAIN s BY <1>1, <1>4
  <2>2. j \in DOMAIN s BY <1>1, <1>2, <1>4, <2>1
  <2> QED BY <1>1, <1>4, <2>1, <2>2 DEF Ordered
<1> QED BY <1>3, <1>4 DEF Ordered, t

LEMMA OrderKept ==
  ASSUME NEW S, NEW s \in Seq(S), s # <<>>, NEW sent, Ordered(s, sent),
         \A i \in DOMAIN s : s[i].early
  PROVE  Ordered(Append(Tail(s), Head(s)), sent)
<1> DEFINE t == Append(Tail(s), Head(s))
<1>1. /\ Tail(s) \in Seq(S) /\ Head(s) \in S /\ Head(s) = s[1] /\ 1 \in DOMAIN s
      /\ \A i \in DOMAIN Tail(s) : i + 1 \in DOMAIN s /\ Tail(s)[i] = s[i + 1]
  BY TailElements
<1>2. ASSUME NEW i \in DOMAIN t PROVE \E j \in DOMAIN s : t[i] = s[j]
  <2>1. CASE i \in DOMAIN Tail(s) BY <1>1, <2>1, AppendElements
  <2>2. CASE i = Len(Tail(s)) + 1 BY <1>1, <2>2, AppendElements
  <2> QED BY <1>1, <2>1, <2>2, AppendElements
<1> HIDE DEF t
<1>3. \A i \in DOMAIN t : t[i].n <= sent /\ t[i].early BY <1>2 DEF Ordered
<1> QED BY <1>3 DEF Ordered, t

-----------------------------------------------------------------------------
(* What the server tells the client.                                         *)

Messages == {"verify", "newWorld", "moveTeleport", "loggedOut"}
Moves == {"newWorld", "moveTeleport"}

\* The talk goes on, ends, and is read.
LEMMA TalkGoesOn ==
  ASSUME NEW s \in Seq(Messages), NEW t \in Seq(Moves), NEW shows, Talk(s, shows),
         s # <<>> \/ shows # "entering"
  PROVE  /\ s \o t \in Seq(Messages) /\ Talk(s \o t, shows) /\ Len(s \o t) = Len(s) + Len(t)
         /\ Len(s) \in Nat /\ Len(t) \in Nat /\ (s # <<>> => s \o t # <<>>)
<1>1. t \in Seq(Messages) BY SeqMonotonic DEF Moves, Messages
<1>2. /\ s \o t \in Seq(Messages) /\ Len(s \o t) = Len(s) + Len(t)
      /\ \A i \in 1..(Len(s) + Len(t)) :
           (s \o t)[i] = IF i <= Len(s) THEN s[i] ELSE t[i - Len(s)]
  BY <1>1, ConcatProperties
<1>3. /\ Len(s) \in Nat /\ Len(t) \in Nat /\ DOMAIN s = 1..Len(s)
      /\ DOMAIN (s \o t) = 1..(Len(s) + Len(t))
  BY <1>1, <1>2, LenProperties
<1>4. s # <<>> => Len(s) \in Nat \ {0} BY EmptySeq
<1>5. ASSUME NEW i \in DOMAIN (s \o t)
      PROVE  ((s \o t)[i] = "verify" <=> i = 1 /\ shows = "entering") /\ (s \o t)[i] # "loggedOut"
  <2>1. CASE i <= Len(s)
    <3>1. (s \o t)[i] = s[i] /\ i \in DOMAIN s BY <1>2, <1>3, <1>5, <2>1
    <3> QED BY <3>1 DEF Talk
  <2>2. CASE ~(i <= Len(s))
    <3>1. i - Len(s) \in 1..Len(t) BY <1>3, <1>5, <2>2
    <3>2. t[i - Len(s)] \in Moves BY <3>1, ElementOfSeq
    <3>3. (s \o t)[i] \in Moves BY <1>2, <1>3, <1>5, <2>2, <3>2
    <3>4. ~(i = 1 /\ shows = "entering") BY <1>3, <1>4, <2>2
    <3> QED BY <3>3, <3>4 DEF Moves
  <2> QED BY <2>1, <2>2
<1>6. Talk(s \o t, shows) BY <1>5 DEF Talk
<1>7. s # <<>> => s \o t # <<>> BY <1>1, ConcatEqualIffEmpty
<1> QED BY <1>2, <1>3, <1>6, <1>7

LEMMA TalkEnds ==
  ASSUME NEW s \in Seq(Messages), NEW shows, Talk(s, shows), s # <<>> \/ shows # "entering"
  PROVE  /\ Append(s, "loggedOut") \in Seq(Messages) /\ Farewell(Append(s, "loggedOut"), shows)
         /\ Len(Append(s, "loggedOut")) = Len(s) + 1 /\ Append(s, "loggedOut") # <<>>
<1> DEFINE t == Append(s, "loggedOut")
           m == Len(s) + 1
<1>1. "loggedOut" \in Messages BY DEF Messages
<1>2. /\ t \in Seq(Messages) /\ Len(t) = m /\ t # <<>> /\ t[m] = "loggedOut"
      /\ \A i \in DOMAIN s : i \in Nat /\ i # m /\ t[i] = s[i]
      /\ \A i \in DOMAIN t : i \in Nat /\ (i \in DOMAIN s \/ i = m)
      /\ Len(s) \in Nat
  BY <1>1, AppendElements
<1>3. s # <<>> => Len(s) \in Nat \ {0} BY EmptySeq
<1> HIDE DEF t
<1>4. ASSUME NEW i \in DOMAIN t
      PROVE  (t[i] = "verify" <=> i = 1 /\ shows = "entering") /\ (t[i] = "loggedOut" <=> i = Len(t))
  <2>1. CASE i \in DOMAIN s BY <1>2, <2>1 DEF Talk
  <2>2. CASE i = m
    <3>1. ~(i = 1 /\ shows = "entering") BY <1>2, <1>3, <2>2
    <3> QED BY <1>2, <2>2, <3>1
  <2> QED BY <1>2, <2>1, <2>2
<1> QED BY <1>2, <1>4 DEF Farewell, t

LEMMA TalkRead ==
  ASSUME NEW s \in Seq(Messages), NEW shows, Talk(s, shows), s # <<>>
  PROVE  /\ (Head(s) = "verify" <=> shows = "entering") /\ Head(s) \in Moves \cup {"verify"}
         /\ \A now : now # "entering" => Talk(Tail(s), now)
<1>1. /\ 1 \in DOMAIN s /\ Head(s) = s[1] /\ s[1] \in Messages
      /\ \A i \in DOMAIN Tail(s) : i \in Nat /\ i \in 1..(Len(s) - 1) /\ i + 1 \in DOMAIN s /\ Tail(s)[i] = s[i + 1]
  BY TailElements
<1>2. (Head(s) = "verify" <=> shows = "entering") /\ Head(s) # "loggedOut" BY <1>1 DEF Talk
<1>3. \A i \in DOMAIN Tail(s) : i + 1 # 1 BY <1>1
<1>4. \A i \in DOMAIN Tail(s) : Tail(s)[i] # "verify" /\ Tail(s)[i] # "loggedOut"
  BY <1>1, <1>3 DEF Talk
<1> QED BY <1>1, <1>2, <1>4 DEF Talk, Messages, Moves

LEMMA FarewellRead ==
  ASSUME NEW s \in Seq(Messages), NEW shows, Farewell(s, shows), s # <<>>
  PROVE  /\ (Head(s) = "verify" <=> shows = "entering") /\ Head(s) \in Messages
         /\ \A now : now # "entering" => Farewell(Tail(s), now)
         /\ Head(s) = "loggedOut" <=> Tail(s) = <<>>
<1>1. /\ 1 \in DOMAIN s /\ Head(s) = s[1] /\ s[1] \in Messages /\ Len(Tail(s)) = Len(s) - 1
      /\ Tail(s) \in Seq(Messages) /\ Len(s) \in Nat \ {0}
      /\ \A i \in DOMAIN Tail(s) : i \in Nat /\ i \in 1..(Len(s) - 1) /\ i + 1 \in DOMAIN s /\ Tail(s)[i] = s[i + 1]
  BY TailElements
<1>2. Head(s) = "verify" <=> shows = "entering" BY <1>1 DEF Farewell
<1>3. \A i \in DOMAIN Tail(s) : i + 1 # 1 BY <1>1
<1>4. \A i \in DOMAIN Tail(s) : i + 1 = Len(s) <=> i = Len(Tail(s)) BY <1>1
<1>5. \A i \in DOMAIN Tail(s) :
        Tail(s)[i] # "verify" /\ (Tail(s)[i] = "loggedOut" <=> i = Len(Tail(s)))
  BY <1>1, <1>3, <1>4 DEF Farewell
<1>6. Len(s) = 1 <=> Len(Tail(s)) = 0 BY <1>1
<1>7. Len(Tail(s)) = 0 <=> Tail(s) = <<>> BY <1>1, EmptySeq
<1>8. Head(s) = "loggedOut" <=> Len(s) = 1 BY <1>1 DEF Farewell
<1> QED BY <1>1, <1>2, <1>5, <1>6, <1>7, <1>8 DEF Farewell

-----------------------------------------------------------------------------
(* Where a player may be.                                                    *)

Bodies == [map : Maps, dest : Maps, inWorld : BOOLEAN, near : BOOLEAN, far : BOOLEAN]
BodyOK(b) == b \in Bodies /\ (b.far => ~b.inWorld /\ ~b.near)

LEMMA NoBodyOK == BodyOK(NoBody) /\ ~NoBody.far /\ NoBody.inWorld = FALSE
BY PacketsAssumption DEF NoBody, BodyOK, Bodies

LEMMA TeleportOK ==
  ASSUME NEW b, BodyOK(b), ~b.far, NEW map \in Maps
  PROVE  LET t == TeleportTo(b, map)
         IN  /\ BodyOK(t) /\ t.dest = map
             /\ Told(t) \in Seq(Moves) /\ Len(Told(t)) = 1
<1> DEFINE t == TeleportTo(b, map)
<1>1. t \in Bodies /\ t.dest = map /\ (t.far => ~t.inWorld /\ ~t.near)
  <2>1. CASE b.map = map BY <2>1 DEF TeleportTo, BodyOK, Bodies
  <2>2. CASE b.map # map BY <2>2 DEF TeleportTo, BodyOK, Bodies
  <2> QED BY <2>1, <2>2
<1>2. Told(t) \in Seq(Moves) /\ Len(Told(t)) = 1
  <2>1. "moveTeleport" \in Moves /\ "newWorld" \in Moves BY DEF Moves
  <2>2. <<"moveTeleport">> \in Seq(Moves) /\ <<"newWorld">> \in Seq(Moves) BY <2>1
  <2> QED BY <2>2 DEF Told
<1> QED BY <1>1, <1>2 DEF BodyOK

\* The end of a far teleport: only an instance refuses, and the homebind is none.
LEMMA ArrivalsOK ==
  ASSUME NEW b, BodyOK(b), b.far, NEW x \in Arrivals(b)
  PROVE  LET t == IF x = Refused(b) THEN Told(x) ELSE <<>>
         IN  /\ BodyOK(x) /\ t \in Seq(Moves) /\ Len(t) \in Nat
             /\ Len(t) + Refusable(x) <= Refusable(b)
<1> DEFINE t == IF x = Refused(b) THEN Told(x) ELSE <<>>
           c == [b EXCEPT !.far = FALSE]
<1>1. BodyOK(c) /\ ~c.far /\ c.inWorld = FALSE BY DEF BodyOK, Bodies
<1>2. Refused(b) = TeleportTo(c, Home) BY DEF Refused
<1>3. Home \in Maps /\ Home \notin Instances BY PacketsAssumption
<1>4. /\ BodyOK(Refused(b)) /\ Refused(b).dest = Home /\ Told(Refused(b)) \in Seq(Moves)
      /\ Len(Told(Refused(b))) = 1
  <2> HIDE DEF c
  <2> QED BY <1>1, <1>2, <1>3, TeleportOK
<1>5. ~Refused(b).inWorld
  <2>1. c \in Bodies /\ ~c.inWorld BY <1>1 DEF BodyOK
  <2> HIDE DEF c
  <2> QED BY <1>2, <2>1 DEF TeleportTo, Bodies
<1>6. BodyOK(Arrived(b)) /\ Arrived(b).inWorld /\ ~Arrived(b).far
  BY DEF Arrived, BodyOK, Bodies
<1>7. CASE x = Arrived(b)
  <2>1. x # Refused(b) BY <1>5, <1>6, <1>7
  <2>2. t = <<>> BY <2>1
  <2>3. t \in Seq(Moves) /\ Len(t) = 0
    <3> HIDE DEF t
    <3> QED BY <2>2, EmptySeq
  <2>4. Refusable(x) = 0 BY <1>6, <1>7 DEF Refusable
  <2> QED BY <1>6, <1>7, <2>3, <2>4 DEF Refusable
<1>8. CASE x = Refused(b) /\ b.dest \in Instances
  <2>1. t = Told(Refused(b)) BY <1>8
  <2>2. Refusable(x) = 0 /\ Refusable(b) = 1 BY <1>3, <1>4, <1>8 DEF Refusable
  <2>3. t \in Seq(Moves) /\ Len(t) = 1 /\ BodyOK(x) BY <1>4, <1>8, <2>1
  <2> HIDE DEF t
  <2>4. Len(t) \in Nat /\ Len(t) + Refusable(x) <= Refusable(b) BY <2>2, <2>3
  <2> QED BY <2>3, <2>4 DEF t
<1> QED BY <1>7, <1>8 DEF Arrivals

-----------------------------------------------------------------------------
(* Types.                                                                    *)

Packets == [n : Numbers, op : Opcodes, by : Logins, early : BOOLEAN]

\* the session, and the rest
SessionOK ==
  /\ player \in Logins /\ loading \in Logins /\ loaded \in BOOLEAN /\ recent \in BOOLEAN
  /\ logoutTime \in BOOLEAN /\ BodyOK(body) /\ toClient \in Seq(Messages)
  /\ player = 0 => body = NoBody /\ ~logoutTime
  /\ player # 0 => loading = 0
RestOK ==
  /\ pc \in {"tasks", "world", "map", "gone"}
  /\ open \in BOOLEAN /\ processed \in BOOLEAN /\ delayed \in Numbers
  /\ queue \in Seq(Packets) /\ teleports \in 0..MaxTeleports
  /\ client \in [shows : {"start", "list", "entering", "playing"}, login : Logins, sent : Numbers]

LEMMA TypeParts == TypeOK <=> SessionOK /\ RestOK
BY DEF TypeOK, SessionOK, RestOK, BodyOK, Bodies, Packets, Messages

LEMMA TypePartsNext == TypeOK' <=> SessionOK' /\ RestOK'
BY DEF TypeOK, SessionOK, RestOK, BodyOK, Bodies, Packets, Messages

LEMMA OpcodeTable ==
  /\ Opcodes = {"charEnum", "login", "cast", "logoutRequest", "teleportAck", "worldportAck", "cancelTrade"}
  /\ Status["charEnum"] = "authed" /\ Status["login"] = "authed" /\ Status["cast"] = "loggedIn"
  /\ Status["logoutRequest"] = "loggedIn" /\ Status["teleportAck"] = "loggedIn"
  /\ Status["worldportAck"] = "transfer" /\ Status["cancelTrade"] = "loggedInOrRecently"
BY DEF Opcodes, Status

\* WorldSession::LogoutPlayer: what the client is told, and the end of the player.
LEMMA LogoutTells ==
  ASSUME SessionOK, LogoutPlayer
  PROVE  /\ player' = 0 /\ body' = NoBody /\ logoutTime' = FALSE /\ recent' = TRUE /\ loading' = loading
         /\ \E t \in Seq(Moves) : /\ Len(t) \in Nat /\ Len(t) <= Refusable(body)
                                  /\ toClient' = Append(toClient \o t, "loggedOut")
         /\ toClient' \in Seq(Messages)
<1>1. /\ player' = 0 /\ body' = NoBody /\ logoutTime' = FALSE /\ recent' = TRUE /\ loading' = loading
  BY DEF LogoutPlayer
<1>2. PICK b \in (IF body.far THEN Arrivals(body) ELSE {body}) :
        toClient' = toClient \o (IF body.far /\ b = Refused(body) THEN Told(b) ELSE <<>>)
                             \o <<"loggedOut">>
  BY DEF LogoutPlayer
<1> DEFINE t == IF body.far /\ b = Refused(body) THEN Told(b) ELSE <<>>
<1>3. t \in Seq(Moves) /\ Len(t) \in Nat /\ Len(t) <= Refusable(body)
  <2>1. CASE body.far
    <3>1. b \in Arrivals(body) /\ BodyOK(body) BY <1>2, <2>1 DEF SessionOK
    <3>2. t = IF b = Refused(body) THEN Told(b) ELSE <<>> BY <2>1
    <3>3. BodyOK(b) => Refusable(b) \in Nat BY DEF Refusable
    <3>4. Refusable(body) \in Nat BY DEF Refusable
    <3>5. t \in Seq(Moves) /\ Len(t) \in Nat /\ Len(t) + Refusable(b) <= Refusable(body) /\ BodyOK(b)
      BY <2>1, <3>1, <3>2, ArrivalsOK
    <3> HIDE DEF t
    <3> QED BY <3>3, <3>4, <3>5
  <2>2. CASE ~body.far
    <3>1. t = <<>> BY <2>2
    <3>2. Refusable(body) = 0 BY <2>2 DEF Refusable
    <3>3. t \in Seq(Moves) /\ Len(t) = 0
      <4> HIDE DEF t
      <4> QED BY <3>1, EmptySeq
    <3> QED BY <3>2, <3>3
  <2> QED BY <2>1, <2>2
<1>4. toClient' = (toClient \o t) \o <<"loggedOut">> BY <1>2
<1> HIDE DEF t
<1>5. t \in Seq(Messages) BY <1>3, SeqMonotonic DEF Moves, Messages
<1>6. toClient \o t \in Seq(Messages) /\ "loggedOut" \in Messages
  BY <1>5, ConcatProperties DEF SessionOK, Messages
<1>7. /\ toClient' = Append(toClient \o t, "loggedOut")
      /\ Append(toClient \o t, "loggedOut") \in Seq(Messages)
  BY <1>4, <1>6, AppendProperties
<1> QED BY <1>1, <1>3, <1>7

\* What the handlers make of the session.
LEMMA HandleTypes ==
  ASSUME SessionOK, NEW p \in Packets, Allows(p), Handle(p)
  PROVE  SessionOK'
<1>1. CASE p.op = "charEnum"
  <2>1. HandleCharEnum BY <1>1 DEF Handle
  <2> QED BY <2>1 DEF HandleCharEnum, SessionOK
<1>2. CASE p.op = "login"
  <2>1. HandlePlayerLoginOpcode(p) /\ p.by \in Logins BY <1>2 DEF Handle, Packets
  <2> QED BY <2>1 DEF HandlePlayerLoginOpcode, SessionOK
<1>3. CASE p.op = "logoutRequest"
  <2>1. HandleLogoutRequestOpcode /\ player # 0 BY <1>3, OpcodeTable DEF Handle, Allows
  <2>2. CASE LogoutPlayer /\ UNCHANGED loaded
    BY <2>1, <2>2, LogoutTells, NoBodyOK DEF SessionOK
  <2>3. CASE logoutTime' \in BOOLEAN /\ UNCHANGED <<player, loading, recent, body, toClient, loaded>>
    BY <2>1, <2>3 DEF SessionOK
  <2> QED BY <2>1, <2>2, <2>3 DEF HandleLogoutRequestOpcode
<1>4. CASE p.op = "worldportAck"
  <2>1. HandleMoveWorldportAckOpcode /\ player # 0 BY <1>4, OpcodeTable DEF Handle, Allows
  <2>2. UNCHANGED <<player, loading, recent, logoutTime, loaded>>
    BY <2>1 DEF HandleMoveWorldportAckOpcode
  <2>3. CASE body.far
    <3>1. PICK b \in Arrivals(body) :
            /\ body' = b
            /\ toClient' = toClient \o (IF b = Refused(body) THEN Told(b) ELSE <<>>)
      BY <2>1, <2>3 DEF HandleMoveWorldportAckOpcode
    <3> DEFINE t == IF b = Refused(body) THEN Told(b) ELSE <<>>
    <3>2. BodyOK(b) /\ t \in Seq(Moves) BY <2>3, <3>1, ArrivalsOK DEF SessionOK
    <3> HIDE DEF t
    <3>3. t \in Seq(Messages) BY <3>2, SeqMonotonic DEF Moves, Messages
    <3>4. toClient \o t \in Seq(Messages) BY <3>3, ConcatProperties DEF SessionOK
    <3>5. toClient' = toClient \o t BY <3>1 DEF t
    <3> QED BY <2>1, <2>2, <3>1, <3>2, <3>4, <3>5 DEF SessionOK
  <2>4. CASE ~body.far BY <2>1, <2>2, <2>4 DEF HandleMoveWorldportAckOpcode, SessionOK
  <2> QED BY <2>3, <2>4
<1>5. CASE p.op = "teleportAck"
  <2>1. HandleMoveTeleportAck /\ player # 0 BY <1>5, OpcodeTable DEF Handle, Allows
  <2>2. BodyOK([body EXCEPT !.near = FALSE]) BY DEF SessionOK, BodyOK, Bodies
  <2> QED BY <2>1, <2>2 DEF HandleMoveTeleportAck, SessionOK
<1>6. CASE p.op \in {"cast", "cancelTrade"}
  <2>1. UNCHANGED <<session, loaded, toClient>> BY <1>6 DEF Handle
  <2>2. UNCHANGED <<player, loading, recent, logoutTime, body, loaded, toClient>> BY <2>1 DEF session
  <2> QED BY <2>2 DEF SessionOK
<1> QED BY <1>1, <1>2, <1>3, <1>4, <1>5, <1>6 DEF Handle

-----------------------------------------------------------------------------
(* The answers of the client.                                                *)

LEMMA UnreadNat ==
  ASSUME SessionOK
  PROVE  /\ Unread \in Nat /\ Pending \in Nat /\ Len(toClient) \in Nat /\ Refusable(body) \in Nat
         /\ toClient # <<>> => Len(toClient) \in Nat \ {0}
<1>1. Len(toClient) \in Nat /\ (toClient # <<>> => Len(toClient) \in Nat \ {0})
  BY EmptySeq, LenProperties DEF SessionOK
<1>2. Refusable(body) \in Nat BY DEF Refusable
<1> QED BY <1>1, <1>2 DEF Unread, Pending

LEMMA SameAnswers ==
  ASSUME Answerable, UNCHANGED <<player, body, toClient, client, teleports>>
  PROVE  Answerable'
BY DEF Answerable, Unread, Pending, Refusable

\* A step that tells the client no more than was to come.
LEMMA FewerAnswers ==
  ASSUME SessionOK, SessionOK', RestOK, Answerable, client' = client,
         NEW more \in Nat, teleports' = teleports + more,
         Unread' + Pending' <= Unread + Pending + 2 * more
  PROVE  Answerable'
<1>1. PICK answers \in 0..client.sent :
        /\ client.sent - answers <= MaxSent
        /\ answers + Unread + Pending <= 2 * teleports + 2 * client.login
  BY DEF Answerable
<1>2. Unread \in Nat /\ Pending \in Nat BY UnreadNat
<1>3. Unread' \in Nat /\ Pending' \in Nat
  <2>1. Len(toClient') \in Nat /\ (toClient' # <<>> => Len(toClient') \in Nat \ {0})
    BY EmptySeq, LenProperties DEF SessionOK
  <2>2. Refusable(body)' \in Nat BY DEF Refusable
  <2> QED BY <2>1, <2>2 DEF Unread, Pending
<1>4. teleports \in Nat /\ client.login \in Nat /\ client.sent \in Nat
  BY PacketsAssumption DEF RestOK, Logins, Numbers
<1>5. answers + Unread' + Pending' <= 2 * (teleports + more) + 2 * client.login
  <2>1. ASSUME NEW a \in Nat, NEW u \in Nat, NEW p \in Nat, NEW v \in Nat, NEW q \in Nat,
               NEW n \in Nat, NEW m \in Nat, NEW l \in Nat,
               a + u + p <= 2 * n + 2 * l, v + q <= u + p + 2 * m
        PROVE  a + v + q <= 2 * (n + m) + 2 * l
    BY <2>1
  <2>2. answers \in Nat BY <1>4
  <2> QED BY <1>1, <1>2, <1>3, <1>4, <2>1, <2>2
<1>6. answers + Unread' + Pending' <= 2 * teleports' + 2 * client'.login BY <1>5
<1> QED BY <1>1, <1>6 DEF Answerable

\* The player moves on: the talk goes on.
LEMMA MovesOn ==
  ASSUME SessionOK, SessionOK', RestOK, Answerable, Playing, client' = client, player' = player,
         NEW more \in Nat, teleports' = teleports + more,
         NEW t \in Seq(Moves), toClient' = toClient \o t,
         Len(t) + Refusable(body') <= Refusable(body) + 2 * more
  PROVE  /\ Answerable' /\ Talk(toClient', client.shows)
         /\ client.shows = "playing" \/ (client.shows = "entering" /\ toClient' # <<>>)
<1> DEFINE u == toClient \o t
<1>1. /\ Talk(u, client.shows) /\ Len(u) = Len(toClient) + Len(t)
      /\ Len(toClient) \in Nat /\ Len(t) \in Nat /\ (toClient # <<>> => u # <<>>)
  BY TalkGoesOn DEF SessionOK, Playing
<1> HIDE DEF u
<1>2. toClient' = u BY DEF u
<1>3. client.shows = "playing" \/ (client.shows = "entering" /\ toClient # <<>> /\ u # <<>>)
  BY <1>1 DEF Playing
<1>4. Unread' = Unread + Len(t) BY <1>1, <1>2, <1>3 DEF Unread
<1>5. Pending = 1 + Refusable(body) /\ Pending' = 1 + Refusable(body')
  BY DEF Playing, Pending, Refusable
<1>6. Refusable(body) \in Nat /\ Refusable(body') \in Nat BY DEF Refusable
<1>7. Unread \in Nat BY UnreadNat
<1>8. Unread' + Pending' <= Unread + Pending + 2 * more
  <2>1. ASSUME NEW n \in Nat, NEW r \in Nat, NEW x \in Nat, NEW l \in Nat, NEW m \in Nat,
               l + x <= r + 2 * m
        PROVE  (n + l) + (1 + x) <= n + (1 + r) + 2 * m
    BY <2>1
  <2>2. (Unread + Len(t)) + (1 + Refusable(body')) <= Unread + (1 + Refusable(body)) + 2 * more
    BY <1>1, <1>6, <1>7, <2>1
  <2> QED BY <1>4, <1>5, <2>2
<1>9. Answerable' BY <1>8, FewerAnswers
<1> QED BY <1>1, <1>2, <1>3, <1>9

\* The player leaves: the talk ends, and the session is idle.
LEMMA Leaves ==
  ASSUME SessionOK, SessionOK', RestOK, Answerable, Playing, client' = client, teleports' = teleports,
         LogoutPlayer, OfLogin(queue', client.login)
  PROVE  Answerable' /\ Idle'
<1>1. /\ player' = 0 /\ recent' = TRUE /\ loading' = loading
      /\ \E t \in Seq(Moves) : /\ Len(t) \in Nat /\ Len(t) <= Refusable(body)
                               /\ toClient' = Append(toClient \o t, "loggedOut")
  BY LogoutTells
<1>2. PICK t \in Seq(Moves) : /\ Len(t) \in Nat /\ Len(t) <= Refusable(body)
                              /\ toClient' = Append(toClient \o t, "loggedOut")
  BY <1>1
<1> DEFINE u == toClient \o t
           w == Append(u, "loggedOut")
<1>3. /\ u \in Seq(Messages) /\ Talk(u, client.shows) /\ Len(u) = Len(toClient) + Len(t)
      /\ Len(toClient) \in Nat /\ (toClient # <<>> => u # <<>>)
  BY TalkGoesOn DEF SessionOK, Playing
<1>4. client.shows = "playing" \/ (client.shows = "entering" /\ toClient # <<>> /\ u # <<>>)
  BY <1>3 DEF Playing
<1> HIDE DEF u
<1>5. /\ Farewell(w, client.shows) /\ Len(w) = Len(u) + 1 /\ w # <<>>
  BY <1>3, <1>4, TalkEnds
<1> HIDE DEF w
<1>6. toClient' = w BY <1>2 DEF u, w
<1>7. Unread' = Unread + Len(t) + 1 BY <1>2, <1>3, <1>4, <1>5, <1>6 DEF Unread
<1>8. Pending = 1 + Refusable(body) /\ Pending' = 0
  BY <1>1, <1>4, <1>5, <1>6 DEF Playing, Pending
<1>9. Refusable(body) \in Nat BY DEF Refusable
<1>10. Unread \in Nat BY UnreadNat
<1>11. Unread' + Pending' <= Unread + Pending + 2 * 0
  BY <1>2, <1>7, <1>8, <1>9, <1>10
<1>12. teleports' = teleports + 0 BY PacketsAssumption DEF RestOK
<1>13. Answerable' BY <1>11, <1>12, FewerAnswers
<1>14. client.login # 0 BY DEF Playing
<1>15. Idle' BY <1>1, <1>4, <1>5, <1>6, <1>14 DEF Idle, Playing
<1> QED BY <1>13, <1>15

-----------------------------------------------------------------------------
(* ProcessPacket, phase by phase.                                            *)

\* The two action properties, of one step.
Meets ==
  last'.n # 0 =>
    /\ last'.fate = "handled" /\ last'.player # 0 => last'.by = last'.player
    /\ last'.fate = "dropped" /\ player = 0 =>
         /\ last'.by # loading
         /\ \A i \in DOMAIN queue : queue[i].op = "login" => queue[i].by # last'.by
Overtakes ==
  last'.n # 0 => (last'.fate # "kept" =>
    \A i \in DOMAIN queue : queue[i].n < last'.n => queue[i].early)

\* The packets, the head taken from them.
LEMMA TakenPackets ==
  ASSUME RestOK, queue # <<>>
  PROVE  /\ Head(queue) = queue[1] /\ 1 \in DOMAIN queue /\ Head(queue) \in Packets
         /\ Tail(queue) \in Seq(Packets) /\ Append(Tail(queue), Head(queue)) \in Seq(Packets)
         /\ \A login : OfLogin(queue, login) => OfLogin(Tail(queue), login)
         /\ \A login : EarlyCasts(queue, login) => EarlyCasts(Append(Tail(queue), Head(queue)), login)
<1>1. /\ Head(queue) = queue[1] /\ 1 \in DOMAIN queue /\ Head(queue) \in Packets
      /\ Tail(queue) \in Seq(Packets)
      /\ \A i \in DOMAIN Tail(queue) : i + 1 \in DOMAIN queue /\ Tail(queue)[i] = queue[i + 1]
  <2>1. queue \in Seq(Packets) BY DEF RestOK
  <2> QED BY <2>1, TailElements
<1>2. /\ Append(Tail(queue), Head(queue)) \in Seq(Packets)
      /\ Append(Tail(queue), Head(queue))[Len(Tail(queue)) + 1] = Head(queue)
      /\ \A i \in DOMAIN Tail(queue) : Append(Tail(queue), Head(queue))[i] = Tail(queue)[i]
      /\ \A i \in DOMAIN Append(Tail(queue), Head(queue)) :
           i \in DOMAIN Tail(queue) \/ i = Len(Tail(queue)) + 1
  BY <1>1, AppendElements
<1>3. ASSUME NEW login, OfLogin(queue, login) PROVE OfLogin(Tail(queue), login)
  BY <1>1, <1>3 DEF OfLogin
<1>4. ASSUME NEW login, EarlyCasts(queue, login)
      PROVE  EarlyCasts(Append(Tail(queue), Head(queue)), login)
  BY <1>1, <1>2, <1>4 DEF EarlyCasts
<1> QED BY <1>1, <1>2, <1>3, <1>4

\* What is not queued again is taken in its order, whatever phase the session is in.
LEMMA TakenInOrder ==
  ASSUME SessionOK, RestOK, InOrder, ProcessPacket
  PROVE  /\ RestOK' /\ Overtakes /\ queue # <<>> /\ open /\ open' = open
         /\ client' = client /\ teleports' = teleports
         /\ queue' = Tail(queue) => InOrder'
<1>1. /\ queue # <<>> /\ open /\ UNCHANGED <<pc, open, teleports, client>> /\ processed' = TRUE
      /\ last'.n = Head(queue).n
      /\ \/ queue' = Append(Tail(queue), Head(queue)) /\ delayed' \in {delayed, Head(queue).n}
         \/ queue' = Tail(queue) /\ delayed' = delayed
  BY DEF ProcessPacket, GoOn, Record
<1>2. /\ Head(queue) = queue[1] /\ 1 \in DOMAIN queue /\ Head(queue) \in Packets
      /\ Tail(queue) \in Seq(Packets) /\ Append(Tail(queue), Head(queue)) \in Seq(Packets)
      /\ queue \in Seq(Packets)
  BY <1>1, TakenPackets DEF RestOK
<1>3. RestOK' BY <1>1, <1>2 DEF RestOK, Packets
<1>4. queue' = Tail(queue) => InOrder'
  BY <1>1, <1>2, OrderTaken DEF InOrder
<1>5. Overtakes
  <2>1. \A i \in DOMAIN queue : i \in Nat \ {0} /\ queue[i].n \in Nat
    <3>1. \A i \in DOMAIN queue : i \in Nat \ {0} /\ queue[i] \in Packets
      BY <1>2, ElementOfSeq, LenProperties
    <3> QED BY <3>1, PacketsAssumption DEF Packets, Numbers
  <2>2. ASSUME NEW i \in DOMAIN queue, queue[i].n < queue[1].n PROVE queue[i].early
    <3>1. 1 < i BY <1>2, <2>1, <2>2
    <3>2. queue[1].n > queue[i].n BY <1>2, <2>1, <2>2
    <3> QED BY <1>2, <3>1, <3>2 DEF InOrder, Ordered
  <2> QED BY <1>1, <1>2, <2>2 DEF Overtakes
<1> QED BY <1>1, <1>3, <1>4, <1>5

\* While no character is there, all but the packets of the character list are dropped, or are
\* trade cancellations that change nothing.
LEMMA NobodyThere ==
  ASSUME SessionOK, RestOK, ProcessPacket, player = 0, loading = 0,
         Head(queue).op \notin {"charEnum", "login"}, recent
  PROVE  /\ queue' = Tail(queue) /\ UNCHANGED <<player, loading, recent, logoutTime, body, loaded, toClient>>
         /\ last'.by = Head(queue).by /\ last'.player = 0
<1> DEFINE p == Head(queue)
<1>1. ~Keep(p) BY DEF Keep
<1>2. p \in Packets BY TakenPackets DEF ProcessPacket, GoOn
<1>3. p.op \in Opcodes BY <1>2 DEF Packets
<1>4. last'.by = p.by /\ last'.player = 0 BY DEF ProcessPacket, Record
<1>5. /\ queue' = Tail(queue)
      /\ (Allows(p) /\ Handle(p)) \/ UNCHANGED <<session, loaded, toClient>>
  BY <1>1 DEF ProcessPacket
<1>6. Allows(p) => p.op = "cancelTrade" BY <1>3, OpcodeTable DEF Allows
<1>7. UNCHANGED <<session, loaded, toClient>>
  <2> HIDE DEF p
  <2>1. p.op = "cancelTrade" /\ Handle(p) => UNCHANGED <<session, loaded, toClient>> BY DEF Handle
  <2> QED BY <1>5, <1>6, <2>1
<1> QED BY <1>4, <1>5, <1>7 DEF session

LEMMA IdlePacket ==
  ASSUME SessionOK, RestOK, Idle, InOrder, Answerable, ProcessPacket
  PROVE  SessionOK' /\ Idle' /\ InOrder' /\ Answerable' /\ Meets
<1>1. /\ queue # <<>> /\ client' = client /\ teleports' = teleports
      /\ queue' = Tail(queue) => InOrder'
  BY TakenInOrder
<1>2. /\ Head(queue) = queue[1] /\ 1 \in DOMAIN queue
      /\ OfLogin(Tail(queue), client.login)
  BY <1>1, TakenPackets DEF Idle
<1>3. player = 0 /\ loading = 0 /\ recent /\ client.login # 0 BY <1>1 DEF Idle
<1>4. Head(queue).op \notin {"charEnum", "login"} /\ Head(queue).by = client.login
  BY <1>2 DEF Idle, OfLogin
<1>5. /\ queue' = Tail(queue) /\ UNCHANGED <<player, loading, recent, logoutTime, body, loaded, toClient>>
      /\ last'.by = Head(queue).by /\ last'.player = 0
  BY <1>3, <1>4, NobodyThere
<1>6. SessionOK' BY <1>5 DEF SessionOK
<1>7. Idle' BY <1>1, <1>2, <1>3, <1>5 DEF Idle
<1>8. Answerable' BY <1>1, <1>5, SameAnswers
<1>9. Meets BY <1>3, <1>4, <1>5 DEF Meets, Idle, OfLogin
<1> QED BY <1>1, <1>5, <1>6, <1>7, <1>8, <1>9

LEMMA EnteringPacket ==
  ASSUME SessionOK, RestOK, Entering, InOrder, Answerable, ProcessPacket
  PROVE  SessionOK' /\ Entering' /\ InOrder' /\ Answerable' /\ Meets
<1>1. queue # <<>> /\ client' = client /\ teleports' = teleports BY TakenInOrder
<1>2. /\ Head(queue) = queue[1] /\ 1 \in DOMAIN queue
      /\ EarlyCasts(Append(Tail(queue), Head(queue)), client.login)
  BY <1>1, TakenPackets DEF Entering
<1>3. Head(queue).op = "cast" BY <1>2 DEF Entering, EarlyCasts
<1>4. Keep(Head(queue)) BY <1>3, OpcodeTable DEF Keep, Entering
<1>5. /\ queue' = Append(Tail(queue), Head(queue)) /\ last'.fate = "kept"
      /\ UNCHANGED <<session, loaded, toClient>>
  BY <1>4 DEF ProcessPacket, Record
<1>6. UNCHANGED <<player, loading, recent, logoutTime, body, loaded, toClient>> BY <1>5 DEF session
<1>7. SessionOK' BY <1>6 DEF SessionOK
<1>8. Entering' BY <1>1, <1>2, <1>5, <1>6 DEF Entering
<1>9. InOrder'
  <2>1. queue \in Seq(Packets) /\ \A i \in DOMAIN queue : queue[i].early
    BY DEF RestOK, Entering, EarlyCasts
  <2>2. Ordered(Append(Tail(queue), Head(queue)), client.sent)
    BY <1>1, <2>1, OrderKept DEF InOrder
  <2> QED BY <1>1, <1>5, <2>2 DEF InOrder
<1>10. Answerable' BY <1>1, <1>6, SameAnswers
<1>11. Meets BY <1>5 DEF Meets
<1> QED BY <1>7, <1>8, <1>9, <1>10, <1>11

LEMMA ChoosingPacket ==
  ASSUME SessionOK, RestOK, Choosing, InOrder, Answerable, ProcessPacket
  PROVE  SessionOK' /\ (Choosing' \/ Entering') /\ InOrder' /\ Answerable' /\ Meets
<1> DEFINE p == Head(queue)
<1>1. PICK k \in 1..(Len(queue) + 1) : ChoosingAt(k) BY DEF Choosing
<1>2. /\ queue # <<>> /\ client' = client /\ teleports' = teleports
      /\ queue' = Tail(queue) => InOrder'
  BY TakenInOrder
<1>3. /\ p = queue[1] /\ 1 \in DOMAIN queue /\ p \in Packets /\ Len(queue) \in Nat \ {0}
      /\ DOMAIN queue = 1..Len(queue) /\ Len(Tail(queue)) = Len(queue) - 1
      /\ DOMAIN Tail(queue) = 1..(Len(queue) - 1)
      /\ \A i \in DOMAIN Tail(queue) : i \in Nat /\ i + 1 \in DOMAIN queue /\ Tail(queue)[i] = queue[i + 1]
  <2>1. queue \in Seq(Packets) BY DEF RestOK
  <2> QED BY <1>2, <2>1, TailElements, TakenPackets, LenProperties
<1>4. player = 0 /\ loading = 0 /\ toClient = <<>> BY <1>1 DEF ChoosingAt
<1>5. p.op \in {"charEnum", "login"} => ~Keep(p) /\ Allows(p)
  BY OpcodeTable DEF Keep, Allows
<1>6. client.login \in Nat BY DEF RestOK, Logins
<1>7. CASE k = 1
  <2>1. p.op = "login" /\ p.by = client.login /\ ~recent BY <1>1, <1>3, <1>7 DEF ChoosingAt
  <2>2. client.shows = "entering" /\ client.login # 0 BY <1>1, <1>3, <1>7 DEF ChoosingAt
  <2>3. queue' = Tail(queue) /\ Handle(p) /\ last'.fate = "handled" /\ last'.player = 0
    BY <1>4, <1>5, <2>1 DEF ProcessPacket, Record
  <2>4. HandlePlayerLoginOpcode(p) BY <2>1, <2>3 DEF Handle
  <2>5. loading' = client.login /\ UNCHANGED <<player, recent, logoutTime, body, loaded, toClient>>
    BY <1>4, <2>1, <2>4 DEF HandlePlayerLoginOpcode
  <2>6. EarlyCasts(Tail(queue), client.login)
    <3>1. ASSUME NEW i \in DOMAIN Tail(queue)
          PROVE  Tail(queue)[i].by = client.login /\ Tail(queue)[i].op = "cast" /\ Tail(queue)[i].early
      <4>1. i + 1 > k /\ i + 1 \in DOMAIN queue BY <1>3, <1>7
      <4> QED BY <1>1, <1>3, <4>1 DEF ChoosingAt
    <3> QED BY <3>1 DEF EarlyCasts
  <2>7. SessionOK' BY <1>4, <2>5 DEF SessionOK, RestOK
  <2>8. Entering' BY <1>2, <1>4, <2>1, <2>2, <2>3, <2>5, <2>6 DEF Entering
  <2>9. Answerable' BY <1>2, <2>5, SameAnswers
  <2>10. Meets BY <2>3 DEF Meets
  <2> QED BY <1>2, <2>3, <2>7, <2>8, <2>9, <2>10
<1>8. ASSUME k # 1
      PROVE  /\ k - 1 \in 1..(Len(Tail(queue)) + 1)
             /\ \/ client.shows = "list" /\ k - 1 = Len(Tail(queue)) + 1
                \/ client.shows = "entering" /\ k - 1 <= Len(Tail(queue)) /\ client.login # 0
             /\ \A i \in DOMAIN Tail(queue) :
                  /\ i < k - 1 => /\ Tail(queue)[i].by = Before /\ Tail(queue)[i].op # "login"
                                  /\ Tail(queue)[i].op = "charEnum" <=> i = k - 2
                  /\ i = k - 1 => Tail(queue)[i].by = client.login /\ Tail(queue)[i].op = "login"
                  /\ i > k - 1 => /\ Tail(queue)[i].by = client.login /\ Tail(queue)[i].op = "cast"
                                  /\ Tail(queue)[i].early
             /\ p.by = Before /\ p.op # "login" /\ (p.op = "charEnum" <=> k = 2)
  <2>1. k - 1 \in 1..(Len(Tail(queue)) + 1) BY <1>1, <1>3, <1>8
  <2>2. \/ client.shows = "list" /\ k - 1 = Len(Tail(queue)) + 1
        \/ client.shows = "entering" /\ k - 1 <= Len(Tail(queue)) /\ client.login # 0
    <3>1. k \in Nat /\ Len(queue) \in Nat BY <1>1, <1>3
    <3>2. CASE client.shows = "list" /\ k = Len(queue) + 1 BY <1>3, <3>1, <3>2
    <3>3. CASE client.shows = "entering" /\ k <= Len(queue) /\ client.login # 0
      <4>1. k - 1 <= Len(Tail(queue)) BY <1>3, <3>1, <3>3
      <4> QED BY <3>3, <4>1
    <3> QED BY <1>1, <3>2, <3>3 DEF ChoosingAt
  <2>3. ASSUME NEW i \in DOMAIN Tail(queue)
        PROVE  /\ i < k - 1 => /\ Tail(queue)[i].by = Before /\ Tail(queue)[i].op # "login"
                               /\ Tail(queue)[i].op = "charEnum" <=> i = k - 2
               /\ i = k - 1 => Tail(queue)[i].by = client.login /\ Tail(queue)[i].op = "login"
               /\ i > k - 1 => /\ Tail(queue)[i].by = client.login /\ Tail(queue)[i].op = "cast"
                               /\ Tail(queue)[i].early
    <3>1. i \in Nat /\ i + 1 \in DOMAIN queue /\ Tail(queue)[i] = queue[i + 1] BY <1>3
    <3>2. k \in Nat BY <1>1
    <3>3. CASE i < k - 1
      <4>1. i + 1 < k /\ (i + 1 = k - 1 <=> i = k - 2) /\ ~(i = k - 1) /\ ~(i > k - 1)
        BY <3>1, <3>2, <3>3
      <4> QED BY <1>1, <3>1, <4>1 DEF ChoosingAt
    <3>4. CASE i = k - 1
      <4>1. i + 1 = k /\ ~(i < k - 1) /\ ~(i > k - 1) BY <3>1, <3>2, <3>4
      <4> QED BY <1>1, <3>1, <4>1 DEF ChoosingAt
    <3>5. CASE i > k - 1
      <4>1. i + 1 > k /\ ~(i < k - 1) /\ ~(i = k - 1) BY <3>1, <3>2, <3>5
      <4> QED BY <1>1, <3>1, <4>1 DEF ChoosingAt
    <3> QED BY <3>1, <3>2, <3>3, <3>4, <3>5
  <2>4. p.by = Before /\ p.op # "login" /\ (p.op = "charEnum" <=> k = 2)
    <3>1. 1 < k /\ (1 = k - 1 <=> k = 2) BY <1>1, <1>3, <1>8
    <3> QED BY <1>1, <1>3, <3>1 DEF ChoosingAt
  <2> QED BY <2>1, <2>2, <2>3, <2>4
<1>9. CASE k = 2
  <2>1. p.op = "charEnum" BY <1>8, <1>9
  <2>2. queue' = Tail(queue) /\ Handle(p) /\ last'.fate = "handled" /\ last'.player = 0
    BY <1>4, <1>5, <2>1 DEF ProcessPacket, Record
  <2>3. HandleCharEnum BY <2>1, <2>2 DEF Handle
  <2>4. recent' = FALSE /\ UNCHANGED <<player, loading, logoutTime, body, loaded, toClient>>
    BY <2>3 DEF HandleCharEnum
  <2>5. SessionOK' BY <2>4 DEF SessionOK
  <2>6. ChoosingAt(k - 1)'
    BY <1>2, <1>4, <1>8, <1>9, <2>2, <2>4 DEF ChoosingAt, Before
  <2>7. Choosing' BY <1>8, <1>9, <2>2, <2>6 DEF Choosing
  <2>8. Answerable' BY <1>2, <2>4, SameAnswers
  <2>9. Meets BY <2>2 DEF Meets
  <2> QED BY <1>2, <2>2, <2>5, <2>7, <2>8, <2>9
<1>10. CASE k # 1 /\ k # 2
  <2>1. p.op \notin {"charEnum", "login"} /\ p.by = Before BY <1>8, <1>10
  <2>2. k > 2 BY <1>1, <1>10
  <2>3. recent /\ Before # 0 BY <1>1, <2>2 DEF ChoosingAt
  <2>4. /\ queue' = Tail(queue)
        /\ UNCHANGED <<player, loading, recent, logoutTime, body, loaded, toClient>>
        /\ last'.by = p.by /\ last'.player = 0
    BY <1>4, <2>1, <2>3, NobodyThere
  <2>5. SessionOK' BY <2>4 DEF SessionOK
  <2>6. k - 1 > 1 BY <1>1, <2>2
  <2>7. ChoosingAt(k - 1)'
    BY <1>1, <1>2, <1>4, <1>8, <1>10, <2>3, <2>4, <2>6 DEF ChoosingAt, Before
  <2>8. Choosing' BY <1>8, <1>10, <2>4, <2>7 DEF Choosing
  <2>9. Answerable' BY <1>2, <2>4, SameAnswers
  <2>10. ASSUME NEW i \in DOMAIN queue, queue[i].op = "login" PROVE queue[i].by # Before
    <3>1. i = k BY <1>1, <1>3, <2>10 DEF ChoosingAt
    <3>2. queue[i].by = client.login /\ client.shows = "entering"
      BY <1>1, <1>3, <3>1 DEF ChoosingAt
    <3> QED BY <1>6, <3>2 DEF Before
  <2>11. Meets BY <1>4, <2>1, <2>3, <2>4, <2>10 DEF Meets
  <2> QED BY <1>2, <2>4, <2>5, <2>8, <2>9, <2>11
<1> QED BY <1>7, <1>9, <1>10

LEMMA PlayingPacket ==
  ASSUME SessionOK, RestOK, Playing, InOrder, Answerable, ProcessPacket
  PROVE  SessionOK' /\ (Playing' \/ Idle') /\ InOrder' /\ Answerable' /\ Meets
<1> DEFINE p == Head(queue)
<1>1. /\ queue # <<>> /\ client' = client /\ teleports' = teleports
      /\ queue' = Tail(queue) => InOrder'
  BY TakenInOrder
<1>2. /\ p = queue[1] /\ 1 \in DOMAIN queue /\ p \in Packets
      /\ OfLogin(Tail(queue), client.login)
  BY <1>1, TakenPackets DEF Playing
<1>3. player # 0 /\ loading = 0 /\ player = client.login BY DEF Playing
<1>4. p.op \notin {"charEnum", "login"} /\ p.by = player BY <1>2, <1>3 DEF Playing, OfLogin
<1>5. ~Keep(p) BY <1>3 DEF Keep
<1>6. /\ queue' = Tail(queue) /\ last'.by = p.by /\ last'.player = player
      /\ (Allows(p) /\ Handle(p)) \/ UNCHANGED <<session, loaded, toClient>>
  BY <1>5 DEF ProcessPacket, Record
<1>7. OfLogin(queue', client.login) BY <1>2, <1>6
<1>8. Meets BY <1>3, <1>4, <1>6 DEF Meets
<1>9. ASSUME UNCHANGED <<player, loading, recent, body, toClient>>, SessionOK'
      PROVE  Playing' /\ Answerable'
  <2>1. Answerable' BY <1>1, <1>9, SameAnswers
  <2> QED BY <1>1, <1>7, <1>9, <2>1 DEF Playing
<1>10. CASE UNCHANGED <<session, loaded, toClient>>
  <2>1. UNCHANGED <<player, loading, recent, logoutTime, body, loaded, toClient>> BY <1>10 DEF session
  <2>2. SessionOK' BY <2>1 DEF SessionOK
  <2> QED BY <1>1, <1>6, <1>8, <1>9, <2>1, <2>2
<1>11. CASE Allows(p) /\ Handle(p)
  <2>1. SessionOK' BY <1>2, <1>11, HandleTypes
  <2> HIDE DEF p
  <2>2. p.op \in {"cast", "cancelTrade", "logoutRequest", "worldportAck", "teleportAck"}
    BY <1>2, <1>4, OpcodeTable DEF Packets
  <2>3. CASE p.op \in {"cast", "cancelTrade"}
    <3>1. UNCHANGED <<session, loaded, toClient>> BY <1>11, <2>3 DEF Handle
    <3> QED BY <1>10, <3>1
  <2>4. CASE p.op = "logoutRequest"
    <3>1. HandleLogoutRequestOpcode BY <1>11, <2>4 DEF Handle
    <3>2. CASE LogoutPlayer
      <4>1. Answerable' /\ Idle' BY <1>1, <1>7, <2>1, <3>2, Leaves
      <4> QED BY <1>1, <1>6, <1>8, <2>1, <4>1
    <3>3. CASE UNCHANGED <<player, loading, recent, body, toClient>>
      BY <1>1, <1>6, <1>8, <1>9, <2>1, <3>3
    <3> QED BY <3>1, <3>2, <3>3 DEF HandleLogoutRequestOpcode
  <2>5. CASE p.op = "worldportAck"
    <3>1. HandleMoveWorldportAckOpcode BY <1>11, <2>5 DEF Handle
    <3>2. UNCHANGED <<player, loading, recent>> BY <3>1 DEF HandleMoveWorldportAckOpcode
    <3>3. CASE ~body.far
      <4>1. UNCHANGED <<body, toClient>> BY <3>1, <3>3 DEF HandleMoveWorldportAckOpcode
      <4> QED BY <1>1, <1>6, <1>8, <1>9, <2>1, <3>2, <4>1
    <3>4. CASE body.far
      <4>1. PICK b \in Arrivals(body) :
              /\ body' = b
              /\ toClient' = toClient \o (IF b = Refused(body) THEN Told(b) ELSE <<>>)
        BY <3>1, <3>4 DEF HandleMoveWorldportAckOpcode
      <4> DEFINE t == IF b = Refused(body) THEN Told(b) ELSE <<>>
      <4>2. t \in Seq(Moves) /\ Len(t) \in Nat /\ Len(t) + Refusable(b) <= Refusable(body)
        BY <3>4, ArrivalsOK DEF SessionOK
      <4>3. toClient' = toClient \o t BY <4>1
      <4> HIDE DEF t
      <4>4. 0 \in Nat /\ teleports' = teleports + 0 BY <1>1 DEF RestOK
      <4>5. Refusable(body') = Refusable(b) BY <4>1
      <4>6. Refusable(body) + 2 * 0 = Refusable(body) BY DEF Refusable
      <4>7. Len(t) + Refusable(body') <= Refusable(body) + 2 * 0 BY <4>2, <4>5, <4>6
      <4>8. /\ Answerable' /\ Talk(toClient', client.shows)
            /\ client.shows = "playing" \/ (client.shows = "entering" /\ toClient' # <<>>)
        BY <1>1, <2>1, <3>2, <4>2, <4>3, <4>4, <4>7, MovesOn
      <4>9. Playing' BY <1>1, <1>3, <1>7, <3>2, <4>8 DEF Playing
      <4> QED BY <1>1, <1>6, <1>8, <2>1, <4>8, <4>9
    <3> QED BY <3>3, <3>4
  <2>6. CASE p.op = "teleportAck"
    <3>1. HandleMoveTeleportAck BY <1>11, <2>6 DEF Handle
    <3>2. /\ body' = [body EXCEPT !.near = FALSE]
          /\ UNCHANGED <<player, loading, recent, toClient>>
      BY <3>1 DEF HandleMoveTeleportAck
    <3>3. body'.far = body.far /\ body'.dest = body.dest BY <3>2 DEF SessionOK, BodyOK, Bodies
    <3>4. Answerable' BY <1>1, <3>2, <3>3 DEF Answerable, Unread, Pending, Refusable
    <3>5. Playing' BY <1>1, <1>3, <1>7, <3>2 DEF Playing
    <3> QED BY <1>1, <1>6, <1>8, <2>1, <3>4, <3>5
  <2> QED BY <2>2, <2>3, <2>4, <2>5, <2>6
<1> QED BY <1>6, <1>10, <1>11

-----------------------------------------------------------------------------
(* The other steps of the server.                                            *)

\* Loading is under way, a character is in the game: the phase says which of its own.
LEMMA PhaseOf ==
  ASSUME Phase
  PROVE  /\ (loading # 0 => Entering) /\ (player # 0 => Playing)
         /\ toClient # <<>> => Idle \/ Playing
BY DEF Phase, Idle, Choosing, ChoosingAt, Entering, Playing

LEMMA SamePhase ==
  ASSUME Phase, InOrder, Answerable,
         UNCHANGED <<queue, player, loading, recent, body, toClient, client, teleports>>
  PROVE  Phase' /\ InOrder' /\ Answerable'
<1>1. Answerable' BY SameAnswers
<1>2. InOrder' BY DEF InOrder
<1>3. Idle => Idle' BY DEF Idle
<1>4. Choosing => Choosing'
  <2>1. ASSUME NEW k \in 1..(Len(queue) + 1), ChoosingAt(k) PROVE ChoosingAt(k)'
    BY <2>1 DEF ChoosingAt, Before
  <2>2. ASSUME NEW k \in 1..(Len(queue) + 1), ChoosingAt(k) PROVE Choosing'
    BY <2>1, <2>2 DEF Choosing
  <2> QED BY <2>2 DEF Choosing
<1>5. Entering => Entering' BY DEF Entering
<1>6. Playing => Playing' BY DEF Playing
<1> QED BY <1>1, <1>2, <1>3, <1>4, <1>5, <1>6 DEF Phase

\* The end of an Update, with a logout that is due.
LEMMA EndUpdateKeeps ==
  ASSUME SessionOK, RestOK, open => Phase /\ InOrder /\ Answerable, EndUpdate
  PROVE  SessionOK' /\ RestOK' /\ (open' => Phase' /\ InOrder' /\ Answerable')
<1>1. UNCHANGED <<open, queue, loaded, teleports, client>> /\ delayed' = 0 /\ processed' = FALSE
  BY DEF EndUpdate
<1>2. pc' \in {"tasks", "map", "gone"} BY DEF EndUpdate
<1>3. RestOK'
  <2>1. 0 \in Numbers BY PacketsAssumption DEF Numbers
  <2> QED BY <1>1, <1>2, <2>1 DEF RestOK
<1>4. CASE UNCHANGED <<session, toClient>>
  <2>1. UNCHANGED <<player, loading, recent, logoutTime, body, loaded, toClient>>
    BY <1>1, <1>4 DEF session
  <2>2. SessionOK' BY <2>1 DEF SessionOK
  <2> QED BY <1>1, <1>3, <2>1, <2>2, SamePhase
<1>5. CASE player # 0 /\ LogoutPlayer
  <2>1. SessionOK' BY <1>1, <1>5, LogoutTells, NoBodyOK DEF SessionOK
  <2>2. ASSUME open PROVE Idle' /\ InOrder' /\ Answerable'
    <3>1. Phase BY <2>2
    <3>2. Playing BY <1>5, <3>1, PhaseOf
    <3>3. OfLogin(queue', client.login) BY <1>1, <3>2 DEF Playing
    <3>4. Answerable' /\ Idle' BY <1>1, <1>5, <2>1, <2>2, <3>2, <3>3, Leaves
    <3> QED BY <1>1, <2>2, <3>4 DEF InOrder
  <2> QED BY <1>1, <1>3, <2>1, <2>2 DEF Phase
<1> QED BY <1>4, <1>5 DEF EndUpdate

\* "verify", and at most one message more
Welcome(s) == \E t \in Seq(Moves) : Len(t) \in Nat /\ Len(t) <= 1 /\ s = <<"verify">> \o t

\* HandlePlayerLogin: the client is told, and may be told of one teleport more.
LEMMA LoginTells ==
  ASSUME NEW m \in Maps, NEW x, NEW r, r = <<>>, NEW s,
         LET b == [NoBody EXCEPT !.map = m, !.inWorld = TRUE]
         IN  \/ x = b /\ s = Append(r, "verify")
             \/ x = TeleportTo(b, Home) /\ s = r \o <<"verify">> \o Told(x)
  PROVE  BodyOK(x) /\ Refusable(x) = 0 /\ Welcome(s)
<1> DEFINE b == [NoBody EXCEPT !.map = m, !.inWorld = TRUE]
<1>1. BodyOK(b) /\ ~b.far BY NoBodyOK DEF BodyOK, Bodies, NoBody
<1>2. Home \in Maps /\ Home \notin Instances BY PacketsAssumption
<1>3. CASE x = b /\ s = Append(r, "verify")
  <2>1. Refusable(x) = 0 BY <1>1, <1>3 DEF Refusable
  <2>2. <<>> \in Seq(Moves) /\ Len(<<>>) = 0 BY EmptySeq
  <2>3. s = <<"verify">> \o <<>> BY <1>3
  <2>4. Len(<<>>) \in Nat /\ Len(<<>>) <= 1 BY <2>2
  <2>5. Welcome(s) BY <2>2, <2>3, <2>4 DEF Welcome
  <2> QED BY <1>1, <1>3, <2>1, <2>5
<1>4. CASE x = TeleportTo(b, Home) /\ s = r \o <<"verify">> \o Told(x)
  <2> HIDE DEF b
  <2>1. BodyOK(x) /\ x.dest = Home /\ Told(x) \in Seq(Moves) /\ Len(Told(x)) = 1
    BY <1>1, <1>2, <1>4, TeleportOK
  <2>2. Refusable(x) = 0 BY <1>2, <2>1 DEF Refusable
  <2>3. s = <<"verify">> \o Told(x)
    <3>1. <<>> \o <<"verify">> = <<"verify">> OBVIOUS
    <3> QED BY <1>4, <3>1
  <2>4. Len(Told(x)) \in Nat /\ Len(Told(x)) <= 1 BY <2>1
  <2>5. Welcome(s) BY <2>1, <2>3, <2>4 DEF Welcome
  <2> QED BY <2>1, <2>2, <2>5
<1> QED BY <1>3, <1>4

LEMMA TasksKeep ==
  ASSUME SessionOK, RestOK, open => Phase /\ InOrder /\ Answerable, Tasks
  PROVE  SessionOK' /\ RestOK' /\ (open' => Phase' /\ InOrder' /\ Answerable')
<1>1. UNCHANGED <<queue, delayed, processed, recent, logoutTime, teleports, client>> /\ pc' = "world"
  BY DEF Tasks, update
<1>2. CASE UNCHANGED <<loading, loaded, open, player, body, toClient>>
  <2>1. SessionOK' /\ RestOK' BY <1>1, <1>2 DEF SessionOK, RestOK
  <2> QED BY <1>1, <1>2, <2>1, SamePhase
<1>3. CASE loading # 0 /\ HandlePlayerLogin
  <2>1. loading' = 0 /\ loaded' = FALSE BY <1>3 DEF HandlePlayerLogin
  <2>2. CASE open' = FALSE /\ UNCHANGED <<player, body, toClient>>
    <3>1. SessionOK' /\ RestOK' BY <1>1, <2>1, <2>2, PacketsAssumption DEF SessionOK, RestOK, Logins
    <3> QED BY <2>2, <3>1
  <2>3. CASE /\ player' = loading /\ open' = open
             /\ \E m \in Maps :
                  LET b == [NoBody EXCEPT !.map = m, !.inWorld = TRUE]
                  IN  \/ body' = b /\ toClient' = Append(toClient, "verify")
                      \/ /\ m \in Instances
                         /\ body' = TeleportTo(b, Home)
                         /\ toClient' = toClient \o <<"verify">> \o Told(body')
    <3>1. PICK m \in Maps :
             LET b == [NoBody EXCEPT !.map = m, !.inWorld = TRUE]
             IN  \/ body' = b /\ toClient' = Append(toClient, "verify")
                 \/ body' = TeleportTo(b, Home) /\ toClient' = toClient \o <<"verify">> \o Told(body')
      BY <2>3
    <3>2. RestOK' BY <1>1, <2>3 DEF RestOK
    <3>3. BodyOK(body') BY <3>1, LoginTells
    <3>4. loading \in Logins /\ loading # 0 BY <1>3 DEF SessionOK
    <3>5. toClient \in Seq(Messages) /\ "verify" \in Messages BY DEF SessionOK, Messages
    <3>6. toClient' \in Seq(Messages)
      <4>1. CASE toClient' = Append(toClient, "verify") BY <3>5, <4>1, AppendProperties
      <4>2. CASE /\ toClient' = toClient \o <<"verify">> \o Told(body')
                 /\ Told(body') \in {<<"moveTeleport">>, <<"newWorld">>}
        <5>1. Told(body') \in Seq(Messages) BY <4>2 DEF Messages
        <5>2. <<"verify">> \in Seq(Messages) BY <3>5
        <5>3. toClient \o <<"verify">> \in Seq(Messages) BY <3>5, <5>2, ConcatProperties
        <5> QED BY <4>2, <5>1, <5>3, ConcatProperties
      <4>3. Told(body') \in {<<"moveTeleport">>, <<"newWorld">>} BY DEF Told
      <4> QED BY <3>1, <4>1, <4>2, <4>3
    <3>7. SessionOK' BY <1>1, <2>1, <2>3, <3>3, <3>4, <3>6 DEF SessionOK
    <3>8. ASSUME open PROVE Playing' /\ InOrder' /\ Answerable'
      <4>1. Phase /\ InOrder /\ Answerable BY <3>8
      <4>2. Entering BY <1>3, <4>1, PhaseOf
      <4>3. PICK t \in Seq(Moves) : Len(t) \in Nat /\ Len(t) <= 1 /\ toClient' = <<"verify">> \o t
        <5>1. toClient = <<>> BY <4>2 DEF Entering
        <5>2. Welcome(toClient') BY <3>1, <5>1, LoginTells
        <5> QED BY <5>2 DEF Welcome
      <4>4. Refusable(body') = 0
        <5>1. toClient = <<>> BY <4>2 DEF Entering
        <5> QED BY <3>1, <5>1, LoginTells
      <4>5. <<"verify">> \in Seq(Messages) /\ Talk(<<"verify">>, "entering") /\ Len(<<"verify">>) = 1
        <5>1. DOMAIN <<"verify">> = {1} /\ <<"verify">>[1] = "verify" OBVIOUS
        <5> QED BY <3>5, <5>1 DEF Talk
      <4> DEFINE v == <<"verify">>
      <4> HIDE DEF v
      <4>6. v # <<>> /\ v \in Seq(Messages) /\ Talk(v, "entering") /\ Len(v) = 1
        <5>1. v \in Seq(Messages) /\ Talk(v, "entering") /\ Len(v) = 1 BY <4>5 DEF v
        <5>2. v # <<>> BY DEF v
        <5> QED BY <5>1, <5>2
      <4>7. /\ Talk(v \o t, "entering") /\ Len(v \o t) = 1 + Len(t) /\ v \o t # <<>>
        BY <4>6, TalkGoesOn
      <4>8. toClient' = v \o t BY <4>3 DEF v
      <4>9. Talk(toClient', "entering") /\ Len(toClient') = 1 + Len(t) /\ toClient' # <<>>
        BY <4>7, <4>8
      <4>10. client.shows = "entering" /\ client' = client BY <1>1, <4>2 DEF Entering
      <4>11. Unread' = Len(t) BY <4>3, <4>9, <4>10 DEF Unread
      <4>12. Pending' = 1
        <5>1. player' # 0 /\ Refusable(body)' = 0 BY <2>3, <3>4, <4>4 DEF Refusable
        <5> QED BY <5>1 DEF Pending
      <4>13. Pending = 2 /\ Unread \in Nat BY <4>2, UnreadNat DEF Entering, Pending
      <4>14. Unread' + Pending' <= Unread + Pending + 2 * 0 BY <4>3, <4>11, <4>12, <4>13
      <4>15. teleports' = teleports + 0 BY <1>1, PacketsAssumption DEF RestOK
      <4>16. Answerable' BY <3>7, <4>1, <4>10, <4>14, <4>15, FewerAnswers
      <4>17. OfLogin(queue', client.login) BY <1>1, <4>2 DEF Entering, EarlyCasts, OfLogin
      <4>18. Playing'
        BY <2>1, <2>3, <4>2, <4>9, <4>10, <4>17 DEF Playing, Entering
      <4> QED BY <1>1, <4>1, <4>16, <4>18 DEF InOrder
    <3> QED BY <2>3, <3>2, <3>7, <3>8 DEF Phase
  <2> QED BY <1>3, <2>2, <2>3 DEF HandlePlayerLogin
<1> QED BY <1>2, <1>3 DEF Tasks

-----------------------------------------------------------------------------
(* What happens beside Update.                                               *)

LEMMA LoadKeeps ==
  ASSUME SessionOK, RestOK, open => Phase /\ InOrder /\ Answerable, Load
  PROVE  SessionOK' /\ RestOK' /\ (open' => Phase' /\ InOrder' /\ Answerable')
<1>1. /\ loaded' = TRUE
      /\ UNCHANGED <<pc, open, queue, delayed, processed, player, loading, recent, logoutTime, body,
                     teleports, client, toClient>>
  BY DEF Load, update, session
<1>2. SessionOK' /\ RestOK' BY <1>1 DEF SessionOK, RestOK
<1> QED BY <1>1, <1>2, SamePhase

LEMMA DisconnectKeeps ==
  ASSUME SessionOK, RestOK, Disconnect
  PROVE  SessionOK' /\ RestOK' /\ open' = FALSE
<1>1. /\ open' = FALSE
      /\ UNCHANGED <<pc, queue, delayed, processed, player, loading, recent, logoutTime, body, loaded,
                     teleports, client, toClient>>
  BY DEF Disconnect, update, session
<1> QED BY <1>1 DEF SessionOK, RestOK

LEMMA TeleportKeeps ==
  ASSUME SessionOK, RestOK, open => Phase /\ InOrder /\ Answerable,
         NEW map \in Maps, Teleport(map)
  PROVE  SessionOK' /\ RestOK' /\ (open' => Phase' /\ InOrder' /\ Answerable')
<1>1. /\ player # 0 /\ body.inWorld /\ teleports < MaxTeleports /\ teleports' = teleports + 1
      /\ body' = TeleportTo(body, map) /\ toClient' = toClient \o Told(body')
      /\ UNCHANGED <<pc, open, queue, delayed, processed, player, loading, recent, logoutTime, loaded, client>>
  BY DEF Teleport, update
<1>2. /\ BodyOK(body') /\ Told(body') \in Seq(Moves) /\ Len(Told(body')) = 1
  <2>1. BodyOK(body) /\ ~body.far BY <1>1 DEF SessionOK, BodyOK
  <2> QED BY <1>1, <2>1, TeleportOK
<1> DEFINE t == Told(body')
<1> HIDE DEF t
<1>3. t \in Seq(Moves) /\ Len(t) = 1 /\ toClient' = toClient \o t BY <1>1, <1>2 DEF t
<1>4. t \in Seq(Messages) BY <1>3, SeqMonotonic DEF Moves, Messages
<1>5. toClient' \in Seq(Messages) BY <1>3, <1>4, ConcatProperties DEF SessionOK
<1>6. SessionOK' BY <1>1, <1>2, <1>5 DEF SessionOK
<1>7. RestOK'
  <2>1. teleports' \in 0..MaxTeleports BY <1>1, PacketsAssumption DEF RestOK
  <2> QED BY <1>1, <2>1 DEF RestOK
<1>8. ASSUME open PROVE Playing' /\ InOrder' /\ Answerable'
  <2>1. Phase /\ InOrder /\ Answerable BY <1>8
  <2>2. Playing BY <1>1, <2>1, PhaseOf
  <2>3. Len(t) + Refusable(body') <= Refusable(body) + 2 * 1
    <3>1. Refusable(body') \in 0..1 /\ Refusable(body) \in 0..1 BY DEF Refusable
    <3> QED BY <1>3, <3>1
  <2>4. /\ Answerable' /\ Talk(toClient', client.shows)
        /\ client.shows = "playing" \/ (client.shows = "entering" /\ toClient' # <<>>)
    BY <1>1, <1>3, <1>6, <2>1, <2>2, <2>3, MovesOn
  <2>5. Playing' BY <1>1, <2>2, <2>4 DEF Playing
  <2> QED BY <1>1, <2>1, <2>4, <2>5 DEF InOrder
<1> QED BY <1>1, <1>6, <1>7, <1>8 DEF Phase

-----------------------------------------------------------------------------
(* The client.                                                               *)

\* What the client answers is bounded by what it may still be told.
LEMMA NumberOK ==
  ASSUME NEW sent \in Nat, NEW answers \in 0..sent, NEW others \in Nat,
         NEW told \in 0..MaxTeleports, NEW login \in Logins,
         sent - answers <= MaxSent, answers + others <= 2 * told + 2 * login
  PROVE  sent \in Numbers
<1>1. ASSUME NEW s \in Nat, NEW a \in Nat, NEW o \in Nat, NEW t \in Nat, NEW l \in Nat,
             NEW S \in Nat, NEW T \in Nat, NEW L \in Nat,
             s - a <= S, a + o <= 2 * t + 2 * l, t <= T, l <= L
      PROVE  s <= S + 2 * T + 2 * L
  BY <1>1
<1>2. answers \in Nat /\ told \in Nat /\ told <= MaxTeleports /\ login \in Nat /\ login <= MaxLogins
  BY PacketsAssumption DEF Logins
<1>3. sent <= MaxSent + 2 * MaxTeleports + 2 * MaxLogins BY <1>1, <1>2, PacketsAssumption
<1> QED BY <1>3, PacketsAssumption DEF Numbers

\* A packet of its own accord, or an answer to the message it reads.
LEMMA Answers ==
  ASSUME SessionOK, RestOK, Answerable, SessionOK', teleports' = teleports,
         client'.login \in Logins, NEW logins \in {0, 1}, client'.login = client.login + logins,
         client'.sent = client.sent + 1,
         \/ client.sent < MaxSent /\ Unread' + Pending' <= Unread + Pending + 2 * logins
         \/ Unread' + Pending' + 1 <= Unread + Pending + 2 * logins
  PROVE  Answerable' /\ client'.sent \in Numbers
<1>1. PICK answers \in 0..client.sent :
        /\ client.sent - answers <= MaxSent
        /\ answers + Unread + Pending <= 2 * teleports + 2 * client.login
  BY DEF Answerable
<1>2. Unread \in Nat /\ Pending \in Nat BY UnreadNat
<1>3. Unread' \in Nat /\ Pending' \in Nat
  <2>1. Len(toClient') \in Nat /\ (toClient' # <<>> => Len(toClient') \in Nat \ {0})
    BY EmptySeq, LenProperties DEF SessionOK
  <2>2. Refusable(body)' \in Nat BY DEF Refusable
  <2> QED BY <2>1, <2>2 DEF Unread, Pending
<1>4. /\ teleports \in 0..MaxTeleports /\ teleports \in Nat /\ client.login \in Nat
      /\ client.sent \in Nat /\ answers \in Nat /\ answers <= client.sent
  BY PacketsAssumption DEF RestOK, Logins, Numbers
<1> DEFINE u == Unread
           p == Pending
           v == Unread'
           q == Pending'
<1>5. PICK b \in 0..(client.sent + 1) :
        /\ client.sent + 1 - b <= MaxSent
        /\ b + (v + q) <= 2 * teleports + 2 * (client.login + logins)
  <2> HIDE DEF u, p, v, q
  <2>1. u \in Nat /\ p \in Nat /\ v \in Nat /\ q \in Nat BY <1>2, <1>3 DEF u, p, v, q
  <2>2. answers + u + p <= 2 * teleports + 2 * client.login BY <1>1 DEF u, p
  <2>3. CASE client.sent < MaxSent /\ v + q <= u + p + 2 * logins
    <3>1. answers \in 0..(client.sent + 1) BY <1>4
    <3>2. client.sent + 1 - answers <= MaxSent BY <1>4, <2>3, PacketsAssumption
    <3>3. answers + (v + q) <= 2 * teleports + 2 * (client.login + logins)
      BY <1>4, <2>1, <2>2, <2>3
    <3> QED BY <3>1, <3>2, <3>3
  <2>4. CASE v + q + 1 <= u + p + 2 * logins
    <3>1. answers + 1 \in 0..(client.sent + 1) BY <1>4
    <3>2. client.sent + 1 - (answers + 1) <= MaxSent BY <1>1, <1>4, PacketsAssumption
    <3>3. (answers + 1) + (v + q) <= 2 * teleports + 2 * (client.login + logins)
      BY <1>4, <2>1, <2>2, <2>4
    <3> QED BY <3>1, <3>2, <3>3
  <2> QED BY <2>3, <2>4 DEF u, p, v, q
<1>6. v \in Nat /\ q \in Nat BY <1>3
<1>7. client'.sent \in Nat /\ b \in 0..client'.sent /\ client'.sent - b <= MaxSent
  <2>1. client'.sent = client.sent + 1 OBVIOUS
  <2>2. client.sent + 1 - b <= MaxSent BY <1>5
  <2>3. b \in 0..(client.sent + 1) OBVIOUS
  <2>4. client'.sent \in Nat /\ b \in 0..client'.sent BY <1>4, <2>1, <2>3
  <2>5. client'.sent - b <= MaxSent BY <1>4, <2>1, <2>2, <2>3
  <2> QED BY <2>4, <2>5
<1>9. client'.sent \in Numbers
  <2> HIDE DEF v, q
  <2>1. v + q \in Nat BY <1>6
  <2>2. ASSUME NEW others \in Nat, others = v + q, NEW login \in Logins, login = client.login + logins
        PROVE  client'.sent \in Numbers
    <3>1. b + others <= 2 * teleports + 2 * login BY <1>5, <2>2, Zenon
    <3> QED BY <1>4, <1>7, <3>1, NumberOK
  <2> QED BY <2>1, <2>2
<1>8. Answerable'
  <2>1. b + v + q <= 2 * teleports' + 2 * client'.login
    <3> HIDE DEF v, q
    <3>1. b \in Nat BY <1>4, <1>5
    <3>2. b + v + q = b + (v + q) BY <1>6, <3>1
    <3> QED BY <1>5, <3>2
  <2>2. /\ b \in 0..client'.sent /\ client'.sent - b <= MaxSent
        /\ b + Unread' + Pending' <= 2 * teleports' + 2 * client'.login
    BY <1>7, <2>1
  <2> QED BY <2>2 DEF Answerable
<1> QED BY <1>8, <1>9

\* WorldSocket::ProcessIncoming: the packet that is queued.
LEMMA SendOK ==
  ASSUME RestOK, InOrder, NEW op \in Opcodes, NEW shows \in {"start", "list", "entering", "playing"},
         Send(op, shows), UNCHANGED <<pc, open, delayed, processed, teleports>>,
         client'.sent \in Numbers, client'.login \in Logins
  PROVE  /\ RestOK' /\ InOrder'
         /\ \E e \in Packets : /\ queue' = Append(queue, e) /\ e.op = op /\ e.by = client'.login
                               /\ e.early = (client.shows = "entering")
<1> DEFINE e == [Packet(op) EXCEPT !.by = IF op = "login" THEN @ + 1 ELSE @]
<1>1. queue' = Append(queue, e) BY DEF Send
<1>2. /\ client' = [sent |-> client.sent + 1, shows |-> shows,
                    login |-> IF op = "login" THEN client.login + 1 ELSE client.login]
  BY DEF Send
<1>3. /\ e.n = client.sent + 1 /\ e.op = op /\ e.early = (client.shows = "entering")
      /\ e.by = IF op = "login" THEN client.login + 1 ELSE client.login
      /\ e = [n |-> e.n, op |-> e.op, by |-> e.by, early |-> e.early]
  BY DEF Packet
<1>4. e.by = client'.login /\ e.n = client'.sent BY <1>2, <1>3
<1>5. e \in Packets
  <2> HIDE DEF e
  <2>1. e.n \in Numbers /\ e.op \in Opcodes /\ e.by \in Logins /\ e.early \in BOOLEAN
    BY <1>3, <1>4
  <2> QED BY <1>3, <2>1 DEF Packets
<1> HIDE DEF e
<1>6. queue \in Seq(Packets) /\ client.sent \in Nat BY PacketsAssumption DEF RestOK, Numbers
<1>7. queue' \in Seq(Packets) BY <1>1, <1>5, <1>6, AppendProperties
<1>8. RestOK' BY <1>2, <1>7 DEF RestOK
<1>9. InOrder'
  <2>1. \A x \in Packets : x.n \in Nat BY PacketsAssumption DEF Packets, Numbers
  <2>2. Ordered(Append(queue, e), client.sent + 1)
    BY <1>3, <1>5, <1>6, <2>1, OrderSent DEF InOrder
  <2> QED BY <1>1, <1>2, <2>2 DEF InOrder
<1> QED BY <1>1, <1>3, <1>4, <1>5, <1>8, <1>9

\* One packet more of the same login.
LEMMA OneMore ==
  ASSUME NEW s \in Seq(Packets), NEW e \in Packets, NEW login, e.by = login
  PROVE  /\ OfLogin(s, login) /\ e.op \notin {"charEnum", "login"} => OfLogin(Append(s, e), login)
         /\ EarlyCasts(s, login) /\ e.op = "cast" /\ e.early => EarlyCasts(Append(s, e), login)
         /\ Append(s, e) # <<>>
<1>1. /\ Append(s, e)[Len(s) + 1] = e /\ \A i \in DOMAIN s : Append(s, e)[i] = s[i]
      /\ \A i \in DOMAIN Append(s, e) : i \in DOMAIN s \/ i = Len(s) + 1
      /\ Append(s, e) # <<>>
  BY AppendElements
<1> QED BY <1>1 DEF OfLogin, EarlyCasts

\* The client asks for its characters, chooses one, plays, and asks to leave.
LEMMA AsksForCharacters ==
  ASSUME SessionOK, RestOK, Phase, client.shows = "start", NEW e \in Packets,
         queue' = Append(queue, e), e.op = "charEnum", e.by = client.login,
         client'.shows = "list", client'.login = client.login,
         UNCHANGED <<player, loading, recent, body, toClient>>
  PROVE  Choosing'
<1>1. Idle BY DEF Phase, Choosing, ChoosingAt, Entering, Playing
<1>2. queue \in Seq(Packets) BY DEF RestOK
<1>3. /\ Len(queue') = Len(queue) + 1 /\ Len(queue) \in Nat /\ queue'[Len(queue) + 1] = e
      /\ \A i \in DOMAIN queue : i \in 1..Len(queue) /\ queue'[i] = queue[i]
      /\ \A i \in DOMAIN queue' : i \in DOMAIN queue \/ i = Len(queue) + 1
  BY <1>2, AppendElements
<1>4. PICK k \in 1..(Len(queue') + 1) : k = Len(queue) + 2 /\ k = Len(queue') + 1 BY <1>3
<1>5. ASSUME NEW i \in DOMAIN queue'
      PROVE  /\ i < k /\ ~(i = k) /\ ~(i > k)
             /\ queue'[i].by = client.login /\ queue'[i].op # "login"
             /\ queue'[i].op = "charEnum" <=> i = k - 1
  <2>1. CASE i \in DOMAIN queue
    <3>1. i < k /\ ~(i = k) /\ ~(i > k) /\ ~(i = k - 1) BY <1>3, <1>4, <2>1
    <3>2. queue'[i] = queue[i] BY <1>3, <2>1
    <3> QED BY <1>1, <2>1, <3>1, <3>2 DEF Idle, OfLogin
  <2>2. CASE i = Len(queue) + 1
    <3>1. i < k /\ ~(i = k) /\ ~(i > k) /\ i = k - 1 BY <1>3, <1>4, <2>2
    <3> QED BY <1>3, <2>2, <3>1
  <2> QED BY <1>3, <2>1, <2>2
<1>6. IF recent THEN k > 1 /\ client.login # 0 ELSE k <= 2
  <2>1. k > 1 BY <1>3, <1>4
  <2>2. recent => client.login # 0 BY <1>1 DEF Idle
  <2>3. ASSUME ~recent PROVE k <= 2
    <3>1. queue = <<>> BY <1>1, <2>3 DEF Idle
    <3>2. Len(queue) = 0 BY <1>2, <3>1, EmptySeq
    <3> QED BY <1>4, <3>2
  <2> QED BY <2>1, <2>2, <2>3
<1>7. player' = 0 /\ loading' = 0 /\ toClient' = <<>> BY <1>1 DEF Idle
<1>8. Before' = client.login BY DEF Before
<1>9. ChoosingAt(k)' BY <1>4, <1>5, <1>6, <1>7, <1>8 DEF ChoosingAt
<1> QED BY <1>4, <1>9 DEF Choosing

LEMMA ChoosesOne ==
  ASSUME SessionOK, RestOK, Phase, client.shows = "list", NEW e \in Packets,
         queue' = Append(queue, e), e.op = "login", e.by = client.login + 1,
         client'.shows = "entering", client'.login = client.login + 1,
         UNCHANGED <<player, loading, recent, body, toClient>>
  PROVE  Choosing' /\ Choosing
<1>1. Choosing BY DEF Phase, Idle, Entering, Playing
<1>2. PICK k \in 1..(Len(queue) + 1) : ChoosingAt(k) BY <1>1 DEF Choosing
<1>3. queue \in Seq(Packets) /\ client.login \in Nat BY DEF RestOK, Logins
<1>4. /\ Len(queue') = Len(queue) + 1 /\ Len(queue) \in Nat /\ queue'[Len(queue) + 1] = e
      /\ \A i \in DOMAIN queue : i \in 1..Len(queue) /\ queue'[i] = queue[i]
      /\ \A i \in DOMAIN queue' : i \in DOMAIN queue \/ i = Len(queue) + 1
  BY <1>3, AppendElements
<1>5. k = Len(queue) + 1 BY <1>2 DEF ChoosingAt
<1>6. Before = client.login /\ Before' = client.login BY <1>3 DEF Before
<1>7. ASSUME NEW i \in DOMAIN queue'
      PROVE  /\ i < k => /\ queue'[i].by = Before /\ queue'[i].op # "login"
                         /\ queue'[i].op = "charEnum" <=> i = k - 1
             /\ i = k => queue'[i].by = client'.login /\ queue'[i].op = "login"
             /\ ~(i > k)
  <2>1. CASE i \in DOMAIN queue
    <3>1. i < k /\ ~(i = k) /\ ~(i > k) BY <1>4, <1>5, <2>1
    <3>2. queue'[i] = queue[i] BY <1>4, <2>1
    <3> QED BY <1>2, <2>1, <3>1, <3>2 DEF ChoosingAt
  <2>2. CASE i = Len(queue) + 1
    <3>1. ~(i < k) /\ i = k /\ ~(i > k) BY <1>4, <1>5, <2>2
    <3> QED BY <1>4, <2>2, <3>1
  <2> QED BY <1>4, <2>1, <2>2
<1>8. k \in 1..(Len(queue') + 1) /\ k <= Len(queue') /\ client'.login # 0 BY <1>3, <1>4, <1>5
<1>9. /\ player' = 0 /\ loading' = 0 /\ toClient' = <<>>
      /\ IF recent' THEN k > 1 /\ Before' # 0 ELSE k <= 2
  BY <1>2, <1>6 DEF ChoosingAt
<1>10. ChoosingAt(k)' BY <1>6, <1>7, <1>8, <1>9 DEF ChoosingAt
<1> QED BY <1>1, <1>8, <1>10 DEF Choosing

LEMMA PlaysOn ==
  ASSUME SessionOK, RestOK, Phase, client.shows \in {"entering", "playing"}, NEW e \in Packets,
         queue' = Append(queue, e), e.by = client.login, e.early = (client.shows = "entering"),
         e.op = "cast" \/ (e.op = "logoutRequest" /\ client.shows = "playing"),
         client'.shows = client.shows, client'.login = client.login,
         UNCHANGED <<player, loading, recent, body, toClient>>
  PROVE  Phase'
<1>1. queue \in Seq(Packets) BY DEF RestOK
<1>2. e.op \notin {"charEnum", "login"} OBVIOUS
<1>3. /\ OfLogin(queue, client.login) => OfLogin(queue', client.login)
      /\ EarlyCasts(queue, client.login) /\ e.op = "cast" /\ e.early => EarlyCasts(queue', client.login)
  BY <1>1, <1>2, OneMore
<1>4. CASE Idle
  <2>1. Idle' BY <1>3, <1>4 DEF Idle
  <2> QED BY <2>1 DEF Phase
<1>5. CASE Choosing
  <2>1. PICK k \in 1..(Len(queue) + 1) : ChoosingAt(k) BY <1>5 DEF Choosing
  <2>2. client.shows = "entering" /\ k <= Len(queue) /\ client.login # 0 /\ e.op = "cast" /\ e.early
    BY <2>1 DEF ChoosingAt
  <2>3. /\ Len(queue') = Len(queue) + 1 /\ Len(queue) \in Nat /\ queue'[Len(queue) + 1] = e
        /\ \A i \in DOMAIN queue : i \in 1..Len(queue) /\ queue'[i] = queue[i]
        /\ \A i \in DOMAIN queue' : i \in DOMAIN queue \/ i = Len(queue) + 1
    BY <1>1, AppendElements
  <2>4. Before' = Before BY DEF Before
  <2>5. k \in 1..(Len(queue') + 1) /\ k <= Len(queue') BY <2>2, <2>3
  <2>6. ASSUME NEW i \in DOMAIN queue'
        PROVE  /\ i < k => /\ queue'[i].by = Before /\ queue'[i].op # "login"
                           /\ queue'[i].op = "charEnum" <=> i = k - 1
               /\ i = k => queue'[i].by = client.login /\ queue'[i].op = "login"
               /\ i > k => /\ queue'[i].by = client.login /\ queue'[i].op = "cast" /\ queue'[i].early
    <3>1. CASE i \in DOMAIN queue
      <4>1. queue'[i] = queue[i] BY <2>3, <3>1
      <4> QED BY <2>1, <3>1, <4>1 DEF ChoosingAt
    <3>2. CASE i = Len(queue) + 1
      <4>1. ~(i < k) /\ ~(i = k) BY <2>2, <2>3, <3>2
      <4> QED BY <2>2, <2>3, <3>2, <4>1
    <3> QED BY <2>3, <3>1, <3>2
  <2>7. /\ player' = 0 /\ loading' = 0 /\ toClient' = <<>>
        /\ IF recent' THEN k > 1 /\ Before' # 0 ELSE k <= 2
    BY <2>1, <2>4 DEF ChoosingAt
  <2>8. ChoosingAt(k)' BY <2>2, <2>4, <2>5, <2>6, <2>7 DEF ChoosingAt
  <2> QED BY <2>5, <2>8 DEF Phase, Choosing
<1>6. CASE Entering
  <2>1. e.op = "cast" /\ e.early BY <1>6 DEF Entering
  <2>2. Entering' BY <1>3, <1>6, <2>1 DEF Entering
  <2> QED BY <2>2 DEF Phase
<1>7. CASE Playing
  <2>1. Playing' BY <1>3, <1>7 DEF Playing
  <2> QED BY <2>1 DEF Phase
<1> QED BY <1>4, <1>5, <1>6, <1>7 DEF Phase

LEMMA ClientSendsKeeps ==
  ASSUME SessionOK, RestOK, open => Phase /\ InOrder /\ Answerable, ClientSends
  PROVE  SessionOK' /\ RestOK' /\ (open' => Phase' /\ InOrder' /\ Answerable')
<1>1. /\ open /\ client.sent < MaxSent
      /\ UNCHANGED <<pc, open, delayed, processed, player, loading, recent, logoutTime, body, loaded,
                     teleports, toClient>>
  BY DEF ClientSends, server, session, update
<1>2. Phase /\ InOrder /\ Answerable BY <1>1
<1>3. SessionOK' BY <1>1 DEF SessionOK
<1>4. client.login \in Logins /\ client.login \in Nat /\ client.login + 0 = client.login
  BY PacketsAssumption DEF RestOK, Logins
<1>5. Unread \in Nat /\ Pending \in Nat BY UnreadNat
<1>6. ASSUME NEW op \in Opcodes, NEW shows \in {"start", "list", "entering", "playing"}, Send(op, shows)
      PROVE  /\ client'.sent = client.sent + 1 /\ client'.shows = shows
             /\ client'.login = IF op = "login" THEN client.login + 1 ELSE client.login
  BY <1>6 DEF Send
<1>7. ASSUME NEW op \in Opcodes, NEW shows \in {"start", "list", "entering", "playing"}, Send(op, shows),
             Answerable', client'.sent \in Numbers, client'.login \in Logins,
             \A e \in Packets : /\ queue' = Append(queue, e) /\ e.op = op /\ e.by = client'.login
                                /\ e.early = (client.shows = "entering")
                                => Phase'
      PROVE  RestOK' /\ Phase' /\ InOrder' /\ Answerable'
  BY <1>1, <1>2, <1>7, SendOK
<1>8. CASE client.shows = "start" /\ Send("charEnum", "list")
  <2>1. "charEnum" \in Opcodes BY OpcodeTable
  <2>2. client'.sent = client.sent + 1 /\ client'.shows = "list" /\ client'.login = client.login
    BY <1>6, <1>8, <2>1
  <2>3. Unread' = Unread /\ Pending' = Pending BY <1>1, <1>8, <2>2 DEF Unread, Pending, Refusable
  <2>4. Unread' + Pending' <= Unread + Pending + 2 * 0 BY <1>5, <2>3
  <2>5. Answerable' /\ client'.sent \in Numbers
    BY <1>1, <1>2, <1>3, <1>4, <2>2, <2>4, Answers
  <2>6. ASSUME NEW e \in Packets, queue' = Append(queue, e), e.op = "charEnum", e.by = client'.login
        PROVE  Phase'
    BY <1>1, <1>2, <1>8, <2>2, <2>6, AsksForCharacters DEF Phase
  <2> QED BY <1>3, <1>4, <1>7, <1>8, <2>1, <2>2, <2>5, <2>6
<1>9. CASE client.shows = "list" /\ client.login < MaxLogins /\ Send("login", "entering")
  <2>1. "login" \in Opcodes BY OpcodeTable
  <2>2. client'.sent = client.sent + 1 /\ client'.shows = "entering" /\ client'.login = client.login + 1
    BY <1>6, <1>9, <2>1
  <2>3. client'.login \in Logins BY <1>4, <1>9, <2>2, PacketsAssumption DEF Logins
  <2>4. toClient = <<>> /\ player = 0
    BY <1>2, <1>9 DEF Phase, Idle, Choosing, ChoosingAt, Entering, Playing
  <2>5. Unread' = Unread /\ Pending' = 2 /\ Pending = 0
    BY <1>1, <1>9, <2>2, <2>4 DEF Unread, Pending
  <2>6. Unread' + Pending' <= Unread + Pending + 2 * 1 BY <1>5, <2>5
  <2>7. Answerable' /\ client'.sent \in Numbers
    BY <1>1, <1>2, <1>3, <2>2, <2>3, <2>6, Answers
  <2>8. ASSUME NEW e \in Packets, queue' = Append(queue, e), e.op = "login", e.by = client'.login
        PROVE  Phase'
    BY <1>1, <1>2, <1>9, <2>2, <2>8, ChoosesOne DEF Phase
  <2> QED BY <1>3, <1>7, <1>9, <2>1, <2>3, <2>7, <2>8
<1>10. ASSUME client.shows \in {"entering", "playing"}, NEW op \in {"cast", "logoutRequest"},
              op = "cast" \/ client.shows = "playing", Send(op, client.shows)
       PROVE  RestOK' /\ Phase' /\ InOrder' /\ Answerable'
  <2>1. op \in Opcodes BY OpcodeTable
  <2>2. client'.sent = client.sent + 1 /\ client'.shows = client.shows /\ client'.login = client.login
    BY <1>6, <1>10, <2>1
  <2>3. Unread' = Unread /\ Pending' = Pending BY <1>1, <2>2 DEF Unread, Pending, Refusable
  <2>4. Unread' + Pending' <= Unread + Pending + 2 * 0 BY <1>5, <2>3
  <2>5. Answerable' /\ client'.sent \in Numbers
    BY <1>1, <1>2, <1>3, <1>4, <2>2, <2>4, Answers
  <2>6. ASSUME NEW e \in Packets, queue' = Append(queue, e), e.op = op, e.by = client'.login,
               e.early = (client.shows = "entering")
        PROVE  Phase'
    BY <1>1, <1>2, <1>10, <2>2, <2>6, PlaysOn
  <2> QED BY <1>4, <1>7, <1>10, <2>1, <2>2, <2>5, <2>6
<1> QED BY <1>3, <1>8, <1>9, <1>10 DEF ClientSends

\* The client reads a message while its character plays, or after it has left.
LEMMA ReadsTalk ==
  ASSUME SessionOK, RestOK, Playing, toClient # <<>>, toClient' = Tail(toClient),
         client'.login = client.login, UNCHANGED <<player, loading, recent, body>>,
         \/ Head(toClient) = "verify" /\ client'.shows = "playing" /\ queue' = queue
         \/ /\ Head(toClient) # "verify" /\ client'.shows = client.shows
            /\ \E e \in Packets : /\ queue' = Append(queue, e) /\ e.by = client.login
                                  /\ e.op \notin {"charEnum", "login"}
  PROVE  Playing' /\ client'.shows = "playing" /\ Head(toClient) # "loggedOut"
<1>1. toClient \in Seq(Messages) /\ queue \in Seq(Packets) BY DEF SessionOK, RestOK
<1>2. /\ (Head(toClient) = "verify" <=> client.shows = "entering") /\ Head(toClient) \in Moves \cup {"verify"}
      /\ \A now : now # "entering" => Talk(Tail(toClient), now)
  BY <1>1, TalkRead DEF Playing
<1>3. OfLogin(queue', client.login) BY <1>1, OneMore DEF Playing
<1>4. client'.shows = "playing" BY <1>2 DEF Playing
<1>5. Playing' BY <1>2, <1>3, <1>4 DEF Playing
<1> QED BY <1>2, <1>4, <1>5 DEF Moves

LEMMA ReadsFarewell ==
  ASSUME SessionOK, RestOK, Idle, toClient # <<>>, toClient' = Tail(toClient),
         client'.login = client.login, UNCHANGED <<player, loading, recent, body>>,
         \/ Head(toClient) = "verify" /\ client'.shows = "playing" /\ queue' = queue
         \/ /\ Head(toClient) # "verify"
            /\ client'.shows = IF Head(toClient) = "loggedOut" THEN "start" ELSE client.shows
            /\ \E e \in Packets : /\ queue' = Append(queue, e) /\ e.by = client.login
                                  /\ e.op \notin {"charEnum", "login"}
  PROVE  Idle' /\ (Head(toClient) # "verify" => client.shows = "playing")
<1>1. toClient \in Seq(Messages) /\ queue \in Seq(Packets) BY DEF SessionOK, RestOK
<1>2. /\ (Head(toClient) = "verify" <=> client.shows = "entering") /\ Head(toClient) \in Messages
      /\ \A now : now # "entering" => Farewell(Tail(toClient), now)
      /\ Head(toClient) = "loggedOut" <=> Tail(toClient) = <<>>
  BY <1>1, FarewellRead DEF Idle
<1>3. OfLogin(queue', client.login) BY <1>1, OneMore DEF Idle
<1>4. client.shows \in {"entering", "playing"} /\ recent BY DEF Idle, RestOK
<1>5. /\ client'.shows \in {"start", "playing"}
      /\ client'.shows = "start" <=> Head(toClient) = "loggedOut"
  BY <1>2, <1>4
<1>6. Idle' BY <1>2, <1>3, <1>4, <1>5 DEF Idle
<1> QED BY <1>2, <1>4, <1>6

LEMMA ClientReadsKeeps ==
  ASSUME SessionOK, RestOK, open => Phase /\ InOrder /\ Answerable, ClientReads
  PROVE  SessionOK' /\ RestOK' /\ (open' => Phase' /\ InOrder' /\ Answerable')
<1>1. /\ open /\ toClient # <<>> /\ toClient' = Tail(toClient)
      /\ UNCHANGED <<pc, open, delayed, processed, player, loading, recent, logoutTime, body, loaded,
                     teleports>>
  BY DEF ClientReads, server, session, update
<1>2. Phase /\ InOrder /\ Answerable BY <1>1
<1>3. /\ toClient \in Seq(Messages) /\ Tail(toClient) \in Seq(Messages) /\ Head(toClient) \in Messages
      /\ Len(toClient') = Len(toClient) - 1 /\ Len(toClient) \in Nat \ {0}
  <2>1. toClient \in Seq(Messages) BY DEF SessionOK
  <2> QED BY <1>1, <2>1, TailElements
<1>4. SessionOK' BY <1>1, <1>3 DEF SessionOK
<1>5. client.login \in Logins /\ client.login + 0 = client.login
  BY PacketsAssumption DEF RestOK, Logins
<1>6. Idle \/ Playing BY <1>1, <1>2, PhaseOf
<1>7. Unread \in Nat /\ Pending \in Nat BY UnreadNat
<1>8. CASE Head(toClient) = "verify"
  <2>1. client' = [client EXCEPT !.shows = "playing"] /\ queue' = queue
    BY <1>8 DEF ClientReads
  <2>2. /\ client'.shows = "playing" /\ client'.login = client.login /\ client'.sent = client.sent
        /\ client' \in [shows : {"start", "list", "entering", "playing"}, login : Logins, sent : Numbers]
    BY <2>1 DEF RestOK
  <2>3. RestOK' BY <1>1, <2>1, <2>2 DEF RestOK
  <2>4. Phase' /\ client.shows = "entering"
    <3>1. CASE Playing
      <4>1. Playing' BY <1>1, <1>8, <2>1, <2>2, <3>1, ReadsTalk
      <4>2. client.shows = "entering" BY <1>1, <1>3, <1>8, <3>1, TalkRead DEF Playing
      <4> QED BY <4>1, <4>2 DEF Phase
    <3>2. CASE Idle
      <4>1. Idle' BY <1>1, <1>8, <2>1, <2>2, <3>2, ReadsFarewell
      <4>2. client.shows = "entering" BY <1>1, <1>3, <1>8, <3>2, FarewellRead DEF Idle
      <4> QED BY <4>1, <4>2 DEF Phase
    <3> QED BY <1>6, <3>1, <3>2
  <2>5. Unread' = Unread /\ Pending' = Pending
    BY <1>1, <1>3, <2>2, <2>4 DEF Unread, Pending, Refusable
  <2>6. Answerable' BY <1>1, <1>2, <2>2, <2>5 DEF Answerable
  <2>7. InOrder' BY <1>2, <2>1, <2>2 DEF InOrder
  <2> QED BY <1>4, <2>3, <2>4, <2>6, <2>7
<1>9. ASSUME NEW op \in {"worldportAck", "teleportAck", "cancelTrade"}, Head(toClient) # "verify",
             Send(op, IF Head(toClient) = "loggedOut" THEN "start" ELSE client.shows)
      PROVE  RestOK' /\ Phase' /\ InOrder' /\ Answerable'
  <2> DEFINE shows == IF Head(toClient) = "loggedOut" THEN "start" ELSE client.shows
  <2>1. op \in Opcodes /\ op # "login" BY OpcodeTable
  <2>2. client'.sent = client.sent + 1 /\ client'.shows = shows /\ client'.login = client.login
    BY <1>9, <2>1 DEF Send
  <2>3. shows \in {"start", "list", "entering", "playing"} BY DEF RestOK
  <2>4. client.shows = "playing"
    <3>1. CASE Playing BY <1>1, <1>3, <1>9, <3>1, TalkRead DEF Playing
    <3>2. CASE Idle
      <4>1. client.shows # "entering" BY <1>1, <1>3, <1>9, <3>2, FarewellRead DEF Idle
      <4> QED BY <1>1, <3>2, <4>1 DEF Idle, RestOK
    <3> QED BY <1>6, <3>1, <3>2
  <2>5. Unread = Len(toClient) /\ Unread' = Len(toClient) - 1 /\ Pending' = Pending
    <3>1. shows # "entering" BY <2>4
    <3> HIDE DEF shows
    <3>2. Unread = Len(toClient) BY <2>4 DEF Unread
    <3>3. Unread' = Len(toClient) - 1 BY <1>3, <2>2, <3>1 DEF Unread
    <3>4. Pending' = Pending BY <1>1, <2>2, <2>4, <3>1 DEF Pending, Refusable
    <3> QED BY <3>2, <3>3, <3>4
  <2>6. Unread' + Pending' + 1 <= Unread + Pending + 2 * 0 BY <1>3, <1>7, <2>5
  <2>7. Answerable' /\ client'.sent \in Numbers
    BY <1>1, <1>2, <1>4, <1>5, <2>2, <2>6, Answers
  <2>8. /\ RestOK' /\ InOrder'
        /\ \E e \in Packets : /\ queue' = Append(queue, e) /\ e.op = op /\ e.by = client'.login
                              /\ e.early = (client.shows = "entering")
    BY <1>1, <1>2, <1>5, <1>9, <2>1, <2>2, <2>3, <2>7, SendOK
  <2>9. \E e \in Packets : /\ queue' = Append(queue, e) /\ e.by = client.login
                           /\ e.op \notin {"charEnum", "login"}
    BY <2>2, <2>8
  <2>10. Phase'
    <3>1. CASE Playing
      <4>1. Head(toClient) # "loggedOut" BY <1>1, <1>3, <3>1, TalkRead DEF Playing, Moves
      <4>2. client'.shows = client.shows BY <2>2, <4>1
      <4>3. Playing' BY <1>1, <1>9, <2>2, <2>9, <3>1, <4>2, ReadsTalk
      <4> QED BY <4>3 DEF Phase
    <3>2. CASE Idle
      <4>1. Idle' BY <1>1, <1>9, <2>2, <2>9, <3>2, ReadsFarewell
      <4> QED BY <4>1 DEF Phase
    <3> QED BY <1>6, <3>1, <3>2
  <2> QED BY <2>7, <2>8, <2>10
<1>10. \/ Head(toClient) = "newWorld" /\ Send("worldportAck", client.shows)
       \/ Head(toClient) = "moveTeleport" /\ Send("teleportAck", client.shows)
       \/ Head(toClient) = "loggedOut" /\ Send("cancelTrade", "start")
       \/ Head(toClient) = "verify"
  BY <1>3 DEF ClientReads, Messages
<1>11. \E op \in {"worldportAck", "teleportAck", "cancelTrade"} :
         \/ /\ Head(toClient) # "verify"
            /\ Send(op, IF Head(toClient) = "loggedOut" THEN "start" ELSE client.shows)
         \/ Head(toClient) = "verify"
  BY <1>10
<1> QED BY <1>4, <1>8, <1>9, <1>11

-----------------------------------------------------------------------------
(* The invariant, and what it says of every step.                            *)

LEMMA InitOK == Init => PInv
<1> SUFFICES ASSUME Init PROVE PInv OBVIOUS
<1>1. 0 \in Logins /\ 0 \in Numbers /\ 0 \in 0..MaxTeleports
  BY PacketsAssumption DEF Logins, Numbers
<1>2. /\ toClient \in Seq(Messages) /\ queue \in Seq(Packets)
      /\ BodyOK(body) /\ body = NoBody /\ player = 0 /\ loading = 0
  BY NoBodyOK, EmptySeq DEF Init
<1>3. SessionOK
  <2>1. loaded = FALSE /\ recent = FALSE /\ logoutTime = FALSE BY DEF Init
  <2> QED BY <1>1, <1>2, <2>1 DEF SessionOK
<1>4. RestOK
  <2>1. client \in [shows : {"start", "list", "entering", "playing"}, login : Logins, sent : Numbers]
    BY <1>1 DEF Init
  <2>2. /\ pc = "tasks" /\ open = TRUE /\ processed = FALSE /\ delayed = 0 /\ teleports = 0
    BY DEF Init
  <2> QED BY <1>1, <1>2, <2>1, <2>2 DEF RestOK
<1>5. queue = <<>> /\ toClient = <<>> /\ DOMAIN queue = {} BY DEF Init
<1>6. Idle BY <1>5 DEF Init, Idle, OfLogin, Farewell
<1>7. InOrder BY <1>5 DEF InOrder, Ordered
<1>8. Answerable
  <2>1. Unread = 0 /\ Pending = 0
    <3>1. Len(toClient) = 0 BY <1>5
    <3> QED BY <3>1 DEF Init, Unread, Pending
  <2>2. client.sent = 0 /\ client.login = 0 /\ teleports = 0 BY DEF Init
  <2>3. /\ 0 \in 0..client.sent /\ client.sent - 0 <= MaxSent
        /\ 0 + Unread + Pending <= 2 * teleports + 2 * client.login
    BY <2>1, <2>2, PacketsAssumption
  <2> QED BY <2>3 DEF Answerable
<1> QED BY <1>3, <1>4, <1>6, <1>7, <1>8, TypeParts DEF PInv, Phase

LEMMA NextOK ==
  ASSUME PInv, [Next]_vars
  PROVE  PInv' /\ [Meets]_vars /\ [Overtakes]_vars
<1>1. SessionOK /\ RestOK /\ (open => Phase /\ InOrder /\ Answerable) BY TypeParts DEF PInv
<1>2. ASSUME SessionOK', RestOK', open' => Phase' /\ InOrder' /\ Answerable' PROVE PInv'
  BY <1>2, TypePartsNext DEF PInv
<1>3. CASE ProcessPacket
  <2>1. open /\ RestOK' /\ Overtakes BY <1>1, <1>3, TakenInOrder DEF ProcessPacket, GoOn
  <2>2. Phase /\ InOrder /\ Answerable BY <1>1, <2>1
  <2>3. SessionOK' /\ Phase' /\ InOrder' /\ Answerable' /\ Meets
    BY <1>1, <1>3, <2>2, IdlePacket, ChoosingPacket, EnteringPacket, PlayingPacket DEF Phase
  <2> QED BY <1>2, <2>1, <2>3
<1>4. ASSUME last' = [n |-> 0] PROVE Meets /\ Overtakes BY <1>4 DEF Meets, Overtakes
<1>5. CASE EndUpdate
  <2>1. last' = [n |-> 0] BY <1>5 DEF EndUpdate
  <2> QED BY <1>1, <1>2, <1>4, <1>5, <2>1, EndUpdateKeeps
<1>6. CASE Tasks
  <2>1. last' = [n |-> 0] BY <1>6 DEF Tasks
  <2> QED BY <1>1, <1>2, <1>4, <1>6, <2>1, TasksKeep
<1>7. CASE Load
  <2>1. last' = [n |-> 0] BY <1>7 DEF Load
  <2> QED BY <1>1, <1>2, <1>4, <1>7, <2>1, LoadKeeps
<1>8. ASSUME NEW map \in Maps, Teleport(map) PROVE PInv' /\ Meets /\ Overtakes
  <2>1. last' = [n |-> 0] BY <1>8 DEF Teleport
  <2> QED BY <1>1, <1>2, <1>4, <1>8, <2>1, TeleportKeeps
<1>9. CASE Disconnect
  <2>1. last' = [n |-> 0] BY <1>9 DEF Disconnect
  <2> QED BY <1>1, <1>2, <1>4, <1>9, <2>1, DisconnectKeeps
<1>10. CASE ClientSends
  <2>1. last' = [n |-> 0] BY <1>10 DEF ClientSends
  <2> QED BY <1>1, <1>2, <1>4, <1>10, <2>1, ClientSendsKeeps
<1>11. CASE ClientReads
  <2>1. last' = [n |-> 0] BY <1>11 DEF ClientReads
  <2> QED BY <1>1, <1>2, <1>4, <1>11, <2>1, ClientReadsKeeps
<1>12. CASE UNCHANGED vars
  <2>1. UNCHANGED <<pc, open, queue, delayed, processed, player, loading, recent, logoutTime, body, loaded,
                    teleports, client, toClient>>
    BY <1>12 DEF vars, session, update
  <2>2. SessionOK' /\ RestOK' BY <1>1, <2>1 DEF SessionOK, RestOK
  <2>3. PInv' BY <1>1, <1>2, <2>1, <2>2, SamePhase
  <2> QED BY <1>12, <2>3
<1> QED
  BY <1>3, <1>5, <1>6, <1>7, <1>8, <1>9, <1>10, <1>11, <1>12 DEF Next, Server

LEMMA Inductive == Spec => []PInv
<1>1. Init => PInv BY InitOK
<1>2. PInv /\ [Next]_vars => PInv' BY NextOK
<1> QED BY <1>1, <1>2, PTL DEF Spec

\* The variables keep their types, however many packets, teleports and logins there are: what the
\* client sends is bounded by its own packets and two answers for each login and each teleport.
THEOREM TypeCorrect == Spec => []TypeOK
<1>1. PInv => TypeOK BY DEF PInv
<1> QED BY <1>1, Inductive, PTL

\* A packet that WorldSession::Update processes is carried out on the character it was sent for
\* or on none, and what it drops without a player belongs to no login under way.
THEOREM RightCharacter == Spec => PacketsMeetTheirCharacter
<1>1. PInv /\ [Next]_vars => [Meets]_vars BY NextOK
<1>2. Spec => [][Meets]_vars BY <1>1, Inductive, PTL DEF Spec
<1> QED BY <1>2 DEF PacketsMeetTheirCharacter, Meets

\* Re-enqueueing by WorldSession::Update changes the order of no packets but those that were
\* sent before the client was told that it is in the world.
THEOREM OnlyEarlyWait == Spec => OnlyEarlyPacketsAreOvertaken
<1>1. PInv /\ [Next]_vars => [Overtakes]_vars BY NextOK
<1>2. Spec => [][Overtakes]_vars BY <1>1, Inductive, PTL DEF Spec
<1> QED BY <1>2 DEF OnlyEarlyPacketsAreOvertaken, Overtakes

=============================================================================
