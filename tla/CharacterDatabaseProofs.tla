----------------------- MODULE CharacterDatabaseProofs ------------------------
(***************************************************************************)
(* The asynchronous database for every number of workers, characters and   *)
(* pinned connections and every length of the queues: what a worker may    *)
(* find in its queue, that a pinned connection keeps its order, and, with  *)
(* one worker, that a login reads what the last save asked to write.       *)
(***************************************************************************)
EXTENDS CharacterDatabase, WellFoundedInduction, SequenceTheorems, TLAPS

-----------------------------------------------------------------------------
(* The strengthenings.  What a worker is carrying out and what waits behind *)
(* it are the positions 0..Len(queue[w]) of one line.                        *)

Positions(w) == 0..Len(queue[w])
InLine(w, n) == IF n = 0 THEN running[w] ELSE queue[w][n]

WritesTo(w, n, k) ==
  InLine(w, n) # Idle /\ InLine(w, n).kind = "write" /\ InLine(w, n).of = k
Loads(w, n, c) ==
  InLine(w, n) # Idle /\ InLine(w, n).kind = "load" /\ InLine(w, n).of = c
Saves(w, n, c, x) ==
  /\ InLine(w, n) # Idle /\ InLine(w, n).kind = "save" /\ InLine(w, n).of = c
  /\ x \in DOMAIN InLine(w, n).data

\* Writes through connection k wait for one worker, each above the one before,
\* above what is in the table, and none above the last one asked for.
PinnedLine ==
  /\ \A k \in Connections : pinnedDb[k] <= pinned[k]
  /\ \A k \in Connections, w \in Workers : \A n \in Positions(w) :
       WritesTo(w, n, k) =>
         /\ w = PinnedWorker(k)
         /\ pinnedDb[k] < InLine(w, n).data /\ InLine(w, n).data <= pinned[k]
         /\ \A m \in Positions(w) :
              n < m /\ WritesTo(w, m, k) => InLine(w, n).data < InLine(w, m).data

\* A character that is loading has one query under way or an answer, and nobody
\* else has either.
OneLoad ==
  /\ \A c \in Characters : answer[c] # NoAnswer => state[c] = "loading"
  /\ \A c \in Characters, w \in Workers : \A n \in Positions(w) :
       Loads(w, n, c) =>
         /\ state[c] = "loading" /\ answer[c] = NoAnswer
         /\ \A v \in Workers : \A m \in Positions(v) : Loads(v, m, c) => v = w /\ m = n

\* With one worker: the last save in line of a part carries what was asked for, and
\* a part that no save in line carries is in the table as it was asked for.
LastSaveWins ==
  workers = 1 =>
    \A c \in Characters \ spoilt : \A x \in Parts :
      /\ \A n \in Positions(1) :
           Saves(1, n, c, x) =>
             \/ InLine(1, n).data[x] = requested[c][x]
             \/ \E m \in Positions(1) : n < m /\ Saves(1, m, c, x)
      /\ (\A n \in Positions(1) : ~Saves(1, n, c, x)) => db[c][x] = requested[c][x]

\* With one worker: the items that are not dirty are those of the last save; no save
\* is in line behind a query of the character, and what the query has read is current.
ReadersAreLast ==
  workers = 1 =>
    \A c \in Characters \ spoilt :
      /\ state[c] = "inWorld" /\ ~dirty[c] => mem[c]["items"] = requested[c]["items"]
      /\ answer[c] # NoAnswer =>
           /\ answer[c] = requested[c]
           /\ \A n \in Positions(1), x \in Parts : ~Saves(1, n, c, x)
      /\ \A n \in Positions(1) :
           Loads(1, n, c) =>
             /\ \A m \in Positions(1), x \in Parts : m > n => ~Saves(1, m, c, x)
             /\ \A x \in DOMAIN InLine(1, n).data : InLine(1, n).data[x] = requested[c][x]
             /\ n # 0 => InLine(1, n).data = <<>>

DInv ==
  /\ TypeOK
  /\ PinnedLine
  /\ OneLoad
  /\ LastSaveWins
  /\ ReadersAreLast

-----------------------------------------------------------------------------
(* Lemmas. *)

\* What an operation is, by its kind.
LEMMA OperationShape ==
  ASSUME NEW op \in Operations
  PROVE  /\ op # Idle
         /\ op.kind \in {"load", "orphan", "save", "write"}
         /\ op.kind \in {"load", "orphan"} =>
              /\ op.of \in Characters /\ op.data \in {<<>>} \cup [{"money"} -> Versions]
              /\ op \in [kind : {"load", "orphan"}, of : Characters,
                         data : {<<>>} \cup [{"money"} -> Versions]]
         /\ op.kind = "save" =>
              op.of \in Characters /\ op.data \in [{"money"} -> Versions] \cup [Parts -> Versions]
         /\ op.kind = "write" => op.of \in Connections /\ op.data \in Writes
<1>1. op # Idle
  BY NothingAssumption
<1> QED BY <1>1 DEF Operations

LEMMA FinishedShape == Finished \notin Operations /\ Finished.kind = "finished"
BY DEF Finished, Operations

\* What stands in line.
LEMMA LineShape ==
  ASSUME TypeOK, NEW w \in Workers
  PROVE  /\ workers \in Nat \ {0} /\ w \in Nat
         /\ Len(queue[w]) \in Nat /\ DOMAIN queue[w] = 1..Len(queue[w])
         /\ queue[w] \in Seq(Operations)
         /\ \A n \in Positions(w) :
              /\ n \in Nat
              /\ InLine(w, n) \in Operations \cup {Idle, Finished}
              /\ n # 0 => InLine(w, n) \in Operations
<1>1. workers \in Nat \ {0}
  BY DatabaseAssumption DEF TypeOK
<1>2. queue[w] \in Seq(Operations) /\ running[w] \in Operations \cup {Idle, Finished}
  BY DEF TypeOK
<1>3. Len(queue[w]) \in Nat /\ DOMAIN queue[w] = 1..Len(queue[w])
  BY <1>2, LenProperties
<1>4. \A n \in 1..Len(queue[w]) : queue[w][n] \in Operations
  BY <1>2, ElementOfSeq
<1> QED BY <1>1, <1>2, <1>3, <1>4 DEF InLine, Positions, Workers

\* GetWorker and PinnedWorker name workers of the pool.
LEMMA GetWorkerInPool == TypeOK => GetWorker \in Workers
<1> SUFFICES ASSUME TypeOK PROVE GetWorker \in Workers
  OBVIOUS
<1> DEFINE free == {w \in Workers : Count(w) = 0}
<1>1. workers \in Nat /\ 1 \in Workers /\ free \subseteq Nat /\ free \subseteq Workers
  BY DatabaseAssumption DEF TypeOK, Workers
<1>2. GetWorker = IF free = {} THEN 1 ELSE CHOOSE w \in free : \A v \in free : w <= v
  BY DEF GetWorker
<1> HIDE DEF free
<1>3. CASE free = {}
  BY <1>1, <1>2, <1>3
<1>4. CASE free # {}
  <2>1. PICK w \in free : \A v \in free : <<v, w>> \notin OpToRel(<, Nat)
    BY <1>1, <1>4, NatLessThanWellFounded, WFMin
  <2>2. \A v \in free : w <= v
    <3>1. \A v \in free : v \in Nat /\ w \in Nat /\ ~(v < w)
      BY <1>1, <2>1, Zenon DEF OpToRel
    <3> QED BY <3>1
  <2>3. GetWorker \in free
    BY <1>2, <1>4, <2>2
  <2> QED BY <1>1, <2>3
<1> QED BY <1>3, <1>4

LEMMA PinnedWorkerInPool ==
  ASSUME TypeOK, NEW k \in Connections
  PROVE  PinnedWorker(k) \in Workers
BY DatabaseAssumption DEF TypeOK, Workers, PinnedWorker

\* Enqueue adds the operation at the end of one line.
LEMMA EnqueueLine ==
  ASSUME TypeOK, NEW w0 \in Workers, NEW op \in Operations,
         Enqueue(w0, op), UNCHANGED <<workers, running>>
  PROVE  /\ queue' \in [Workers -> Seq(Operations)]
         /\ \A w \in Workers :
              Positions(w)' = IF w = w0 THEN Positions(w) \cup {Len(queue[w]) + 1} ELSE Positions(w)
         /\ \A w \in Workers : \A n \in Positions(w) : InLine(w, n)' = InLine(w, n)
         /\ \A n \in Positions(w0)' : n = Len(queue[w0]) + 1 => InLine(w0, n)' = op
<1>1. queue' = [queue EXCEPT ![w0] = Append(@, op)] /\ queue \in [Workers -> Seq(Operations)]
  BY DEF Enqueue, TypeOK
<1>2. /\ Append(queue[w0], op) \in Seq(Operations)
      /\ Len(Append(queue[w0], op)) = Len(queue[w0]) + 1
      /\ \A i \in 1..Len(queue[w0]) : Append(queue[w0], op)[i] = queue[w0][i]
      /\ Append(queue[w0], op)[Len(queue[w0]) + 1] = op
      /\ Len(queue[w0]) \in Nat
  BY <1>1, AppendProperties, LenProperties
<1>3. queue' \in [Workers -> Seq(Operations)]
  BY <1>1, <1>2
<1>4. \A w \in Workers : queue'[w] = IF w = w0 THEN Append(queue[w], op) ELSE queue[w]
  BY <1>1
<1>5. \A w \in Workers :
        Positions(w)' = IF w = w0 THEN Positions(w) \cup {Len(queue[w]) + 1} ELSE Positions(w)
  <2> TAKE w \in Workers
  <2>1. CASE w = w0
    <3>1. Positions(w)' = 0..(Len(queue[w]) + 1)
      BY <1>2, <1>4, <2>1 DEF Positions
    <3> QED BY <1>2, <2>1, <3>1 DEF Positions
  <2>2. CASE w # w0
    BY <1>4, <2>2 DEF Positions
  <2> QED BY <2>1, <2>2
<1>6. \A w \in Workers : \A n \in Positions(w) : InLine(w, n)' = InLine(w, n)
  <2> TAKE w \in Workers
  <2> TAKE n \in Positions(w)
  <2>1. Len(queue[w]) \in Nat
    BY LineShape
  <2>2. queue'[w] = queue[w] \/ (w = w0 /\ queue'[w] = Append(queue[w0], op))
    BY <1>4
  <2> QED BY <1>2, <2>1, <2>2 DEF Positions, InLine
<1>7. \A n \in Positions(w0)' : n = Len(queue[w0]) + 1 => InLine(w0, n)' = op
  <2> SUFFICES ASSUME NEW n \in Positions(w0)', n = Len(queue[w0]) + 1
               PROVE  InLine(w0, n)' = op
    OBVIOUS
  <2>1. queue'[w0] = Append(queue[w0], op)
    BY <1>4
  <2>2. Len(queue[w0]) \in Nat
    BY <1>2
  <2>3. n # 0
    BY <2>2
  <2>4. queue'[w0][n] = op
    BY <1>2, <2>1, Zenon
  <2> QED BY <2>3, <2>4 DEF InLine
<1> QED BY <1>3, <1>5, <1>6, <1>7

\* Dequeue moves one line up by one.
LEMMA DequeueLine ==
  ASSUME TypeOK, NEW w0 \in Workers, Dequeue(w0)
  PROVE  /\ queue' \in [Workers -> Seq(Operations)]
         /\ running' \in [Workers -> Operations \cup {Idle, Finished}]
         /\ InLine(w0, 0) = Idle /\ 1 \in Positions(w0)
         /\ \A w \in Workers \ {w0} :
              /\ Positions(w)' = Positions(w)
              /\ \A n \in Positions(w) : InLine(w, n)' = InLine(w, n)
         /\ \A n \in Positions(w0)' :
              n + 1 \in Positions(w0) /\ InLine(w0, n)' = InLine(w0, n + 1)
         /\ \A n \in Positions(w0) \ {0} :
              n - 1 \in Positions(w0)' /\ InLine(w0, n - 1)' = InLine(w0, n)
<1>1. /\ running[w0] = Idle /\ queue[w0] # <<>>
      /\ running' = [running EXCEPT ![w0] = Head(queue[w0])]
      /\ queue' = [queue EXCEPT ![w0] = Tail(@)]
      /\ queue \in [Workers -> Seq(Operations)]
      /\ running \in [Workers -> Operations \cup {Idle, Finished}]
  BY DEF Dequeue, TypeOK
<1>2. /\ Head(queue[w0]) = queue[w0][1] /\ Head(queue[w0]) \in Operations
      /\ Tail(queue[w0]) \in Seq(Operations)
      /\ Len(Tail(queue[w0])) = Len(queue[w0]) - 1
      /\ \A i \in 1..Len(Tail(queue[w0])) : Tail(queue[w0])[i] = queue[w0][i + 1]
      /\ Len(queue[w0]) \in Nat \ {0}
  BY <1>1, HeadTailProperties, EmptySeq
<1>3. queue' \in [Workers -> Seq(Operations)]
  BY <1>1, <1>2
<1>4. running' \in [Workers -> Operations \cup {Idle, Finished}]
  BY <1>1, <1>2
<1>5. \A w \in Workers \ {w0} :
        /\ Positions(w)' = Positions(w)
        /\ \A n \in Positions(w) : InLine(w, n)' = InLine(w, n)
  BY <1>1 DEF Positions, InLine
<1>6. queue'[w0] = Tail(queue[w0]) /\ running'[w0] = queue[w0][1]
  BY <1>1, <1>2
<1>7. Positions(w0) = 0..Len(queue[w0]) /\ Positions(w0)' = 0..(Len(queue[w0]) - 1)
  BY <1>2, <1>6 DEF Positions
<1>8. \A n \in Positions(w0)' :
        n + 1 \in Positions(w0) /\ InLine(w0, n)' = InLine(w0, n + 1)
  BY <1>2, <1>6, <1>7 DEF InLine
<1>9. \A n \in Positions(w0) \ {0} :
        n - 1 \in Positions(w0)' /\ InLine(w0, n - 1)' = InLine(w0, n)
  BY <1>2, <1>6, <1>7 DEF InLine
<1> QED BY <1>1, <1>2, <1>3, <1>4, <1>5, <1>7, <1>8, <1>9 DEF InLine

\* The other steps of a worker replace what it is carrying out.
LEMMA RunningLine ==
  ASSUME TypeOK, NEW w0 \in Workers, NEW op \in Operations \cup {Idle, Finished},
         running' = [running EXCEPT ![w0] = op], UNCHANGED <<workers, queue>>
  PROVE  /\ running' \in [Workers -> Operations \cup {Idle, Finished}]
         /\ \A w \in Workers : Positions(w)' = Positions(w) /\ 0 \in Positions(w)
         /\ \A w \in Workers : \A n \in Positions(w) :
              InLine(w, n)' = IF w = w0 /\ n = 0 THEN op ELSE InLine(w, n)
<1>1. running' \in [Workers -> Operations \cup {Idle, Finished}]
  BY DEF TypeOK
<1>2. \A w \in Workers : Positions(w)' = Positions(w) /\ 0 \in Positions(w)
  BY LineShape DEF Positions
<1>3. \A w \in Workers : \A n \in Positions(w) :
        InLine(w, n)' = IF w = w0 /\ n = 0 THEN op ELSE InLine(w, n)
  BY DEF InLine, TypeOK
<1> QED BY <1>1, <1>2, <1>3

\* Disown takes the loads of one character out of the line and nothing else.
LEMMA DisownShape ==
  ASSUME NEW op \in Operations \cup {Idle, Finished}, NEW c \in Characters
  PROVE  /\ Disown(c, op) \in Operations \cup {Idle, Finished}
         /\ op \in Operations => Disown(c, op) \in Operations
         /\ op \notin Operations => Disown(c, op) = op
         /\ op \in Operations =>
              /\ Disown(c, op).of = op.of /\ Disown(c, op).data = op.data
              /\ Disown(c, op).kind = IF op.kind = "load" /\ op.of = c THEN "orphan" ELSE op.kind
<1>1. CASE op \in Operations /\ op.kind = "load" /\ op.of = c
  <2>1. op # Idle /\ op \in [kind : {"load", "orphan"}, of : Characters,
                             data : {<<>>} \cup [{"money"} -> Versions]]
    BY <1>1, OperationShape
  <2>2. Disown(c, op) = [op EXCEPT !.kind = "orphan"]
    BY <1>1, <2>1 DEF Disown
  <2>3. [op EXCEPT !.kind = "orphan"] \in [kind : {"load", "orphan"}, of : Characters,
                                           data : {<<>>} \cup [{"money"} -> Versions]]
    BY <2>1
  <2>4. Disown(c, op) \in Operations
    BY <2>2, <2>3 DEF Operations
  <2> QED BY <1>1, <2>1, <2>2, <2>4
<1>2. CASE ~(op \in Operations /\ op.kind = "load" /\ op.of = c)
  <2>1. Disown(c, op) = op
    BY <1>2, FinishedShape DEF Disown
  <2> QED BY <1>2, <2>1
<1> QED BY <1>1, <1>2

LEMMA DisownLine ==
  ASSUME TypeOK, NEW c \in Characters, CancelLogin(c)
  PROVE  /\ queue' \in [Workers -> Seq(Operations)]
         /\ running' \in [Workers -> Operations \cup {Idle, Finished}]
         /\ \A w \in Workers : Positions(w)' = Positions(w)
         /\ \A w \in Workers : \A n \in Positions(w) : InLine(w, n)' = Disown(c, InLine(w, n))
<1>1. /\ queue' = [w \in Workers |-> [i \in DOMAIN queue[w] |-> Disown(c, queue[w][i])]]
      /\ running' = [w \in Workers |-> Disown(c, running[w])]
      /\ queue \in [Workers -> Seq(Operations)]
      /\ running \in [Workers -> Operations \cup {Idle, Finished}]
  BY DEF CancelLogin, TypeOK
<1>2. ASSUME NEW w \in Workers
      PROVE  /\ queue'[w] \in Seq(Operations) /\ Len(queue'[w]) = Len(queue[w])
             /\ \A i \in 1..Len(queue[w]) : queue'[w][i] = Disown(c, queue[w][i])
  <2>1. /\ Len(queue[w]) \in Nat /\ DOMAIN queue[w] = 1..Len(queue[w])
        /\ \A i \in 1..Len(queue[w]) : queue[w][i] \in Operations
    BY <1>1, LineShape, ElementOfSeq
  <2>2. queue'[w] = [i \in 1..Len(queue[w]) |-> Disown(c, queue[w][i])]
    BY <1>1, <2>1
  <2>3. \A i \in 1..Len(queue[w]) : Disown(c, queue[w][i]) \in Operations
    BY <2>1, DisownShape
  <2>4. queue'[w] \in [1..Len(queue[w]) -> Operations]
    BY <2>2, <2>3
  <2>5. queue'[w] \in Seq(Operations)
    BY <2>1, <2>4, SeqDef
  <2>6. Len(queue'[w]) = Len(queue[w])
    BY <2>1, <2>4, <2>5, LenProperties
  <2> QED BY <2>2, <2>5, <2>6
<1>3. queue' \in [Workers -> Seq(Operations)]
  BY <1>1, <1>2
<1>4. running' \in [Workers -> Operations \cup {Idle, Finished}]
  <2>1. \A w \in Workers : Disown(c, running[w]) \in Operations \cup {Idle, Finished}
    BY <1>1, DisownShape
  <2> QED BY <1>1, <2>1
<1>5. \A w \in Workers : Positions(w)' = Positions(w)
  BY <1>2 DEF Positions
<1>6. \A w \in Workers : \A n \in Positions(w) : InLine(w, n)' = Disown(c, InLine(w, n))
  BY <1>1, <1>2 DEF Positions, InLine
<1> QED BY <1>3, <1>4, <1>5, <1>6

\* A query holder reads the money first and the items last.
LEMMA ReadPartEffect ==
  ASSUME TypeOK, NEW w0 \in Workers, ReadPart(w0)
  PROVE  LET op == running[w0] IN
         /\ op \in Operations /\ op.kind \in {"load", "orphan"} /\ op.of \in Characters
         /\ \/ /\ op.data = <<>> /\ answer' = answer
               /\ \E next \in Operations :
                    /\ running' = [running EXCEPT ![w0] = next]
                    /\ next.kind = op.kind /\ next.of = op.of
                    /\ DOMAIN next.data = {"money"}
                    /\ next.data["money"] = db[op.of]["money"]
            \/ /\ DOMAIN op.data = {"money"} /\ op.data["money"] \in Versions
               /\ running' = [running EXCEPT ![w0] = Finished]
               /\ \E read \in [Parts -> Versions] :
                    /\ read["money"] = op.data["money"]
                    /\ read["items"] = db[op.of]["items"]
                    /\ answer' = IF op.kind = "load" THEN [answer EXCEPT ![op.of] = read] ELSE answer
<1> DEFINE op == running[w0]
           part == IF "money" \in Rest(op) THEN "money" ELSE "items"
           read == [x \in DOMAIN op.data \cup {part} |->
                      IF x = part THEN db[op.of][part] ELSE op.data[x]]
<1>1. /\ op \in Operations /\ op.kind \in {"load", "orphan"} /\ op.of \in Characters
      /\ op.data \in {<<>>} \cup [{"money"} -> Versions]
      /\ op \in [kind : {"load", "orphan"}, of : Characters, data : {<<>>} \cup [{"money"} -> Versions]]
  <2>1. op \in Operations \cup {Idle, Finished} /\ op # Idle /\ op.kind \in {"load", "orphan"}
    BY DEF ReadPart, TypeOK
  <2>2. op \in Operations
    BY <2>1, FinishedShape
  <2> QED BY <2>1, <2>2, OperationShape
<1>2. /\ running' = [running EXCEPT ![w0] =
                       IF Completes(op, part) THEN Finished ELSE [op EXCEPT !.data = read]]
      /\ answer' = IF Completes(op, part) /\ op.kind = "load"
                   THEN [answer EXCEPT ![op.of] = read] ELSE answer
  BY DEF ReadPart
<1>3. db[op.of] \in [Parts -> Versions]
  BY <1>1 DEF TypeOK
<1>4. CASE op.data = <<>>
  <2>1. DOMAIN op.data = {}
    BY <1>4
  <2>2. Rest(op) = {"money", "items"} /\ part = "money" /\ ~Completes(op, part)
    BY <2>1 DEF Rest, Parts, Completes
  <2>3. read = [x \in {"money"} |-> db[op.of]["money"]]
    BY <2>1, <2>2
  <2>4. read \in [{"money"} -> Versions] /\ DOMAIN read = {"money"} /\ read["money"] = db[op.of]["money"]
    BY <1>3, <2>3 DEF Parts
  <2> HIDE DEF read, op
  <2> DEFINE next == [op EXCEPT !.data = read]
  <2>5. next \in [kind : {"load", "orphan"}, of : Characters, data : {<<>>} \cup [{"money"} -> Versions]]
    BY <1>1, <2>4
  <2>6. next.kind = op.kind /\ next.of = op.of /\ next.data = read
    BY <1>1
  <2>7. next \in Operations
    BY <2>5 DEF Operations
  <2>8. running' = [running EXCEPT ![w0] = next] /\ answer' = answer
    BY <1>2, <2>2
  <2> HIDE DEF next
  <2> QED BY <1>1, <1>4, <2>4, <2>6, <2>7, <2>8 DEF op
<1>5. CASE op.data \in [{"money"} -> Versions]
  <2>1. DOMAIN op.data = {"money"} /\ op.data["money"] \in Versions
    BY <1>5
  <2>2. Rest(op) = {"items"} /\ part = "items" /\ Completes(op, part)
    BY <2>1 DEF Rest, Parts, Completes
  <2>3. read = [x \in {"money", "items"} |-> IF x = "items" THEN db[op.of]["items"] ELSE op.data[x]]
    BY <2>1, <2>2
  <2>4. /\ read \in [Parts -> Versions]
        /\ read["money"] = op.data["money"] /\ read["items"] = db[op.of]["items"]
    BY <1>3, <2>1, <2>3 DEF Parts
  <2>5. /\ running' = [running EXCEPT ![w0] = Finished]
        /\ answer' = IF op.kind = "load" THEN [answer EXCEPT ![op.of] = read] ELSE answer
    BY <1>2, <2>2
  <2> HIDE DEF read, op
  <2> QED BY <1>1, <2>1, <2>4, <2>5 DEF op
<1> QED BY <1>1, <1>4, <1>5

\* A save carries the money and, when they are dirty, the items.
LEMMA SaveShape ==
  ASSUME TypeOK, NEW c \in Characters
  PROVE  LET parts == IF dirty[c] THEN Parts ELSE {"money"} IN
         /\ Save(c, parts) \in Operations /\ Save(c, parts).kind = "save" /\ Save(c, parts).of = c
         /\ DOMAIN Save(c, parts).data = parts
         /\ \A x \in parts : Save(c, parts).data[x] = mem[c][x]
<1> DEFINE parts == IF dirty[c] THEN Parts ELSE {"money"}
<1>1. mem[c] \in [Parts -> Versions] /\ parts \in {Parts, {"money"}} /\ parts \subseteq Parts
  BY DEF TypeOK, Parts
<1>2. [x \in parts |-> mem[c][x]] \in [{"money"} -> Versions] \cup [Parts -> Versions]
  BY <1>1
<1>3. Save(c, parts) \in Operations
  BY <1>2 DEF Save, Operations
<1> QED BY <1>3 DEF Save

LEMMA LoadShape ==
  ASSUME NEW c \in Characters
  PROVE  /\ Load(c) \in Operations /\ Load(c).kind = "load" /\ Load(c).of = c
         /\ Load(c).data = <<>>
BY DEF Load, Operations

LEMMA WriteShape ==
  ASSUME NEW k \in Connections, NEW v \in Writes
  PROVE  /\ Write(k, v) \in Operations /\ Write(k, v).kind = "write" /\ Write(k, v).of = k
         /\ Write(k, v).data = v
BY DEF Write, Operations

-----------------------------------------------------------------------------
(* Type correctness. *)

LEMMA InitType == Init => TypeOK
<1> SUFFICES ASSUME Init PROVE TypeOK
  OBVIOUS
<1>1. 0 \in Versions /\ 0 \in Writes /\ Fresh \in [Parts -> Versions]
  BY DatabaseAssumption DEF Versions, Writes, Fresh
<1>2. \A w \in Workers : <<>> \in Seq(Operations)
  BY EmptySeq
<1> QED BY <1>1, <1>2 DEF Init, TypeOK

LEMMA SaveType ==
  ASSUME TypeOK, NEW c \in Characters, SaveToDB(c), UNCHANGED <<workers, running, mem>>
  PROVE  /\ queue' \in [Workers -> Seq(Operations)]
         /\ dirty' \in [Characters -> BOOLEAN]
         /\ requested' \in [Characters -> [Parts -> Versions]]
<1>1. queue' \in [Workers -> Seq(Operations)]
  BY SaveShape, GetWorkerInPool, EnqueueLine DEF SaveToDB
<1>2. dirty' \in [Characters -> BOOLEAN]
  BY DEF SaveToDB, TypeOK
<1>3. requested' \in [Characters -> [Parts -> Versions]]
  BY DEF SaveToDB, TypeOK
<1> QED BY <1>1, <1>2, <1>3

LEMMA TypeStep == TypeOK /\ [Next]_vars => TypeOK'
<1> SUFFICES ASSUME TypeOK, [Next]_vars PROVE TypeOK'
  OBVIOUS
<1> USE DEF world, store, database, asking
<1>1. ASSUME NEW c \in Characters, NEW part \in Parts, Change(c, part) PROVE TypeOK'
  <2>1. mem' \in [Characters -> [Parts -> Versions]]
    BY <1>1, DatabaseAssumption DEF Change, TypeOK, Versions
  <2>2. dirty' \in [Characters -> BOOLEAN]
    BY <1>1 DEF Change, MarkDirty, TypeOK
  <2> QED BY <1>1, <2>1, <2>2 DEF Change, TypeOK, Workers
<1>2. ASSUME NEW c \in Characters, AutoSave(c) PROVE TypeOK'
  <2>1. UNCHANGED <<workers, running, mem, active, store, spoilt, answer, server, state, pinned>>
    BY <1>2 DEF AutoSave
  <2>2. /\ queue' \in [Workers -> Seq(Operations)]
        /\ dirty' \in [Characters -> BOOLEAN]
        /\ requested' \in [Characters -> [Parts -> Versions]]
    BY <1>2, <2>1, SaveType DEF AutoSave
  <2> QED BY <2>1, <2>2 DEF TypeOK, Workers
<1>3. ASSUME NEW c \in Characters, LogoutPlayer(c) PROVE TypeOK'
  <2>1. /\ UNCHANGED <<workers, running, mem, active, store, spoilt, answer, server, pinned>>
        /\ state' \in [Characters -> {"offline", "loading", "inWorld"}]
    BY <1>3 DEF LogoutPlayer, TypeOK
  <2>2. /\ queue' \in [Workers -> Seq(Operations)]
        /\ dirty' \in [Characters -> BOOLEAN]
        /\ requested' \in [Characters -> [Parts -> Versions]]
    BY <1>3, <2>1, SaveType DEF LogoutPlayer
  <2> QED BY <2>1, <2>2 DEF TypeOK, Workers
<1>4. ASSUME NEW c \in Characters, HandlePlayerLoginOpcode(c) PROVE TypeOK'
  <2>1. /\ UNCHANGED <<workers, running, mem, active, store, spoilt, answer, server, pinned, dirty, requested>>
        /\ state' \in [Characters -> {"offline", "loading", "inWorld"}]
    BY <1>4 DEF HandlePlayerLoginOpcode, TypeOK
  <2>2. queue' \in [Workers -> Seq(Operations)]
    BY <1>4, <2>1, LoadShape, GetWorkerInPool, EnqueueLine DEF HandlePlayerLoginOpcode
  <2> QED BY <2>1, <2>2 DEF TypeOK, Workers
<1>5. ASSUME NEW c \in Characters, HandlePlayerLogin(c) PROVE TypeOK'
  BY <1>5 DEF HandlePlayerLogin, TypeOK, Workers
<1>6. ASSUME NEW c \in Characters, CancelLogin(c) PROVE TypeOK'
  <2>1. /\ queue' \in [Workers -> Seq(Operations)]
        /\ running' \in [Workers -> Operations \cup {Idle, Finished}]
    BY <1>6, DisownLine
  <2> QED BY <1>6, <2>1 DEF CancelLogin, TypeOK, Workers
<1>7. ASSUME NEW k \in Connections, PinnedWrite(k) PROVE TypeOK'
  <2>1. pinned[k] + 1 \in Writes /\ pinned' \in [Connections -> Writes]
    BY <1>7, DatabaseAssumption DEF PinnedWrite, TypeOK, Writes
  <2>2. queue' \in [Workers -> Seq(Operations)]
    BY <1>7, <2>1, WriteShape, PinnedWorkerInPool, EnqueueLine DEF PinnedWrite
  <2> QED BY <1>7, <2>1, <2>2 DEF PinnedWrite, TypeOK, Workers
<1>8. CASE Stop
  BY <1>8 DEF Stop, TypeOK, Workers
<1>9. ASSUME NEW w \in Workers, Deactivate(w) PROVE TypeOK'
  BY <1>9 DEF Deactivate, TypeOK, Workers
<1>10. ASSUME NEW w \in Workers, Dequeue(w) PROVE TypeOK'
  <2>1. /\ queue' \in [Workers -> Seq(Operations)]
        /\ running' \in [Workers -> Operations \cup {Idle, Finished}]
    BY <1>10, DequeueLine
  <2> QED BY <1>10, <2>1 DEF Dequeue, TypeOK, Workers
<1>11. ASSUME NEW w \in Workers, Commit(w) PROVE TypeOK'
  <2>1. running' \in [Workers -> Operations \cup {Idle, Finished}]
    BY <1>11 DEF Commit, TypeOK
  <2>2. running[w] \in Operations
    BY <1>11, FinishedShape DEF Commit, TypeOK
  <2>3. db' \in [Characters -> [Parts -> Versions]] /\ pinnedDb' \in [Connections -> Writes]
    <3>1. CASE running[w].kind = "save"
      <4> DEFINE op == running[w]
                 saved == [x \in Parts |-> IF x \in DOMAIN op.data THEN op.data[x] ELSE db[op.of][x]]
      <4>1. /\ op.of \in Characters
            /\ op.data \in [{"money"} -> Versions] \cup [Parts -> Versions]
        BY <2>2, <3>1, OperationShape
      <4>2. saved \in [Parts -> Versions]
        BY <4>1 DEF TypeOK
      <4>3. db' = [db EXCEPT ![op.of] = saved] /\ pinnedDb' = pinnedDb
        BY <1>11, <3>1, <4>1 DEF Commit, TypeOK
      <4> HIDE DEF saved
      <4> QED BY <4>1, <4>2, <4>3 DEF TypeOK
    <3>2. CASE running[w].kind = "write"
      <4>1. running[w].of \in Connections /\ running[w].data \in Writes
        BY <2>2, <3>2, OperationShape
      <4> QED BY <1>11, <3>2, <4>1 DEF Commit, TypeOK
    <3> QED BY <1>11, <3>1, <3>2 DEF Commit
  <2> QED BY <1>11, <2>1, <2>3 DEF Commit, TypeOK, Workers
<1>12. ASSUME NEW w \in Workers, Abandon(w) PROVE TypeOK'
  <2>1. running' \in [Workers -> Operations \cup {Idle, Finished}]
    BY <1>12 DEF Abandon, TypeOK
  <2>2. running[w] \in Operations
    BY <1>12, FinishedShape DEF Abandon, TypeOK
  <2>3. spoilt' \subseteq Characters
    <3>1. spoilt \subseteq Characters
      BY DEF TypeOK
    <3>2. running[w].kind = "save" => running[w].of \in Characters
      BY <2>2, OperationShape
    <3>3. \/ spoilt' = spoilt
          \/ running[w].kind = "save" /\ spoilt' = spoilt \cup {running[w].of}
      BY <1>12 DEF Abandon
    <3> QED BY <3>1, <3>2, <3>3
  <2> QED BY <1>12, <2>1, <2>3 DEF Abandon, TypeOK, Workers
<1>13. ASSUME NEW w \in Workers, ReadPart(w) PROVE TypeOK'
  <2>1. running' \in [Workers -> Operations \cup {Idle, Finished}]
    BY <1>13, ReadPartEffect DEF TypeOK
  <2>2. answer' \in [Characters -> {NoAnswer} \cup [Parts -> Versions]]
    BY <1>13, ReadPartEffect DEF TypeOK
  <2> QED BY <1>13, <2>1, <2>2 DEF ReadPart, TypeOK, Workers
<1>14. ASSUME NEW w \in Workers, Finish(w) PROVE TypeOK'
  BY <1>14 DEF Finish, TypeOK, Workers
<1>15. CASE UNCHANGED vars
  BY <1>15 DEF vars, TypeOK, Workers
<1> QED
  BY <1>1, <1>2, <1>3, <1>4, <1>5, <1>6, <1>7, <1>8, <1>9, <1>10, <1>11, <1>12, <1>13, <1>14, <1>15
     DEF Next, WorldThread, Worker

-----------------------------------------------------------------------------
(* Pinned connections. *)

LEMMA WriteInLine ==
  ASSUME TypeOK, NEW w \in Workers, NEW n \in Positions(w), NEW k \in Connections,
         WritesTo(w, n, k)
  PROVE  InLine(w, n) \in Operations /\ InLine(w, n).data \in Writes
<1>1. InLine(w, n) \in Operations
  BY LineShape, FinishedShape DEF WritesTo
<1> QED BY <1>1, OperationShape DEF WritesTo

\* A step after which every write in line was in line before, in the same order.
LEMMA PinnedKept ==
  ASSUME TypeOK, PinnedLine, UNCHANGED <<workers, pinned, pinnedDb>>,
         NEW s \in [Workers -> {0, 1}],
         \A k \in Connections, w \in Workers : \A n \in Positions(w)' :
           WritesTo(w, n, k)' =>
             /\ n + s[w] \in Positions(w) /\ WritesTo(w, n + s[w], k)
             /\ InLine(w, n)' = InLine(w, n + s[w])
  PROVE  PinnedLine'
<1> SUFFICES ASSUME NEW k \in Connections, NEW w \in Workers, NEW n \in Positions(w)',
                    WritesTo(w, n, k)'
             PROVE  /\ w = PinnedWorker(k)
                    /\ pinnedDb[k] < InLine(w, n)'.data /\ InLine(w, n)'.data <= pinned[k]
                    /\ \A m \in Positions(w)' :
                         n < m /\ WritesTo(w, m, k)' => InLine(w, n)'.data < InLine(w, m)'.data
  BY DEF PinnedLine, Workers, PinnedWorker
<1>1. /\ n + s[w] \in Positions(w) /\ WritesTo(w, n + s[w], k)
      /\ InLine(w, n)' = InLine(w, n + s[w])
  OBVIOUS
<1>2. /\ w = PinnedWorker(k)
      /\ pinnedDb[k] < InLine(w, n)'.data /\ InLine(w, n)'.data <= pinned[k]
  BY <1>1 DEF PinnedLine
<1>3. ASSUME NEW m \in Positions(w)', n < m, WritesTo(w, m, k)'
      PROVE  InLine(w, n)'.data < InLine(w, m)'.data
  <2>1. /\ m + s[w] \in Positions(w) /\ WritesTo(w, m + s[w], k)
        /\ InLine(w, m)' = InLine(w, m + s[w])
    BY <1>3
  <2>2. n + s[w] < m + s[w]
    BY <1>3 DEF Positions
  <2>3. InLine(w, n + s[w]).data < InLine(w, m + s[w]).data
    BY <1>1, <2>1, <2>2 DEF PinnedLine
  <2> QED BY <1>1, <2>1, <2>3
<1> QED BY <1>2, <1>3

LEMMA PinnedUnmoved ==
  ASSUME TypeOK, PinnedLine, UNCHANGED <<workers, queue, running, pinned, pinnedDb>>
  PROVE  PinnedLine'
BY DEF PinnedLine, WritesTo, InLine, Positions, Workers, PinnedWorker

LEMMA PinnedStep == TypeOK /\ PinnedLine /\ [Next]_vars => PinnedLine'
<1> SUFFICES ASSUME TypeOK, PinnedLine, [Next]_vars PROVE PinnedLine'
  OBVIOUS
<1> DEFINE still == [w \in Workers |-> 0]
<1>0. still \in [Workers -> {0, 1}] /\ \A w \in Workers : still[w] = 0
  OBVIOUS
<1> HIDE DEF still
<1>a. ASSUME NEW op \in Operations, op.kind # "write", NEW w0 \in Workers, Enqueue(w0, op),
             UNCHANGED <<workers, running, pinned, pinnedDb>>
      PROVE  PinnedLine'
  <2>1. ASSUME NEW k \in Connections, NEW w \in Workers, NEW n \in Positions(w)', WritesTo(w, n, k)'
        PROVE  /\ n + still[w] \in Positions(w) /\ WritesTo(w, n + still[w], k)
               /\ InLine(w, n)' = InLine(w, n + still[w])
    <3>1. n \in Positions(w)
      BY <1>a, <2>1, EnqueueLine DEF WritesTo
    <3>2. InLine(w, n)' = InLine(w, n)
      BY <1>a, <3>1, EnqueueLine
    <3>3. n + still[w] = n
      BY <1>0 DEF Positions
    <3> QED BY <2>1, <3>1, <3>2, <3>3 DEF WritesTo
  <2> QED BY <1>0, <1>a, <2>1, PinnedKept
<1>b. ASSUME NEW w0 \in Workers, NEW op \in Operations \cup {Idle, Finished},
             running' = [running EXCEPT ![w0] = op], op # Idle => op.kind # "write",
             UNCHANGED <<workers, queue, pinned, pinnedDb>>
      PROVE  PinnedLine'
  <2>1. ASSUME NEW k \in Connections, NEW w \in Workers, NEW n \in Positions(w)', WritesTo(w, n, k)'
        PROVE  /\ n + still[w] \in Positions(w) /\ WritesTo(w, n + still[w], k)
               /\ InLine(w, n)' = InLine(w, n + still[w])
    <3>1. n \in Positions(w)
      BY <1>b, RunningLine
    <3>2. InLine(w, n)' = InLine(w, n)
      <4>1. InLine(w, n)' = IF w = w0 /\ n = 0 THEN op ELSE InLine(w, n)
        BY <1>b, <3>1, RunningLine
      <4>2. InLine(w, n)' # op
        BY <1>b, <2>1 DEF WritesTo
      <4> QED BY <4>1, <4>2
    <3>3. n + still[w] = n
      BY <1>0 DEF Positions
    <3> QED BY <2>1, <3>1, <3>2, <3>3 DEF WritesTo
  <2> QED BY <1>0, <1>b, <2>1, PinnedKept
<1>1. ASSUME NEW c \in Characters, NEW part \in Parts, Change(c, part) PROVE PinnedLine'
  BY <1>1, PinnedUnmoved DEF Change, database, store
<1>2. ASSUME NEW c \in Characters, AutoSave(c) \/ LogoutPlayer(c) PROVE PinnedLine'
  BY <1>2, <1>a, SaveShape, GetWorkerInPool DEF AutoSave, LogoutPlayer, SaveToDB, database, store
<1>3. ASSUME NEW c \in Characters, HandlePlayerLoginOpcode(c) PROVE PinnedLine'
  BY <1>3, <1>a, LoadShape, GetWorkerInPool DEF HandlePlayerLoginOpcode, database, store
<1>4. ASSUME NEW c \in Characters, HandlePlayerLogin(c) PROVE PinnedLine'
  BY <1>4, PinnedUnmoved DEF HandlePlayerLogin, database, store
<1>5. ASSUME NEW c \in Characters, CancelLogin(c) PROVE PinnedLine'
  <2>1. ASSUME NEW k \in Connections, NEW w \in Workers, NEW n \in Positions(w)', WritesTo(w, n, k)'
        PROVE  /\ n + still[w] \in Positions(w) /\ WritesTo(w, n + still[w], k)
               /\ InLine(w, n)' = InLine(w, n + still[w])
    <3>1. n \in Positions(w) /\ InLine(w, n)' = Disown(c, InLine(w, n))
      BY <1>5, DisownLine
    <3>2. InLine(w, n) # Idle /\ InLine(w, n) \in Operations \cup {Idle, Finished}
      BY <2>1, <3>1, LineShape DEF WritesTo, Disown
    <3>3. Disown(c, InLine(w, n)) = InLine(w, n)
      <4>1. InLine(w, n)'.kind = "write"
        BY <2>1 DEF WritesTo
      <4>2. InLine(w, n) \in Operations => InLine(w, n).kind = "write"
        BY <3>1, <4>1, DisownShape
      <4> QED BY <3>2, <4>2, DisownShape DEF Disown
    <3>4. n + still[w] = n
      BY <1>0 DEF Positions
    <3> QED BY <2>1, <3>1, <3>3, <3>4 DEF WritesTo
  <2> QED BY <1>0, <1>5, <2>1, PinnedKept DEF CancelLogin, store
<1>6. ASSUME NEW k0 \in Connections, PinnedWrite(k0) PROVE PinnedLine'
  <2>1. /\ PinnedWorker(k0) \in Workers /\ pinned[k0] + 1 \in Writes /\ pinned[k0] \in Nat
        /\ Enqueue(PinnedWorker(k0), Write(k0, pinned[k0] + 1))
        /\ pinned' = [pinned EXCEPT ![k0] = pinned[k0] + 1]
        /\ UNCHANGED <<workers, running, pinnedDb>>
    BY <1>6, PinnedWorkerInPool, DatabaseAssumption DEF PinnedWrite, TypeOK, Writes, database, store
  <2>2. PICK w0 \in Workers, v \in Writes, op \in Operations, last \in Nat :
          /\ w0 = PinnedWorker(k0) /\ v = pinned[k0] + 1 /\ last = Len(queue[w0]) + 1
          /\ op.kind = "write" /\ op.of = k0 /\ op.data = v /\ Enqueue(w0, op)
    BY <2>1, WriteShape, LineShape
  <2>3. /\ \A k \in Connections : pinned[k] \in Nat /\ pinnedDb[k] \in Nat
        /\ \A k \in Connections : pinned[k] <= pinned'[k] /\ pinnedDb'[k] = pinnedDb[k]
        /\ \A k \in Connections : pinned'[k] \in Nat
        /\ v \in Nat /\ pinned'[k0] = v /\ pinned[k0] < v
    <3>1. /\ pinned \in [Connections -> Writes] /\ pinnedDb \in [Connections -> Writes]
          /\ Writes \subseteq Nat
      BY DatabaseAssumption DEF TypeOK, Writes
    <3>2. \A k \in Connections : pinned'[k] = IF k = k0 THEN v ELSE pinned[k]
      BY <2>1, <2>2, <3>1
    <3>3. v \in Nat /\ pinned[k0] < v
      BY <2>1, <2>2
    <3>4. \A k \in Connections : pinned[k] \in Nat /\ pinnedDb[k] \in Nat
      BY <3>1
    <3>5. pinnedDb' = pinnedDb
      BY <2>1
    <3> QED BY <3>2, <3>3, <3>4, <3>5
  <2>4. /\ \A w \in Workers :
             Positions(w)' = IF w = w0 THEN Positions(w) \cup {last} ELSE Positions(w)
        /\ \A w \in Workers : \A n \in Positions(w) : InLine(w, n)' = InLine(w, n)
        /\ \A n \in Positions(w0)' : n = last => InLine(w0, n)' = op
    BY <2>1, <2>2, EnqueueLine
  <2>5. \A n \in Positions(w0) : n < last
    BY <2>2, LineShape DEF Positions
  <2>8. \A w \in Workers : \A n \in Positions(w) :
          \A k \in Connections : WritesTo(w, n, k)' <=> WritesTo(w, n, k)
    BY <2>4 DEF WritesTo
  <2> SUFFICES ASSUME NEW k \in Connections, NEW w \in Workers, NEW n \in Positions(w)', WritesTo(w, n, k)'
               PROVE  /\ w = PinnedWorker(k)
                      /\ pinnedDb[k] < InLine(w, n)'.data /\ InLine(w, n)'.data <= pinned'[k]
                      /\ \A m \in Positions(w)' :
                           n < m /\ WritesTo(w, m, k)' => InLine(w, n)'.data < InLine(w, m)'.data
    <3>1. \A x \in Connections : pinnedDb'[x] <= pinned'[x]
      BY <2>3 DEF PinnedLine
    <3> QED BY <2>1, <3>1 DEF PinnedLine, Workers, PinnedWorker
  <2>6. CASE w = w0 /\ n = last
    <3>1. InLine(w, n)' = op /\ k = k0
      BY <2>2, <2>4, <2>6 DEF WritesTo
    <3>2. pinnedDb[k] < v /\ v <= pinned'[k]
      BY <2>3, <3>1 DEF PinnedLine
    <3>3. \A m \in Positions(w)' : ~(n < m)
      <4> TAKE m \in Positions(w)'
      <4>1. m = last \/ (m \in Positions(w0) /\ m < last)
        BY <2>4, <2>5, <2>6
      <4>2. n = last /\ last \in Nat /\ (m \in Positions(w0) => m \in Nat)
        BY <2>6 DEF Positions
      <4> QED BY <4>1, <4>2
    <3> QED BY <2>2, <2>6, <3>1, <3>2, <3>3
  <2>7. CASE n \in Positions(w)
    <3>1. WritesTo(w, n, k) /\ InLine(w, n)' = InLine(w, n) /\ InLine(w, n).data \in Writes
      BY <2>4, <2>7, <2>8, WriteInLine
    <3>2. /\ w = PinnedWorker(k)
          /\ pinnedDb[k] < InLine(w, n).data /\ InLine(w, n).data <= pinned[k]
      BY <2>7, <3>1 DEF PinnedLine
    <3> DEFINE d == InLine(w, n).data
    <3>3. d \in Nat /\ d <= pinned'[k] /\ (k = k0 => d < v)
      <4>1. d \in Nat /\ v \in Nat
        BY <3>1, DatabaseAssumption DEF Writes
      <4> HIDE DEF d
      <4>2. d <= pinned[k]
        BY <3>2 DEF d
      <4> QED BY <2>3, <4>1, <4>2
    <3>4. ASSUME NEW m \in Positions(w)', n < m, WritesTo(w, m, k)'
          PROVE  d < InLine(w, m)'.data
      <4>1. CASE m \in Positions(w)
        <5>1. WritesTo(w, m, k) /\ InLine(w, m)' = InLine(w, m)
          BY <2>4, <2>8, <3>4, <4>1
        <5>2. d < InLine(w, m).data
          BY <2>7, <3>1, <3>4, <4>1, <5>1 DEF PinnedLine
        <5> QED BY <5>1, <5>2
      <4>2. CASE w = w0 /\ m = last
        <5>1. InLine(w, m)' = op /\ k = k0
          BY <2>2, <2>4, <3>4, <4>2 DEF WritesTo
        <5> QED BY <2>2, <3>3, <5>1
      <4> QED BY <2>4, <3>4, <4>1, <4>2
    <3> QED BY <3>1, <3>2, <3>3, <3>4
  <2> QED BY <2>4, <2>6, <2>7
<1>7. CASE Stop
  BY <1>7, PinnedUnmoved DEF Stop, world, database, store
<1>8. ASSUME NEW w \in Workers, Deactivate(w) PROVE PinnedLine'
  BY <1>8, PinnedUnmoved DEF Deactivate, world, store
<1>9. ASSUME NEW w0 \in Workers, Dequeue(w0) PROVE PinnedLine'
  <2> DEFINE s == [w \in Workers |-> IF w = w0 THEN 1 ELSE 0]
  <2>1. s \in [Workers -> {0, 1}] /\ \A w \in Workers : s[w] = IF w = w0 THEN 1 ELSE 0
    OBVIOUS
  <2> HIDE DEF s
  <2>2. ASSUME NEW k \in Connections, NEW w \in Workers, NEW n \in Positions(w)', WritesTo(w, n, k)'
        PROVE  /\ n + s[w] \in Positions(w) /\ WritesTo(w, n + s[w], k)
               /\ InLine(w, n)' = InLine(w, n + s[w])
    <3>1. CASE w = w0
      <4>1. s[w] = 1
        BY <2>1, <3>1
      <4>2. n + 1 \in Positions(w) /\ InLine(w, n)' = InLine(w, n + 1)
        BY <1>9, <3>1, DequeueLine
      <4> QED BY <2>2, <4>1, <4>2 DEF WritesTo
    <3>2. CASE w # w0
      <4>1. n \in Positions(w) /\ InLine(w, n)' = InLine(w, n)
        BY <1>9, <3>2, DequeueLine
      <4>2. n + s[w] = n
        BY <2>1, <3>2, <4>1 DEF Positions
      <4> QED BY <2>2, <4>1, <4>2 DEF WritesTo
    <3> QED BY <3>1, <3>2
  <2> QED BY <1>9, <2>1, <2>2, PinnedKept DEF Dequeue, asking, world, store
<1>10. ASSUME NEW w0 \in Workers, Commit(w0) PROVE PinnedLine'
  <2> DEFINE op == running[w0]
  <2>1. /\ running' = [running EXCEPT ![w0] = Finished]
        /\ UNCHANGED <<workers, queue, pinned>> /\ op # Idle
        /\ op \in Operations /\ op.kind \in {"save", "write"}
    BY <1>10, FinishedShape DEF Commit, TypeOK, asking, world
  <2>2. CASE op.kind = "save"
    BY <1>10, <1>b, <2>1, <2>2, FinishedShape DEF Commit
  <2>3. CASE op.kind = "write"
    <3> DEFINE k0 == op.of
               v == op.data
    <3>1. /\ k0 \in Connections /\ v \in Writes
          /\ pinnedDb' = [pinnedDb EXCEPT ![k0] = v]
      BY <1>10, <2>1, <2>3, OperationShape DEF Commit
    <3>2. 0 \in Positions(w0) /\ InLine(w0, 0) = op /\ WritesTo(w0, 0, k0)
      BY <2>1, <2>3, LineShape DEF Positions, InLine, WritesTo
    <3>3. /\ w0 = PinnedWorker(k0) /\ v <= pinned[k0] /\ pinnedDb[k0] < v
          /\ \A m \in Positions(w0) : 0 < m /\ WritesTo(w0, m, k0) => v < InLine(w0, m).data
      BY <3>1, <3>2 DEF PinnedLine
    <3>4. ASSUME NEW k \in Connections, NEW w \in Workers, NEW n \in Positions(w)', WritesTo(w, n, k)'
          PROVE  /\ n \in Positions(w) /\ (n # 0 \/ w # w0)
                 /\ InLine(w, n)' = InLine(w, n) /\ WritesTo(w, n, k)
      <4>1. /\ n \in Positions(w)
            /\ InLine(w, n)' = IF w = w0 /\ n = 0 THEN Finished ELSE InLine(w, n)
        BY <2>1, <3>4, RunningLine
      <4>2. InLine(w, n)' # Finished
        BY <3>4, FinishedShape DEF WritesTo
      <4> QED BY <3>4, <4>1, <4>2 DEF WritesTo
    <3> HIDE DEF k0, v, op
    <3>5. \A k \in Connections : pinnedDb'[k] <= pinned'[k]
      BY <2>1, <3>1, <3>3 DEF PinnedLine, TypeOK
    <3>6. ASSUME NEW k \in Connections, NEW w \in Workers, NEW n \in Positions(w)', WritesTo(w, n, k)'
          PROVE  /\ w = PinnedWorker(k)
                 /\ pinnedDb'[k] < InLine(w, n)'.data /\ InLine(w, n)'.data <= pinned[k]
                 /\ \A m \in Positions(w)' :
                      n < m /\ WritesTo(w, m, k)' => InLine(w, n)'.data < InLine(w, m)'.data
      <4>1. /\ n \in Positions(w) /\ (n # 0 \/ w # w0)
            /\ InLine(w, n)' = InLine(w, n) /\ WritesTo(w, n, k)
        BY <3>4, <3>6
      <4>2. /\ w = PinnedWorker(k)
            /\ pinnedDb[k] < InLine(w, n).data /\ InLine(w, n).data <= pinned[k]
        BY <4>1 DEF PinnedLine
      <4>3. pinnedDb'[k] < InLine(w, n)'.data
        <5>1. CASE k = k0
          <6>1. w = w0 /\ 0 < n
            BY <3>3, <4>1, <4>2, <5>1 DEF Positions
          <6>2. v < InLine(w, n).data
            BY <3>3, <4>1, <5>1, <6>1
          <6> QED BY <3>1, <4>1, <5>1, <6>2 DEF TypeOK
        <5>2. CASE k # k0
          BY <3>1, <4>1, <4>2, <5>2 DEF TypeOK
        <5> QED BY <5>1, <5>2
      <4>4. ASSUME NEW m \in Positions(w)', n < m, WritesTo(w, m, k)'
            PROVE  InLine(w, n)'.data < InLine(w, m)'.data
        <5>1. m \in Positions(w) /\ InLine(w, m)' = InLine(w, m) /\ WritesTo(w, m, k)
          BY <3>4, <4>4
        <5>2. InLine(w, n).data < InLine(w, m).data
          BY <4>1, <4>4, <5>1 DEF PinnedLine
        <5> QED BY <4>1, <5>1, <5>2
      <4> QED BY <4>1, <4>2, <4>3, <4>4
    <3> QED BY <2>1, <3>5, <3>6 DEF PinnedLine, Workers, PinnedWorker
  <2> QED BY <2>1, <2>2, <2>3
<1>11. ASSUME NEW w0 \in Workers, Abandon(w0) PROVE PinnedLine'
  BY <1>11, <1>b, FinishedShape DEF Abandon, asking, world, store
<1>12. ASSUME NEW w0 \in Workers, ReadPart(w0) PROVE PinnedLine'
  <2>1. UNCHANGED <<workers, queue, pinned, pinnedDb>>
    BY <1>12 DEF ReadPart, asking, world, store
  <2>2. \E op \in Operations \cup {Idle, Finished} :
          running' = [running EXCEPT ![w0] = op] /\ op.kind # "write"
    BY <1>12, ReadPartEffect, FinishedShape
  <2> QED BY <1>b, <2>1, <2>2
<1>13. ASSUME NEW w0 \in Workers, Finish(w0) PROVE PinnedLine'
  BY <1>13, <1>b DEF Finish, asking, world, store
<1>14. CASE UNCHANGED vars
  BY <1>14, PinnedUnmoved DEF vars, world, store
<1> QED
  BY <1>1, <1>2, <1>3, <1>4, <1>5, <1>6, <1>7, <1>8, <1>9, <1>10, <1>11, <1>12, <1>13, <1>14
     DEF Next, WorldThread, Worker

-----------------------------------------------------------------------------
(* One query or one answer for each login. *)

\* A step after which every load in line was in line before and is still awaited.
LEMMA OneLoadKept ==
  ASSUME TypeOK, OneLoad, UNCHANGED workers, NEW s \in [Workers -> {0, 1}],
         \A c \in Characters : answer'[c] # NoAnswer => state'[c] = "loading",
         \A c \in Characters, w \in Workers : \A n \in Positions(w)' :
           Loads(w, n, c)' =>
             /\ n + s[w] \in Positions(w) /\ Loads(w, n + s[w], c)
             /\ state'[c] = "loading" /\ answer'[c] = NoAnswer
  PROVE  OneLoad'
<1> SUFFICES ASSUME NEW c \in Characters, NEW w \in Workers, NEW n \in Positions(w)', Loads(w, n, c)',
                    NEW v \in Workers, NEW m \in Positions(v)', Loads(v, m, c)'
             PROVE  v = w /\ m = n
  BY DEF OneLoad, Workers
<1>1. n + s[w] \in Positions(w) /\ Loads(w, n + s[w], c)
  OBVIOUS
<1>2. m + s[v] \in Positions(v) /\ Loads(v, m + s[v], c)
  OBVIOUS
<1>3. v = w /\ m + s[v] = n + s[w]
  BY <1>1, <1>2 DEF OneLoad
<1> QED BY <1>3 DEF Positions

LEMMA OneLoadUnmoved ==
  ASSUME TypeOK, OneLoad, UNCHANGED <<workers, queue, running, state, answer>>
  PROVE  OneLoad'
BY DEF OneLoad, Loads, InLine, Positions, Workers

LEMMA OneLoadStep == TypeOK /\ OneLoad /\ [Next]_vars => OneLoad'
<1> SUFFICES ASSUME TypeOK, OneLoad, [Next]_vars PROVE OneLoad'
  OBVIOUS
<1> DEFINE still == [w \in Workers |-> 0]
<1>0. still \in [Workers -> {0, 1}] /\ \A w \in Workers, n \in Nat : n + still[w] = n
  OBVIOUS
<1> HIDE DEF still
<1>p. \A w \in Workers : \A n \in Positions(w) : n \in Nat
  BY LineShape
<1>a. ASSUME NEW op \in Operations, op.kind # "load", NEW w0 \in Workers, Enqueue(w0, op),
             UNCHANGED <<workers, running, answer>>,
             \A c \in Characters : state[c] = "loading" => state'[c] = "loading"
      PROVE  OneLoad'
  <2>1. ASSUME NEW c \in Characters, NEW w \in Workers, NEW n \in Positions(w)', Loads(w, n, c)'
        PROVE  /\ n + still[w] \in Positions(w) /\ Loads(w, n + still[w], c)
               /\ state'[c] = "loading" /\ answer'[c] = NoAnswer
    <3>1. n \in Positions(w)
      BY <1>a, <2>1, EnqueueLine DEF Loads
    <3>2. Loads(w, n, c)
      BY <1>a, <2>1, <3>1, EnqueueLine DEF Loads
    <3> QED BY <1>0, <1>a, <1>p, <3>1, <3>2 DEF OneLoad
  <2> QED BY <1>0, <1>a, <2>1, OneLoadKept DEF OneLoad
<1>b. ASSUME NEW w0 \in Workers, NEW op \in {Idle, Finished},
             running' = [running EXCEPT ![w0] = op], UNCHANGED <<workers, queue, state, answer>>
      PROVE  OneLoad'
  <2>1. ASSUME NEW c \in Characters, NEW w \in Workers, NEW n \in Positions(w)', Loads(w, n, c)'
        PROVE  /\ n + still[w] \in Positions(w) /\ Loads(w, n + still[w], c)
               /\ state'[c] = "loading" /\ answer'[c] = NoAnswer
    <3>1. n \in Positions(w)
      BY <1>b, RunningLine
    <3>2. Loads(w, n, c)
      <4>1. InLine(w, n)' = IF w = w0 /\ n = 0 THEN op ELSE InLine(w, n)
        BY <1>b, <3>1, RunningLine
      <4>2. InLine(w, n)' # op
        BY <1>b, <2>1, FinishedShape DEF Loads
      <4> QED BY <2>1, <4>1, <4>2 DEF Loads
    <3> QED BY <1>0, <1>b, <1>p, <3>1, <3>2 DEF OneLoad
  <2> QED BY <1>0, <1>b, <2>1, OneLoadKept DEF OneLoad
<1>1. ASSUME NEW c \in Characters, NEW part \in Parts, Change(c, part) PROVE OneLoad'
  BY <1>1, OneLoadUnmoved DEF Change, database
<1>2. ASSUME NEW c \in Characters, AutoSave(c) \/ LogoutPlayer(c) PROVE OneLoad'
  <2>1. /\ UNCHANGED <<workers, running, answer>>
        /\ \A x \in Characters : state[x] = "loading" => state'[x] = "loading"
    BY <1>2 DEF AutoSave, LogoutPlayer, TypeOK, database
  <2> QED BY <1>2, <1>a, <2>1, SaveShape, GetWorkerInPool DEF AutoSave, LogoutPlayer, SaveToDB
<1>3. ASSUME NEW c0 \in Characters, HandlePlayerLoginOpcode(c0) PROVE OneLoad'
  <2>1. /\ UNCHANGED <<workers, running, answer>> /\ state[c0] = "offline"
        /\ state' = [state EXCEPT ![c0] = "loading"]
        /\ GetWorker \in Workers /\ Enqueue(GetWorker, Load(c0))
    BY <1>3, GetWorkerInPool DEF HandlePlayerLoginOpcode, database
  <2>2. PICK w0 \in Workers, op \in Operations, last \in Nat :
          /\ last = Len(queue[w0]) + 1 /\ op = Load(c0) /\ Enqueue(w0, op)
    BY <2>1, LoadShape, LineShape
  <2>3. /\ \A w \in Workers :
             Positions(w)' = IF w = w0 THEN Positions(w) \cup {last} ELSE Positions(w)
        /\ \A w \in Workers : \A n \in Positions(w) : InLine(w, n)' = InLine(w, n)
        /\ \A n \in Positions(w0)' : n = last => InLine(w0, n)' = op
    BY <2>1, <2>2, EnqueueLine
  <2>4. \A c \in Characters : answer'[c] # NoAnswer => state'[c] = "loading"
    BY <2>1 DEF OneLoad, TypeOK
  <2>5. ASSUME NEW c \in Characters, NEW w \in Workers, NEW n \in Positions(w)', Loads(w, n, c)'
        PROVE  \/ c = c0 /\ w = w0 /\ n = last
               \/ c # c0 /\ n \in Positions(w) /\ Loads(w, n, c)
    <3>1. CASE n \in Positions(w)
      BY <2>1, <2>3, <2>5, <3>1 DEF Loads, OneLoad
    <3>2. CASE w = w0 /\ n = last
      BY <2>2, <2>3, <2>5, <3>2, LoadShape DEF Loads
    <3> QED BY <2>3, <3>1, <3>2
  <2> SUFFICES ASSUME NEW c \in Characters, NEW w \in Workers, NEW n \in Positions(w)', Loads(w, n, c)'
               PROVE  /\ state'[c] = "loading" /\ answer'[c] = NoAnswer
                      /\ \A v \in Workers : \A m \in Positions(v)' : Loads(v, m, c)' => v = w /\ m = n
    BY <2>1, <2>4 DEF OneLoad, Workers
  <2>6. CASE c = c0
    BY <2>1, <2>5, <2>6 DEF OneLoad, TypeOK
  <2>7. CASE c # c0
    BY <2>1, <2>5, <2>7 DEF OneLoad
  <2> QED BY <2>6, <2>7
<1>4. ASSUME NEW c0 \in Characters, HandlePlayerLogin(c0) PROVE OneLoad'
  <2>1. /\ UNCHANGED <<workers, queue, running>> /\ answer[c0] # NoAnswer
        /\ state' = [state EXCEPT ![c0] = "inWorld"] /\ answer' = [answer EXCEPT ![c0] = NoAnswer]
    BY <1>4 DEF HandlePlayerLogin, database
  <2>2. \A c \in Characters : answer'[c] # NoAnswer => state'[c] = "loading"
    BY <2>1 DEF OneLoad, TypeOK
  <2>3. ASSUME NEW c \in Characters, NEW w \in Workers, NEW n \in Positions(w)', Loads(w, n, c)'
        PROVE  /\ n + still[w] \in Positions(w) /\ Loads(w, n + still[w], c)
               /\ state'[c] = "loading" /\ answer'[c] = NoAnswer
    <3>1. n \in Positions(w) /\ Loads(w, n, c)
      BY <2>1, <2>3 DEF Positions, Loads, InLine
    <3>2. c # c0
      BY <2>1, <3>1 DEF OneLoad
    <3> QED BY <1>0, <1>p, <2>1, <3>1, <3>2 DEF OneLoad
  <2> QED BY <1>0, <2>1, <2>2, <2>3, OneLoadKept
<1>5. ASSUME NEW c0 \in Characters, CancelLogin(c0) PROVE OneLoad'
  <2>1. /\ UNCHANGED workers
        /\ state' = [state EXCEPT ![c0] = "offline"] /\ answer' = [answer EXCEPT ![c0] = NoAnswer]
    BY <1>5 DEF CancelLogin
  <2>2. \A c \in Characters : answer'[c] # NoAnswer => state'[c] = "loading"
    BY <2>1 DEF OneLoad, TypeOK
  <2>3. ASSUME NEW c \in Characters, NEW w \in Workers, NEW n \in Positions(w)', Loads(w, n, c)'
        PROVE  /\ n + still[w] \in Positions(w) /\ Loads(w, n + still[w], c)
               /\ state'[c] = "loading" /\ answer'[c] = NoAnswer
    <3>1. n \in Positions(w) /\ InLine(w, n)' = Disown(c0, InLine(w, n))
      BY <1>5, DisownLine
    <3>2. InLine(w, n) \in Operations
      BY <2>3, <3>1, LineShape, DisownShape, FinishedShape DEF Loads
    <3>3. /\ InLine(w, n).kind = "load" /\ InLine(w, n).of = c /\ InLine(w, n) # Idle /\ c # c0
      BY <2>3, <3>1, <3>2, DisownShape, OperationShape DEF Loads
    <3>4. Loads(w, n, c)
      BY <3>3 DEF Loads
    <3> QED BY <1>0, <1>p, <2>1, <3>1, <3>3, <3>4 DEF OneLoad
  <2> QED BY <1>0, <2>1, <2>2, <2>3, OneLoadKept
<1>6. ASSUME NEW k \in Connections, PinnedWrite(k) PROVE OneLoad'
  <2>1. pinned[k] + 1 \in Writes
    BY <1>6, DatabaseAssumption DEF PinnedWrite, TypeOK, Writes
  <2> QED BY <1>6, <1>a, <2>1, PinnedWorkerInPool, WriteShape DEF PinnedWrite, database
<1>7. CASE Stop
  BY <1>7, OneLoadUnmoved DEF Stop, world, database
<1>8. ASSUME NEW w \in Workers, Deactivate(w) PROVE OneLoad'
  BY <1>8, OneLoadUnmoved DEF Deactivate, world
<1>9. ASSUME NEW w0 \in Workers, Dequeue(w0) PROVE OneLoad'
  <2> DEFINE s == [w \in Workers |-> IF w = w0 THEN 1 ELSE 0]
  <2>1. s \in [Workers -> {0, 1}] /\ \A w \in Workers : s[w] = IF w = w0 THEN 1 ELSE 0
    OBVIOUS
  <2> HIDE DEF s
  <2>2. UNCHANGED <<workers, state, answer>>
    BY <1>9 DEF Dequeue, asking, world
  <2>3. ASSUME NEW c \in Characters, NEW w \in Workers, NEW n \in Positions(w)', Loads(w, n, c)'
        PROVE  n + s[w] \in Positions(w) /\ Loads(w, n + s[w], c)
    <3>1. CASE w = w0
      <4>1. s[w] = 1
        BY <2>1, <3>1
      <4>2. n + 1 \in Positions(w) /\ InLine(w, n)' = InLine(w, n + 1)
        BY <1>9, <3>1, DequeueLine
      <4> QED BY <2>3, <4>1, <4>2 DEF Loads
    <3>2. CASE w # w0
      <4>1. n \in Positions(w) /\ InLine(w, n)' = InLine(w, n)
        BY <1>9, <3>2, DequeueLine
      <4>2. n + s[w] = n
        BY <1>p, <2>1, <3>2, <4>1
      <4> QED BY <2>3, <4>1, <4>2 DEF Loads
    <3> QED BY <3>1, <3>2
  <2>4. ASSUME NEW c \in Characters, NEW w \in Workers, NEW n \in Positions(w)', Loads(w, n, c)'
        PROVE  /\ n + s[w] \in Positions(w) /\ Loads(w, n + s[w], c)
               /\ state'[c] = "loading" /\ answer'[c] = NoAnswer
    BY <2>2, <2>3, <2>4 DEF OneLoad
  <2>5. \A c \in Characters : answer'[c] # NoAnswer => state'[c] = "loading"
    BY <2>2 DEF OneLoad
  <2> QED BY <2>1, <2>2, <2>4, <2>5, OneLoadKept
<1>10. ASSUME NEW w0 \in Workers, Commit(w0) \/ Abandon(w0) PROVE OneLoad'
  BY <1>10, <1>b DEF Commit, Abandon, asking, world
<1>11. ASSUME NEW w0 \in Workers, ReadPart(w0) PROVE OneLoad'
  <2> DEFINE op == running[w0]
  <2>1. /\ UNCHANGED <<workers, queue, state>>
        /\ op \in Operations /\ op.kind \in {"load", "orphan"} /\ op.of \in Characters
    BY <1>11, ReadPartEffect DEF ReadPart, asking, world
  <2>2. 0 \in Positions(w0) /\ InLine(w0, 0) = op /\ op # Idle
    BY <2>1, LineShape, OperationShape DEF Positions, InLine
  <2>3. CASE answer' = answer /\ \E next \in Operations :
               /\ running' = [running EXCEPT ![w0] = next]
               /\ next.kind = op.kind /\ next.of = op.of
    <3>1. PICK next \in Operations :
            running' = [running EXCEPT ![w0] = next] /\ next.kind = op.kind /\ next.of = op.of
      BY <2>3
    <3>2. ASSUME NEW c \in Characters, NEW w \in Workers, NEW n \in Positions(w)', Loads(w, n, c)'
          PROVE  /\ n + still[w] \in Positions(w) /\ Loads(w, n + still[w], c)
                 /\ state'[c] = "loading" /\ answer'[c] = NoAnswer
      <4>1. n \in Positions(w)
        BY <2>1, <3>1, RunningLine
      <4>2. InLine(w, n)' = IF w = w0 /\ n = 0 THEN next ELSE InLine(w, n)
        BY <2>1, <3>1, <4>1, RunningLine
      <4>3. Loads(w, n, c)
        BY <2>2, <3>1, <3>2, <4>2 DEF Loads
      <4> QED BY <1>0, <1>p, <2>1, <2>3, <4>1, <4>3 DEF OneLoad
    <3> QED BY <1>0, <2>1, <2>3, <3>2, OneLoadKept DEF OneLoad
  <2>4. CASE running' = [running EXCEPT ![w0] = Finished] /\ op.kind = "orphan" /\ answer' = answer
    BY <1>b, <2>1, <2>4
  <2>5. CASE /\ running' = [running EXCEPT ![w0] = Finished] /\ op.kind = "load"
             /\ \E read \in [Parts -> Versions] : answer' = [answer EXCEPT ![op.of] = read]
    <3>1. PICK read \in [Parts -> Versions] : answer' = [answer EXCEPT ![op.of] = read]
      BY <2>5
    <3>2. Loads(w0, 0, op.of)
      BY <2>2, <2>5 DEF Loads
    <3>3. \A c \in Characters : answer'[c] # NoAnswer => state'[c] = "loading"
      BY <2>1, <2>2, <3>1, <3>2 DEF OneLoad, TypeOK
    <3>4. ASSUME NEW c \in Characters, NEW w \in Workers, NEW n \in Positions(w)', Loads(w, n, c)'
          PROVE  /\ n + still[w] \in Positions(w) /\ Loads(w, n + still[w], c)
                 /\ state'[c] = "loading" /\ answer'[c] = NoAnswer
      <4>1. n \in Positions(w)
        BY <2>1, <2>5, RunningLine
      <4>2. InLine(w, n)' = IF w = w0 /\ n = 0 THEN Finished ELSE InLine(w, n)
        BY <2>1, <2>5, <4>1, RunningLine
      <4>3. Loads(w, n, c) /\ ~(w = w0 /\ n = 0)
        BY <3>4, <4>2, FinishedShape DEF Loads
      <4>4. c # op.of
        <5>1. \A v \in Workers : \A m \in Positions(v) :
                Loads(v, m, op.of) => v = w0 /\ m = 0
          BY <2>1, <2>2, <3>2 DEF OneLoad
        <5> QED BY <4>1, <4>3, <5>1
      <4>5. state[c] = "loading" /\ answer[c] = NoAnswer
        BY <4>1, <4>3 DEF OneLoad
      <4> QED BY <1>0, <1>p, <2>1, <3>1, <4>1, <4>3, <4>4, <4>5
    <3> QED BY <1>0, <2>1, <3>3, <3>4, OneLoadKept
  <2> QED BY <1>11, <2>1, <2>3, <2>4, <2>5, ReadPartEffect
<1>12. ASSUME NEW w0 \in Workers, Finish(w0) PROVE OneLoad'
  BY <1>12, <1>b DEF Finish, asking, world
<1>13. CASE UNCHANGED vars
  BY <1>13, OneLoadUnmoved DEF vars, world
<1> QED
  BY <1>1, <1>2, <1>3, <1>4, <1>5, <1>6, <1>7, <1>8, <1>9, <1>10, <1>11, <1>12, <1>13
     DEF Next, WorldThread, Worker

-----------------------------------------------------------------------------
(* One worker: the last save wins. *)

LEMMA SaveInLine ==
  ASSUME TypeOK, NEW w \in Workers, NEW n \in Positions(w), NEW c \in Characters, NEW x \in Parts,
         Saves(w, n, c, x)
  PROVE  /\ InLine(w, n) \in Operations /\ InLine(w, n).kind = "save" /\ InLine(w, n).of = c
         /\ x \in DOMAIN InLine(w, n).data
BY LineShape, FinishedShape DEF Saves

\* A step after which the saves in line are those there were, in the same order,
\* except for characters it spoils.
LEMMA LastSaveKept ==
  ASSUME TypeOK, LastSaveWins, UNCHANGED <<workers, requested, db>>, spoilt \subseteq spoilt',
         NEW s \in {0, 1},
         workers = 1 =>
           \A c \in Characters \ spoilt' : \A x \in Parts :
             /\ \A n \in Positions(1)' :
                  Saves(1, n, c, x)' =>
                    n + s \in Positions(1) /\ Saves(1, n + s, c, x) /\ InLine(1, n)' = InLine(1, n + s)
             /\ \A n \in Positions(1) :
                  Saves(1, n, c, x) => n - s \in Positions(1)' /\ Saves(1, n - s, c, x)'
  PROVE  LastSaveWins'
<1> SUFFICES ASSUME workers = 1, NEW c \in Characters \ spoilt', NEW x \in Parts
             PROVE  /\ \A n \in Positions(1)' :
                         Saves(1, n, c, x)' =>
                           \/ InLine(1, n)'.data[x] = requested[c][x]
                           \/ \E m \in Positions(1)' : n < m /\ Saves(1, m, c, x)'
                    /\ (\A n \in Positions(1)' : ~Saves(1, n, c, x)') => db[c][x] = requested[c][x]
  BY DEF LastSaveWins
<1>0. c \in Characters \ spoilt
  OBVIOUS
<1>1. ASSUME NEW n \in Positions(1)', Saves(1, n, c, x)'
      PROVE  \/ InLine(1, n)'.data[x] = requested[c][x]
             \/ \E m \in Positions(1)' : n < m /\ Saves(1, m, c, x)'
  <2>1. n + s \in Positions(1) /\ Saves(1, n + s, c, x) /\ InLine(1, n)' = InLine(1, n + s)
    BY <1>1
  <2>2. CASE InLine(1, n + s).data[x] = requested[c][x]
    BY <2>1, <2>2
  <2>3. ASSUME NEW m \in Positions(1), n + s < m, Saves(1, m, c, x)
        PROVE  \E i \in Positions(1)' : n < i /\ Saves(1, i, c, x)'
    <3>1. m - s \in Positions(1)' /\ Saves(1, m - s, c, x)'
      BY <2>3
    <3>2. n < m - s
      BY <2>3 DEF Positions
    <3> QED BY <3>1, <3>2
  <2> QED BY <1>0, <2>1, <2>2, <2>3 DEF LastSaveWins
<1>2. ASSUME \A n \in Positions(1)' : ~Saves(1, n, c, x)'
      PROVE  db[c][x] = requested[c][x]
  <2>1. \A n \in Positions(1) : ~Saves(1, n, c, x)
    BY <1>2
  <2> QED BY <1>0, <2>1 DEF LastSaveWins
<1> QED BY <1>1, <1>2

LEMMA LastSaveUnmoved ==
  ASSUME TypeOK, LastSaveWins, UNCHANGED <<workers, queue, running, requested, db, spoilt>>
  PROVE  LastSaveWins'
BY DEF LastSaveWins, Saves, InLine, Positions

\* SaveToDB, for the database and for its readers.
LEMMA SaveStep ==
  ASSUME TypeOK, OneLoad, LastSaveWins, ReadersAreLast, workers = 1,
         NEW c0 \in Characters, state[c0] = "inWorld", SaveToDB(c0),
         UNCHANGED <<workers, running, mem, answer, spoilt, store>>,
         \A c \in Characters \ {c0} : state'[c] = state[c]
  PROVE  LastSaveWins' /\ ReadersAreLast'
<1>0. 1 \in Workers /\ \A w \in Workers : w = 1
  BY DEF Workers
<1> DEFINE parts == IF dirty[c0] THEN Parts ELSE {"money"}
<1>1. PICK op \in Operations, last \in Nat :
        /\ op.kind = "save" /\ op.of = c0 /\ DOMAIN op.data = parts
        /\ \A x \in parts : op.data[x] = mem[c0][x]
        /\ last = Len(queue[1]) + 1 /\ Enqueue(1, op)
  BY <1>0, SaveShape, GetWorkerInPool, LineShape DEF SaveToDB
<1>2. /\ Positions(1)' = Positions(1) \cup {last}
      /\ \A n \in Positions(1) : InLine(1, n)' = InLine(1, n) /\ n < last /\ n \in Nat
      /\ \A n \in Positions(1)' : n = last => InLine(1, n)' = op
  <2>1. \A n \in Positions(1) : n < last /\ n \in Nat
    BY <1>0, <1>1, LineShape DEF Positions
  <2> QED BY <1>0, <1>1, <2>1, EnqueueLine
<1>3. /\ dirty' = [dirty EXCEPT ![c0] = FALSE]
      /\ requested' = [requested EXCEPT ![c0] = mem[c0]]
      /\ db' = db /\ op # Idle
  BY <1>1, OperationShape DEF SaveToDB, store
<1>4. ~dirty[c0] /\ c0 \notin spoilt => mem[c0]["items"] = requested[c0]["items"]
  BY DEF ReadersAreLast
<1>5. ASSUME NEW c \in Characters \ {c0}, NEW x \in Parts
      PROVE  /\ \A n \in Positions(1) : Saves(1, n, c, x)' <=> Saves(1, n, c, x)
             /\ ~Saves(1, last, c, x)'
             /\ requested'[c] = requested[c] /\ dirty'[c] = dirty[c]
  BY <1>1, <1>2, <1>3 DEF Saves, TypeOK
<1>6. \A n \in Positions(1) : \A x \in Parts : Saves(1, n, c0, x)' <=> Saves(1, n, c0, x)
  BY <1>2 DEF Saves
<1>7. \A x \in Parts : Saves(1, last, c0, x)' <=> x \in parts
  BY <1>1, <1>2, <1>3 DEF Saves
<1>8. ASSUME NEW c \in Characters \ spoilt, NEW x \in Parts
      PROVE  /\ \A n \in Positions(1)' :
                  Saves(1, n, c, x)' =>
                    \/ InLine(1, n)'.data[x] = requested'[c][x]
                    \/ \E m \in Positions(1)' : n < m /\ Saves(1, m, c, x)'
             /\ (\A n \in Positions(1)' : ~Saves(1, n, c, x)') => db[c][x] = requested'[c][x]
  <2>1. CASE c # c0
    <3>1. /\ \A n \in Positions(1)' : Saves(1, n, c, x)' => n \in Positions(1) /\ Saves(1, n, c, x)
          /\ \A n \in Positions(1) : Saves(1, n, c, x) => n \in Positions(1)' /\ Saves(1, n, c, x)'
          /\ \A n \in Positions(1) : InLine(1, n)' = InLine(1, n)
          /\ requested'[c][x] = requested[c][x]
      BY <1>2, <1>5, <1>8, <2>1
    <3>2. /\ \A n \in Positions(1) :
               Saves(1, n, c, x) =>
                 \/ InLine(1, n).data[x] = requested[c][x]
                 \/ \E m \in Positions(1) : n < m /\ Saves(1, m, c, x)
          /\ (\A n \in Positions(1) : ~Saves(1, n, c, x)) => db[c][x] = requested[c][x]
      BY <1>8 DEF LastSaveWins
    <3>3. ASSUME NEW n \in Positions(1)', Saves(1, n, c, x)'
          PROVE  \/ InLine(1, n)'.data[x] = requested'[c][x]
                 \/ \E m \in Positions(1)' : n < m /\ Saves(1, m, c, x)'
      <4>1. n \in Positions(1) /\ Saves(1, n, c, x) /\ InLine(1, n)' = InLine(1, n)
        BY <3>1, <3>3
      <4>2. CASE InLine(1, n).data[x] = requested[c][x]
        BY <3>1, <4>1, <4>2
      <4>3. ASSUME NEW m \in Positions(1), n < m, Saves(1, m, c, x)
            PROVE  \E i \in Positions(1)' : n < i /\ Saves(1, i, c, x)'
        BY <3>1, <4>3
      <4> QED BY <3>2, <4>1, <4>2, <4>3
    <3>4. ASSUME \A n \in Positions(1)' : ~Saves(1, n, c, x)'
          PROVE  db[c][x] = requested'[c][x]
      BY <3>1, <3>2, <3>4
    <3> QED BY <3>3, <3>4
  <2>2. CASE c = c0 /\ x \in parts
    <3>1. InLine(1, last)'.data[x] = requested'[c][x]
      BY <1>1, <1>2, <1>3, <2>2 DEF TypeOK
    <3>2. last \in Positions(1)' /\ Saves(1, last, c, x)'
      BY <1>2, <1>7, <2>2
    <3> QED BY <1>2, <3>1, <3>2
  <2>3. CASE c = c0 /\ x \notin parts
    <3>1. x = "items" /\ ~dirty[c0]
      BY <2>3 DEF Parts
    <3>2. requested'[c][x] = requested[c][x]
      BY <1>3, <1>4, <1>8, <2>3, <3>1 DEF TypeOK
    <3>3. \A n \in Positions(1)' : Saves(1, n, c, x)' => n \in Positions(1) /\ Saves(1, n, c, x)
      BY <1>2, <1>6, <1>7, <2>3
    <3> QED BY <1>2, <1>6, <1>8, <2>3, <3>2, <3>3 DEF LastSaveWins
  <2> QED BY <2>1, <2>2, <2>3
<1>9. LastSaveWins'
  BY <1>3, <1>8 DEF LastSaveWins
<1>10. \A n \in Positions(1)', c \in Characters :
         Loads(1, n, c)' => c # c0 /\ n \in Positions(1) /\ Loads(1, n, c)
  BY <1>0, <1>1, <1>2 DEF Loads, OneLoad
<1>11. answer[c0] = NoAnswer
  BY DEF OneLoad
<1>12. ASSUME NEW c \in Characters \ spoilt
       PROVE  /\ state'[c] = "inWorld" /\ ~dirty'[c] => mem[c]["items"] = requested'[c]["items"]
              /\ answer[c] # NoAnswer =>
                   /\ answer[c] = requested'[c]
                   /\ \A n \in Positions(1)', x \in Parts : ~Saves(1, n, c, x)'
              /\ \A n \in Positions(1)' :
                   Loads(1, n, c)' =>
                     /\ \A m \in Positions(1)', x \in Parts : m > n => ~Saves(1, m, c, x)'
                     /\ \A x \in DOMAIN InLine(1, n)'.data : InLine(1, n)'.data[x] = requested'[c][x]
                     /\ n # 0 => InLine(1, n)'.data = <<>>
  <2>1. CASE c = c0
    BY <1>3, <1>10, <1>11, <2>1 DEF TypeOK
  <2>2. CASE c # c0
    <3>1. /\ \A n \in Positions(1)', x \in Parts :
               Saves(1, n, c, x)' => n \in Positions(1) /\ Saves(1, n, c, x)
          /\ requested'[c] = requested[c] /\ dirty'[c] = dirty[c] /\ state'[c] = state[c]
      <4>1. "money" \in Parts
        BY DEF Parts
      <4> QED BY <1>2, <1>5, <1>12, <2>2, <4>1
    <3>2. /\ state[c] = "inWorld" /\ ~dirty[c] => mem[c]["items"] = requested[c]["items"]
          /\ answer[c] # NoAnswer =>
               /\ answer[c] = requested[c]
               /\ \A n \in Positions(1), x \in Parts : ~Saves(1, n, c, x)
      BY <1>12 DEF ReadersAreLast
    <3>3. ASSUME NEW n \in Positions(1)', Loads(1, n, c)'
          PROVE  /\ \A m \in Positions(1)', x \in Parts : m > n => ~Saves(1, m, c, x)'
                 /\ \A x \in DOMAIN InLine(1, n)'.data : InLine(1, n)'.data[x] = requested'[c][x]
                 /\ n # 0 => InLine(1, n)'.data = <<>>
      <4>1. n \in Positions(1) /\ Loads(1, n, c) /\ InLine(1, n)' = InLine(1, n)
        BY <1>2, <1>10, <1>12, <3>3
      <4>2. /\ \A m \in Positions(1), x \in Parts : m > n => ~Saves(1, m, c, x)
            /\ \A x \in DOMAIN InLine(1, n).data : InLine(1, n).data[x] = requested[c][x]
            /\ n # 0 => InLine(1, n).data = <<>>
        BY <1>12, <4>1 DEF ReadersAreLast
      <4> QED BY <3>1, <4>1, <4>2
    <3> QED BY <3>1, <3>2, <3>3
  <2> QED BY <2>1, <2>2
<1>13. ReadersAreLast'
  BY <1>12 DEF ReadersAreLast
<1> QED BY <1>9, <1>13

\* A step after which the saves and loads in line are among those there were.
LEMMA ReadersKept ==
  ASSUME TypeOK, ReadersAreLast, UNCHANGED <<workers, requested>>, spoilt \subseteq spoilt',
         NEW s \in {0, 1},
         workers = 1 =>
           \A c \in Characters \ spoilt' :
             /\ state'[c] = "inWorld" /\ ~dirty'[c] => mem'[c]["items"] = requested[c]["items"]
             /\ answer'[c] # NoAnswer => answer'[c] = answer[c]
             /\ \A n \in Positions(1)', x \in Parts :
                  Saves(1, n, c, x)' => n + s \in Positions(1) /\ Saves(1, n + s, c, x)
             /\ \A n \in Positions(1)' :
                  Loads(1, n, c)' =>
                    n + s \in Positions(1) /\ Loads(1, n + s, c) /\ InLine(1, n)' = InLine(1, n + s)
  PROVE  ReadersAreLast'
<1> SUFFICES ASSUME workers = 1, NEW c \in Characters \ spoilt'
             PROVE  /\ answer'[c] # NoAnswer =>
                         /\ answer'[c] = requested[c]
                         /\ \A n \in Positions(1)', x \in Parts : ~Saves(1, n, c, x)'
                    /\ \A n \in Positions(1)' :
                         Loads(1, n, c)' =>
                           /\ \A m \in Positions(1)', x \in Parts : m > n => ~Saves(1, m, c, x)'
                           /\ \A x \in DOMAIN InLine(1, n)'.data : InLine(1, n)'.data[x] = requested[c][x]
                           /\ n # 0 => InLine(1, n)'.data = <<>>
  BY DEF ReadersAreLast
<1>0. c \in Characters \ spoilt
  OBVIOUS
<1>1. ASSUME answer'[c] # NoAnswer
      PROVE  answer'[c] = requested[c] /\ \A n \in Positions(1)', x \in Parts : ~Saves(1, n, c, x)'
  BY <1>0, <1>1 DEF ReadersAreLast
<1>2. ASSUME NEW n \in Positions(1)', Loads(1, n, c)'
      PROVE  /\ \A m \in Positions(1)', x \in Parts : m > n => ~Saves(1, m, c, x)'
             /\ \A x \in DOMAIN InLine(1, n)'.data : InLine(1, n)'.data[x] = requested[c][x]
             /\ n # 0 => InLine(1, n)'.data = <<>>
  <2>1. n + s \in Positions(1) /\ Loads(1, n + s, c) /\ InLine(1, n)' = InLine(1, n + s)
    BY <1>2
  <2>2. /\ \A m \in Positions(1), x \in Parts : m > n + s => ~Saves(1, m, c, x)
        /\ \A x \in DOMAIN InLine(1, n + s).data : InLine(1, n + s).data[x] = requested[c][x]
        /\ n + s # 0 => InLine(1, n + s).data = <<>>
    BY <1>0, <2>1 DEF ReadersAreLast
  <2>3. ASSUME NEW m \in Positions(1)', NEW x \in Parts, m > n PROVE ~Saves(1, m, c, x)'
    <3>1. m + s > n + s
      BY <2>3 DEF Positions
    <3> QED BY <2>2, <2>3, <3>1
  <2>4. n # 0 => n + s # 0
    BY DEF Positions
  <2> QED BY <2>1, <2>2, <2>3, <2>4
<1> QED BY <1>1, <1>2

LEMMA ReadersUnmoved ==
  ASSUME TypeOK, ReadersAreLast, UNCHANGED <<workers, queue, running, requested, spoilt>>,
         \A c \in Characters \ spoilt :
           /\ workers = 1 /\ state'[c] = "inWorld" /\ ~dirty'[c] => mem'[c]["items"] = requested[c]["items"]
           /\ answer'[c] # NoAnswer => answer'[c] = answer[c]
  PROVE  ReadersAreLast'
BY DEF ReadersAreLast, Saves, Loads, InLine, Positions

\* An operation that is no save joins the line.
LEMMA OtherEnqueued ==
  ASSUME TypeOK, OneLoad, LastSaveWins, ReadersAreLast, workers = 1,
         NEW w0 \in Workers, NEW op \in Operations, op.kind # "save", Enqueue(w0, op),
         op.kind = "load" => op.data = <<>>,
         UNCHANGED <<workers, running, mem, dirty, answer, requested, spoilt, db>>,
         \A c \in Characters : state'[c] # state[c] => state'[c] # "inWorld"
  PROVE  LastSaveWins' /\ ReadersAreLast'
<1>0. w0 = 1 /\ 1 \in Workers
  BY DEF Workers
<1>1. PICK last \in Nat : last = Len(queue[1]) + 1
  BY <1>0, LineShape
<1>2. /\ Positions(1)' = Positions(1) \cup {last}
      /\ \A n \in Positions(1) : InLine(1, n)' = InLine(1, n) /\ n < last /\ n \in Nat
      /\ \A n \in Positions(1)' : n = last => InLine(1, n)' = op
  <2>1. \A n \in Positions(1) : n < last /\ n \in Nat
    BY <1>0, <1>1, LineShape DEF Positions
  <2> QED BY <1>0, <1>1, <2>1, EnqueueLine
<1>3. \A n \in Positions(1)', c \in Characters, x \in Parts :
        Saves(1, n, c, x)' => n \in Positions(1) /\ Saves(1, n, c, x) /\ InLine(1, n)' = InLine(1, n)
  BY <1>2 DEF Saves
<1>4. \A n \in Positions(1), c \in Characters, x \in Parts :
        Saves(1, n, c, x) => n \in Positions(1)' /\ Saves(1, n, c, x)'
  BY <1>2 DEF Saves
<1>5. \A n \in Nat : n + 0 = n /\ n - 0 = n
  OBVIOUS
<1>6. LastSaveWins'
  BY <1>2, <1>3, <1>4, <1>5, LastSaveKept
<1>7. ASSUME NEW c \in Characters \ spoilt
      PROVE  /\ state'[c] = "inWorld" /\ ~dirty[c] => mem[c]["items"] = requested[c]["items"]
             /\ answer[c] # NoAnswer =>
                  /\ answer[c] = requested[c]
                  /\ \A n \in Positions(1)', x \in Parts : ~Saves(1, n, c, x)'
             /\ \A n \in Positions(1)' :
                  Loads(1, n, c)' =>
                    /\ \A m \in Positions(1)', x \in Parts : m > n => ~Saves(1, m, c, x)'
                    /\ \A x \in DOMAIN InLine(1, n)'.data : InLine(1, n)'.data[x] = requested[c][x]
                    /\ n # 0 => InLine(1, n)'.data = <<>>
  <2>1. /\ state'[c] = "inWorld" /\ ~dirty[c] => mem[c]["items"] = requested[c]["items"]
        /\ answer[c] # NoAnswer =>
             /\ answer[c] = requested[c]
             /\ \A n \in Positions(1), x \in Parts : ~Saves(1, n, c, x)
    BY DEF ReadersAreLast
  <2>2. ASSUME NEW n \in Positions(1)', Loads(1, n, c)'
        PROVE  /\ \A m \in Positions(1)', x \in Parts : m > n => ~Saves(1, m, c, x)'
               /\ \A x \in DOMAIN InLine(1, n)'.data : InLine(1, n)'.data[x] = requested[c][x]
               /\ n # 0 => InLine(1, n)'.data = <<>>
    <3>1. CASE n = last
      <4>1. InLine(1, n)'.data = <<>> /\ DOMAIN InLine(1, n)'.data = {}
        BY <1>2, <2>2, <3>1 DEF Loads
      <4>2. ASSUME NEW m \in Positions(1)', NEW x \in Parts, Saves(1, m, c, x)' PROVE ~(m > n)
        BY <1>2, <1>3, <3>1, <4>2
      <4> QED BY <4>1, <4>2
    <3>2. CASE n \in Positions(1)
      <4>1. Loads(1, n, c) /\ InLine(1, n)' = InLine(1, n)
        BY <1>2, <2>2, <3>2 DEF Loads
      <4>2. /\ \A m \in Positions(1), x \in Parts : m > n => ~Saves(1, m, c, x)
            /\ \A x \in DOMAIN InLine(1, n).data : InLine(1, n).data[x] = requested[c][x]
            /\ n # 0 => InLine(1, n).data = <<>>
        BY <1>7, <3>2, <4>1 DEF ReadersAreLast
      <4> QED BY <1>3, <4>1, <4>2
    <3> QED BY <1>2, <3>1, <3>2
  <2> QED BY <1>3, <2>1, <2>2
<1>8. ReadersAreLast'
  BY <1>7 DEF ReadersAreLast
<1> QED BY <1>6, <1>8

\* What is being carried out is replaced by something that is neither save nor load:
\* the database is as the last save asked, or the character is spoilt.
LEMMA CarriedOut ==
  ASSUME TypeOK, LastSaveWins, ReadersAreLast, workers = 1,
         NEW op \in {Idle, Finished}, running' = [running EXCEPT ![1] = op],
         UNCHANGED <<workers, queue, state, mem, dirty, answer, requested>>,
         spoilt \subseteq spoilt',
         \A c \in Characters \ spoilt' : \A x \in Parts :
           db'[c][x] = IF Saves(1, 0, c, x) THEN running[1].data[x] ELSE db[c][x]
  PROVE  LastSaveWins' /\ ReadersAreLast'
<1>0. 1 \in Workers
  BY DEF Workers
<1>1. /\ Positions(1)' = Positions(1) /\ 0 \in Positions(1)
      /\ \A n \in Positions(1) : n \in Nat
      /\ \A n \in Positions(1) : InLine(1, n)' = IF n = 0 THEN op ELSE InLine(1, n)
      /\ InLine(1, 0) = running[1]
  BY <1>0, RunningLine, LineShape DEF InLine
<1>2. \A n \in Positions(1), c \in Characters, x \in Parts :
        Saves(1, n, c, x)' <=> n # 0 /\ Saves(1, n, c, x)
  BY <1>1, FinishedShape DEF Saves
<1>3. \A n \in Positions(1), c \in Characters :
        Loads(1, n, c)' <=> n # 0 /\ Loads(1, n, c)
  BY <1>1, FinishedShape DEF Loads
<1>4. ASSUME NEW c \in Characters \ spoilt', NEW x \in Parts
      PROVE  /\ \A n \in Positions(1)' :
                  Saves(1, n, c, x)' =>
                    \/ InLine(1, n)'.data[x] = requested[c][x]
                    \/ \E m \in Positions(1)' : n < m /\ Saves(1, m, c, x)'
             /\ (\A n \in Positions(1)' : ~Saves(1, n, c, x)') => db'[c][x] = requested[c][x]
  <2>1. /\ \A n \in Positions(1) :
             Saves(1, n, c, x) =>
               \/ InLine(1, n).data[x] = requested[c][x]
               \/ \E m \in Positions(1) : n < m /\ Saves(1, m, c, x)
        /\ (\A n \in Positions(1) : ~Saves(1, n, c, x)) => db[c][x] = requested[c][x]
    BY <1>4 DEF LastSaveWins
  <2>2. ASSUME NEW n \in Positions(1)', Saves(1, n, c, x)'
        PROVE  \/ InLine(1, n)'.data[x] = requested[c][x]
               \/ \E m \in Positions(1)' : n < m /\ Saves(1, m, c, x)'
    <3>1. n \in Positions(1) /\ n # 0 /\ Saves(1, n, c, x) /\ InLine(1, n)' = InLine(1, n)
      BY <1>1, <1>2, <1>4, <2>2
    <3>2. \A m \in Positions(1) : n < m /\ Saves(1, m, c, x) => Saves(1, m, c, x)'
      BY <1>1, <1>2, <1>4, <3>1
    <3> QED BY <1>1, <2>1, <3>1, <3>2
  <2>3. ASSUME \A n \in Positions(1)' : ~Saves(1, n, c, x)'
        PROVE  db'[c][x] = requested[c][x]
    <3>1. \A n \in Positions(1) : n # 0 => ~Saves(1, n, c, x)
      BY <1>1, <1>2, <1>4, <2>3
    <3>2. CASE Saves(1, 0, c, x)
      BY <1>1, <1>4, <2>1, <3>1, <3>2
    <3>3. CASE ~Saves(1, 0, c, x)
      BY <1>1, <1>4, <2>1, <3>1, <3>3
    <3> QED BY <3>2, <3>3
  <2> QED BY <2>2, <2>3
<1>5. LastSaveWins'
  BY <1>4 DEF LastSaveWins
<1>6. ReadersAreLast'
  <2>1. ASSUME NEW c \in Characters \ spoilt'
        PROVE  /\ state[c] = "inWorld" /\ ~dirty[c] => mem[c]["items"] = requested[c]["items"]
               /\ \A n \in Positions(1)', x \in Parts :
                    Saves(1, n, c, x)' => n + 0 \in Positions(1) /\ Saves(1, n + 0, c, x)
               /\ \A n \in Positions(1)' :
                    Loads(1, n, c)' =>
                      n + 0 \in Positions(1) /\ Loads(1, n + 0, c) /\ InLine(1, n)' = InLine(1, n + 0)
    <3>1. state[c] = "inWorld" /\ ~dirty[c] => mem[c]["items"] = requested[c]["items"]
      BY <2>1 DEF ReadersAreLast
    <3>2. ASSUME NEW n \in Positions(1)', NEW x \in Parts, Saves(1, n, c, x)'
          PROVE  n + 0 \in Positions(1) /\ Saves(1, n + 0, c, x)
      <4>1. n \in Positions(1) /\ n + 0 = n
        BY <1>1
      <4> QED BY <1>2, <2>1, <3>2, <4>1
    <3>3. ASSUME NEW n \in Positions(1)', Loads(1, n, c)'
          PROVE  n + 0 \in Positions(1) /\ Loads(1, n + 0, c) /\ InLine(1, n)' = InLine(1, n + 0)
      <4>1. n \in Positions(1) /\ n + 0 = n
        BY <1>1
      <4> QED BY <1>1, <1>3, <2>1, <3>3, <4>1
    <3> QED BY <3>1, <3>2, <3>3
  <2> QED BY <2>1, ReadersKept
<1> QED BY <1>5, <1>6

\* A query of the character finds the database as the last save asked.
LEMMA ReadStep ==
  ASSUME TypeOK, OneLoad, LastSaveWins, ReadersAreLast, workers = 1, ReadPart(1)
  PROVE  LastSaveWins' /\ ReadersAreLast'
<1>0. 1 \in Workers
  BY DEF Workers
<1> DEFINE op == running[1]
<1>1. /\ UNCHANGED <<workers, queue, state, mem, dirty, requested, spoilt, db>>
      /\ op \in Operations /\ op.kind \in {"load", "orphan"} /\ op.of \in Characters /\ op # Idle
  BY <1>0, ReadPartEffect, OperationShape DEF ReadPart, asking, world, store
<1>2. 0 \in Positions(1) /\ InLine(1, 0) = op /\ \A n \in Positions(1) : n \in Nat /\ n + 0 = n /\ n - 0 = n
  <2>1. \A n \in Positions(1) : n \in Nat
    BY <1>0, LineShape
  <2> QED BY <1>0, <2>1, LineShape DEF Positions, InLine
<1>3. PICK next \in Operations \cup {Finished} :
        /\ running' = [running EXCEPT ![1] = next]
        /\ next # Idle => next.kind \in {op.kind, "finished"}
        /\ next # Finished =>
             /\ next.kind = op.kind /\ next.of = op.of /\ answer' = answer
             /\ DOMAIN next.data = {"money"} /\ next.data["money"] = db[op.of]["money"]
        /\ next = Finished =>
             /\ DOMAIN op.data = {"money"}
             /\ \E read \in [Parts -> Versions] :
                  /\ read["money"] = op.data["money"] /\ read["items"] = db[op.of]["items"]
                  /\ answer' = IF op.kind = "load" THEN [answer EXCEPT ![op.of] = read] ELSE answer
  <2>1. CASE /\ answer' = answer
             /\ \E next \in Operations :
                  /\ running' = [running EXCEPT ![1] = next]
                  /\ next.kind = op.kind /\ next.of = op.of
                  /\ DOMAIN next.data = {"money"} /\ next.data["money"] = db[op.of]["money"]
    <3>1. PICK next \in Operations :
            /\ running' = [running EXCEPT ![1] = next]
            /\ next.kind = op.kind /\ next.of = op.of
            /\ DOMAIN next.data = {"money"} /\ next.data["money"] = db[op.of]["money"]
      BY <2>1
    <3>2. next # Finished
      BY FinishedShape
    <3> HIDE DEF op
    <3> QED BY <2>1, <3>1, <3>2
  <2>2. CASE /\ DOMAIN op.data = {"money"}
             /\ running' = [running EXCEPT ![1] = Finished]
             /\ \E read \in [Parts -> Versions] :
                  /\ read["money"] = op.data["money"] /\ read["items"] = db[op.of]["items"]
                  /\ answer' = IF op.kind = "load" THEN [answer EXCEPT ![op.of] = read] ELSE answer
    <3> HIDE DEF op
    <3> QED BY <2>2, FinishedShape
  <2> QED BY <1>0, <2>1, <2>2, ReadPartEffect
<1>4. /\ Positions(1)' = Positions(1)
      /\ \A n \in Positions(1) : InLine(1, n)' = IF n = 0 THEN next ELSE InLine(1, n)
  BY <1>0, <1>1, <1>3, RunningLine
<1>5. \A n \in Positions(1), c \in Characters, x \in Parts :
        Saves(1, n, c, x)' <=> Saves(1, n, c, x)
  <2> TAKE n \in Positions(1), c \in Characters, x \in Parts
  <2>1. CASE n = 0
    <3>1. ~Saves(1, n, c, x)
      BY <1>1, <1>2, <2>1 DEF Saves
    <3>2. ~Saves(1, n, c, x)'
      BY <1>1, <1>3, <1>4, <2>1 DEF Saves
    <3> QED BY <3>1, <3>2
  <2>2. CASE n # 0
    <3>1. InLine(1, n)' = InLine(1, n)
      BY <1>4, <2>2
    <3> QED BY <3>1 DEF Saves
  <2> QED BY <2>1, <2>2
<1>6. \A n \in Positions(1), c \in Characters, x \in Parts : Saves(1, n, c, x) => n # 0
  BY <1>1, <1>2 DEF Saves
<1>7. LastSaveWins'
  <2>1. ASSUME NEW c \in Characters \ spoilt', NEW x \in Parts
        PROVE  /\ \A n \in Positions(1)' :
                    Saves(1, n, c, x)' =>
                      n + 0 \in Positions(1) /\ Saves(1, n + 0, c, x) /\ InLine(1, n)' = InLine(1, n + 0)
               /\ \A n \in Positions(1) :
                    Saves(1, n, c, x) => n - 0 \in Positions(1)' /\ Saves(1, n - 0, c, x)'
    <3>1. c \in Characters
      BY <2>1
    <3>2. ASSUME NEW n \in Positions(1)', Saves(1, n, c, x)'
          PROVE  n + 0 \in Positions(1) /\ Saves(1, n + 0, c, x) /\ InLine(1, n)' = InLine(1, n + 0)
      <4>1. n \in Positions(1) /\ n + 0 = n
        BY <1>2, <1>4, <3>2
      <4>2. Saves(1, n, c, x)
        BY <1>5, <3>1, <3>2, <4>1
      <4>3. InLine(1, n)' = InLine(1, n)
        BY <1>4, <1>6, <3>1, <4>1, <4>2
      <4> QED BY <4>1, <4>2, <4>3
    <3>3. ASSUME NEW n \in Positions(1), Saves(1, n, c, x)
          PROVE  n - 0 \in Positions(1)' /\ Saves(1, n - 0, c, x)'
      <4>1. n \in Positions(1)' /\ n - 0 = n
        BY <1>2, <1>4
      <4>2. Saves(1, n, c, x)'
        BY <1>5, <3>1, <3>3
      <4> QED BY <4>1, <4>2
    <3> QED BY <3>2, <3>3
  <2> QED BY <1>1, <2>1, LastSaveKept
<1>8. ASSUME NEW c \in Characters \ spoilt, op.kind = "load", op.of = c
      PROVE  /\ \A n \in Positions(1), x \in Parts : ~Saves(1, n, c, x)
             /\ db[c] \in [Parts -> Versions] /\ requested[c] \in [Parts -> Versions]
             /\ \A x \in Parts : db[c][x] = requested[c][x]
             /\ \A x \in DOMAIN op.data : op.data[x] = requested[c][x]
  <2>1. Loads(1, 0, c)
    BY <1>1, <1>2, <1>8 DEF Loads
  <2>2. /\ \A m \in Positions(1), x \in Parts : m > 0 => ~Saves(1, m, c, x)
        /\ \A x \in DOMAIN op.data : op.data[x] = requested[c][x]
    <3>1. /\ \A m \in Positions(1), x \in Parts : m > 0 => ~Saves(1, m, c, x)
          /\ \A x \in DOMAIN InLine(1, 0).data : InLine(1, 0).data[x] = requested[c][x]
      BY <1>2, <2>1 DEF ReadersAreLast
    <3> QED BY <1>2, <3>1
  <2>3. \A n \in Positions(1), x \in Parts : ~Saves(1, n, c, x)
    BY <1>2, <1>6, <2>2
  <2> QED BY <2>2, <2>3 DEF LastSaveWins, TypeOK
<1>9. ASSUME NEW c \in Characters \ spoilt
      PROVE  /\ state[c] = "inWorld" /\ ~dirty[c] => mem[c]["items"] = requested[c]["items"]
             /\ answer'[c] # NoAnswer =>
                  /\ answer'[c] = requested[c]
                  /\ \A n \in Positions(1)', x \in Parts : ~Saves(1, n, c, x)'
             /\ \A n \in Positions(1)' :
                  Loads(1, n, c)' =>
                    /\ \A m \in Positions(1)', x \in Parts : m > n => ~Saves(1, m, c, x)'
                    /\ \A x \in DOMAIN InLine(1, n)'.data : InLine(1, n)'.data[x] = requested[c][x]
                    /\ n # 0 => InLine(1, n)'.data = <<>>
  <2>1. /\ state[c] = "inWorld" /\ ~dirty[c] => mem[c]["items"] = requested[c]["items"]
        /\ answer[c] # NoAnswer =>
             /\ answer[c] = requested[c]
             /\ \A n \in Positions(1), x \in Parts : ~Saves(1, n, c, x)
    BY <1>9 DEF ReadersAreLast
  <2>2. ASSUME answer'[c] # NoAnswer
        PROVE  answer'[c] = requested[c] /\ \A n \in Positions(1)', x \in Parts : ~Saves(1, n, c, x)'
    <3>1. CASE answer'[c] = answer[c]
      BY <1>4, <1>5, <1>9, <2>1, <2>2, <3>1
    <3>2. CASE answer'[c] # answer[c]
      <4>1. next = Finished /\ op.kind = "load" /\ op.of = c
        BY <1>1, <1>3, <3>2 DEF TypeOK
      <4>2. PICK read \in [Parts -> Versions] :
              /\ read["money"] = op.data["money"] /\ read["items"] = db[c]["items"]
              /\ answer' = [answer EXCEPT ![c] = read] /\ DOMAIN op.data = {"money"}
        BY <1>3, <4>1
      <4>3. read["money"] = requested[c]["money"] /\ read["items"] = requested[c]["items"]
        BY <1>8, <1>9, <4>1, <4>2 DEF Parts
      <4>4. read = requested[c]
        BY <1>8, <1>9, <4>1, <4>3 DEF Parts
      <4>5. answer'[c] = read
        BY <4>2 DEF TypeOK
      <4> QED BY <1>4, <1>5, <1>8, <1>9, <4>1, <4>4, <4>5
    <3> QED BY <3>1, <3>2
  <2>3. ASSUME NEW n \in Positions(1)', Loads(1, n, c)'
        PROVE  /\ \A m \in Positions(1)', x \in Parts : m > n => ~Saves(1, m, c, x)'
               /\ \A x \in DOMAIN InLine(1, n)'.data : InLine(1, n)'.data[x] = requested[c][x]
               /\ n # 0 => InLine(1, n)'.data = <<>>
    <3>1. CASE n = 0
      <4>1. InLine(1, n)' = next /\ next # Finished /\ op.kind = "load" /\ op.of = c
        BY <1>2, <1>3, <1>4, <2>3, <3>1, FinishedShape DEF Loads
      <4>2. DOMAIN next.data = {"money"} /\ next.data["money"] = requested[c]["money"]
        BY <1>3, <1>8, <1>9, <4>1 DEF Parts
      <4>3. \A m \in Positions(1)', x \in Parts : ~Saves(1, m, c, x)'
        BY <1>4, <1>5, <1>8, <1>9, <4>1
      <4> QED BY <3>1, <4>1, <4>2, <4>3
    <3>2. CASE n # 0
      <4>1. n \in Positions(1) /\ Loads(1, n, c) /\ InLine(1, n)' = InLine(1, n)
        BY <1>4, <2>3, <3>2 DEF Loads
      <4>2. /\ \A m \in Positions(1), x \in Parts : m > n => ~Saves(1, m, c, x)
            /\ \A x \in DOMAIN InLine(1, n).data : InLine(1, n).data[x] = requested[c][x]
            /\ n # 0 => InLine(1, n).data = <<>>
        BY <1>9, <4>1 DEF ReadersAreLast
      <4> QED BY <1>4, <1>5, <1>9, <4>1, <4>2
    <3> QED BY <3>1, <3>2
  <2> QED BY <2>1, <2>2, <2>3
<1> HIDE DEF op
<1>10. ReadersAreLast'
  BY <1>1, <1>9 DEF ReadersAreLast
<1> QED BY <1>7, <1>10

LEMMA DatabaseStep ==
  TypeOK /\ OneLoad /\ LastSaveWins /\ ReadersAreLast /\ [Next]_vars => LastSaveWins' /\ ReadersAreLast'
<1> SUFFICES ASSUME TypeOK, OneLoad, LastSaveWins, ReadersAreLast, [Next]_vars
             PROVE  LastSaveWins' /\ ReadersAreLast'
  OBVIOUS
<1> USE DEF world, store, database, asking
<1>0. workers' = workers
  BY DEF vars, Next, WorldThread, Worker, Change, AutoSave, LogoutPlayer, HandlePlayerLoginOpcode,
         HandlePlayerLogin, CancelLogin, PinnedWrite, Stop, Deactivate,
         Dequeue, Commit, Abandon, ReadPart, Finish
<1> SUFFICES ASSUME workers = 1 PROVE LastSaveWins' /\ ReadersAreLast'
  BY <1>0 DEF LastSaveWins, ReadersAreLast
<1>p. /\ 1 \in Workers /\ \A w \in Workers : w = 1
      /\ \A n \in Positions(1) : n \in Nat /\ n + 0 = n /\ n - 0 = n
      /\ 0 \in Positions(1) /\ InLine(1, 0) = running[1]
  <2>1. 1 \in Workers /\ \A w \in Workers : w = 1
    BY DEF Workers
  <2>2. \A n \in Positions(1) : n \in Nat
    BY <2>1, LineShape
  <2> QED BY <2>1, <2>2, LineShape DEF Positions, InLine
<1>1. ASSUME NEW c0 \in Characters, NEW part \in Parts, Change(c0, part)
      PROVE  LastSaveWins' /\ ReadersAreLast'
  <2>1. /\ UNCHANGED <<workers, queue, running, answer, state, requested, spoilt, db>>
        /\ mem' = [mem EXCEPT ![c0][part] = @ + 1]
        /\ dirty' = [dirty EXCEPT ![c0] = @ \/ part = "items"]
    BY <1>1 DEF Change, MarkDirty
  <2>2. ASSUME NEW c \in Characters \ spoilt, state'[c] = "inWorld", ~dirty'[c]
        PROVE  mem'[c]["items"] = requested[c]["items"]
    <3>1. CASE c = c0
      <4>1. part # "items" /\ ~dirty[c0]
        BY <2>1, <2>2, <3>1 DEF TypeOK
      <4>2. mem'[c]["items"] = mem[c]["items"]
        BY <2>1, <3>1, <4>1 DEF TypeOK, Parts
      <4> QED BY <2>1, <2>2, <3>1, <4>1, <4>2 DEF ReadersAreLast
    <3>2. CASE c # c0
      BY <2>1, <2>2, <3>2 DEF ReadersAreLast, TypeOK
    <3> QED BY <3>1, <3>2
  <2> QED BY <2>1, <2>2, LastSaveUnmoved, ReadersUnmoved
<1>2. ASSUME NEW c \in Characters, AutoSave(c) PROVE LastSaveWins' /\ ReadersAreLast'
  BY <1>2, SaveStep DEF AutoSave
<1>3. ASSUME NEW c \in Characters, LogoutPlayer(c) PROVE LastSaveWins' /\ ReadersAreLast'
  <2>1. \A x \in Characters \ {c} : state'[x] = state[x]
    BY <1>3 DEF LogoutPlayer, TypeOK
  <2> QED BY <1>3, <2>1, SaveStep DEF LogoutPlayer
<1>4. ASSUME NEW c \in Characters, HandlePlayerLoginOpcode(c) PROVE LastSaveWins' /\ ReadersAreLast'
  <2>1. \A x \in Characters : state'[x] # state[x] => state'[x] # "inWorld"
    BY <1>4 DEF HandlePlayerLoginOpcode, TypeOK
  <2> QED BY <1>4, <2>1, LoadShape, GetWorkerInPool, OtherEnqueued DEF HandlePlayerLoginOpcode
<1>5. ASSUME NEW c0 \in Characters, HandlePlayerLogin(c0) PROVE LastSaveWins' /\ ReadersAreLast'
  <2>1. /\ UNCHANGED <<workers, queue, running, dirty, requested, spoilt, db>> /\ answer[c0] # NoAnswer
        /\ state' = [state EXCEPT ![c0] = "inWorld"] /\ mem' = [mem EXCEPT ![c0] = answer[c0]]
        /\ answer' = [answer EXCEPT ![c0] = NoAnswer]
    BY <1>5 DEF HandlePlayerLogin
  <2>2. ASSUME NEW c \in Characters \ spoilt
        PROVE  /\ state'[c] = "inWorld" /\ ~dirty'[c] => mem'[c]["items"] = requested[c]["items"]
               /\ answer'[c] # NoAnswer => answer'[c] = answer[c]
    BY <2>1, <2>2 DEF ReadersAreLast, TypeOK
  <2> QED BY <2>1, <2>2, LastSaveUnmoved, ReadersUnmoved
<1>6. ASSUME NEW c0 \in Characters, CancelLogin(c0) PROVE LastSaveWins' /\ ReadersAreLast'
  <2>1. /\ UNCHANGED <<workers, mem, dirty, requested, spoilt, db>>
        /\ state' = [state EXCEPT ![c0] = "offline"] /\ answer' = [answer EXCEPT ![c0] = NoAnswer]
    BY <1>6 DEF CancelLogin
  <2>2. /\ Positions(1)' = Positions(1)
        /\ \A n \in Positions(1) : InLine(1, n)' = Disown(c0, InLine(1, n))
    BY <1>6, <1>p, DisownLine
  <2>3. ASSUME NEW n \in Positions(1), NEW c \in Characters, NEW x \in Parts
        PROVE  /\ Saves(1, n, c, x)' <=> Saves(1, n, c, x)
               /\ Saves(1, n, c, x) => InLine(1, n)' = InLine(1, n)
    <3> DEFINE op == InLine(1, n)
    <3>1. op \in Operations \cup {Idle, Finished} /\ InLine(1, n)' = Disown(c0, op)
      BY <1>p, <2>2, LineShape
    <3>2. CASE op \in Operations
      <4>1. /\ op # Idle /\ Disown(c0, op) # Idle /\ Disown(c0, op).of = op.of
            /\ Disown(c0, op).data = op.data
            /\ Disown(c0, op).kind = IF op.kind = "load" /\ op.of = c0 THEN "orphan" ELSE op.kind
        BY <3>2, DisownShape, OperationShape
      <4>2. op.kind = "save" => Disown(c0, op) = op
        BY DEF Disown
      <4> HIDE DEF op
      <4> QED BY <3>1, <4>1, <4>2 DEF Saves, op
    <3>3. CASE op \notin Operations
      BY <3>1, <3>3, DisownShape DEF Saves
    <3> QED BY <3>2, <3>3
  <2>4. ASSUME NEW n \in Positions(1), NEW c \in Characters, Loads(1, n, c)'
        PROVE  Loads(1, n, c) /\ InLine(1, n)' = InLine(1, n)
    <3> DEFINE op == InLine(1, n)
    <3>1. op \in Operations \cup {Idle, Finished} /\ InLine(1, n)' = Disown(c0, op)
      BY <1>p, <2>2, LineShape
    <3>2. Disown(c0, op) = op
      <4>1. Disown(c0, op).kind = "load"
        BY <2>4, <3>1 DEF Loads
      <4>2. op \in Operations => ~(op.kind = "load" /\ op.of = c0)
        BY <4>1, DisownShape
      <4> HIDE DEF op
      <4>3. op \notin Operations => Disown(c0, op) = op
        BY <3>1, DisownShape
      <4>4. op \in Operations => Disown(c0, op) = op
        BY <4>2 DEF Disown
      <4> QED BY <4>3, <4>4
    <3> QED BY <2>4, <3>1, <3>2 DEF Loads
  <2>5. LastSaveWins'
    <3>1. ASSUME NEW c \in Characters \ spoilt', NEW x \in Parts
          PROVE  /\ \A n \in Positions(1)' :
                      Saves(1, n, c, x)' =>
                        n + 0 \in Positions(1) /\ Saves(1, n + 0, c, x) /\ InLine(1, n)' = InLine(1, n + 0)
                 /\ \A n \in Positions(1) :
                      Saves(1, n, c, x) => n - 0 \in Positions(1)' /\ Saves(1, n - 0, c, x)'
      <4>1. \A n \in Positions(1) : n + 0 = n /\ n - 0 = n
        BY <1>p, LineShape
      <4>2. c \in Characters
        BY <3>1
      <4>3. \A n \in Positions(1) : /\ Saves(1, n, c, x)' <=> Saves(1, n, c, x)
                                    /\ Saves(1, n, c, x) => InLine(1, n)' = InLine(1, n)
        BY <2>3, <4>2
      <4> QED BY <2>2, <4>1, <4>3
    <3> QED BY <1>p, <2>1, <3>1, LastSaveKept
  <2>6. ASSUME NEW c \in Characters \ spoilt'
        PROVE  /\ state'[c] = "inWorld" /\ ~dirty'[c] => mem'[c]["items"] = requested[c]["items"]
               /\ answer'[c] # NoAnswer => answer'[c] = answer[c]
               /\ \A n \in Positions(1)', x \in Parts :
                    Saves(1, n, c, x)' => n + 0 \in Positions(1) /\ Saves(1, n + 0, c, x)
               /\ \A n \in Positions(1)' :
                    Loads(1, n, c)' =>
                      n + 0 \in Positions(1) /\ Loads(1, n + 0, c) /\ InLine(1, n)' = InLine(1, n + 0)
    <3>1. /\ state'[c] = "inWorld" /\ ~dirty'[c] => mem'[c]["items"] = requested[c]["items"]
          /\ answer'[c] # NoAnswer => answer'[c] = answer[c]
      BY <2>1, <2>6 DEF ReadersAreLast, TypeOK
    <3> QED BY <1>p, <2>2, <2>3, <2>4, <2>6, <3>1
  <2>7. ReadersAreLast'
    BY <2>1, <2>6, ReadersKept
  <2> QED BY <2>5, <2>7
<1>7. ASSUME NEW k \in Connections, PinnedWrite(k) PROVE LastSaveWins' /\ ReadersAreLast'
  <2>1. pinned[k] + 1 \in Writes
    BY <1>7, DatabaseAssumption DEF PinnedWrite, TypeOK, Writes
  <2> QED BY <1>7, <2>1, PinnedWorkerInPool, WriteShape, OtherEnqueued DEF PinnedWrite
<1>8. CASE Stop
  BY <1>8, LastSaveUnmoved, ReadersUnmoved DEF Stop, ReadersAreLast
<1>9. ASSUME NEW w \in Workers, Deactivate(w) PROVE LastSaveWins' /\ ReadersAreLast'
  BY <1>9, LastSaveUnmoved, ReadersUnmoved DEF Deactivate, ReadersAreLast
<1>10. ASSUME Dequeue(1) PROVE LastSaveWins' /\ ReadersAreLast'
  <2>1. UNCHANGED <<workers, state, mem, dirty, requested, spoilt, db, answer>>
    BY <1>10 DEF Dequeue
  <2>2. /\ InLine(1, 0) = Idle
        /\ \A n \in Positions(1)' : n + 1 \in Positions(1) /\ InLine(1, n)' = InLine(1, n + 1)
        /\ \A n \in Positions(1) \ {0} : n - 1 \in Positions(1)' /\ InLine(1, n - 1)' = InLine(1, n)
    BY <1>10, <1>p, DequeueLine
  <2>3. ASSUME NEW c \in Characters, NEW x \in Parts
        PROVE  /\ \A n \in Positions(1)' :
                    Saves(1, n, c, x)' =>
                      n + 1 \in Positions(1) /\ Saves(1, n + 1, c, x) /\ InLine(1, n)' = InLine(1, n + 1)
               /\ \A n \in Positions(1) :
                    Saves(1, n, c, x) => n - 1 \in Positions(1)' /\ Saves(1, n - 1, c, x)'
    BY <2>2 DEF Saves
  <2>4. ASSUME NEW c \in Characters, NEW n \in Positions(1)', Loads(1, n, c)'
        PROVE  n + 1 \in Positions(1) /\ Loads(1, n + 1, c) /\ InLine(1, n)' = InLine(1, n + 1)
    BY <2>2, <2>4 DEF Loads
  <2>5. LastSaveWins'
    BY <2>1, <2>3, LastSaveKept
  <2>6. \A c \in Characters \ spoilt :
          state[c] = "inWorld" /\ ~dirty[c] => mem[c]["items"] = requested[c]["items"]
    BY DEF ReadersAreLast
  <2>7. ReadersAreLast'
    BY <2>1, <2>3, <2>4, <2>6, ReadersKept
  <2> QED BY <2>5, <2>7
<1>11. ASSUME Commit(1) PROVE LastSaveWins' /\ ReadersAreLast'
  <2> DEFINE op == running[1]
  <2>1. /\ UNCHANGED <<workers, queue, state, mem, dirty, answer, requested, spoilt>>
        /\ running' = [running EXCEPT ![1] = Finished]
        /\ op # Idle /\ op.kind \in {"save", "write"} /\ op \in Operations
    BY <1>11, <1>p, FinishedShape DEF Commit, TypeOK
  <2>2. ASSUME NEW c \in Characters, NEW x \in Parts
        PROVE  db'[c][x] = IF Saves(1, 0, c, x) THEN op.data[x] ELSE db[c][x]
    <3>1. CASE op.kind = "save"
      <4>1. db' = [db EXCEPT ![op.of] = [y \in Parts |-> IF y \in DOMAIN op.data THEN op.data[y] ELSE @[y]]]
        BY <1>11, <3>1 DEF Commit
      <4>2. db'[c] = IF op.of = c
                     THEN [y \in Parts |-> IF y \in DOMAIN op.data THEN op.data[y] ELSE db[c][y]]
                     ELSE db[c]
        BY <4>1 DEF TypeOK
      <4>3. Saves(1, 0, c, x) <=> op.of = c /\ x \in DOMAIN op.data
        BY <1>p, <2>1, <3>1 DEF Saves
      <4> HIDE DEF op
      <4> QED BY <4>2, <4>3
    <3>2. CASE op.kind = "write"
      BY <1>11, <1>p, <3>2 DEF Commit, Saves
    <3> QED BY <2>1, <3>1, <3>2
  <2> QED BY <2>1, <2>2, CarriedOut
<1>12. ASSUME Abandon(1) PROVE LastSaveWins' /\ ReadersAreLast'
  <2>1. /\ UNCHANGED <<workers, queue, state, mem, dirty, answer, requested, db>>
        /\ running' = [running EXCEPT ![1] = Finished] /\ spoilt \subseteq spoilt'
    BY <1>12 DEF Abandon
  <2>2. ASSUME NEW c \in Characters \ spoilt', NEW x \in Parts PROVE ~Saves(1, 0, c, x)
    BY <1>12, <1>p, <2>2 DEF Abandon, Saves
  <2> QED BY <2>1, <2>2, CarriedOut
<1>13. ASSUME ReadPart(1) PROVE LastSaveWins' /\ ReadersAreLast'
  BY <1>13, ReadStep
<1>14. ASSUME Finish(1) PROVE LastSaveWins' /\ ReadersAreLast'
  <2>1. /\ UNCHANGED <<workers, queue, state, mem, dirty, answer, requested, spoilt, db>>
        /\ running' = [running EXCEPT ![1] = Idle] /\ running[1] = Finished
    BY <1>14 DEF Finish
  <2>2. ASSUME NEW c \in Characters, NEW x \in Parts PROVE ~Saves(1, 0, c, x)
    BY <1>p, <2>1, FinishedShape DEF Saves
  <2> QED BY <2>1, <2>2, CarriedOut
<1>15. CASE UNCHANGED vars
  BY <1>15, LastSaveUnmoved, ReadersUnmoved DEF vars, ReadersAreLast
<1> QED
  BY <1>p, <1>1, <1>2, <1>3, <1>4, <1>5, <1>6, <1>7, <1>8, <1>9, <1>10, <1>11, <1>12, <1>13, <1>14, <1>15
     DEF Next, WorldThread, Worker

-----------------------------------------------------------------------------
(* The theorems. *)

LEMMA InitInv == Init => DInv
<1> SUFFICES ASSUME Init PROVE DInv
  OBVIOUS
<1>1. TypeOK
  BY InitType
<1>2. /\ \A w \in Workers : Positions(w) = {0} /\ InLine(w, 0) = Idle
      /\ \A c \in Characters : answer[c] = NoAnswer /\ state[c] = "offline" /\ db[c] = requested[c]
      /\ \A k \in Connections : pinnedDb[k] = 0 /\ pinned[k] = 0
  <2>1. \A w \in Workers : queue[w] = <<>> /\ running[w] = Idle
    BY DEF Init
  <2>2. \A w \in Workers : Len(queue[w]) = 0
    BY <2>1, EmptySeq
  <2> QED BY <2>1, <2>2 DEF Init, Positions, InLine
<1>3. PinnedLine
  BY <1>2 DEF PinnedLine, WritesTo
<1>4. OneLoad
  BY <1>2 DEF OneLoad, Loads
<1>5. workers = 1 => 1 \in Workers
  BY DEF Workers
<1>6. LastSaveWins
  BY <1>2, <1>5 DEF LastSaveWins, Saves
<1>7. ReadersAreLast
  BY <1>2, <1>5 DEF ReadersAreLast, Loads
<1> QED BY <1>1, <1>3, <1>4, <1>6, <1>7 DEF DInv

LEMMA Invariance == Spec => []DInv
<1>1. DInv /\ [Next]_vars => DInv'
  BY TypeStep, PinnedStep, OneLoadStep, DatabaseStep DEF DInv
<1> QED BY <1>1, InitInv, PTL DEF Spec

\* The types of the database's state, for every number of workers: in particular a
\* worker finds nothing in its queue but operations asked for, and an answer holds
\* all the parts of a character.
THEOREM TypeCorrect == Spec => []TypeOK
<1>1. DInv => TypeOK
  BY DEF DInv
<1> QED BY <1>1, Invariance, PTL

\* DatabaseWorkerPool::Enqueue with a DBConnection: whatever the number of workers and
\* of connections that share one, the table behind a connection never goes back to
\* an earlier value.
THEOREM PinnedOrder == Spec => PinnedWritesKeepOrder
<1>1. DInv /\ [Next]_vars => [\A k \in Connections : pinnedDb'[k] >= pinnedDb[k]]_vars
  <2> SUFFICES ASSUME DInv, Next, NEW k \in Connections PROVE pinnedDb'[k] >= pinnedDb[k]
    OBVIOUS
  <2>0. pinnedDb \in [Connections -> Nat]
    BY DatabaseAssumption DEF DInv, TypeOK, Writes
  <2>1. CASE pinnedDb' = pinnedDb
    BY <2>0, <2>1
  <2>2. ASSUME NEW w \in Workers, Commit(w), running[w].kind = "write"
        PROVE  pinnedDb'[k] >= pinnedDb[k]
    <3> DEFINE k0 == running[w].of
               v == running[w].data
    <3>1. running[w] \in Operations
      BY <2>2, FinishedShape DEF Commit, DInv, TypeOK
    <3>2. k0 \in Connections /\ v \in Nat /\ running[w] # Idle
      BY <2>2, <3>1, OperationShape, DatabaseAssumption DEF Writes
    <3>3. 0 \in Positions(w) /\ WritesTo(w, 0, k0) /\ InLine(w, 0).data = v
      BY <2>2, <3>2, LineShape DEF Positions, WritesTo, InLine, DInv
    <3>4. pinnedDb[k0] < v
      BY <3>2, <3>3 DEF DInv, PinnedLine
    <3>5. pinnedDb' = [pinnedDb EXCEPT ![k0] = v]
      BY <2>2 DEF Commit
    <3> HIDE DEF k0, v
    <3> QED BY <2>0, <3>2, <3>4, <3>5
  <2>3. pinnedDb' = pinnedDb \/ \E w \in Workers : Commit(w) /\ running[w].kind = "write"
    BY DEF Next, WorldThread, Worker, Change, AutoSave, LogoutPlayer, HandlePlayerLoginOpcode,
           HandlePlayerLogin, CancelLogin, PinnedWrite, Stop, Deactivate,
           Dequeue, Commit, Abandon, ReadPart, Finish, world, store, database, asking
  <2> QED BY <2>1, <2>2, <2>3
<1> QED BY <1>1, Invariance, PTL DEF Spec, PinnedWritesKeepOrder

\* SQLQueryHolderTask and TaskMgr: a login has at most one query under way or one
\* answer, both are its own, and both are gone when the login is cancelled or over.
THEOREM LoginsOwnTheirAnswers == Spec => []OneLoad
<1>1. DInv => OneLoad
  BY DEF DInv
<1> QED BY <1>1, Invariance, PTL

\* With one worker thread a login reads what the last save of the character asked to
\* write, however many operations wait, unless a save of that character was given up.
THEOREM ReadYourSaves == Spec => []LoginReadsLastSave
<1>1. DInv => LoginReadsLastSave
  BY DEF DInv, ReadersAreLast, LoginReadsLastSave
<1> QED BY <1>1, Invariance, PTL

\* With one worker thread, what a save leaves out because it was not dirty is in the
\* database already: with no save in line, nothing of a character is missing there.
THEOREM QuietDatabase == Spec => []QuietDatabaseIsCurrent
<1>1. DInv => QuietDatabaseIsCurrent
  <2> SUFFICES ASSUME DInv, workers = 1, NEW c \in Characters, ~SavePending(c), c \notin spoilt
               PROVE  db[c] = requested[c]
    BY DEF QuietDatabaseIsCurrent
  <2>1. 1 \in Workers /\ TypeOK
    BY DEF DInv, Workers
  <2>2. \A n \in Positions(1), x \in Parts : ~Saves(1, n, c, x)
    <3> SUFFICES ASSUME NEW n \in Positions(1), NEW x \in Parts, Saves(1, n, c, x)
                 PROVE  FALSE
      OBVIOUS
    <3>1. CASE n = 0
      BY <2>1, <3>1 DEF Saves, InLine, SavePending
    <3>2. CASE n # 0
      <4>1. n \in DOMAIN queue[1]
        BY <2>1, <3>2, LineShape DEF Positions
      <4> QED BY <2>1, <3>2, <4>1 DEF Saves, InLine, SavePending
    <3> QED BY <3>1, <3>2
  <2>3. \A x \in Parts : db[c][x] = requested[c][x]
    BY <2>2 DEF DInv, LastSaveWins
  <2> QED BY <2>1, <2>3 DEF TypeOK
<1> QED BY <1>1, Invariance, PTL
=============================================================================
