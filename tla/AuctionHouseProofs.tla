-------------------------- MODULE AuctionHouseProofs --------------------------
(***************************************************************************)
(* Mail and the auction house, for any number of players, items and mails, *)
(* any prices, deposits and cuts: every item is in one place, the database *)
(* never lags behind but by deposits, and mail and auctions together do    *)
(* what Market promises.  As in the run, the mails of players in the world *)
(* do not expire.                                                          *)
(***************************************************************************)
EXTENDS AuctionHouse, FiniteSetTheorems, TLAPS

-----------------------------------------------------------------------------
(* The inductive invariant, part by part.                                    *)

\* only players send mail to pay for, or to return
MailOK(m) ==
  /\ m \in Mails /\ Attached(m)
  /\ m.type = "normal" \/ m.COD > 0 => m.type = "normal" /\ m.sender \in Players

\* A post office, for the players on who are in the world: a mailbox holds mails of
\* its player only, each as its row has it.
Offices == [row : [MailIds -> Mails \cup {NoMail}],
            box : [Players -> [MailIds -> Entries \cup {NoMail}]]]
OfficeOK(po, on) ==
  /\ po \in Offices
  /\ \A id \in MailIds : po.row[id] # NoMail => MailOK(po.row[id])
  /\ \A p \in Players, id \in MailIds : po.box[p][id] # NoMail =>
       /\ p \in on /\ po.row[id] = po.box[p][id].mail
       /\ po.row[id].receiver = p

\* where an item is
Holding(po, i) == {id \in MailIds : po.row[id] # NoMail /\ i \in po.row[id].items}
OnePlace(b, po, a) ==
  \A i \in Items :
    /\ \A p, q \in Players : i \in b[p] /\ i \in b[q] => p = q
    /\ \A p \in Players : i \in b[p] => Holding(po, i) = {} /\ a[i] = NoAuction
    /\ \A x, y \in Holding(po, i) : x = y
    /\ a[i] # NoAuction => Holding(po, i) = {}

\* an auction is open: its bid is below its buyout
BidOK(a) ==
  /\ a.bidder = NoBidder <=> a.bid = 0
  /\ a.buyout > 0 => a.bid < a.buyout
AuctionsOK ==
  /\ auctions \in [Items -> Auctions \cup {NoAuction}] /\ savedAuctions = auctions
  /\ \A i \in Items : auctions[i] # NoAuction => BidOK(auctions[i])

\* The purses, and what the database has of them; who is not in the world has been
\* saved.
PursesOK ==
  /\ online \subseteq Players
  /\ bag \in [Players -> SUBSET Items] /\ money \in [Players -> 0..MaxMoney]
  /\ saved \in [Players -> [bag : SUBSET Items, money : 0..MaxMoney]]
  /\ unsaved \in [Players -> Nat]
  /\ \A p \in Players : /\ saved[p].bag = bag[p] /\ saved[p].money = money[p] + unsaved[p]
                        /\ p \notin online => unsaved[p] = 0

AInv ==
  /\ PursesOK
  /\ OfficeOK(Office, online)
  /\ AuctionsOK
  /\ OnePlace(bag, Office, auctions)

-----------------------------------------------------------------------------
(* Mails and post offices.                                                   *)

LEMMA MailShape ==
  /\ \A m \in Mails : m # NoMail
  /\ \A e \in Entries : e # NoMail
BY NoMailAssumption

LEMMA HouseMailOK ==
  ASSUME NEW q \in Players, NEW S \in SUBSET Items, NEW gold \in Nat
  PROVE  /\ S # {} \/ gold > 0 => MailOK(HouseMail(q, S, gold))
         /\ HouseMail(q, S, gold).items = S
         /\ Attached(HouseMail(q, S, gold)) <=> S # {} \/ gold > 0
BY DEF MailOK, Mails, Attached, HouseMail

\* A mail sent takes an id no other has, and nothing else changes.
Sent(po, n, mail, id) ==
  /\ id \in FreeIds(po) /\ FreeIds(n) = FreeIds(po) \ {id}
  /\ OfficeOK(n, online)
  /\ n.row = [po.row EXCEPT ![id] = mail]
  /\ \A p \in Players, x \in MailIds \ {id} : n.box[p][x] = po.box[p][x]
  /\ \A p \in Players : n.box[p][id] # NoMail => n.box[p][id].state = "unchanged"

LEMMA InsertSends ==
  ASSUME NEW po, OfficeOK(po, online), NEW mail, MailOK(mail), NEW id \in FreeIds(po)
  PROVE  Sent(po, Insert(po, id, mail), mail, id)
<1> DEFINE n == Insert(po, id, mail)
           e == [mail |-> mail, state |-> "unchanged"]
           q == mail.receiver
<1>1. /\ po \in Offices /\ id \in MailIds /\ po.row[id] = NoMail
      /\ \A p \in Players : po.box[p][id] = NoMail
      /\ mail \in Mails /\ q \in Players /\ mail # NoMail
  BY MailShape DEF OfficeOK, FreeIds, MailOK, Mails
<1>2. e \in Entries /\ e # NoMail /\ e.mail = mail /\ e.state = "unchanged"
  BY <1>1, MailShape DEF Entries
<1>3. /\ n.row = [po.row EXCEPT ![id] = mail]
      /\ n.box = IF q \in online THEN [po.box EXCEPT ![q] = [po.box[q] EXCEPT ![id] = e]] ELSE po.box
      /\ n = [row |-> n.row, box |-> n.box]
  BY DEF Insert
<1> HIDE DEF n, e, q
<1>4. /\ po.row \in [MailIds -> Mails \cup {NoMail}]
      /\ po.box \in [Players -> [MailIds -> Entries \cup {NoMail}]]
  BY <1>1 DEF Offices
<1>5. /\ n.row \in [MailIds -> Mails \cup {NoMail}]
      /\ n.row[id] = mail /\ \A x \in MailIds \ {id} : n.row[x] = po.row[x]
  BY <1>1, <1>3, <1>4
<1>6. /\ n.box \in [Players -> [MailIds -> Entries \cup {NoMail}]]
      /\ \A p \in Players, x \in MailIds \ {id} : n.box[p][x] = po.box[p][x]
      /\ \A p \in Players : n.box[p][id] = IF p = q /\ q \in online THEN e ELSE NoMail
  BY <1>1, <1>2, <1>3, <1>4
<1>7. n \in Offices
  BY <1>3, <1>5, <1>6 DEF Offices
<1>8. \A x \in MailIds : n.row[x] # NoMail => MailOK(n.row[x])
  BY <1>5 DEF OfficeOK
<1>9. ASSUME NEW p \in Players, NEW x \in MailIds, n.box[p][x] # NoMail
      PROVE  p \in online /\ n.row[x] = n.box[p][x].mail /\ n.row[x].receiver = p
  <2>1. CASE x = id
    BY <1>2, <1>5, <1>6, <1>9, <2>1 DEF q
  <2>2. CASE x # id
    BY <1>5, <1>6, <1>9, <2>2 DEF OfficeOK
  <2> QED BY <2>1, <2>2
<1>10. OfficeOK(n, online)
  BY <1>7, <1>8, <1>9 DEF OfficeOK
<1>11. FreeIds(n) = FreeIds(po) \ {id}
  BY <1>1, <1>5, <1>6 DEF FreeIds
<1> QED BY <1>2, <1>3, <1>6, <1>10, <1>11 DEF Sent, n

LEMMA SendSends ==
  ASSUME NEW po, OfficeOK(po, online), NEW mail, MailOK(mail), FreeIds(po) # {}
  PROVE  \E id \in FreeIds(po) : Sent(po, SendMailTo(po, mail), mail, id)
<1>1. GenerateMailID(po) \in FreeIds(po)
  BY DEF GenerateMailID
<1>2. SendMailTo(po, mail) = Insert(po, GenerateMailID(po), mail)
  BY DEF SendMailTo, MailOK
<1> QED BY <1>1, <1>2, InsertSends

LEMMA NothingSent ==
  ASSUME NEW po, NEW mail, ~Attached(mail)
  PROVE  SendMailTo(po, mail) = po
BY DEF SendMailTo

\* What is held after a mail is sent.
LEMMA SentHolding ==
  ASSUME NEW po, OfficeOK(po, online), NEW n, NEW mail, MailOK(mail), NEW id, Sent(po, n, mail, id),
         NEW i \in Items
  PROVE  /\ i \in mail.items => Holding(n, i) = Holding(po, i) \cup {id}
         /\ i \notin mail.items => Holding(n, i) = Holding(po, i)
<1>1. /\ id \in MailIds /\ po.row[id] = NoMail /\ n.row[id] = mail /\ mail # NoMail
      /\ \A x \in MailIds \ {id} : n.row[x] = po.row[x]
  BY MailShape DEF Sent, FreeIds, OfficeOK, Offices, MailOK
<1> QED BY <1>1 DEF Holding

\* Room for k mails.
HasRoom(po, k) == IsFiniteSet(FreeIds(po)) /\ Cardinality(FreeIds(po)) >= k

LEMMA RoomLeft ==
  ASSUME NEW po, NEW k \in Nat, HasRoom(po, k + 1)
  PROVE  /\ FreeIds(po) # {}
         /\ HasRoom(po, k)
         /\ \A n, mail, id : Sent(po, n, mail, id) => HasRoom(n, k)
<1> DEFINE F == FreeIds(po)
<1>1. IsFiniteSet(F) /\ Cardinality(F) \in Nat /\ Cardinality(F) >= k + 1
  BY FS_CardinalityType DEF HasRoom
<1>2. F # {}
  BY <1>1, FS_EmptySet
<1>3. ASSUME NEW id \in F PROVE IsFiniteSet(F \ {id}) /\ Cardinality(F \ {id}) >= k
  <2>1. IsFiniteSet(F \ {id}) /\ Cardinality(F \ {id}) = Cardinality(F) - 1
    BY <1>1, <1>3, FS_RemoveElement
  <2> QED BY <1>1, <2>1
<1> QED BY <1>1, <1>2, <1>3 DEF HasRoom, Sent

LEMMA RoomOf ==
  ASSUME NEW k \in Nat, Room(k)
  PROVE  HasRoom(Office, k)
<1>1. FreeIds(Office) \subseteq MailIds
  BY DEF FreeIds
<1>2. IsFiniteSet(FreeIds(Office))
  BY <1>1, MailAssumption, FS_Subset
<1> QED BY <1>2 DEF Room, HasRoom

\* A mail is taken out of both copies.
LEMMA RemoveMailOK ==
  ASSUME NEW po, OfficeOK(po, online), NEW p \in Players, NEW id \in MailIds,
         po.box[p][id] # NoMail, NEW n, n = RemoveMail(po, p, id)
  PROVE  /\ OfficeOK(n, online) /\ id \in FreeIds(n)
         /\ n.row = [po.row EXCEPT ![id] = NoMail]
<1>1. /\ po \in Offices /\ po.row[id] # NoMail
      /\ \A q \in Players : po.box[q][id] # NoMail => q = p
  BY MailShape DEF OfficeOK, Offices, Entries
<1>2. /\ po.row \in [MailIds -> Mails \cup {NoMail}]
      /\ po.box \in [Players -> [MailIds -> Entries \cup {NoMail}]]
  BY <1>1 DEF Offices
<1>3. /\ n.row = [po.row EXCEPT ![id] = NoMail]
      /\ n.box = [po.box EXCEPT ![p] = [po.box[p] EXCEPT ![id] = NoMail]]
      /\ n = [row |-> n.row, box |-> n.box]
  BY DEF RemoveMail
<1>4. /\ n.row \in [MailIds -> Mails \cup {NoMail}]
      /\ n.row[id] = NoMail /\ \A x \in MailIds \ {id} : n.row[x] = po.row[x]
  BY <1>2, <1>3
<1>5. /\ n.box \in [Players -> [MailIds -> Entries \cup {NoMail}]]
      /\ \A q \in Players, x \in MailIds \ {id} : n.box[q][x] = po.box[q][x]
      /\ \A q \in Players : n.box[q][id] = NoMail
  <2> DEFINE mine == [po.box[p] EXCEPT ![id] = NoMail]
  <2>1. /\ mine \in [MailIds -> Entries \cup {NoMail}] /\ mine[id] = NoMail
        /\ \A x \in MailIds \ {id} : mine[x] = po.box[p][x]
    BY <1>2
  <2>2. n.box = [po.box EXCEPT ![p] = mine]
    BY <1>3
  <2> HIDE DEF mine
  <2>3. /\ n.box \in [Players -> [MailIds -> Entries \cup {NoMail}]]
        /\ n.box[p] = mine /\ \A q \in Players \ {p} : n.box[q] = po.box[q]
    BY <1>2, <2>1, <2>2
  <2>4. \A q \in Players \ {p} : po.box[q][id] = NoMail
    BY <1>1
  <2> QED BY <2>1, <2>3, <2>4
<1>6. OfficeOK(n, online)
  <2>1. n \in Offices
    BY <1>3, <1>4, <1>5 DEF Offices
  <2>2. \A x \in MailIds : n.row[x] # NoMail => MailOK(n.row[x])
    BY <1>4 DEF OfficeOK
  <2>3. ASSUME NEW q \in Players, NEW x \in MailIds, n.box[q][x] # NoMail
        PROVE  q \in online /\ n.row[x] = n.box[q][x].mail /\ n.row[x].receiver = q
    <3>1. x # id
      BY <1>5, <2>3
    <3>2. n.box[q][x] = po.box[q][x] /\ n.row[x] = po.row[x]
      BY <1>4, <1>5, <3>1
    <3> QED BY <2>3, <3>2 DEF OfficeOK
  <2> QED BY <2>1, <2>2, <2>3 DEF OfficeOK
<1>7. id \in FreeIds(n)
  BY <1>4, <1>5 DEF FreeIds
<1> QED BY <1>3, <1>6, <1>7

\* The mailbox of p may have changed mails, whose rows are still the old ones.
Lesser(m, r) ==
  /\ m.type = r.type /\ m.sender = r.sender /\ m.receiver = r.receiver
  /\ m.items \subseteq r.items
  /\ m.COD > 0 => r.COD > 0
AlmostOK(po, p) ==
  /\ po \in Offices
  /\ \A id \in MailIds : po.row[id] # NoMail => MailOK(po.row[id])
  /\ \A q \in Players, id \in MailIds : po.box[q][id] # NoMail =>
       /\ q \in online /\ po.row[id] # NoMail /\ po.row[id].receiver = q
       /\ IF q = p /\ po.box[q][id].state = "changed" THEN Lesser(po.box[q][id].mail, po.row[id])
          ELSE po.row[id] = po.box[q][id].mail

LEMMA OfficeAlmostOK ==
  ASSUME NEW po, OfficeOK(po, online), NEW p \in Players
  PROVE  AlmostOK(po, p)
<1>1. po \in Offices
  BY DEF OfficeOK
<1>2. ASSUME NEW q \in Players, NEW id \in MailIds, po.box[q][id] # NoMail
      PROVE  /\ q \in online /\ po.row[id] = po.box[q][id].mail /\ po.row[id].receiver = q
             /\ po.row[id] # NoMail /\ Lesser(po.row[id], po.row[id])
  <2>1. po.box[q][id] \in Entries
    BY <1>1, <1>2 DEF Offices
  <2>2. po.box[q][id].mail \in Mails
    BY <2>1 DEF Entries
  <2> QED BY <1>2, <2>2, MailShape DEF OfficeOK, Lesser
<1> QED BY <1>1, <1>2 DEF AlmostOK, OfficeOK

\* _SaveMail writes what p's mailbox has: the mail at id, and its row.
LEMMA SaveOne ==
  ASSUME NEW r \in Mails \cup {NoMail}, NEW e \in Entries \cup {NoMail}, NEW p \in Players,
         r # NoMail => MailOK(r),
         e # NoMail => /\ r # NoMail /\ r.receiver = p
                       /\ IF e.state = "changed" THEN Lesser(e.mail, r) ELSE r = e.mail
  PROVE  /\ SaveRow(r, e) \in Mails \cup {NoMail}
         /\ SaveEntry(e) \in Entries \cup {NoMail}
         /\ SaveRow(r, e) # NoMail => /\ MailOK(SaveRow(r, e)) /\ r # NoMail
                                      /\ SaveRow(r, e).items \subseteq r.items
                                      /\ e # NoMail => SaveRow(r, e).items = e.mail.items
         /\ SaveEntry(e) # NoMail => /\ e # NoMail /\ SaveRow(r, e) = SaveEntry(e).mail
                                     /\ SaveRow(r, e).receiver = p
         /\ e = NoMail => SaveRow(r, e) = r
<1>1. CASE e = NoMail
  BY <1>1 DEF SaveRow, SaveEntry
<1>2. CASE e # NoMail /\ e.state = "deleted"
  BY <1>2 DEF SaveRow, SaveEntry
<1>3. CASE e # NoMail /\ e.state = "unchanged"
  <2>1. r = e.mail /\ r \in Mails /\ MailOK(r) /\ Attached(e.mail)
    BY <1>3 DEF MailOK
  <2>2. SaveRow(r, e) = r
    BY <1>3 DEF SaveRow
  <2>3. SaveEntry(e) = [e EXCEPT !.state = "unchanged"]
    BY <1>3, <2>1 DEF SaveEntry
  <2>4. SaveEntry(e) \in Entries /\ SaveEntry(e).mail = e.mail
    BY <1>3, <2>3 DEF Entries
  <2> QED BY <1>3, <2>1, <2>2, <2>4
<1>4. CASE e # NoMail /\ e.state = "changed"
  <2> DEFINE m == e.mail
  <2>1. m \in Mails /\ r \in Mails /\ MailOK(r) /\ Lesser(m, r) /\ e \in Entries /\ r.receiver = p
    BY <1>4 DEF Entries
  <2>2. [r EXCEPT !.items = m.items, !.money = m.money, !.COD = m.COD, !.final = m.final] = m
    BY <2>1 DEF Mails, Lesser
  <2>3. SaveRow(r, e) = IF Attached(m) THEN m ELSE NoMail
    BY <1>4, <2>1, <2>2 DEF SaveRow, Kept
  <2>4. SaveEntry(e) = IF Attached(m) THEN [e EXCEPT !.state = "unchanged"] ELSE NoMail
    BY <1>4 DEF SaveEntry
  <2>5. /\ [e EXCEPT !.state = "unchanged"] \in Entries
        /\ [e EXCEPT !.state = "unchanged"].mail = m
    BY <2>1 DEF Entries
  <2>6. Attached(m) => MailOK(m)
    BY <2>1 DEF MailOK, Lesser
  <2> HIDE DEF m
  <2> QED BY <1>4, <2>1, <2>3, <2>4, <2>5, <2>6 DEF Lesser, m
<1>5. e # NoMail => e.state \in {"unchanged", "changed", "deleted"}
  BY DEF Entries
<1> QED BY <1>1, <1>2, <1>3, <1>4, <1>5

LEMMA SaveMailOK ==
  ASSUME NEW po, NEW p \in Players, AlmostOK(po, p), NEW n, n = SaveMail(po, p)
  PROVE  /\ OfficeOK(n, online)
         /\ \A i \in Items : Holding(n, i) \subseteq Holding(po, i)
         /\ \A id \in MailIds : n.row[id] # NoMail /\ po.box[p][id] # NoMail =>
              n.row[id].items = po.box[p][id].mail.items
<1>1. /\ po.row \in [MailIds -> Mails \cup {NoMail}]
      /\ po.box \in [Players -> [MailIds -> Entries \cup {NoMail}]]
  BY DEF AlmostOK, Offices
<1>2. /\ n.row = [id \in MailIds |-> SaveRow(po.row[id], po.box[p][id])]
      /\ n.box = [po.box EXCEPT ![p] = [id \in MailIds |-> SaveEntry(po.box[p][id])]]
      /\ n = [row |-> n.row, box |-> n.box]
  BY DEF SaveMail
<1>3. ASSUME NEW id \in MailIds
      PROVE  LET r == po.row[id]
                 e == po.box[p][id]
             IN  /\ SaveRow(r, e) \in Mails \cup {NoMail}
                 /\ SaveEntry(e) \in Entries \cup {NoMail}
                 /\ SaveRow(r, e) # NoMail => /\ MailOK(SaveRow(r, e)) /\ r # NoMail
                                              /\ SaveRow(r, e).items \subseteq r.items
                                              /\ e # NoMail => SaveRow(r, e).items = e.mail.items
                 /\ SaveEntry(e) # NoMail => /\ e # NoMail /\ SaveRow(r, e) = SaveEntry(e).mail
                                             /\ SaveRow(r, e).receiver = p
                 /\ e = NoMail => SaveRow(r, e) = r
  <2> DEFINE r == po.row[id]
             e == po.box[p][id]
  <2>1. /\ r \in Mails \cup {NoMail} /\ e \in Entries \cup {NoMail}
        /\ r # NoMail => MailOK(r)
        /\ e # NoMail => /\ r # NoMail /\ r.receiver = p
                         /\ IF e.state = "changed" THEN Lesser(e.mail, r) ELSE r = e.mail
    BY <1>1, <1>3 DEF AlmostOK
  <2> HIDE DEF r, e
  <2>2. /\ SaveRow(r, e) \in Mails \cup {NoMail}
        /\ SaveEntry(e) \in Entries \cup {NoMail}
        /\ SaveRow(r, e) # NoMail => /\ MailOK(SaveRow(r, e)) /\ r # NoMail
                                     /\ SaveRow(r, e).items \subseteq r.items
                                     /\ e # NoMail => SaveRow(r, e).items = e.mail.items
        /\ SaveEntry(e) # NoMail => /\ e # NoMail /\ SaveRow(r, e) = SaveEntry(e).mail
                                    /\ SaveRow(r, e).receiver = p
        /\ e = NoMail => SaveRow(r, e) = r
    BY <2>1, SaveOne
  <2> QED BY <2>2 DEF r, e
<1>4. /\ n.row \in [MailIds -> Mails \cup {NoMail}]
      /\ n.box \in [Players -> [MailIds -> Entries \cup {NoMail}]]
      /\ \A id \in MailIds : /\ n.row[id] = SaveRow(po.row[id], po.box[p][id])
                             /\ n.box[p][id] = SaveEntry(po.box[p][id])
                             /\ \A q \in Players \ {p} : n.box[q][id] = po.box[q][id]
  BY <1>1, <1>2, <1>3
<1>5. ASSUME NEW q \in Players, NEW id \in MailIds, n.box[q][id] # NoMail
      PROVE  q \in online /\ n.row[id] = n.box[q][id].mail /\ n.row[id].receiver = q
  <2>1. CASE q = p
    <3>1. po.box[p][id] # NoMail
      BY <1>3, <1>4, <1>5, <2>1
    <3> QED BY <1>3, <1>4, <1>5, <2>1, <3>1 DEF AlmostOK
  <2>2. CASE q # p
    <3>1. /\ n.box[q][id] = po.box[q][id] /\ q \in online
          /\ po.row[id] = n.box[q][id].mail /\ po.row[id].receiver = q
      BY <1>4, <1>5, <2>2 DEF AlmostOK
    <3>2. po.box[p][id] = NoMail
      BY <2>2, <3>1 DEF AlmostOK
    <3> QED BY <1>3, <1>4, <3>1, <3>2
  <2> QED BY <2>1, <2>2
<1>6. OfficeOK(n, online)
  <2>1. n \in Offices
    BY <1>2, <1>4 DEF Offices
  <2>2. \A id \in MailIds : n.row[id] # NoMail => MailOK(n.row[id])
    BY <1>3, <1>4
  <2> QED BY <1>5, <2>1, <2>2 DEF OfficeOK
<1>7. \A i \in Items : Holding(n, i) \subseteq Holding(po, i)
  BY <1>3, <1>4 DEF Holding
<1> QED BY <1>3, <1>4, <1>6, <1>7

\* A mail is changed in the mailbox only.
LEMMA ChangeAlmostOK ==
  ASSUME NEW po, OfficeOK(po, online), NEW p \in Players, NEW id \in MailIds,
         po.box[p][id] # NoMail, NEW m \in Mails, Lesser(m, po.row[id]),
         NEW n, n = Change(po, p, id, m)
  PROVE  /\ AlmostOK(n, p) /\ n.row = po.row
         /\ n.box[p][id].mail = m /\ n.box[p][id] # NoMail
<1> DEFINE e == [mail |-> m, state |-> "changed"]
<1>1. AlmostOK(po, p)
  BY OfficeAlmostOK
<1>2. /\ po.row \in [MailIds -> Mails \cup {NoMail}]
      /\ po.box \in [Players -> [MailIds -> Entries \cup {NoMail}]]
  BY <1>1 DEF AlmostOK, Offices
<1>3. /\ n.row = po.row
      /\ n.box = [po.box EXCEPT ![p] = [po.box[p] EXCEPT ![id] = e]]
      /\ n = [row |-> n.row, box |-> n.box]
  BY <1>1 DEF Change, AlmostOK, Offices
<1>4. e \in Entries /\ e # NoMail /\ e.state = "changed" /\ e.mail = m
  BY MailShape DEF Entries
<1> HIDE DEF e
<1>5. /\ n.box \in [Players -> [MailIds -> Entries \cup {NoMail}]]
      /\ n.box[p][id] = e
      /\ \A q \in Players, x \in MailIds : q # p \/ x # id => n.box[q][x] = po.box[q][x]
  BY <1>2, <1>3, <1>4
<1>6. ASSUME NEW q \in Players, NEW x \in MailIds, n.box[q][x] # NoMail
      PROVE  /\ q \in online /\ n.row[x] # NoMail /\ n.row[x].receiver = q
             /\ IF q = p /\ n.box[q][x].state = "changed" THEN Lesser(n.box[q][x].mail, n.row[x])
                ELSE n.row[x] = n.box[q][x].mail
  <2>1. CASE q = p /\ x = id
    BY <1>1, <1>3, <1>4, <1>5, <2>1 DEF AlmostOK
  <2>2. CASE q # p \/ x # id
    BY <1>1, <1>3, <1>5, <1>6, <2>2 DEF AlmostOK
  <2> QED BY <2>1, <2>2
<1>7. AlmostOK(n, p)
  BY <1>1, <1>2, <1>3, <1>5, <1>6 DEF AlmostOK, Offices
<1> QED BY <1>3, <1>4, <1>5, <1>7

\* What a handler posts is the post office after it.
LEMMA Posted ==
  ASSUME NEW n, OfficeOK(n, online), Post(n), online' = online
  PROVE  OfficeOK(Office, online)' /\ Office' = n
<1>1. n = [row |-> n.row, box |-> n.box]
  BY DEF OfficeOK, Offices
<1>2. Office' = n
  BY <1>1 DEF Office, Post
<1> QED BY <1>2

LEMMA SamePost ==
  ASSUME OfficeOK(Office, online), UNCHANGED <<m_mail, row, online>>
  PROVE  OfficeOK(Office, online)' /\ Office' = Office
<1>1. Office' = Office
  BY DEF Office
<1> QED BY <1>1

-----------------------------------------------------------------------------
(* Places and purses.                                                        *)

\* The items of mails come from mails.
LEMMA PlacesKept ==
  ASSUME NEW b, NEW po, NEW n, NEW a, OnePlace(b, po, a),
         \A i \in Items : /\ \A x, y \in Holding(n, i) : x = y
                          /\ Holding(po, i) = {} => Holding(n, i) = {}
  PROVE  OnePlace(b, n, a)
BY DEF OnePlace

LEMMA FewerPlaces ==
  ASSUME NEW b, NEW po, NEW n, NEW a, OnePlace(b, po, a),
         \A i \in Items : Holding(n, i) \subseteq Holding(po, i)
  PROVE  OnePlace(b, n, a)
BY DEF OnePlace

\* Who is saved has purse and bags in the database.
LEMMA PurseSaved ==
  ASSUME PursesOK, NEW p \in Players, NEW B \in SUBSET Items, NEW M \in 0..MaxMoney,
         bag' = [bag EXCEPT ![p] = B], money' = [money EXCEPT ![p] = M],
         SaveInventoryAndGold(p), online' \subseteq Players, online \ {p} \subseteq online'
  PROVE  PursesOK'
<1>1. /\ bag' \in [Players -> SUBSET Items] /\ money' \in [Players -> 0..MaxMoney]
      /\ bag'[p] = B /\ money'[p] = M
      /\ \A q \in Players \ {p} : bag'[q] = bag[q] /\ money'[q] = money[q]
  BY DEF PursesOK
<1>2. /\ saved' = [saved EXCEPT ![p] = [bag |-> B, money |-> M]]
      /\ unsaved' = [unsaved EXCEPT ![p] = 0]
  BY <1>1 DEF SaveInventoryAndGold
<1>3. M + 0 = M
  BY MailAssumption
<1> QED BY <1>1, <1>2, <1>3 DEF PursesOK

LEMMA PurseSavedUnchanged ==
  ASSUME PursesOK, NEW p \in Players, UNCHANGED <<bag, money>>,
         SaveInventoryAndGold(p), online' \subseteq Players, online \ {p} \subseteq online'
  PROVE  PursesOK'
<1>1. bag[p] \in SUBSET Items /\ money[p] \in 0..MaxMoney
  BY DEF PursesOK
<1>2. bag' = [bag EXCEPT ![p] = bag[p]] /\ money' = [money EXCEPT ![p] = money[p]]
  BY DEF PursesOK
<1> QED BY <1>1, <1>2, PurseSaved

LEMMA PurseUntouched ==
  ASSUME PursesOK, UNCHANGED <<online, bag, money, saved, unsaved>>
  PROVE  PursesOK'
BY DEF PursesOK

LEMMA AuctionsUntouched ==
  ASSUME AuctionsOK, UNCHANGED <<auctions, savedAuctions>>
  PROVE  AuctionsOK'
BY DEF AuctionsOK

LEMMA InitOK == Init => AInv

<1> SUFFICES ASSUME Init PROVE AInv
  OBVIOUS
<1> USE DEF Init, MailInit
<1>1. /\ StartMoney \in [Players -> 0..MaxMoney] /\ StartBag \in [Players -> SUBSET Items]
      /\ \A p \in Players : StartMoney[p] \in Int /\ StartMoney[p] + 0 = StartMoney[p]
      /\ \A p, q \in Players : p # q => StartBag[p] \cap StartBag[q] = {}
  BY MailAssumption
<1>2. PursesOK
  <2>1. online \subseteq Players /\ bag = StartBag /\ money = StartMoney
    OBVIOUS
  <2>2. \A p \in Players : saved[p] = [bag |-> StartBag[p], money |-> StartMoney[p]] /\ unsaved[p] = 0
    OBVIOUS
  <2>3. saved \in [Players -> [bag : SUBSET Items, money : 0..MaxMoney]]
    BY <1>1
  <2>4. unsaved \in [Players -> Nat]
    OBVIOUS
  <2> QED BY <1>1, <2>1, <2>2, <2>3, <2>4 DEF PursesOK
<1>3. OfficeOK(Office, online)
  BY DEF OfficeOK, Offices, Office, EmptyBox
<1>4. AuctionsOK
  BY DEF AuctionsOK
<1>5. \A i \in Items : Holding(Office, i) = {}
  BY DEF Holding, Office, EmptyBox
<1>6. OnePlace(bag, Office, auctions)
  BY <1>1, <1>5 DEF OnePlace
<1> QED BY <1>2, <1>3, <1>4, <1>6 DEF AInv

LEMMA SendMailStep ==
  ASSUME AInv, NEW p \in Players, NEW q \in Players, NEW S \in SUBSET Items, NEW gold \in Nat,
         NEW cod \in Nat, SendMail(p, q, S, gold, cod), UNCHANGED <<auctions, savedAuctions>>
  PROVE  AInv'
<1> DEFINE mail == NormalMail(p, q, S, gold, cod, FALSE)
<1>1. /\ PursesOK /\ OfficeOK(Office, online) /\ AuctionsOK /\ OnePlace(bag, Office, auctions)
      /\ S \subseteq bag[p] /\ (S # {} \/ gold > 0)
      /\ FreeIds(Office) # {} /\ Post(SendMailTo(Office, mail)) /\ online' = online
  BY DEF AInv, SendMail
<1>2. MailOK(mail) /\ mail.items = S
  BY <1>1 DEF MailOK, Mails, Attached, NormalMail
<1> HIDE DEF mail
<1>3. PICK id \in FreeIds(Office) : Sent(Office, SendMailTo(Office, mail), mail, id)
  BY <1>1, <1>2, SendSends
<1>4. OfficeOK(Office, online)' /\ Sent(Office, Office', mail, id)
  BY <1>1, <1>3, Posted DEF Sent
<1>5. \A i \in Items : Holding(Office', i) = IF i \in S THEN Holding(Office, i) \cup {id}
                                             ELSE Holding(Office, i)
  <2> TAKE i \in Items
  <2> DEFINE n == Office'
  <2>1. Sent(Office, n, mail, id)
    BY <1>4
  <2> HIDE DEF n
  <2>2. /\ i \in mail.items => Holding(n, i) = Holding(Office, i) \cup {id}
        /\ i \notin mail.items => Holding(n, i) = Holding(Office, i)
    BY <1>1, <1>2, <2>1, SentHolding
  <2> QED BY <1>2, <2>2 DEF n
<1>6. bag' = [bag EXCEPT ![p] = @ \ S] /\ bag \in [Players -> SUBSET Items]
  BY <1>1 DEF SendMail, PursesOK
<1>7. OnePlace(bag', Office', auctions)
  <2> DEFINE c == bag'
             n == Office'
             po == Office
  <2>1. /\ c = [bag EXCEPT ![p] = @ \ S] /\ bag \in [Players -> SUBSET Items]
        /\ S \in SUBSET bag[p] /\ OnePlace(bag, po, auctions)
    BY <1>1, <1>6
  <2>2. \A i \in Items : Holding(n, i) = IF i \in S THEN Holding(po, i) \cup {id} ELSE Holding(po, i)
    BY <1>5
  <2> HIDE DEF c, n, po
  <2> DEFINE a == auctions
             b == bag
  <2>3. b \in [Players -> SUBSET Items] /\ OnePlace(b, po, a) /\ S \in SUBSET b[p]
    BY <2>1
  <2>4. \A r \in Players : c[r] = IF r = p THEN b[p] \ S ELSE b[r]
    BY <2>1
  <2> HIDE DEF a, b
  <2>5. ASSUME NEW i \in Items
        PROVE  /\ \A r, x \in Players : i \in c[r] /\ i \in c[x] => r = x
               /\ \A r \in Players : i \in c[r] => Holding(n, i) = {} /\ a[i] = NoAuction
               /\ \A x, y \in Holding(n, i) : x = y
               /\ a[i] # NoAuction => Holding(n, i) = {}
    <3>1. /\ \A r, x \in Players : i \in b[r] /\ i \in b[x] => r = x
          /\ \A r \in Players : i \in b[r] => Holding(po, i) = {} /\ a[i] = NoAuction
          /\ \A x, y \in Holding(po, i) : x = y
          /\ a[i] # NoAuction => Holding(po, i) = {}
      BY <2>3 DEF OnePlace
    <3>2. CASE i \in S
      BY <2>2, <2>3, <2>4, <3>1, <3>2
    <3>3. CASE i \notin S
      BY <2>2, <2>4, <3>1, <3>3
    <3> QED BY <3>2, <3>3
  <2> QED BY <2>5 DEF OnePlace, a, c, n
<1>8. AuctionsOK'
  BY <1>1, AuctionsUntouched
<1>9. PursesOK'
  <2>1. /\ money[p] \in 0..MaxMoney /\ money[p] >= Postage + gold /\ Postage \in Nat
        /\ bag[p] \in SUBSET Items
    BY <1>1, MailAssumption DEF PursesOK, SendMail, HasEnoughMoney
  <2>2. money[p] - (Postage + gold) \in 0..MaxMoney /\ bag[p] \ S \in SUBSET Items
    BY <2>1, MailAssumption
  <2>3. /\ bag' = [bag EXCEPT ![p] = bag[p] \ S]
        /\ money' = [money EXCEPT ![p] = money[p] - (Postage + gold)]
        /\ SaveInventoryAndGold(p) /\ online' \subseteq Players /\ online \ {p} \subseteq online'
    BY <1>1 DEF SendMail, PursesOK
  <2> QED BY <1>1, <2>2, <2>3, PurseSaved
<1> QED BY <1>4, <1>7, <1>8, <1>9 DEF AInv

\* The state of a mail in a mailbox changes, the mail does not.
LEMMA EntryStep ==
  ASSUME AInv, NEW p \in Players, NEW id \in MailIds, m_mail[p][id] # NoMail,
         NEW s \in {"changed", "deleted"}, m_mail' = [m_mail EXCEPT ![p][id].state = s],
         UNCHANGED <<online, bag, money, row, saved, unsaved, auctions, savedAuctions>>
  PROVE  AInv'
<1>1. /\ PursesOK /\ OfficeOK(Office, online) /\ AuctionsOK /\ OnePlace(bag, Office, auctions)
  BY DEF AInv
<1> DEFINE e == [m_mail[p][id] EXCEPT !.state = s]
<1>2. /\ m_mail \in [Players -> [MailIds -> Entries \cup {NoMail}]]
      /\ row \in [MailIds -> Mails \cup {NoMail}]
  BY <1>1 DEF OfficeOK, Office, Offices
<1>3. m_mail[p][id] \in Entries
  BY <1>2
<1>4. e \in Entries /\ e.mail = m_mail[p][id].mail
  BY <1>3 DEF Entries
<1>5. m_mail' = [m_mail EXCEPT ![p] = [m_mail[p] EXCEPT ![id] = e]]
  OBVIOUS
<1> HIDE DEF e
<1>6. /\ m_mail' \in [Players -> [MailIds -> Entries \cup {NoMail}]]
      /\ \A q \in Players, x \in MailIds : q # p \/ x # id => m_mail'[q][x] = m_mail[q][x]
      /\ m_mail'[p][id] = e
  BY <1>2, <1>4, <1>5
<1>7. /\ Office'.row = row /\ Office'.box = m_mail' /\ Office' = [row |-> row, box |-> m_mail']
      /\ Office.row = row /\ Office.box = m_mail
  BY DEF Office
<1>8. OfficeOK(Office, online)'
  <2>1. Office' \in Offices
    BY <1>2, <1>6, <1>7 DEF Offices
  <2>2. \A x \in MailIds : Office'.row[x] # NoMail => MailOK(Office'.row[x])
    BY <1>1, <1>7 DEF OfficeOK
  <2>3. \A q \in Players, x \in MailIds : m_mail'[q][x] # NoMail =>
          m_mail[q][x] # NoMail /\ m_mail'[q][x].mail = m_mail[q][x].mail
    BY <1>4, <1>6
  <2>4. \A q \in Players, x \in MailIds : m_mail[q][x] # NoMail =>
          q \in online /\ row[x] = m_mail[q][x].mail /\ row[x].receiver = q
    BY <1>1, <1>7 DEF OfficeOK
  <2>5. \A q \in Players, x \in MailIds : m_mail'[q][x] # NoMail =>
          q \in online /\ row[x] = m_mail'[q][x].mail /\ row[x].receiver = q
    BY <2>3, <2>4
  <2>6. OfficeOK(Office', online)
    BY <1>7, <2>1, <2>2, <2>5 DEF OfficeOK
  <2> QED BY <2>6
<1>9. OnePlace(bag, Office', auctions)
  BY <1>1, <1>7, FewerPlaces DEF Holding
<1>10. AuctionsOK'
  BY <1>1, AuctionsUntouched
<1>11. PursesOK'
  BY <1>1, PurseUntouched
<1> QED BY <1>8, <1>9, <1>10, <1>11 DEF AInv

\* A mail of p that is sent to another: its id is free before the new mail takes one.
LEMMA ReturnToSenderStep ==
  ASSUME AInv, NEW p \in Players, NEW id \in MailIds, ReturnToSender(p, id),
         UNCHANGED <<auctions, savedAuctions>>
  PROVE  AInv'
<1> DEFINE m == m_mail[p][id].mail
           removed == RemoveMail(Office, p, id)
           mail == NormalMail(m.receiver, m.sender, m.items, m.money, 0, TRUE)
<1>1. /\ PursesOK /\ OfficeOK(Office, online) /\ AuctionsOK /\ OnePlace(bag, Office, auctions)
      /\ m_mail[p][id] # NoMail /\ online' = online
      /\ Office.box[p][id] = m_mail[p][id] /\ Office.row[id] = row[id]
  BY DEF AInv, ReturnToSender, Readable, Office
<1>2. /\ row[id] = m /\ MailOK(m) /\ m \in Mails
  <2>1. m_mail[p][id] \in Entries
    BY <1>1 DEF OfficeOK, Offices, Office
  <2>2. m \in Mails /\ m # NoMail
    BY <2>1, MailShape DEF Entries
  <2> QED BY <1>1, <2>2 DEF OfficeOK
<1>3. /\ OfficeOK(removed, online) /\ id \in FreeIds(removed)
      /\ \A i \in Items : Holding(removed, i) = Holding(Office, i) \ {id}
  <2>1. Office.box[p][id] # NoMail /\ removed = RemoveMail(Office, p, id) /\ OfficeOK(Office, online)
    BY <1>1
  <2> HIDE DEF m, mail, removed
  <2>2. /\ OfficeOK(removed, online) /\ id \in FreeIds(removed)
        /\ removed.row = [Office.row EXCEPT ![id] = NoMail]
    BY <2>1, RemoveMailOK
  <2>3. \A i \in Items : Holding(removed, i) = Holding(Office, i) \ {id}
    BY <2>1, <2>2 DEF Holding, OfficeOK, Offices
  <2> QED BY <2>2, <2>3
<1>4. \A i \in Items : i \in m.items => id \in Holding(Office, i)
  BY <1>1, <1>2, MailShape DEF Holding
<1>5. /\ \A i \in Items : \A x, y \in Holding(Office, i) : x = y
  BY <1>1 DEF OnePlace
<1>6. OfficeOK(Office, online)' /\ OnePlace(bag, Office', auctions)
  <2>1. CASE m.type = "normal"
    <3>1. MailOK(mail) /\ mail.items = m.items
      <4>1. /\ m.receiver \in Players /\ m.sender \in Players /\ m.items \in SUBSET Items
            /\ m.money \in Nat /\ 0 \in Nat /\ TRUE \in BOOLEAN /\ (m.items # {} \/ m.money > 0)
        BY <1>2, <2>1 DEF MailOK, Attached, Mails
      <4> HIDE DEF m
      <4> QED BY <4>1 DEF MailOK, Mails, Attached, NormalMail
    <3>2. Post(SendMailTo(removed, mail))
      BY <2>1 DEF ReturnToSender
    <3> HIDE DEF m, mail, removed
    <3>3. PICK x \in FreeIds(removed) : Sent(removed, SendMailTo(removed, mail), mail, x)
      BY <1>3, <3>1, SendSends
    <3>4. OfficeOK(Office, online)' /\ Sent(removed, Office', mail, x)
      BY <1>1, <3>2, <3>3, Posted DEF Sent
    <3>5. \A i \in Items : /\ i \in m.items => Holding(Office', i) = Holding(removed, i) \cup {x}
                           /\ i \notin m.items => Holding(Office', i) = Holding(removed, i)
      BY <1>3, <3>1, <3>4, SentHolding
    <3>6. \A i \in Items : /\ \A y, z \in Holding(Office', i) : y = z
                           /\ Holding(Office, i) = {} => Holding(Office', i) = {}
      BY <1>3, <1>4, <1>5, <3>5
    <3> QED BY <1>1, <3>4, <3>6, PlacesKept
  <2>2. CASE m.type # "normal"
    <3>1. Post(removed)
      BY <2>2 DEF ReturnToSender
    <3> HIDE DEF removed
    <3>2. OfficeOK(Office, online)' /\ Office' = removed
      BY <1>1, <1>3, <3>1, Posted
    <3> QED BY <1>1, <1>3, <3>2, FewerPlaces
  <2> QED BY <2>1, <2>2
<1>7. bag' = bag /\ auctions' = auctions
  BY DEF ReturnToSender
<1>8. AuctionsOK'
  BY <1>1, AuctionsUntouched
<1>9. PursesOK'
  BY <1>1, PurseUntouched DEF ReturnToSender
<1> QED BY <1>6, <1>7, <1>8, <1>9 DEF AInv

\* An item goes from a mail into p's bags.
LEMMA MailToBag ==
  ASSUME NEW b \in [Players -> SUBSET Items], NEW po, NEW n, NEW a, OnePlace(b, po, a),
         NEW p \in Players, NEW i \in Items, NEW c, c = [b EXCEPT ![p] = @ \cup {i}],
         Holding(po, i) # {}, Holding(n, i) = {},
         \A j \in Items : Holding(n, j) \subseteq Holding(po, j)
  PROVE  OnePlace(c, n, a)
<1>1. \A q \in Players : c[q] = IF q = p THEN b[p] \cup {i} ELSE b[q]
  OBVIOUS
<1> SUFFICES ASSUME NEW j \in Items
             PROVE  /\ \A q, r \in Players : j \in c[q] /\ j \in c[r] => q = r
                    /\ \A q \in Players : j \in c[q] => Holding(n, j) = {} /\ a[j] = NoAuction
                    /\ \A x, y \in Holding(n, j) : x = y
                    /\ a[j] # NoAuction => Holding(n, j) = {}
  BY DEF OnePlace
<1>2. /\ \A q, r \in Players : j \in b[q] /\ j \in b[r] => q = r
      /\ \A q \in Players : j \in b[q] => Holding(po, j) = {} /\ a[j] = NoAuction
      /\ \A x, y \in Holding(po, j) : x = y
      /\ a[j] # NoAuction => Holding(po, j) = {}
      /\ Holding(n, j) \subseteq Holding(po, j)
  BY DEF OnePlace
<1>3. CASE j = i
  BY <1>1, <1>2, <1>3
<1>4. CASE j # i
  BY <1>1, <1>2, <1>4
<1> QED BY <1>3, <1>4

\* What a mailbox shows, its row has.
LEMMA MailShown ==
  ASSUME OfficeOK(Office, online), NEW p \in Players, NEW id \in MailIds, m_mail[p][id] # NoMail
  PROVE  /\ row[id] = m_mail[p][id].mail /\ row[id] # NoMail /\ MailOK(row[id]) /\ row[id] \in Mails
         /\ Office.row[id] = row[id] /\ Office.box[p][id] = m_mail[p][id]
<1>1. m_mail[p][id] \in Entries
  BY DEF OfficeOK, Offices, Office
<1>2. m_mail[p][id].mail \in Mails /\ m_mail[p][id].mail # NoMail
  BY <1>1, MailShape DEF Entries
<1> QED BY <1>2 DEF OfficeOK, Office

SameItems(po, n) == \A i \in Items : Holding(n, i) = Holding(po, i)

\* A mail without items takes a free id, and leaves every other mail and the items where
\* they are.
LEMMA MoneySent ==
  ASSUME NEW po, OfficeOK(po, online), NEW mail, MailOK(mail), mail.items = {}, FreeIds(po) # {},
         NEW n, n = SendMailTo(po, mail)
  PROVE  /\ OfficeOK(n, online)
         /\ \A id \in MailIds : po.row[id] # NoMail =>
              n.row[id] = po.row[id] /\ \A p \in Players : n.box[p][id] = po.box[p][id]
         /\ SameItems(po, n)
<1>1. PICK x \in FreeIds(po) : Sent(po, n, mail, x)
  BY SendSends
<1>2. \A id \in MailIds : po.row[id] # NoMail => id # x
  BY <1>1 DEF FreeIds
<1>3. n.row = [po.row EXCEPT ![x] = mail] /\ po.row \in [MailIds -> Mails \cup {NoMail}]
  BY <1>1 DEF Sent, OfficeOK, Offices
<1>4. \A id \in MailIds : po.row[id] # NoMail =>
        n.row[id] = po.row[id] /\ \A p \in Players : n.box[p][id] = po.box[p][id]
  BY <1>1, <1>2, <1>3 DEF Sent
<1>5. \A i \in Items : /\ i \in mail.items => Holding(n, i) = Holding(po, i) \cup {x}
                       /\ i \notin mail.items => Holding(n, i) = Holding(po, i)
  BY <1>1, SentHolding
<1> QED BY <1>1, <1>4, <1>5 DEF Sent, SameItems

LEMMA TakeItemStep ==
  ASSUME AInv, NEW p \in Players, NEW id \in MailIds, NEW i \in Items, TakeItem(p, id, i),
         UNCHANGED <<auctions, savedAuctions>>
  PROVE  AInv'
<1> DEFINE m == m_mail[p][id].mail
           paid == IF m.COD > 0
                   THEN SendMailTo(Office, NormalMail(m.receiver, m.sender, {}, m.COD, 0, TRUE))
                   ELSE Office
           left == [m EXCEPT !.items = @ \ {i}, !.COD = 0]
           taken == Change(paid, p, id, left)
           n == SaveMail(taken, p)
<1>1. /\ PursesOK /\ OfficeOK(Office, online) /\ AuctionsOK /\ OnePlace(bag, Office, auctions)
      /\ m_mail[p][id] # NoMail /\ i \in m.items /\ Post(n) /\ online' = online
      /\ m.COD > 0 => FreeIds(Office) # {}
  BY DEF AInv, TakeItem, Readable
<1>2. /\ row[id] = m /\ MailOK(m) /\ m \in Mails /\ m # NoMail
      /\ Office.row[id] = row[id] /\ Office.box[p][id] = m_mail[p][id]
  BY <1>1, MailShown
<1>3. /\ OfficeOK(paid, online) /\ paid.row[id] = m /\ paid.box[p][id] = m_mail[p][id]
      /\ \A j \in Items : Holding(paid, j) = Holding(Office, j)
  <2>1. CASE m.COD > 0
    <3> DEFINE mail == NormalMail(m.receiver, m.sender, {}, m.COD, 0, TRUE)
    <3>1. paid = SendMailTo(Office, mail)
      BY <2>1
    <3>2. MailOK(mail) /\ mail.items = {}
      BY <1>2, <2>1 DEF MailOK, Mails, Attached, NormalMail
    <3> HIDE DEF paid, m, mail
    <3>3. OfficeOK(paid, online) /\ paid.row[id] = m /\ paid.box[p][id] = m_mail[p][id]
      BY <1>1, <1>2, <2>1, <3>1, <3>2, MoneySent
    <3>4. SameItems(Office, paid)
      BY <1>1, <2>1, <3>1, <3>2, MoneySent
    <3> QED BY <3>3, <3>4 DEF SameItems
  <2>2. CASE ~(m.COD > 0)
    <3>1. paid = Office
      BY <2>2
    <3> HIDE DEF paid, m
    <3> QED BY <1>1, <1>2, <3>1
  <2> QED BY <2>1, <2>2
<1>4. /\ left \in Mails /\ Lesser(left, m) /\ left.items = m.items \ {i}
  <2>1. m \in Mails
    BY <1>2
  <2> HIDE DEF m
  <2>2. /\ left.items = m.items \ {i} /\ left.COD = 0 /\ left.money = m.money /\ left.type = m.type
        /\ left.sender = m.sender /\ left.receiver = m.receiver
    BY <2>1 DEF Mails
  <2>3. left \in Mails
    BY <2>1, <2>2 DEF Mails
  <2> QED BY <2>2, <2>3 DEF Lesser
<1>5. taken = Change(paid, p, id, left) /\ n = SaveMail(taken, p)
  OBVIOUS
<1> HIDE DEF m, paid, left, taken, n
<1>6. AlmostOK(taken, p) /\ taken.row = paid.row /\ taken.box[p][id].mail = left /\ taken.box[p][id] # NoMail
  BY <1>1, <1>3, <1>4, <1>5, ChangeAlmostOK
<1>7. /\ OfficeOK(n, online)
      /\ \A j \in Items : Holding(n, j) \subseteq Holding(taken, j)
      /\ n.row[id] # NoMail => n.row[id].items = left.items
  BY <1>5, <1>6, SaveMailOK
<1>8. \A j \in Items : Holding(n, j) \subseteq Holding(Office, j)
  <2>1. \A j \in Items : Holding(taken, j) = Holding(paid, j)
    BY <1>6 DEF Holding
  <2> QED BY <1>3, <1>7, <2>1
<1>9. id \in Holding(Office, i) /\ id \notin Holding(n, i)
  BY <1>1, <1>2, <1>4, <1>7 DEF Holding
<1>10. Holding(n, i) = {}
  BY <1>1, <1>8, <1>9 DEF OnePlace
<1>11. OfficeOK(Office, online)' /\ Office' = n
  BY <1>1, <1>7, Posted
<1>12. OnePlace(bag', Office', auctions)
  <2>1. bag' = [bag EXCEPT ![p] = @ \cup {i}] /\ bag \in [Players -> SUBSET Items]
    BY <1>1 DEF TakeItem, PursesOK
  <2> QED BY <1>1, <1>8, <1>9, <1>10, <1>11, <2>1, MailToBag
<1>13. AuctionsOK'
  BY <1>1, AuctionsUntouched
<1>14. PursesOK'
  <2>1. /\ money[p] \in 0..MaxMoney /\ money[p] >= m.COD /\ m.COD \in Nat
        /\ bag[p] \in SUBSET Items
    BY <1>1, <1>2 DEF PursesOK, TakeItem, HasEnoughMoney, Mails, m
  <2>2. money[p] - m.COD \in 0..MaxMoney /\ bag[p] \cup {i} \in SUBSET Items
    BY <2>1, MailAssumption
  <2>3. /\ bag' = [bag EXCEPT ![p] = bag[p] \cup {i}]
        /\ money' = [money EXCEPT ![p] = money[p] - m.COD]
        /\ SaveInventoryAndGold(p) /\ online' \subseteq Players /\ online \ {p} \subseteq online'
    BY <1>1 DEF TakeItem, PursesOK, m
  <2> QED BY <1>1, <2>2, <2>3, PurseSaved
<1> QED BY <1>11, <1>12, <1>13, <1>14 DEF AInv

LEMMA TakeMoneyStep ==
  ASSUME AInv, NEW p \in Players, NEW id \in MailIds, TakeMoney(p, id),
         UNCHANGED <<auctions, savedAuctions>>
  PROVE  AInv'
<1> DEFINE m == m_mail[p][id].mail
           left == [m EXCEPT !.money = 0]
           taken == Change(Office, p, id, left)
           n == SaveMail(taken, p)
<1>1. /\ PursesOK /\ OfficeOK(Office, online) /\ AuctionsOK /\ OnePlace(bag, Office, auctions)
      /\ m_mail[p][id] # NoMail /\ Post(n) /\ online' = online /\ bag' = bag /\ auctions' = auctions
  BY DEF AInv, TakeMoney, Readable
<1>2. /\ row[id] = m /\ m \in Mails
      /\ Office.row[id] = row[id] /\ Office.box[p][id] = m_mail[p][id]
  BY <1>1, MailShown
<1>3. /\ left \in Mails /\ Lesser(left, m)
  <2>1. m \in Mails
    BY <1>2
  <2> HIDE DEF m
  <2> QED BY <2>1 DEF Mails, Lesser
<1>4. taken = Change(Office, p, id, left) /\ n = SaveMail(taken, p)
  OBVIOUS
<1>5. /\ money[p] \in 0..MaxMoney /\ m.money \in Nat /\ money[p] < MaxMoney - m.money
      /\ money' = [money EXCEPT ![p] = money[p] + m.money]
      /\ SaveGold(p)
  BY <1>1, <1>2 DEF PursesOK, TakeMoney, Fits, Mails
<1> HIDE DEF m, left, taken, n
<1>6. AlmostOK(taken, p) /\ taken.row = Office.row
  BY <1>1, <1>2, <1>3, <1>4, ChangeAlmostOK
<1>7. /\ OfficeOK(n, online)
      /\ \A j \in Items : Holding(n, j) \subseteq Holding(taken, j)
  BY <1>4, <1>6, SaveMailOK
<1>8. \A j \in Items : Holding(n, j) \subseteq Holding(Office, j)
  BY <1>6, <1>7 DEF Holding
<1>9. OfficeOK(Office, online)' /\ Office' = n
  BY <1>1, <1>7, Posted
<1>10. OnePlace(bag', Office', auctions')
  BY <1>1, <1>8, <1>9, FewerPlaces
<1>11. AuctionsOK'
  BY <1>1, AuctionsUntouched
<1>12. PursesOK'
  <2>1. money[p] + m.money \in 0..MaxMoney /\ money[p] + m.money + 0 = money[p] + m.money
    BY <1>5, MailAssumption
  <2>2. /\ money' \in [Players -> 0..MaxMoney] /\ money'[p] = money[p] + m.money
        /\ \A q \in Players \ {p} : money'[q] = money[q]
    BY <1>1, <1>5, <2>1 DEF PursesOK
  <2>3. /\ saved' = [saved EXCEPT ![p] = [saved[p] EXCEPT !.money = money'[p]]]
        /\ unsaved' = [unsaved EXCEPT ![p] = 0]
    BY <1>5 DEF SaveGold
  <2>4. [saved[p] EXCEPT !.money = money'[p]] = [bag |-> bag[p], money |-> money'[p]]
    BY <1>1 DEF PursesOK
  <2>5. /\ saved' = [saved EXCEPT ![p] = [bag |-> bag'[p], money |-> money'[p]]]
        /\ unsaved' = [unsaved EXCEPT ![p] = 0]
    BY <1>1, <2>3, <2>4
  <2>6. /\ saved' \in [Players -> [bag : SUBSET Items, money : 0..MaxMoney]]
        /\ saved'[p] = [bag |-> bag'[p], money |-> money'[p]] /\ unsaved'[p] = 0
        /\ \A q \in Players \ {p} : saved'[q] = saved[q] /\ unsaved'[q] = unsaved[q]
        /\ unsaved' \in [Players -> Nat]
    BY <1>1, <2>2, <2>5 DEF PursesOK
  <2> QED BY <1>1, <2>1, <2>2, <2>6 DEF PursesOK
<1> QED BY <1>9, <1>10, <1>11, <1>12 DEF AInv

\* A mail in a loaded mailbox does not expire, so the mailboxes need not know.
LEMMA ReturnOrDeleteStep ==
  ASSUME AInv, ~MayExpireLoaded, NEW id \in MailIds, ReturnOrDeleteOldMail(id),
         UNCHANGED <<auctions, savedAuctions>>
  PROVE  AInv'
<1> DEFINE m == row[id]
           r == [row EXCEPT ![id] = Expired(m)]
           n == [row |-> r, box |-> m_mail]
<1>1. /\ PursesOK /\ OfficeOK(Office, online) /\ AuctionsOK /\ OnePlace(bag, Office, auctions)
      /\ m # NoMail /\ m.receiver \notin online /\ Post(n)
      /\ UNCHANGED <<online, bag, money, saved, unsaved>>
  BY DEF AInv, ReturnOrDeleteOldMail, Post
<1>2. /\ row \in [MailIds -> Mails \cup {NoMail}]
      /\ m_mail \in [Players -> [MailIds -> Entries \cup {NoMail}]]
      /\ \A x \in MailIds : row[x] # NoMail => MailOK(row[x])
      /\ \A q \in Players, x \in MailIds : m_mail[q][x] # NoMail =>
           q \in online /\ row[x] = m_mail[q][x].mail /\ row[x].receiver = q
  BY <1>1 DEF OfficeOK, Offices, Office
<1>3. \A q \in Players : m_mail[q][id] = NoMail
  BY <1>1, <1>2
<1>4. m \in Mails /\ MailOK(m)
  BY <1>1, <1>2
<1>5. CASE m.items # {} /\ m.type = "normal" /\ ~m.final
  <2> DEFINE e == [m EXCEPT !.sender = m.receiver, !.receiver = m.sender, !.COD = 0, !.final = TRUE]
  <2>1. m.sender \in Players /\ Expired(m) = e
    BY <1>4, <1>5 DEF MailOK, Expired
  <2>2. e \in Mails /\ e.items = m.items /\ e.type = m.type /\ e.sender = m.receiver
    <3>1. m \in Mails /\ m.sender \in Players
      BY <1>4, <2>1
    <3> HIDE DEF m
    <3> QED BY <3>1 DEF Mails
  <2>3. MailOK(e) /\ e # NoMail
    BY <1>4, <1>5, <2>2, MailShape DEF MailOK, Attached, Mails
  <2> HIDE DEF e
  <2>4. /\ r \in [MailIds -> Mails \cup {NoMail}] /\ r[id] = e
        /\ \A x \in MailIds \ {id} : r[x] = row[x]
    BY <1>2, <2>1, <2>2
  <2> HIDE DEF r, m
  <2>5. OfficeOK(n, online)
    BY <1>2, <1>3, <2>3, <2>4 DEF OfficeOK, Offices
  <2>6. \A i \in Items : Holding(n, i) \subseteq Holding(Office, i)
    BY <1>1, <2>2, <2>4 DEF Holding, Office, m
  <2>7. OfficeOK(Office, online)' /\ Office' = n
    BY <1>1, <2>5, Posted
  <2>8. OnePlace(bag', Office', auctions')
    BY <1>1, <2>6, <2>7, FewerPlaces
  <2> QED BY <1>1, <2>7, <2>8, AuctionsUntouched, PurseUntouched DEF AInv
<1>6. CASE ~(m.items # {} /\ m.type = "normal" /\ ~m.final)
  <2>1. Expired(m) = NoMail
    BY <1>6 DEF Expired
  <2>2. /\ r \in [MailIds -> Mails \cup {NoMail}] /\ r[id] = NoMail
        /\ \A x \in MailIds \ {id} : r[x] = row[x]
    BY <1>2, <2>1
  <2> HIDE DEF r, m
  <2>3. OfficeOK(n, online)
    BY <1>2, <1>3, <2>2 DEF OfficeOK, Offices
  <2>4. \A i \in Items : Holding(n, i) \subseteq Holding(Office, i)
    BY <2>2 DEF Holding, Office
  <2>5. OfficeOK(Office, online)' /\ Office' = n
    BY <1>1, <2>3, Posted
  <2>6. OnePlace(bag', Office', auctions')
    BY <1>1, <2>4, <2>5, FewerPlaces
  <2> QED BY <1>1, <2>5, <2>6, AuctionsUntouched, PurseUntouched DEF AInv
<1> QED BY <1>5, <1>6

LEMMA SaveStep ==
  ASSUME AInv, NEW p \in Players, Save(p), UNCHANGED <<auctions, savedAuctions>>
  PROVE  AInv'
<1> DEFINE n == SaveMail(Office, p)
<1>1. /\ PursesOK /\ OfficeOK(Office, online) /\ AuctionsOK /\ OnePlace(bag, Office, auctions)
      /\ Post(n) /\ UNCHANGED <<online, bag, money>> /\ SaveInventoryAndGold(p)
  BY DEF AInv, Save
<1>2. n = SaveMail(Office, p)
  OBVIOUS
<1> HIDE DEF n
<1>3. AlmostOK(Office, p)
  BY <1>1, OfficeAlmostOK
<1>4. OfficeOK(n, online) /\ \A i \in Items : Holding(n, i) \subseteq Holding(Office, i)
  BY <1>2, <1>3, SaveMailOK
<1>5. OfficeOK(Office, online)' /\ Office' = n
  BY <1>1, <1>4, Posted
<1>6. OnePlace(bag', Office', auctions')
  BY <1>1, <1>4, <1>5, FewerPlaces
<1>7. online' \subseteq Players /\ online \ {p} \subseteq online'
  BY <1>1 DEF PursesOK
<1> QED BY <1>1, <1>5, <1>6, <1>7, AuctionsUntouched, PurseSavedUnchanged DEF AInv

LEMMA LogoutStep ==
  ASSUME AInv, NEW p \in Players, Logout(p), UNCHANGED <<auctions, savedAuctions>>
  PROVE  AInv'
<1> DEFINE n == SaveMail(Office, p)
           out == [n EXCEPT !.box[p] = EmptyBox]
<1>1. /\ PursesOK /\ OfficeOK(Office, online) /\ AuctionsOK /\ OnePlace(bag, Office, auctions)
      /\ Post(out) /\ UNCHANGED <<bag, money>> /\ SaveInventoryAndGold(p) /\ online' = online \ {p}
  BY DEF AInv, Logout
<1>2. n = SaveMail(Office, p)
  OBVIOUS
<1> HIDE DEF n
<1>3. AlmostOK(Office, p)
  BY <1>1, OfficeAlmostOK
<1>4. OfficeOK(n, online) /\ \A i \in Items : Holding(n, i) \subseteq Holding(Office, i)
  BY <1>2, <1>3, SaveMailOK
<1>5. n \in Offices
  BY <1>4 DEF OfficeOK
<1>6. /\ n.row \in [MailIds -> Mails \cup {NoMail}]
      /\ n.box \in [Players -> [MailIds -> Entries \cup {NoMail}]]
      /\ n = [row |-> n.row, box |-> n.box]
  BY <1>5 DEF Offices
<1>7. /\ out.row = n.row /\ out.box = [n.box EXCEPT ![p] = EmptyBox]
      /\ out = [row |-> out.row, box |-> out.box]
  <2> DEFINE emptied == [n.box EXCEPT ![p] = EmptyBox]
  <2>1. out = [n EXCEPT !.box = emptied]
    OBVIOUS
  <2> HIDE DEF emptied, out
  <2>2. out = [row |-> n.row, box |-> emptied]
    BY <1>6, <2>1
  <2> QED BY <2>2 DEF emptied
<1> HIDE DEF out
<1>8. /\ out.box \in [Players -> [MailIds -> Entries \cup {NoMail}]]
      /\ \A q \in Players, x \in MailIds :
           out.box[q][x] = IF q = p THEN NoMail ELSE n.box[q][x]
  BY <1>6, <1>7 DEF EmptyBox
<1>9. OfficeOK(out, online \ {p})
  <2>1. out \in Offices
    BY <1>6, <1>7, <1>8 DEF Offices
  <2>2. \A q \in Players, x \in MailIds : out.box[q][x] # NoMail =>
          q # p /\ n.box[q][x] = out.box[q][x] /\ n.box[q][x] # NoMail
    BY <1>8
  <2> QED BY <1>4, <1>7, <2>1, <2>2 DEF OfficeOK
<1>10. Office' = out
  BY <1>1, <1>7 DEF Office, Post
<1>11. OfficeOK(Office, online)'
  BY <1>1, <1>9, <1>10
<1>12. \A i \in Items : Holding(out, i) \subseteq Holding(Office, i)
  BY <1>4, <1>7 DEF Holding
<1>13. OnePlace(bag', Office', auctions')
  BY <1>1, <1>10, <1>12, FewerPlaces
<1>14. online' \subseteq Players /\ online \ {p} \subseteq online'
  BY <1>1 DEF PursesOK
<1> QED BY <1>1, <1>11, <1>13, <1>14, AuctionsUntouched, PurseSavedUnchanged DEF AInv

LEMMA LoginStep ==
  ASSUME AInv, NEW p \in Players, Login(p), UNCHANGED <<auctions, savedAuctions>>
  PROVE  AInv'
<1>1. /\ PursesOK /\ OfficeOK(Office, online) /\ AuctionsOK /\ OnePlace(bag, Office, auctions)
      /\ p \notin online /\ online' = online \cup {p} /\ m_mail' = [m_mail EXCEPT ![p] = LoadMail(p)]
      /\ bag' = [bag EXCEPT ![p] = saved[p].bag] /\ money' = [money EXCEPT ![p] = saved[p].money]
      /\ UNCHANGED <<row, saved, unsaved>>
  BY DEF AInv, Login
<1>2. saved[p].bag = bag[p] /\ saved[p].money = money[p]
  <2>1. unsaved[p] = 0 /\ money[p] \in 0..MaxMoney /\ saved[p].money = money[p] + unsaved[p]
        /\ saved[p].bag = bag[p]
    BY <1>1 DEF PursesOK
  <2>2. money[p] + 0 = money[p]
    BY <2>1, MailAssumption
  <2> QED BY <2>1, <2>2
<1>3. bag' = bag /\ money' = money
  BY <1>1, <1>2 DEF PursesOK
<1>4. PursesOK'
  BY <1>1, <1>3 DEF PursesOK
<1>5. /\ row \in [MailIds -> Mails \cup {NoMail}]
      /\ m_mail \in [Players -> [MailIds -> Entries \cup {NoMail}]]
      /\ \A x \in MailIds : row[x] # NoMail => MailOK(row[x])
      /\ \A q \in Players, x \in MailIds : m_mail[q][x] # NoMail =>
           q \in online /\ row[x] = m_mail[q][x].mail /\ row[x].receiver = q
  BY <1>1 DEF OfficeOK, Offices, Office
<1>6. ASSUME NEW x \in MailIds
      PROVE  /\ LoadMail(p)[x] \in Entries \cup {NoMail}
             /\ LoadMail(p)[x] # NoMail => row[x] = LoadMail(p)[x].mail /\ row[x].receiver = p
  <2>1. LoadMail(p)[x] = IF row[x] = NoMail THEN NoMail
                         ELSE IF row[x].receiver = p THEN [mail |-> row[x], state |-> "unchanged"]
                         ELSE NoMail
    BY DEF LoadMail
  <2>2. row[x] # NoMail => [mail |-> row[x], state |-> "unchanged"] \in Entries
    BY <1>5 DEF Entries
  <2> QED BY <2>1, <2>2
<1>7. LoadMail(p) \in [MailIds -> Entries \cup {NoMail}]
  BY <1>6 DEF LoadMail
<1>8. /\ m_mail' \in [Players -> [MailIds -> Entries \cup {NoMail}]]
      /\ \A q \in Players, x \in MailIds :
           m_mail'[q][x] = IF q = p THEN LoadMail(p)[x] ELSE m_mail[q][x]
  BY <1>1, <1>5, <1>7
<1>9. Office' = [row |-> row, box |-> m_mail'] /\ Office.row = row
  BY <1>1 DEF Office
<1>10. \A q \in Players, x \in MailIds : m_mail'[q][x] # NoMail =>
         q \in online' /\ row[x] = m_mail'[q][x].mail /\ row[x].receiver = q
  BY <1>1, <1>5, <1>6, <1>8
<1>11. OfficeOK(Office, online)'
  <2>1. OfficeOK([row |-> row, box |-> m_mail'], online')
    BY <1>5, <1>8, <1>10 DEF OfficeOK, Offices
  <2> QED BY <1>9, <2>1
<1>12. \A i \in Items : Holding(Office', i) \subseteq Holding(Office, i)
  BY <1>9 DEF Holding
<1>13. OnePlace(bag', Office', auctions')
  BY <1>1, <1>3, <1>12, FewerPlaces
<1> QED BY <1>1, <1>4, <1>11, <1>13, AuctionsUntouched DEF AInv

\* What the database has is what there was, but for charges that were not saved.
LEMMA CrashStep ==
  ASSUME AInv, CrashAndRestart
  PROVE  AInv'
<1>1. /\ PursesOK /\ OfficeOK(Office, online) /\ AuctionsOK /\ OnePlace(bag, Office, auctions)
      /\ online' = {} /\ m_mail' = [p \in Players |-> EmptyBox] /\ bag' = [p \in Players |-> saved[p].bag]
      /\ money' = [p \in Players |-> saved[p].money] /\ unsaved' = [p \in Players |-> 0]
      /\ UNCHANGED <<row, saved>> /\ auctions' = savedAuctions /\ savedAuctions' = savedAuctions
  BY DEF AInv, CrashAndRestart, Crash
<1>2. bag' = bag /\ auctions' = auctions
  BY <1>1 DEF PursesOK, AuctionsOK
<1>3. PursesOK'
  <2>1. saved \in [Players -> [bag : SUBSET Items, money : 0..MaxMoney]]
    BY <1>1 DEF PursesOK
  <2>2. ASSUME NEW p \in Players
        PROVE  money'[p] = saved'[p].money /\ unsaved'[p] = 0 /\ saved'[p].money = money'[p] + unsaved'[p]
    <3>1. saved[p].money \in 0..MaxMoney
      BY <2>1
    <3>2. saved[p].money + 0 = saved[p].money
      BY <3>1, MailAssumption
    <3> QED BY <1>1, <3>2
  <2>3. money' \in [Players -> 0..MaxMoney] /\ unsaved' \in [Players -> Nat]
    BY <1>1, <2>1
  <2> QED BY <1>1, <1>2, <2>2, <2>3 DEF PursesOK
<1>4. /\ row \in [MailIds -> Mails \cup {NoMail}]
      /\ \A x \in MailIds : row[x] # NoMail => MailOK(row[x])
  BY <1>1 DEF OfficeOK, Offices, Office
<1>5. Office' = [row |-> row, box |-> m_mail'] /\ Office.row = row
  BY <1>1 DEF Office
<1>6. /\ m_mail' \in [Players -> [MailIds -> Entries \cup {NoMail}]]
      /\ \A q \in Players, x \in MailIds : m_mail'[q][x] = NoMail
  BY <1>1 DEF EmptyBox
<1>7. OfficeOK(Office, online)'
  <2>1. OfficeOK([row |-> row, box |-> m_mail'], online')
    BY <1>4, <1>6 DEF OfficeOK, Offices
  <2> QED BY <1>5, <2>1
<1>8. \A i \in Items : Holding(Office', i) \subseteq Holding(Office, i)
  BY <1>5 DEF Holding
<1>9. OnePlace(bag', Office', auctions')
  BY <1>1, <1>2, <1>8, FewerPlaces
<1>10. AuctionsOK'
  BY <1>1, <1>2 DEF AuctionsOK
<1> QED BY <1>3, <1>7, <1>9, <1>10 DEF AInv

-----------------------------------------------------------------------------
(* The auction house.                                                        *)

LEMMA AuctionShape ==
  /\ \A a \in Auctions : a # NoAuction
BY NoAuctionAssumption

\* The house never keeps more than the price.
LEMMA CutFits ==
  ASSUME NEW b \in Nat, NEW c \in 0..100
  PROVE  (b * c) \div 100 \in 0..b
<1>1. b * c \in Nat /\ b * c <= b * 100
  <2>1. 100 - c \in Nat /\ c \in Nat
    OBVIOUS
  <2>2. b * (100 - c) \in Nat /\ b * c \in Nat
    BY <2>1
  <2>3. b * (100 - c) = b * 100 - b * c
    BY <2>1
  <2> QED BY <2>2, <2>3
<1>2. ASSUME NEW x \in Nat, x <= b * 100 PROVE x \div 100 \in 0..b
  BY <1>2
<1> QED BY <1>1, <1>2

\* Money from the house, or nothing when there is none.
LEMMA HousePays ==
  ASSUME NEW po, OfficeOK(po, online), NEW q \in Players, NEW gold \in Nat, NEW k \in Nat,
         HasRoom(po, k + 1), NEW n, n = SendMailTo(po, HouseMail(q, {}, gold))
  PROVE  /\ OfficeOK(n, online) /\ HasRoom(n, k)
         /\ SameItems(po, n)
<1>1. FreeIds(po) # {} /\ HasRoom(po, k)
  BY RoomLeft
<1> DEFINE mail == HouseMail(q, {}, gold)
<1>2. CASE gold = 0
  <2>1. ~Attached(mail)
    BY <1>2 DEF HouseMail, Attached
  <2> HIDE DEF mail
  <2>2. n = po
    BY <2>1, NothingSent DEF mail
  <2> QED BY <1>1, <2>2 DEF SameItems
<1>3. CASE gold # 0
  <2>1. MailOK(mail) /\ mail.items = {} /\ n = SendMailTo(po, mail)
    BY <1>3, HouseMailOK
  <2> HIDE DEF mail
  <2>2. OfficeOK(n, online) /\ SameItems(po, n)
    BY <1>1, <2>1, MoneySent
  <2>3. PICK x \in FreeIds(po) : Sent(po, n, mail, x)
    BY <1>1, <2>1, SendSends
  <2>4. HasRoom(n, k)
    BY <2>3, RoomLeft
  <2> QED BY <2>2, <2>4
<1> QED BY <1>2, <1>3

\* An item from the house.
ItemMailed(po, n, i) ==
  \E id : \A j \in Items : Holding(n, j) = IF j = i THEN Holding(po, j) \cup {id} ELSE Holding(po, j)

LEMMA HouseGives ==
  ASSUME NEW po, OfficeOK(po, online), NEW q \in Players, NEW i \in Items, HasRoom(po, 1),
         NEW n, n = SendMailTo(po, HouseMail(q, {i}, 0))
  PROVE  /\ OfficeOK(n, online)
         /\ ItemMailed(po, n, i)
<1>1. FreeIds(po) # {}
  <2>1. HasRoom(po, 0 + 1) /\ 0 \in Nat
    OBVIOUS
  <2> QED BY <2>1, RoomLeft
<1> DEFINE mail == HouseMail(q, {i}, 0)
<1>2. MailOK(mail) /\ mail.items = {i} /\ n = SendMailTo(po, mail)
  BY HouseMailOK
<1> HIDE DEF mail
<1>3. PICK x \in FreeIds(po) : Sent(po, n, mail, x)
  BY <1>1, <1>2, SendSends
<1>4. \A j \in Items : /\ j \in mail.items => Holding(n, j) = Holding(po, j) \cup {x}
                       /\ j \notin mail.items => Holding(n, j) = Holding(po, j)
  BY <1>2, <1>3, SentHolding
<1>5. \A j \in Items : Holding(n, j) = IF j = i THEN Holding(po, j) \cup {x} ELSE Holding(po, j)
  BY <1>2, <1>4
<1> QED BY <1>3, <1>5 DEF Sent, ItemMailed

\* The bid of another player goes back, and no item moves.
LEMMA RefundOK ==
  ASSUME OfficeOK(Office, online), NEW a \in Auctions, BidOK(a), NEW p, NEW k \in Nat,
         HasRoom(Office, k + 1), NEW n, n = Refund(Office, p, a)
  PROVE  /\ OfficeOK(n, online) /\ HasRoom(n, k)
         /\ SameItems(Office, n)
<1>1. CASE a.bidder \in {NoBidder, p}
  <2>1. n = Office
    BY <1>1 DEF Refund
  <2>2. HasRoom(Office, k)
    BY RoomLeft
  <2> QED BY <2>1, <2>2 DEF SameItems
<1>2. CASE a.bidder \notin {NoBidder, p}
  <2>1. a.bidder \in Players /\ a.bid \in Nat /\ n = SendMailTo(Office, HouseMail(a.bidder, {}, a.bid))
    BY <1>2 DEF Refund, SendOutbidMail, Auctions
  <2> QED BY <2>1, HousePays
<1> QED BY <1>1, <1>2

\* A sold auction pays its owner and gives its item to the buyer; an expired one gives it back.
LEMMA SoldOK ==
  ASSUME NEW po, OfficeOK(po, online), NEW a \in Auctions, a.bidder \in Players, NEW i \in Items,
         HasRoom(po, 2), NEW n, n = SendSold(po, i, a)
  PROVE  /\ OfficeOK(n, online)
         /\ ItemMailed(po, n, i)
<1> DEFINE gold == a.bid + a.deposit - GetAuctionCut(a)
           paid == SendMailTo(po, HouseMail(a.owner, {}, gold))
<1>1. a.owner \in Players /\ a.bid \in Nat /\ a.deposit \in Nat
  BY DEF Auctions
<1>2. GetAuctionCut(a) \in 0..a.bid
  BY <1>1, CutFits, AuctionAssumption DEF GetAuctionCut
<1>3. gold \in Nat
  BY <1>1, <1>2
<1>4. n = SendMailTo(paid, HouseMail(a.bidder, {i}, 0))
  BY DEF SendSold, SendWonMail, SendSuccessfulMail
<1>5. paid = SendMailTo(po, HouseMail(a.owner, {}, gold)) /\ HasRoom(po, 1 + 1)
  OBVIOUS
<1> HIDE DEF paid, gold
<1>6. OfficeOK(paid, online) /\ HasRoom(paid, 1) /\ SameItems(po, paid)
  BY <1>1, <1>3, <1>5, HousePays
<1>8. OfficeOK(n, online)
  BY <1>4, <1>6, HouseGives
<1>9. ItemMailed(paid, n, i)
  BY <1>1, <1>4, <1>6, HouseGives
<1>10. ItemMailed(po, n, i)
  BY <1>6, <1>9 DEF ItemMailed, SameItems
<1> QED BY <1>8, <1>10

\* An item goes from p's bags into an auction.
LEMMA BagToAuction ==
  ASSUME NEW b \in [Players -> SUBSET Items], NEW po, NEW a, OnePlace(b, po, a),
         NEW p \in Players, NEW i \in b[p], NEW c, c = [b EXCEPT ![p] = @ \ {i}], NEW d,
         \A j \in Items : j # i => d[j] = a[j]
  PROVE  OnePlace(c, po, d)
<1>1. \A q \in Players : c[q] = IF q = p THEN b[p] \ {i} ELSE b[q]
  OBVIOUS
<1> SUFFICES ASSUME NEW j \in Items
             PROVE  /\ \A q, r \in Players : j \in c[q] /\ j \in c[r] => q = r
                    /\ \A q \in Players : j \in c[q] => Holding(po, j) = {} /\ d[j] = NoAuction
                    /\ \A x, y \in Holding(po, j) : x = y
                    /\ d[j] # NoAuction => Holding(po, j) = {}
  BY DEF OnePlace
<1>2. /\ \A q, r \in Players : j \in b[q] /\ j \in b[r] => q = r
      /\ \A q \in Players : j \in b[q] => Holding(po, j) = {} /\ a[j] = NoAuction
      /\ \A x, y \in Holding(po, j) : x = y
      /\ a[j] # NoAuction => Holding(po, j) = {}
  BY DEF OnePlace
<1>3. CASE j = i
  BY <1>1, <1>2, <1>3
<1>4. CASE j # i
  BY <1>1, <1>2, <1>4
<1> QED BY <1>3, <1>4

\* An item goes from an auction into a mail.
LEMMA AuctionToMail ==
  ASSUME NEW b, NEW po, NEW n, NEW a, OnePlace(b, po, a), NEW i \in Items, a[i] # NoAuction,
         NEW d, d[i] = NoAuction, \A j \in Items : j # i => d[j] = a[j], ItemMailed(po, n, i)
  PROVE  OnePlace(b, n, d)
<1> SUFFICES ASSUME NEW j \in Items
             PROVE  /\ \A q, r \in Players : j \in b[q] /\ j \in b[r] => q = r
                    /\ \A q \in Players : j \in b[q] => Holding(n, j) = {} /\ d[j] = NoAuction
                    /\ \A x, y \in Holding(n, j) : x = y
                    /\ d[j] # NoAuction => Holding(n, j) = {}
  BY DEF OnePlace
<1>1. PICK id : \A k \in Items : Holding(n, k) = IF k = i THEN Holding(po, k) \cup {id}
                                                 ELSE Holding(po, k)
  BY DEF ItemMailed
<1>2. /\ \A q, r \in Players : j \in b[q] /\ j \in b[r] => q = r
      /\ \A q \in Players : j \in b[q] => Holding(po, j) = {} /\ a[j] = NoAuction
      /\ \A x, y \in Holding(po, j) : x = y
      /\ a[j] # NoAuction => Holding(po, j) = {}
  BY DEF OnePlace
<1>3. CASE j = i
  BY <1>1, <1>2, <1>3
<1>4. CASE j # i
  BY <1>1, <1>2, <1>4
<1> QED BY <1>3, <1>4

\* The book of auctions after one of them is set.
LEMMA AuctionSet ==
  ASSUME AuctionsOK, NEW i \in Items, NEW a \in Auctions \cup {NoAuction}, SetAuction(i, a),
         a # NoAuction => BidOK(a)
  PROVE  /\ AuctionsOK' /\ auctions'[i] = a
         /\ \A j \in Items : j # i => auctions'[j] = auctions[j]
<1>1. /\ auctions \in [Items -> Auctions \cup {NoAuction}] /\ savedAuctions = auctions
      /\ \A j \in Items : auctions[j] # NoAuction => BidOK(auctions[j])
      /\ auctions' = [auctions EXCEPT ![i] = a] /\ savedAuctions' = [savedAuctions EXCEPT ![i] = a]
  BY DEF AuctionsOK, SetAuction
<1>2. /\ auctions' \in [Items -> Auctions \cup {NoAuction}] /\ savedAuctions' = auctions'
      /\ auctions'[i] = a /\ \A j \in Items : j # i => auctions'[j] = auctions[j]
  BY <1>1
<1>3. \A j \in Items : auctions'[j] # NoAuction => BidOK(auctions'[j])
  BY <1>1, <1>2
<1> QED BY <1>2, <1>3 DEF AuctionsOK

\* The deposit is charged after the purse was saved.
LEMMA SellItemStep ==
  ASSUME AInv, NEW p \in Players, NEW i \in Items, NEW startbid \in Nat, NEW buyout \in Nat,
         SellItem(p, i, startbid, buyout)
  PROVE  AInv'
<1> DEFINE a == [owner |-> p, bidder |-> NoBidder, startbid |-> startbid, buyout |-> buyout,
                 bid |-> 0, deposit |-> Deposit]
<1>1. /\ PursesOK /\ OfficeOK(Office, online) /\ AuctionsOK /\ OnePlace(bag, Office, auctions)
      /\ p \in online /\ i \in bag[p] /\ SetAuction(i, a) /\ UNCHANGED <<online, m_mail, row>>
      /\ bag' = [bag EXCEPT ![p] = @ \ {i}] /\ money' = [money EXCEPT ![p] = @ - Deposit]
      /\ saved' = [saved EXCEPT ![p] = [bag |-> bag'[p], money |-> money[p]]]
      /\ unsaved' = [unsaved EXCEPT ![p] = Deposit] /\ money[p] >= Deposit
  BY DEF AInv, SellItem, HasEnoughMoney
<1>2. a \in Auctions /\ BidOK(a)
  BY AuctionAssumption DEF Auctions, BidOK
<1> HIDE DEF a
<1>3. AuctionsOK' /\ \A j \in Items : j # i => auctions'[j] = auctions[j]
  BY <1>1, <1>2, AuctionSet
<1>4. OfficeOK(Office, online)' /\ Office' = Office
  BY <1>1, SamePost
<1>5. OnePlace(bag', Office', auctions')
  <2>1. bag \in [Players -> SUBSET Items]
    BY <1>1 DEF PursesOK
  <2> QED BY <1>1, <1>3, <1>4, <2>1, BagToAuction
<1>6. PursesOK'
  <2>1. /\ money[p] \in 0..MaxMoney /\ bag[p] \ {i} \in SUBSET Items /\ Deposit \in Nat
    BY <1>1, AuctionAssumption DEF PursesOK
  <2>2. money[p] - Deposit \in 0..MaxMoney /\ money[p] = money[p] - Deposit + Deposit
    BY <1>1, <2>1, MailAssumption
  <2>3. /\ bag' \in [Players -> SUBSET Items] /\ bag'[p] = bag[p] \ {i}
        /\ money' \in [Players -> 0..MaxMoney] /\ money'[p] = money[p] - Deposit
        /\ \A q \in Players \ {p} : bag'[q] = bag[q] /\ money'[q] = money[q]
    BY <1>1, <2>1, <2>2 DEF PursesOK
  <2>4. /\ saved' \in [Players -> [bag : SUBSET Items, money : 0..MaxMoney]]
        /\ saved'[p].bag = bag'[p] /\ saved'[p].money = money[p] /\ unsaved'[p] = Deposit
        /\ \A q \in Players \ {p} : saved'[q] = saved[q] /\ unsaved'[q] = unsaved[q]
        /\ unsaved' \in [Players -> Nat]
    BY <1>1, <2>1, <2>3 DEF PursesOK
  <2> QED BY <1>1, <2>2, <2>3, <2>4 DEF PursesOK
<1> QED BY <1>3, <1>4, <1>5, <1>6 DEF AInv

\* What a bidder pays it has.
LEMMA PriceFits ==
  ASSUME PursesOK, NEW p \in Players, NEW a \in Auctions, NEW price \in Nat, price > a.bid,
         money[p] >= price
  PROVE  /\ money[p] - Price(p, a, price) \in 0..MaxMoney
<1>1. a.bid \in Nat /\ money[p] \in 0..MaxMoney
  BY DEF Auctions, PursesOK
<1>2. Price(p, a, price) \in 0..price
  BY <1>1 DEF Price
<1> QED BY <1>1, <1>2, MailAssumption

LEMMA PlaceBidStep ==
  ASSUME AInv, NEW p \in Players, NEW i \in Items, NEW price \in Nat, PlaceBid(p, i, price)
  PROVE  AInv'
<1> DEFINE a == auctions[i]
           b == [a EXCEPT !.bidder = p, !.bid = price]
           n == Refund(Office, p, a)
<1>1. /\ PursesOK /\ OfficeOK(Office, online) /\ AuctionsOK /\ OnePlace(bag, Office, auctions)
      /\ a # NoAuction /\ price > a.bid /\ ~IsBuyout(a, price) /\ Room(1) /\ money[p] >= price
      /\ money' = [money EXCEPT ![p] = @ - Price(p, a, price)] /\ Post(n) /\ SetAuction(i, b)
      /\ online' = online /\ bag' = bag /\ SaveInventoryAndGold(p)
  BY DEF AInv, PlaceBid, MayBid, HasEnoughMoney
<1>2. a \in Auctions /\ BidOK(a)
  BY <1>1 DEF AuctionsOK
<1>3. n = Refund(Office, p, a) /\ b = [a EXCEPT !.bidder = p, !.bid = price]
  OBVIOUS
<1> HIDE DEF n, a, b
<1>4. b \in Auctions /\ BidOK(b) /\ b # NoAuction
  <2>1. b \in Auctions /\ b.bidder = p /\ b.bid = price /\ b.buyout = a.buyout
    BY <1>2, <1>3 DEF Auctions
  <2>2. a.bid \in Nat /\ a.buyout \in Nat
    BY <1>2 DEF Auctions
  <2> QED BY <1>1, <2>1, <2>2, AuctionAssumption, AuctionShape DEF BidOK, IsBuyout
<1>5. HasRoom(Office, 0 + 1)
  BY <1>1, RoomOf
<1>6. OfficeOK(n, online) /\ SameItems(Office, n)
  BY <1>1, <1>2, <1>3, <1>5, RefundOK
<1>7. /\ AuctionsOK' /\ auctions'[i] = b
      /\ \A j \in Items : j # i => auctions'[j] = auctions[j]
  BY <1>1, <1>4, AuctionSet
<1>8. OfficeOK(Office, online)' /\ Office' = n
  BY <1>1, <1>6, Posted
<1>9. OnePlace(bag', Office', auctions')
  <2>1. \A j \in Items : auctions'[j] = NoAuction <=> auctions[j] = NoAuction
    BY <1>1, <1>4, <1>7 DEF a
  <2> QED BY <1>1, <1>6, <1>8, <2>1 DEF OnePlace, SameItems
<1>10. PursesOK'
  <2>1. money[p] - Price(p, a, price) \in 0..MaxMoney
    BY <1>1, <1>2, PriceFits
  <2>2. /\ money' = [money EXCEPT ![p] = money[p] - Price(p, a, price)]
        /\ bag' = [bag EXCEPT ![p] = bag[p]] /\ bag[p] \in SUBSET Items
        /\ online' \subseteq Players /\ online \ {p} \subseteq online'
    BY <1>1 DEF PursesOK
  <2> QED BY <1>1, <2>1, <2>2, PurseSaved
<1> QED BY <1>7, <1>8, <1>9, <1>10 DEF AInv

\* An auction ends: its item is mailed.
LEMMA AuctionEnds ==
  ASSUME OfficeOK(Office, online), AuctionsOK, OnePlace(bag, Office, auctions), NEW i \in Items,
         auctions[i] # NoAuction, SetAuction(i, NoAuction), NEW n, OfficeOK(n, online),
         ItemMailed(Office, n, i), Post(n), UNCHANGED <<online, bag>>
  PROVE  /\ AuctionsOK'
         /\ OfficeOK(Office, online)'
         /\ OnePlace(bag, Office, auctions)'
<1>1. /\ AuctionsOK' /\ auctions'[i] = NoAuction
      /\ \A j \in Items : j # i => auctions'[j] = auctions[j]
  BY AuctionSet
<1>2. OfficeOK(Office, online)' /\ Office' = n
  BY Posted
<1>3. OnePlace(bag, n, auctions')
  BY <1>1, AuctionToMail
<1>4. OnePlace(bag', Office', auctions')
  BY <1>2, <1>3
<1> QED BY <1>1, <1>2, <1>4

LEMMA BuyoutStep ==
  ASSUME AInv, NEW p \in Players, NEW i \in Items, NEW price \in Nat, Buyout(p, i, price)
  PROVE  AInv'
<1> DEFINE a == auctions[i]
           sold == [a EXCEPT !.bidder = p, !.bid = a.buyout]
           refunded == Refund(Office, p, a)
           n == SendSold(refunded, i, sold)
<1>1. /\ PursesOK /\ OfficeOK(Office, online) /\ AuctionsOK /\ OnePlace(bag, Office, auctions)
      /\ a # NoAuction /\ IsBuyout(a, price) /\ Room(3) /\ money[p] >= price
      /\ money' = [money EXCEPT ![p] = @ - Price(p, a, a.buyout)] /\ Post(n)
      /\ SetAuction(i, NoAuction)
      /\ online' = online /\ bag' = bag /\ SaveInventoryAndGold(p)
  BY DEF AInv, Buyout, MayBid, HasEnoughMoney
<1>2. a \in Auctions /\ BidOK(a)
  BY <1>1 DEF AuctionsOK
<1>3. /\ refunded = Refund(Office, p, a) /\ sold = [a EXCEPT !.bidder = p, !.bid = a.buyout]
      /\ n = SendSold(refunded, i, sold) /\ a = auctions[i]
  OBVIOUS
<1> HIDE DEF n, a, refunded, sold
<1>4. /\ a.buyout \in Nat /\ a.buyout > a.bid /\ a.buyout <= price /\ a.bid \in Nat
  BY <1>1, <1>2 DEF Auctions, BidOK, IsBuyout
<1>5. sold \in Auctions /\ sold.bidder \in Players
  BY <1>2, <1>3, <1>4 DEF Auctions
<1>6. HasRoom(Office, 2 + 1)
  BY <1>1, RoomOf
<1>7. OfficeOK(refunded, online) /\ SameItems(Office, refunded) /\ HasRoom(refunded, 2)
  BY <1>1, <1>2, <1>3, <1>6, RefundOK
<1>8. OfficeOK(n, online) /\ ItemMailed(refunded, n, i)
  BY <1>3, <1>5, <1>7, SoldOK
<1>9. ItemMailed(Office, n, i)
  BY <1>7, <1>8 DEF ItemMailed, SameItems
<1>10. /\ AuctionsOK' /\ OfficeOK(Office, online)' /\ OnePlace(bag, Office, auctions)'
  BY <1>1, <1>3, <1>8, <1>9, AuctionEnds
<1>11. PursesOK'
  <2>1. money[p] >= a.buyout
    <3>1. money[p] \in 0..MaxMoney
      BY <1>1 DEF PursesOK
    <3> QED BY <1>1, <1>4, <3>1, MailAssumption
  <2>2. money[p] - Price(p, a, a.buyout) \in 0..MaxMoney
    BY <1>1, <1>2, <1>4, <2>1, PriceFits
  <2>3. /\ money' = [money EXCEPT ![p] = money[p] - Price(p, a, a.buyout)]
        /\ bag' = [bag EXCEPT ![p] = bag[p]] /\ bag[p] \in SUBSET Items
        /\ online' \subseteq Players /\ online \ {p} \subseteq online'
    BY <1>1 DEF PursesOK
  <2> QED BY <1>1, <2>2, <2>3, PurseSaved
<1> QED BY <1>10, <1>11 DEF AInv

LEMMA RemoveItemStep ==
  ASSUME AInv, NEW p \in Players, NEW i \in Items, RemoveItem(p, i)
  PROVE  AInv'
<1> DEFINE a == auctions[i]
           cut == IF a.bidder = NoBidder THEN 0 ELSE GetAuctionCut(a)
           refunded == IF a.bidder = NoBidder THEN Office ELSE SendOutbidMail(Office, a)
           n == SendExpiredMail(refunded, i, a)
<1>1. /\ PursesOK /\ OfficeOK(Office, online) /\ AuctionsOK /\ OnePlace(bag, Office, auctions)
      /\ a # NoAuction /\ Room(2) /\ money[p] >= cut
      /\ money' = [money EXCEPT ![p] = @ - cut] /\ Post(n)
      /\ SetAuction(i, NoAuction)
      /\ online' = online /\ bag' = bag /\ SaveInventoryAndGold(p)
  BY DEF AInv, RemoveItem, HasEnoughMoney
<1>2. a \in Auctions /\ BidOK(a)
  BY <1>1 DEF AuctionsOK
<1>3. /\ refunded = Refund(Office, NoBidder, a)
      /\ n = SendMailTo(refunded, HouseMail(a.owner, {i}, 0)) /\ a = auctions[i]
  BY DEF Refund, SendExpiredMail
<1>4. cut \in 0..a.bid /\ a.bid \in Nat
  <2>1. a.bid \in Nat
    BY <1>2 DEF Auctions
  <2>2. GetAuctionCut(a) \in 0..a.bid
    BY <2>1, CutFits, AuctionAssumption DEF GetAuctionCut
  <2> QED BY <2>1, <2>2
<1> HIDE DEF n, a, refunded, cut
<1>5. HasRoom(Office, 1 + 1)
  BY <1>1, RoomOf
<1>6. OfficeOK(refunded, online) /\ SameItems(Office, refunded) /\ HasRoom(refunded, 1)
  BY <1>1, <1>2, <1>3, <1>5, RefundOK
<1>7. OfficeOK(n, online) /\ ItemMailed(refunded, n, i)
  <2>1. a.owner \in Players
    BY <1>2 DEF Auctions
  <2> QED BY <1>3, <1>6, <2>1, HouseGives
<1>8. ItemMailed(Office, n, i)
  BY <1>6, <1>7 DEF ItemMailed, SameItems
<1>9. /\ AuctionsOK' /\ OfficeOK(Office, online)' /\ OnePlace(bag, Office, auctions)'
  BY <1>1, <1>3, <1>7, <1>8, AuctionEnds
<1>10. PursesOK'
  <2>1. money[p] \in 0..MaxMoney
    BY <1>1 DEF PursesOK
  <2>2. money[p] - cut \in 0..MaxMoney
    BY <1>1, <1>4, <2>1, MailAssumption
  <2>3. /\ money' = [money EXCEPT ![p] = money[p] - cut]
        /\ bag' = [bag EXCEPT ![p] = bag[p]] /\ bag[p] \in SUBSET Items
        /\ online' \subseteq Players /\ online \ {p} \subseteq online'
    BY <1>1 DEF PursesOK
  <2> QED BY <1>1, <2>2, <2>3, PurseSaved
<1> QED BY <1>9, <1>10 DEF AInv

LEMMA EndAuctionStep ==
  ASSUME AInv, NEW i \in Items, EndAuction(i)
  PROVE  AInv'
<1> DEFINE a == auctions[i]
           n == IF a.bidder = NoBidder THEN SendExpiredMail(Office, i, a) ELSE SendSold(Office, i, a)
<1>1. /\ PursesOK /\ OfficeOK(Office, online) /\ AuctionsOK /\ OnePlace(bag, Office, auctions)
      /\ a # NoAuction /\ Room(2) /\ Post(n) /\ SetAuction(i, NoAuction)
      /\ UNCHANGED <<online, bag, money, saved, unsaved>>
  BY DEF AInv, EndAuction
<1>2. a \in Auctions /\ a.owner \in Players
  BY <1>1 DEF AuctionsOK, Auctions
<1>3. HasRoom(Office, 2)
  BY <1>1, RoomOf
<1>4. OfficeOK(n, online) /\ ItemMailed(Office, n, i)
  <2>1. CASE a.bidder = NoBidder
    <3>1. n = SendMailTo(Office, HouseMail(a.owner, {i}, 0))
      BY <2>1 DEF SendExpiredMail
    <3>2. HasRoom(Office, 1)
      <4>1. HasRoom(Office, 1 + 1)
        BY <1>3
      <4> QED BY <4>1, RoomLeft
    <3> HIDE DEF n, a
    <3> QED BY <1>1, <1>2, <3>1, <3>2, HouseGives
  <2>2. CASE a.bidder # NoBidder
    <3>1. n = SendSold(Office, i, a) /\ a.bidder \in Players
      BY <1>2, <2>2 DEF Auctions
    <3> HIDE DEF n, a
    <3> QED BY <1>1, <1>2, <1>3, <3>1, SoldOK
  <2> QED BY <2>1, <2>2
<1>5. a = auctions[i]
  OBVIOUS
<1> HIDE DEF n, a
<1>6. /\ AuctionsOK' /\ OfficeOK(Office, online)' /\ OnePlace(bag, Office, auctions)'
  BY <1>1, <1>4, <1>5, AuctionEnds
<1> QED BY <1>1, <1>6, PurseUntouched DEF AInv

-----------------------------------------------------------------------------
(* The invariant is inductive.                                               *)

LEMMA MailStepOK ==
  ASSUME AInv, ~MayExpireLoaded, MailNext, UNCHANGED <<auctions, savedAuctions>>
  PROVE  AInv'
<1>1. ASSUME NEW p \in Players, NEW q \in Players, NEW gold \in Amounts \cup {0},
             NEW cod \in Amounts \cup {0}, NEW S \in {{}} \cup {{i} : i \in Items},
             SendMail(p, q, S, gold, cod)
      PROVE  AInv'
  <2>1. gold \in Nat /\ cod \in Nat /\ S \in SUBSET Items
    BY MailAssumption
  <2> QED BY <1>1, <2>1, SendMailStep
<1>2. ASSUME NEW p \in Players, NEW id \in MailIds, MarkAsRead(p, id) PROVE AInv'
  <2>1. /\ m_mail[p][id] # NoMail /\ m_mail' = [m_mail EXCEPT ![p][id].state = "changed"]
        /\ UNCHANGED <<online, bag, money, row, saved, unsaved>>
    BY <1>2 DEF MarkAsRead
  <2> QED BY <2>1, EntryStep
<1>3. ASSUME NEW p \in Players, NEW id \in MailIds, Delete(p, id) PROVE AInv'
  <2>1. /\ m_mail[p][id] # NoMail /\ m_mail' = [m_mail EXCEPT ![p][id].state = "deleted"]
        /\ UNCHANGED <<online, bag, money, row, saved, unsaved>>
    BY <1>3 DEF Delete
  <2> QED BY <2>1, EntryStep
<1>4. ASSUME NEW p \in Players, NEW id \in MailIds, ReturnToSender(p, id) PROVE AInv'
  BY <1>4, ReturnToSenderStep
<1>5. ASSUME NEW p \in Players, NEW id \in MailIds, TakeMoney(p, id) PROVE AInv'
  BY <1>5, TakeMoneyStep
<1>6. ASSUME NEW p \in Players, NEW id \in MailIds, NEW i \in Items, TakeItem(p, id, i) PROVE AInv'
  BY <1>6, TakeItemStep
<1>7. ASSUME NEW p \in Players, Save(p) \/ Logout(p) \/ Login(p) PROVE AInv'
  BY <1>7, SaveStep, LogoutStep, LoginStep
<1>8. ASSUME NEW id \in MailIds, ReturnOrDeleteOldMail(id) PROVE AInv'
  BY <1>8, ReturnOrDeleteStep
<1> QED BY <1>1, <1>2, <1>3, <1>4, <1>5, <1>6, <1>7, <1>8 DEF MailNext

LEMMA StepOK ==
  ASSUME AInv, ~MayExpireLoaded, [Next]_vars
  PROVE  AInv'
<1>1. CASE MailNext /\ UNCHANGED <<auctions, savedAuctions>>
  BY <1>1, MailStepOK
<1>2. ASSUME NEW p \in Players, NEW i \in Items, NEW startbid \in Bids, NEW buyout \in Bids \cup {0},
             SellItem(p, i, startbid, buyout)
      PROVE  AInv'
  <2>1. startbid \in Nat /\ buyout \in Nat
    BY AuctionAssumption
  <2> QED BY <1>2, <2>1, SellItemStep
<1>3. ASSUME NEW p \in Players, NEW i \in Items, NEW price \in Bids,
             PlaceBid(p, i, price) \/ Buyout(p, i, price)
      PROVE  AInv'
  <2>1. price \in Nat
    BY AuctionAssumption
  <2> QED BY <1>3, <2>1, PlaceBidStep, BuyoutStep
<1>4. ASSUME NEW p \in Players, NEW i \in Items, RemoveItem(p, i) PROVE AInv'
  BY <1>4, RemoveItemStep
<1>5. ASSUME NEW i \in Items, EndAuction(i) PROVE AInv'
  BY <1>5, EndAuctionStep
<1>6. CASE CrashAndRestart
  BY <1>6, CrashStep
<1>7. CASE UNCHANGED vars
  <2>1. UNCHANGED <<online, bag, money, m_mail, row, saved, unsaved, auctions, savedAuctions>>
    BY <1>7 DEF vars, mailVars
  <2>2. OfficeOK(Office, online)' /\ Office' = Office
    BY <2>1, SamePost DEF AInv
  <2>3. OnePlace(bag', Office', auctions')
    BY <2>1, <2>2 DEF AInv
  <2> QED BY <2>1, <2>2, <2>3, AuctionsUntouched, PurseUntouched DEF AInv
<1> QED BY <1>1, <1>2, <1>3, <1>4, <1>5, <1>6, <1>7 DEF Next

\* The hypothesis of what follows: ReturnOrDeleteOldMails spares the mails of players
\* in the world, as its comment has it (run mail_expiry shows what happens otherwise).
LEMMA InvariantHolds == ASSUME ~MayExpireLoaded PROVE Spec => []AInv
<1>1. AInv /\ [Next]_vars => AInv'
  BY StepOK
<1> QED BY <1>1, InitOK, PTL DEF Spec

\* Every variable has its type; purses stay between nothing and the most there can be.
THEOREM TypeCorrect == ASSUME ~MayExpireLoaded PROVE Spec => []TypeOK
<1>1. AInv => TypeOK
  BY DEF AInv, PursesOK, OfficeOK, Offices, Office, AuctionsOK, TypeOK
<1> QED BY <1>1, InvariantHolds, PTL

\* An item is in one player's bags, in one mail or in one auction, whatever is bought,
\* returned, expires or crashes: the handlers of MailHandler.cpp and
\* AuctionHouseHandler.cpp never copy it.
THEOREM ItemsStayInOnePlace == ASSUME ~MayExpireLoaded PROVE Spec => []ItemsHaveOnePlace
<1>1. ASSUME AInv, NEW i \in Items
      PROVE  Cardinality(CarriedBy(i)) + Cardinality(InMail(i))
               + (IF auctions[i] = NoAuction THEN 0 ELSE 1) <= 1
  <2>1. /\ \A p, q \in CarriedBy(i) : p = q
        /\ \A x, y \in InMail(i) : x = y
        /\ CarriedBy(i) # {} => InMail(i) = {} /\ auctions[i] = NoAuction
        /\ auctions[i] # NoAuction => InMail(i) = {}
    BY <1>1 DEF AInv, OnePlace, CarriedBy, InMail, Holding, Office
  <2> DEFINE C == CarriedBy(i)
             M == InMail(i)
  <2> HIDE DEF C, M
  <2>2. ASSUME NEW T, \A x, y \in T : x = y
        PROVE  Cardinality(T) \in {0, 1} /\ (T = {} => Cardinality(T) = 0)
    <3>1. CASE T = {}
      BY <3>1, FS_EmptySet
    <3>2. ASSUME NEW x \in T PROVE Cardinality(T) = 1 /\ T # {}
      <4>1. T = {x}
        BY <2>2, <3>2
      <4> QED BY <4>1, FS_Singleton
    <3> QED BY <3>1, <3>2
  <2>3. Cardinality(C) \in {0, 1} /\ (C = {} => Cardinality(C) = 0)
    BY <2>1, <2>2 DEF C
  <2>4. Cardinality(M) \in {0, 1} /\ (M = {} => Cardinality(M) = 0)
    BY <2>1, <2>2 DEF M
  <2>5. C # {} => M = {} /\ auctions[i] = NoAuction
    BY <2>1 DEF C, M
  <2>6. auctions[i] # NoAuction => M = {}
    BY <2>1 DEF M
  <2>7. Cardinality(C) + Cardinality(M) + (IF auctions[i] = NoAuction THEN 0 ELSE 1) <= 1
    BY <2>3, <2>4, <2>5, <2>6
  <2> QED BY <2>7 DEF C, M
<1>2. AInv => ItemsHaveOnePlace
  BY <1>1 DEF ItemsHaveOnePlace
<1> QED BY <1>2, InvariantHolds, PTL

\* Whenever the server crashes, items, money, mail and auctions are in the database as
\* they were, but for deposits charged since the purse was last saved.
THEOREM DatabaseStaysCurrent == ASSUME ~MayExpireLoaded PROVE Spec => []DatabaseIsCurrent
<1>1. AInv => DatabaseIsCurrent
  BY DEF AInv, PursesOK, OfficeOK, Office, AuctionsOK, DatabaseIsCurrent
<1> QED BY <1>1, InvariantHolds, PTL

-----------------------------------------------------------------------------
(* What mail and auctions promise, module Market.                            *)
(* The invariant it takes, besides AInv: a mail goes to another player; it   *)
(* asks for payment for one item only, and never once it was returned; what  *)
(* a player deleted asks for none; nobody bids for what is its own.          *)

FairMail(m) ==
  /\ m.type = "normal" => m.sender # m.receiver
  /\ m.COD > 0 => ~m.final /\ m.items # {} /\ \A i, j \in m.items : i = j
FairRows(R) == \A id \in MailIds : R[id] # NoMail => FairMail(R[id])
FairEntries(box) ==
  \A p \in Players, id \in MailIds :
    box[p][id] # NoMail /\ box[p][id].state = "deleted" => box[p][id].mail.COD = 0
FairOffice(po) == FairRows(po.row) /\ FairEntries(po.box)
FairAuctions == \A i \in Items : auctions[i] # NoAuction => auctions[i].bidder # auctions[i].owner
Fair == FairOffice(Office) /\ FairAuctions

-----------------------------------------------------------------------------
(* Sums.  Coins counts coins one by one; Total(F) does so for a function F   *)
(* that is zero where there are none.                                        *)

Heap(D, F) == UNION {{x} \X (1..F[x]) : x \in D}
Total(D, F) == Cardinality(Heap(D, F))

LEMMA HeapIs ==
  ASSUME NEW D, NEW F \in [D -> Nat]
  PROVE  \A c : c \in Heap(D, F) <=> \E x \in D : \E k \in 1..F[x] : c = <<x, k>>
BY DEF Heap

LEMMA PileIs ==
  ASSUME NEW x, NEW n \in Nat
  PROVE  IsFiniteSet({x} \X (1..n)) /\ Cardinality({x} \X (1..n)) = n
<1>1. IsFiniteSet({x}) /\ Cardinality({x}) = 1
  BY FS_Singleton
<1>2. IsFiniteSet(1..n) /\ Cardinality(1..n) = n
  <2>1. IsFiniteSet(1..n) /\ Cardinality(1..n) = IF 1 > n THEN 0 ELSE n - 1 + 1
    BY FS_Interval
  <2>2. (IF 1 > n THEN 0 ELSE n - 1 + 1) = n
    OBVIOUS
  <2> QED BY <2>1, <2>2
<1>3. /\ IsFiniteSet({x} \X (1..n))
      /\ Cardinality({x} \X (1..n)) = Cardinality({x}) * Cardinality(1..n)
  BY <1>1, <1>2, FS_Product
<1>4. 1 * n = n
  OBVIOUS
<1> QED BY <1>1, <1>2, <1>3, <1>4

LEMMA HeapFinite ==
  ASSUME NEW D, IsFiniteSet(D), NEW F \in [D -> Nat]
  PROVE  IsFiniteSet(Heap(D, F)) /\ Total(D, F) \in Nat
<1> DEFINE pile == [x \in D |-> {x} \X (1..F[x])]
           Piles == {{x} \X (1..F[x]) : x \in D}
<1>1. \A T \in Piles : IsFiniteSet(T)
  <2>1. ASSUME NEW x \in D PROVE IsFiniteSet({x} \X (1..F[x]))
    <3>1. F[x] \in Nat
      OBVIOUS
    <3> QED BY <3>1, PileIs, Zenon
  <2> QED BY <2>1, Zenon
<1>2. pile \in Surjection(D, Piles)
  BY DEF Surjection
<1> HIDE DEF pile
<1>3. IsFiniteSet(Piles)
  BY <1>2, FS_Surjection
<1>4. IsFiniteSet(UNION Piles)
  BY <1>1, <1>3, FS_UNION
<1>5. IsFiniteSet(Heap(D, F))
  BY <1>4 DEF Heap
<1> QED BY <1>5, FS_CardinalityType DEF Total

\* Less everywhere is less in all.
LEMMA TotalLess ==
  ASSUME NEW D, IsFiniteSet(D), NEW F \in [D -> Nat], NEW G \in [D -> Nat],
         \A x \in D : G[x] <= F[x]
  PROVE  Total(D, G) <= Total(D, F)
<1>1. \A x \in D : \A k \in 1..G[x] : k \in 1..F[x]
  OBVIOUS
<1>2. Heap(D, G) \subseteq Heap(D, F)
  BY <1>1, HeapIs
<1> QED BY <1>2, HeapFinite, FS_Subset DEF Total

\* A change at one place changes the sum by as much.
LEMMA TotalAt ==
  ASSUME NEW D, IsFiniteSet(D), NEW F \in [D -> Nat], NEW d \in D
  PROVE  Total(D, F) = Total(D, [F EXCEPT ![d] = 0]) + F[d]
<1> DEFINE G == [F EXCEPT ![d] = 0]
           S == Heap(D, G)
           T == {d} \X (1..F[d])
<1>1. G \in [D -> Nat] /\ G[d] = 0 /\ \A x \in D \ {d} : G[x] = F[x]
  OBVIOUS
<1>2. F[d] \in Nat
  OBVIOUS
<1> HIDE DEF G
<1>3. IsFiniteSet(S) /\ Cardinality(S) \in Nat /\ IsFiniteSet(T) /\ Cardinality(T) = F[d]
  BY <1>1, <1>2, HeapFinite, PileIs DEF Total
<1>4. \A c : c \in S <=> \E x \in D : \E k \in 1..G[x] : c = <<x, k>>
  BY <1>1, HeapIs
<1>5. \A c : c \in Heap(D, F) <=> \E x \in D : \E k \in 1..F[x] : c = <<x, k>>
  BY HeapIs
<1>6. \A c : c \in T <=> \E k \in 1..F[d] : c = <<d, k>>
  OBVIOUS
<1>7. \A c : c \in S <=> \E x \in D \ {d} : \E k \in 1..F[x] : c = <<x, k>>
  BY <1>1, <1>4
<1> HIDE DEF S, T
<1>8. Heap(D, F) = S \cup T
  BY <1>5, <1>6, <1>7
<1>9. S \cap T = {}
  BY <1>6, <1>7
<1>10. Cardinality(S \cup T) = Cardinality(S) + Cardinality(T) - Cardinality(S \cap T)
  BY <1>3, FS_Union
<1>11. Cardinality(S \cap T) = 0
  BY <1>9, FS_EmptySet
<1>12. Cardinality(S \cup T) = Cardinality(S) + F[d]
  BY <1>2, <1>3, <1>10, <1>11
<1> QED BY <1>8, <1>12 DEF Total, S, G

LEMMA TotalChange ==
  ASSUME NEW D, IsFiniteSet(D), NEW F \in [D -> Nat], NEW G \in [D -> Nat], NEW d \in D,
         \A x \in D \ {d} : G[x] = F[x]
  PROVE  Total(D, G) = Total(D, F) - F[d] + G[d]
<1>1. [G EXCEPT ![d] = 0] = [F EXCEPT ![d] = 0]
  OBVIOUS
<1> DEFINE H == [F EXCEPT ![d] = 0]
           t == Total(D, H)
<1>2. H \in [D -> Nat] /\ F[d] \in Nat /\ G[d] \in Nat
  OBVIOUS
<1>3. Total(D, F) = t + F[d]
  BY TotalAt
<1>4. Total(D, G) = Total(D, [G EXCEPT ![d] = 0]) + G[d]
  BY TotalAt
<1>5. Total(D, G) = t + G[d]
  BY <1>1, <1>4
<1> HIDE DEF H
<1>6. t \in Nat
  BY <1>2, HeapFinite
<1> HIDE DEF t
<1> QED BY <1>2, <1>3, <1>5, <1>6

LEMMA TotalNothing ==
  ASSUME NEW D
  PROVE  Total(D, [x \in D |-> 0]) = 0
<1>1. [x \in D |-> 0] \in [D -> Nat]
  OBVIOUS
<1>2. Heap(D, [x \in D |-> 0]) = {}
  BY DEF Heap
<1> QED BY <1>2, FS_EmptySet DEF Total

-----------------------------------------------------------------------------
(* Market's variables, from bags b, rows R and auctions A.                   *)

\* whose an item is that is in the mail m, or was
Whose(m) == IF m.COD > 0 THEN m.sender ELSE m.receiver
MailHas(R, i, p) == \E id \in MailIds : R[id] # NoMail /\ i \in R[id].items /\ p = Whose(R[id])
Has(b, R, A, i, p) ==
  \/ A[i] # NoAuction /\ p = A[i].owner
  \/ MailHas(R, i, p)
  \/ p \in Players /\ i \in b[p]
  \/ /\ p = NoBidder /\ A[i] = NoAuction
     /\ \A q : ~MailHas(R, i, q)
     /\ \A q \in Players : i \notin b[q]

Holds(R, i) == {id \in MailIds : R[id] # NoMail /\ i \in R[id].items}
Carries(b, i) == {p \in Players : i \in b[p]}
OwnerOf(b, R, A, i) ==
  IF A[i] # NoAuction THEN A[i].owner
  ELSE IF Holds(R, i) # {} THEN Whose(R[CHOOSE id \in Holds(R, i) : TRUE])
  ELSE IF Carries(b, i) # {} THEN CHOOSE p \in Carries(b, i) : TRUE
  ELSE NoBidder

\* Who has an item is one.
LEMMA OwnerHas ==
  ASSUME NEW b, NEW po, NEW A, OnePlace(b, po, A), NEW i \in Items, NEW p
  PROVE  Has(b, po.row, A, i, p) <=> p = OwnerOf(b, po.row, A, i)
<1> DEFINE R == po.row
           H == Holds(R, i)
           C == Carries(b, i)
           x == CHOOSE id \in H : TRUE
           c == CHOOSE q \in C : TRUE
<1>1. /\ \A q, r \in C : q = r
      /\ \A q \in C : H = {} /\ A[i] = NoAuction
      /\ \A y, z \in H : y = z
      /\ A[i] # NoAuction => H = {}
  BY DEF OnePlace, Holding, Holds, Carries
<1>2. \A q : MailHas(R, i, q) <=> \E id \in H : q = Whose(R[id])
  BY DEF MailHas, Holds
<1>3. \A q : q \in C <=> q \in Players /\ i \in b[q]
  BY DEF Carries
<1>4. H # {} => x \in H
  OBVIOUS
<1>5. C # {} => c \in C
  OBVIOUS
<1>6. OwnerOf(b, R, A, i) = IF A[i] # NoAuction THEN A[i].owner
                            ELSE IF H # {} THEN Whose(R[x]) ELSE IF C # {} THEN c ELSE NoBidder
  BY DEF OwnerOf
<1>7. Has(b, R, A, i, p) <=> \/ A[i] # NoAuction /\ p = A[i].owner
                             \/ \E id \in H : p = Whose(R[id])
                             \/ p \in C
                             \/ p = NoBidder /\ A[i] = NoAuction /\ H = {} /\ C = {}
  BY <1>2, <1>3 DEF Has
<1> HIDE DEF H, C, x, c
<1>8. CASE A[i] # NoAuction
  BY <1>1, <1>6, <1>7, <1>8
<1>9. CASE A[i] = NoAuction /\ H # {}
  BY <1>1, <1>4, <1>6, <1>7, <1>9
<1>10. CASE A[i] = NoAuction /\ H = {}
  BY <1>1, <1>5, <1>6, <1>7, <1>10
<1> QED BY <1>8, <1>9, <1>10 DEF R

\* Money in mails, deposits and bids.
InMailTo(m, p) == IF m # NoMail /\ m.receiver = p THEN m.money ELSE 0
InDeposit(a, p) == IF a # NoAuction /\ a.owner = p THEN a.deposit ELSE 0
InBid(a, p) == IF a # NoAuction /\ a.bidder = p THEN a.bid ELSE 0
InMails(R, p) == [id \in MailIds |-> InMailTo(R[id], p)]
InDeposits(A, p) == [i \in Items |-> InDeposit(A[i], p)]
InBids(A, p) == [i \in Items |-> InBid(A[i], p)]
MailedTo(R, p) == Total(MailIds, InMails(R, p))
DepositsOf(A, p) == Total(Items, InDeposits(A, p))
StakeOf(A, p) == Total(Items, InBids(A, p))

LEMMA CoinsAre ==
  ASSUME NEW D, NEW S \in SUBSET D, NEW F, NEW G, G \in [D -> Nat],
         \A x \in D : G[x] = IF x \in S THEN F[x] ELSE 0
  PROVE  Heap(S, F) = Heap(D, G)
<1> DEFINE U == Heap(S, F)
<1>1. \A c : c \in Heap(D, G) <=> \E x \in D : \E k \in 1..G[x] : c = <<x, k>>
  BY HeapIs
<1>2. \A c : c \in U <=> \E x \in S : \E k \in 1..F[x] : c = <<x, k>>
  BY DEF Heap
<1> HIDE DEF U
<1>3. ASSUME NEW c \in U PROVE c \in Heap(D, G)
  <2>1. PICK x \in S : \E k \in 1..F[x] : c = <<x, k>>
    BY <1>2
  <2>2. G[x] = F[x] /\ x \in D
    OBVIOUS
  <2> QED BY <1>1, <2>1, <2>2
<1>4. ASSUME NEW c \in Heap(D, G) PROVE c \in U
  <2>1. PICK x \in D : \E k \in 1..G[x] : c = <<x, k>>
    BY <1>1
  <2>2. x \in S
    <3>1. x \notin S => 1..G[x] = {}
      OBVIOUS
    <3> QED BY <2>1, <3>1
  <2> QED BY <1>2, <2>1, <2>2
<1>5. U = Heap(D, G)
  BY <1>3, <1>4
<1> QED BY <1>5 DEF U

Rows(R) == R \in [MailIds -> Mails \cup {NoMail}]
Book(A) == A \in [Items -> Auctions \cup {NoAuction}]

LEMMA MailCounts ==
  ASSUME NEW R, Rows(R), NEW p
  PROVE  /\ InMails(R, p) \in [MailIds -> Nat]
         /\ \A id \in MailIds : InMails(R, p)[id] = InMailTo(R[id], p) /\ InMailTo(R[id], p) \in Nat
BY DEF Rows, InMails, InMailTo, Mails

LEMMA BookCounts ==
  ASSUME NEW A, Book(A), NEW p
  PROVE  /\ InDeposits(A, p) \in [Items -> Nat] /\ InBids(A, p) \in [Items -> Nat]
         /\ \A i \in Items : /\ InDeposits(A, p)[i] = InDeposit(A[i], p)
                             /\ InBids(A, p)[i] = InBid(A[i], p)
BY DEF Book, InDeposits, InBids, InDeposit, InBid, Auctions

LEMMA MailedTyped ==
  ASSUME NEW R, Rows(R), NEW p
  PROVE  MailedTo(R, p) \in Nat
<1>1. IsFiniteSet(MailIds) /\ InMails(R, p) \in [MailIds -> Nat]
  BY MailAssumption, MailCounts
<1> QED BY <1>1, HeapFinite DEF MailedTo

LEMMA BooksTyped ==
  ASSUME NEW A, Book(A), NEW p
  PROVE  DepositsOf(A, p) \in Nat /\ StakeOf(A, p) \in Nat
<1>1. IsFiniteSet(Items) /\ InDeposits(A, p) \in [Items -> Nat] /\ InBids(A, p) \in [Items -> Nat]
  BY MailAssumption, BookCounts
<1> QED BY <1>1, HeapFinite DEF DepositsOf, StakeOf

\* What Market sees: owner, funds and stake.
Funds(p) == money[p] + Mailed(p) + Deposits(p)

LEMMA OwnerIs ==
  ASSUME NEW i \in Items
  PROVE  /\ Owner(i) = OwnerOf(bag, row, auctions, i)
         /\ Owner(i)' = OwnerOf(bag', row', auctions', i)
BY Zenon DEF Owner, OwnerOf, InMail, CarriedBy, Holds, Carries, Whose

LEMMA MailedIs ==
  ASSUME Rows(row), NEW p
  PROVE  Mailed(p) = MailedTo(row, p)
<1> DEFINE S == {id \in MailIds : row[id] # NoMail /\ row[id].receiver = p}
           F == [id \in MailIds |-> row[id].money]
           G == InMails(row, p)
<1>1. Mailed(p) = Cardinality(UNION {{id} \X (1..row[id].money) : id \in S})
  BY DEF Mailed, Coins
<1>2. UNION {{id} \X (1..row[id].money) : id \in S} = UNION {{id} \X (1..F[id]) : id \in S}
  OBVIOUS
<1>3. G \in [MailIds -> Nat]
  BY MailCounts
<1>4. \A id \in MailIds : G[id] = IF id \in S THEN F[id] ELSE 0
  BY MailCounts DEF InMailTo
<1>5. S \in SUBSET MailIds
  OBVIOUS
<1>6. Mailed(p) = Cardinality(Heap(S, F))
  BY <1>1, <1>2 DEF Heap
<1> HIDE DEF S, F, G
<1>7. Heap(S, F) = Heap(MailIds, G)
  BY <1>3, <1>4, <1>5, CoinsAre
<1>8. Mailed(p) = Cardinality(Heap(MailIds, G))
  BY <1>6, <1>7
<1> QED BY <1>8 DEF MailedTo, Total, G

LEMMA DepositsIs ==
  ASSUME Book(auctions), NEW p
  PROVE  Deposits(p) = DepositsOf(auctions, p)
<1> DEFINE S == {i \in Up : auctions[i].owner = p}
           F == [i \in Items |-> auctions[i].deposit]
           G == InDeposits(auctions, p)
<1>1. Deposits(p) = Cardinality(UNION {{i} \X (1..auctions[i].deposit) : i \in S})
  BY DEF Deposits, Coins
<1>2. S \in SUBSET Items /\ \A i \in Items : i \in S <=> auctions[i] # NoAuction /\ auctions[i].owner = p
  BY DEF Up
<1>3. G \in [Items -> Nat]
  BY BookCounts
<1>4. \A i \in Items : G[i] = IF i \in S THEN F[i] ELSE 0
  BY <1>2, BookCounts DEF InDeposit
<1>5. \A i \in S : auctions[i].deposit = F[i]
  BY <1>2
<1> HIDE DEF S, F, G
<1>6. UNION {{i} \X (1..auctions[i].deposit) : i \in S} = Heap(S, F)
  BY <1>5 DEF Heap
<1>7. Heap(S, F) = Heap(Items, G)
  BY <1>2, <1>3, <1>4, CoinsAre
<1> QED BY <1>1, <1>6, <1>7 DEF DepositsOf, Total, G

LEMMA StakeIs ==
  ASSUME Book(auctions), NEW p
  PROVE  Stake(p) = StakeOf(auctions, p)
<1> DEFINE S == {i \in Up : auctions[i].bidder = p}
           F == [i \in Items |-> auctions[i].bid]
           G == InBids(auctions, p)
<1>1. Stake(p) = Cardinality(UNION {{i} \X (1..auctions[i].bid) : i \in S})
  BY DEF Stake, Coins
<1>2. S \in SUBSET Items /\ \A i \in Items : i \in S <=> auctions[i] # NoAuction /\ auctions[i].bidder = p
  BY DEF Up
<1>3. G \in [Items -> Nat]
  BY BookCounts
<1>4. \A i \in Items : G[i] = IF i \in S THEN F[i] ELSE 0
  BY <1>2, BookCounts DEF InBid
<1>5. \A i \in S : auctions[i].bid = F[i]
  BY <1>2
<1> HIDE DEF S, F, G
<1>6. UNION {{i} \X (1..auctions[i].bid) : i \in S} = Heap(S, F)
  BY <1>5 DEF Heap
<1>7. Heap(S, F) = Heap(Items, G)
  BY <1>2, <1>3, <1>4, CoinsAre
<1> QED BY <1>1, <1>6, <1>7 DEF StakeOf, Total, G

\* now, and in the next state
SumsRight ==
  Rows(row) /\ Book(auctions) =>
    \A p : /\ Mailed(p) = MailedTo(row, p) /\ Deposits(p) = DepositsOf(auctions, p)
          /\ Stake(p) = StakeOf(auctions, p)

LEMMA SumsNow == SumsRight
BY MailedIs, DepositsIs, StakeIs DEF SumsRight

LEMMA SumsNext == SumsRight'
BY SumsNow, PTL

LEMMA SumsAre ==
  ASSUME Rows(row), Book(auctions), Rows(row'), Book(auctions')
  PROVE  \A p : /\ Funds(p) = money[p] + MailedTo(row, p) + DepositsOf(auctions, p)
                /\ Stake(p) = StakeOf(auctions, p)
                /\ Funds(p)' = money'[p] + MailedTo(row', p) + DepositsOf(auctions', p)
                /\ Stake(p)' = StakeOf(auctions', p)
<1>1. \A p : /\ Mailed(p) = MailedTo(row, p) /\ Deposits(p) = DepositsOf(auctions, p)
            /\ Stake(p) = StakeOf(auctions, p)
  BY SumsNow DEF SumsRight
<1>2. \A p : /\ Mailed(p)' = MailedTo(row', p) /\ Deposits(p)' = DepositsOf(auctions', p)
            /\ Stake(p)' = StakeOf(auctions', p)
  BY SumsNext DEF SumsRight
<1> QED BY <1>1, <1>2, Zenon DEF Funds

-----------------------------------------------------------------------------
(* The steps of Market, in these terms.                                      *)

Worth(p) == Funds(p) + Stake(p)
Moves(p, q) == \A i \in Items : Owner(i)' # Owner(i) => Owner(i) = p /\ Owner(i)' = q
Keep(who) == \A r \in Players \ who : Worth(r)' = Worth(r)
Secured == \A p \in Players : unsaved'[p] \in {0, unsaved[p]}

\* the variables of Market
LEMMA MarketState ==
  /\ \A i \in Items : /\ [x \in Items |-> Owner(x)][i] = Owner(i)
                      /\ [x \in Items |-> Owner(x)]'[i] = Owner(i)'
  /\ \A p \in Players : /\ [x \in Players |-> money[x] + Mailed(x) + Deposits(x)][p] = Funds(p)
                        /\ [x \in Players |-> money[x] + Mailed(x) + Deposits(x)]'[p] = Funds(p)'
                        /\ [x \in Players |-> Stake(x)][p] = Stake(p)
                        /\ [x \in Players |-> Stake(x)]'[p] = Stake(p)'
BY DEF Funds

LEMMA MovesMaps ==
  ASSUME NEW p, NEW q, Moves(p, q)
  PROVE  OpenMarket!ItemsMove(p, q)
BY MarketState DEF Moves, OpenMarket!ItemsMove

LEMMA KeepMaps ==
  ASSUME NEW who, Keep(who)
  PROVE  OpenMarket!OthersKeep(who)
BY MarketState DEF Keep, Worth, OpenMarket!OthersKeep, OpenMarket!Wealth

LEMMA SecuredMaps ==
  ASSUME Secured
  PROVE  OpenMarket!Secure
BY DEF Secured, OpenMarket!Secure

LEMMA GiveMaps ==
  ASSUME NEW p \in Players, NEW q \in Players, Moves(p, q), Keep({p, q}), Secured,
         Stake(p)' = Stake(p), Stake(q)' = Stake(q),
         Funds(q)' >= Funds(q), Funds(q)' - Funds(q) <= Funds(p) - Funds(p)'
  PROVE  OpenMarket!Next
<1>1. OpenMarket!Give(p, q)
  BY MarketState, MovesMaps, KeepMaps, SecuredMaps DEF OpenMarket!Give
<1> QED BY <1>1 DEF OpenMarket!Next

LEMMA LoseMaps ==
  ASSUME NEW p \in Players, Moves(p, NoBidder), Keep({p}), Secured,
         Stake(p)' = Stake(p), Funds(p)' <= Funds(p)
  PROVE  OpenMarket!Next
<1>1. OpenMarket!Lose(p)
  BY MarketState, MovesMaps, KeepMaps, SecuredMaps DEF OpenMarket!Lose
<1> QED BY <1>1 DEF OpenMarket!Next

LEMMA SellMaps ==
  ASSUME NEW p \in Players, NEW q \in Players, NEW i \in Items, p # q,
         Owner(i) = p, Owner(i)' = q,
         \A j \in Items \ {i} : Owner(j)' # Owner(j) => Owner(j) = q /\ Owner(j)' = NoBidder,
         Keep({p, q}), Secured, Stake(p)' = Stake(p), Funds(p)' >= Funds(p),
         Worth(q)' < Worth(q), Funds(p)' - Funds(p) <= Worth(q) - Worth(q)'
  PROVE  OpenMarket!Next
<1>1. OpenMarket!Sell(p, q, i)
  BY MarketState, KeepMaps, SecuredMaps DEF Worth, OpenMarket!Sell, OpenMarket!Wealth
<1> QED BY <1>1 DEF OpenMarket!Next

LEMMA BidMaps ==
  ASSUME \A i \in Items : Owner(i)' = Owner(i), Keep({}), Secured
  PROVE  OpenMarket!Next
<1>1. UNCHANGED [i \in Items |-> Owner(i)]
  BY MarketState
<1>2. OpenMarket!Bid
  BY <1>1, KeepMaps, SecuredMaps DEF OpenMarket!Bid
<1> QED BY <1>2 DEF OpenMarket!Next

\* nothing that Market sees changes
LEMMA SameOwners ==
  ASSUME \A i \in Items : Owner(i)' = Owner(i)
  PROVE  UNCHANGED [i \in Items |-> Owner(i)]
OBVIOUS

LEMMA SameFunds ==
  ASSUME \A p \in Players : Funds(p)' = Funds(p)
  PROVE  UNCHANGED [p \in Players |-> money[p] + Mailed(p) + Deposits(p)]
BY DEF Funds

LEMMA SameStakes ==
  ASSUME \A p \in Players : Stake(p)' = Stake(p)
  PROVE  UNCHANGED [p \in Players |-> Stake(p)]
OBVIOUS

LEMMA StillMaps ==
  ASSUME \A i \in Items : Owner(i)' = Owner(i), unsaved' = unsaved,
         \A p \in Players : Funds(p)' = Funds(p) /\ Stake(p)' = Stake(p)
  PROVE  UNCHANGED OpenMarket!vars
BY SameOwners, SameFunds, SameStakes DEF OpenMarket!vars

LEMMA ChargeMaps ==
  ASSUME NEW p \in Players, \A i \in Items : Owner(i)' = Owner(i),
         \A r \in Players : Funds(r)' = Funds(r) /\ Stake(r)' = Stake(r),
         \A r \in Players \ {p} : unsaved'[r] = unsaved[r], unsaved'[p] <= Funds(p)
  PROVE  OpenMarket!Next
<1>1. OpenMarket!Charge(p)
  BY MarketState, SameOwners, SameFunds, SameStakes DEF OpenMarket!Charge
<1> QED BY <1>1 DEF OpenMarket!Next

LEMMA RestartMaps ==
  ASSUME \A i \in Items : Owner(i)' = Owner(i),
         \A r \in Players : Funds(r)' = Funds(r) + unsaved[r] /\ Stake(r)' = Stake(r),
         unsaved' = [p \in Players |-> 0]
  PROVE  OpenMarket!Next
<1>1. [p \in Players |-> money[p] + Mailed(p) + Deposits(p)]' =
        [p \in Players |-> [r \in Players |-> money[r] + Mailed(r) + Deposits(r)][p] + unsaved[p]]
  BY DEF Funds
<1>2. OpenMarket!Restart
  BY <1>1, SameOwners, SameStakes DEF OpenMarket!Restart
<1> QED BY <1>2 DEF OpenMarket!Next

-----------------------------------------------------------------------------
(* What handlers do to the mails, as Market sees it.                         *)

\* S is R with m at id, B is A with a at i.
RowAt(R, S, id, m) ==
  /\ Rows(S) /\ S[id] = m /\ \A x \in MailIds \ {id} : S[x] = R[x]
  /\ \A p : MailedTo(S, p) = MailedTo(R, p) - InMailTo(R[id], p) + InMailTo(m, p)
BookAt(A, B, i, a) ==
  /\ Book(B) /\ B[i] = a /\ \A j \in Items \ {i} : B[j] = A[j]
  /\ \A p : DepositsOf(B, p) = DepositsOf(A, p) - InDeposit(A[i], p) + InDeposit(a, p)
  /\ \A p : StakeOf(B, p) = StakeOf(A, p) - InBid(A[i], p) + InBid(a, p)

LEMMA RowSet ==
  ASSUME NEW R, Rows(R), NEW id \in MailIds, NEW m \in Mails \cup {NoMail}, NEW S,
         S = [R EXCEPT ![id] = m]
  PROVE  RowAt(R, S, id, m)
<1>1. Rows(S) /\ S[id] = m /\ \A x \in MailIds \ {id} : S[x] = R[x]
  BY DEF Rows
<1>2. ASSUME NEW p PROVE MailedTo(S, p) = MailedTo(R, p) - InMailTo(R[id], p) + InMailTo(m, p)
  <2> DEFINE F == InMails(R, p)
             G == InMails(S, p)
  <2>1. F \in [MailIds -> Nat] /\ \A x \in MailIds : F[x] = InMailTo(R[x], p)
    BY MailCounts
  <2>2. G \in [MailIds -> Nat] /\ \A x \in MailIds : G[x] = InMailTo(S[x], p)
    <3>1. Rows(S)
      BY <1>1
    <3> HIDE DEF G
    <3> QED BY <3>1, MailCounts DEF G
  <2> HIDE DEF F, G
  <2>3. /\ F[id] = InMailTo(R[id], p) /\ G[id] = InMailTo(m, p)
        /\ \A x \in MailIds \ {id} : G[x] = F[x]
    BY <1>1, <2>1, <2>2
  <2>4. Total(MailIds, G) = Total(MailIds, F) - F[id] + G[id]
    BY <2>1, <2>2, <2>3, TotalChange, MailAssumption
  <2> QED BY <2>3, <2>4 DEF MailedTo, F, G
<1> QED BY <1>1, <1>2 DEF RowAt

LEMMA BookSet ==
  ASSUME NEW A, Book(A), NEW i \in Items, NEW a \in Auctions \cup {NoAuction}, NEW B,
         B = [A EXCEPT ![i] = a]
  PROVE  BookAt(A, B, i, a)
<1>1. Book(B) /\ B[i] = a /\ \A j \in Items \ {i} : B[j] = A[j]
  BY DEF Book
<1>2. ASSUME NEW p PROVE DepositsOf(B, p) = DepositsOf(A, p) - InDeposit(A[i], p) + InDeposit(a, p)
  <2> DEFINE F == InDeposits(A, p)
             G == InDeposits(B, p)
  <2>1. F \in [Items -> Nat] /\ \A x \in Items : F[x] = InDeposit(A[x], p)
    BY BookCounts
  <2>2. G \in [Items -> Nat] /\ \A x \in Items : G[x] = InDeposit(B[x], p)
    <3>1. Book(B)
      BY <1>1
    <3> HIDE DEF G
    <3> QED BY <3>1, BookCounts DEF G
  <2> HIDE DEF F, G
  <2>3. /\ F[i] = InDeposit(A[i], p) /\ G[i] = InDeposit(a, p)
        /\ \A x \in Items \ {i} : G[x] = F[x]
    BY <1>1, <2>1, <2>2
  <2>4. Total(Items, G) = Total(Items, F) - F[i] + G[i]
    BY <2>1, <2>2, <2>3, TotalChange, MailAssumption
  <2> QED BY <2>3, <2>4 DEF DepositsOf, F, G
<1>3. ASSUME NEW p PROVE StakeOf(B, p) = StakeOf(A, p) - InBid(A[i], p) + InBid(a, p)
  <2> DEFINE F == InBids(A, p)
             G == InBids(B, p)
  <2>1. F \in [Items -> Nat] /\ \A x \in Items : F[x] = InBid(A[x], p)
    BY BookCounts
  <2>2. G \in [Items -> Nat] /\ \A x \in Items : G[x] = InBid(B[x], p)
    <3>1. Book(B)
      BY <1>1
    <3> HIDE DEF G
    <3> QED BY <3>1, BookCounts DEF G
  <2> HIDE DEF F, G
  <2>3. /\ F[i] = InBid(A[i], p) /\ G[i] = InBid(a, p)
        /\ \A x \in Items \ {i} : G[x] = F[x]
    BY <1>1, <2>1, <2>2
  <2>4. Total(Items, G) = Total(Items, F) - F[i] + G[i]
    BY <2>1, <2>2, <2>3, TotalChange, MailAssumption
  <2> QED BY <2>3, <2>4 DEF StakeOf, F, G
<1> QED BY <1>1, <1>2, <1>3 DEF BookAt

\* One mail more: its money and its items are the receiver's, unless they are to be paid.
Mailing(R, S, m) ==
  /\ Rows(S)
  /\ \A p : MailedTo(S, p) = MailedTo(R, p) + InMailTo(m, p)
  /\ \A i, p : MailHas(S, i, p) <=> MailHas(R, i, p) \/ (i \in m.items /\ p = Whose(m))

LEMMA SentMails ==
  ASSUME NEW po, OfficeOK(po, online), FairOffice(po), NEW m, MailOK(m), FairMail(m),
         NEW id, NEW n, Sent(po, n, m, id)
  PROVE  FairOffice(n) /\ Mailing(po.row, n.row, m)
<1> DEFINE R == po.row
           S == n.row
<1>1. /\ Rows(R) /\ id \in MailIds /\ R[id] = NoMail /\ m \in Mails /\ m # NoMail
      /\ S = [R EXCEPT ![id] = m]
  BY MailShape DEF Sent, FreeIds, OfficeOK, Offices, MailOK, Rows
<1> HIDE DEF R, S
<1>2. /\ Rows(S) /\ S[id] = m /\ \A x \in MailIds \ {id} : S[x] = R[x]
      /\ \A p : MailedTo(S, p) = MailedTo(R, p) - InMailTo(R[id], p) + InMailTo(m, p)
  <2>1. RowAt(R, S, id, m)
    BY <1>1, RowSet
  <2> QED BY <2>1 DEF RowAt
<1>3. \A p : MailedTo(S, p) = MailedTo(R, p) + InMailTo(m, p)
  <2> TAKE p
  <2>1. MailedTo(R, p) \in Nat /\ InMailTo(R[id], p) = 0
    BY <1>1, MailedTyped DEF InMailTo
  <2>2. InMailTo(m, p) \in Nat
    BY <1>1 DEF InMailTo, Mails
  <2> QED BY <1>2, <2>1, <2>2
<1>4. \A i, p : MailHas(S, i, p) <=> MailHas(R, i, p) \/ (i \in m.items /\ p = Whose(m))
  BY <1>1, <1>2 DEF MailHas
<1>5. FairOffice(n)
  <2>1. \A x \in MailIds : S[x] # NoMail => FairMail(S[x])
    BY <1>2 DEF FairOffice, FairRows, FairEntries, R
  <2>2. ASSUME NEW p \in Players, NEW x \in MailIds, n.box[p][x] # NoMail, n.box[p][x].state = "deleted"
        PROVE  n.box[p][x].mail.COD = 0
    <3>1. x # id
      BY <2>2 DEF Sent
    <3>2. n.box[p][x] = po.box[p][x]
      BY <3>1 DEF Sent
    <3> QED BY <2>2, <3>2 DEF FairOffice, FairRows, FairEntries
  <2> QED BY <2>1, <2>2 DEF FairOffice, FairRows, FairEntries, S
<1> QED BY <1>2, <1>3, <1>4, <1>5 DEF Mailing, R, S

\* One mail less.
Unmailing(R, S, m) ==
  /\ Rows(S)
  /\ \A p : MailedTo(S, p) = MailedTo(R, p) - InMailTo(m, p)
  /\ \A i \in Items : \A p : MailHas(S, i, p) <=> MailHas(R, i, p) /\ i \notin m.items

\* no item is in two mails
Distinct(R) ==
  \A i \in Items : \A x, y \in MailIds :
    (R[x] # NoMail /\ i \in R[x].items) /\ (R[y] # NoMail /\ i \in R[y].items) => x = y

LEMMA OnePlaceDistinct ==
  ASSUME NEW b, NEW po, NEW a, OnePlace(b, po, a)
  PROVE  Distinct(po.row)
BY DEF OnePlace, Distinct, Holding

LEMMA RowGone ==
  ASSUME NEW R, Rows(R), Distinct(R), NEW id \in MailIds, R[id] # NoMail, NEW S,
         S = [R EXCEPT ![id] = NoMail]
  PROVE  Unmailing(R, S, R[id])
<1> DEFINE m == R[id]
<1>1. /\ Rows(S) /\ S[id] = NoMail /\ \A x \in MailIds \ {id} : S[x] = R[x]
      /\ \A p : MailedTo(S, p) = MailedTo(R, p) - InMailTo(R[id], p) + InMailTo(NoMail, p)
  <2>1. RowAt(R, S, id, NoMail)
    BY RowSet
  <2> QED BY <2>1 DEF RowAt
<1>2. \A p : MailedTo(S, p) = MailedTo(R, p) - InMailTo(m, p)
  <2> TAKE p
  <2>1. MailedTo(R, p) \in Nat /\ InMailTo(NoMail, p) = 0
    BY MailedTyped DEF InMailTo
  <2>2. InMailTo(m, p) \in Nat
    BY DEF InMailTo, Mails, Rows
  <2> DEFINE t == MailedTo(R, p)
             k == InMailTo(m, p)
  <2>3. MailedTo(S, p) = t - k + 0
    BY <1>1, <2>1
  <2> HIDE DEF t, k, m
  <2>4. t - k + 0 = t - k
    BY <2>1, <2>2 DEF t, k
  <2> QED BY <2>3, <2>4 DEF t, k
<1>3. \A i \in Items : \A p : MailHas(S, i, p) <=> MailHas(R, i, p) /\ i \notin m.items
  BY <1>1 DEF MailHas, Distinct
<1> QED BY <1>1, <1>2, <1>3 DEF Unmailing

\* p's mails that it deleted are gone; nobody asked to be paid for them.
SweptAt(r, s, p) == s = r \/ (s = NoMail /\ r # NoMail /\ r.receiver = p /\ r.COD = 0)
Swept(R, S, p) == \A x \in MailIds : SweptAt(R[x], S[x], p)

LEMMA SweptMails ==
  ASSUME NEW R, Rows(R), Distinct(R), NEW S, Rows(S), NEW p, Swept(R, S, p)
  PROVE  /\ \A q : q # p => MailedTo(S, q) = MailedTo(R, q)
         /\ MailedTo(S, p) <= MailedTo(R, p)
         /\ \A i \in Items : \A q : /\ MailHas(S, i, q) => MailHas(R, i, q)
                                    /\ MailHas(R, i, q) /\ ~MailHas(S, i, q) =>
                                         q = p /\ \A r : ~MailHas(S, i, r)
<1>1. ASSUME NEW q, q # p PROVE MailedTo(S, q) = MailedTo(R, q)
  <2>1. InMails(S, q) = InMails(R, q)
    BY <1>1 DEF Swept, SweptAt, InMails, InMailTo
  <2> QED BY <2>1 DEF MailedTo
<1>2. MailedTo(S, p) <= MailedTo(R, p)
  <2> DEFINE F == InMails(R, p)
             G == InMails(S, p)
  <2>1. /\ F \in [MailIds -> Nat]
        /\ \A x \in MailIds : F[x] = InMailTo(R[x], p) /\ InMailTo(R[x], p) \in Nat
    BY MailCounts
  <2>2. G \in [MailIds -> Nat] /\ \A x \in MailIds : G[x] = InMailTo(S[x], p)
    BY MailCounts
  <2> HIDE DEF F, G
  <2>3. \A x \in MailIds : G[x] <= F[x]
    <3>1. InMailTo(NoMail, p) = 0
      BY DEF InMailTo
    <3> QED BY <2>1, <2>2, <3>1 DEF Swept, SweptAt
  <2>4. Total(MailIds, G) <= Total(MailIds, F)
    BY <2>1, <2>2, <2>3, TotalLess, MailAssumption
  <2> QED BY <2>4 DEF MailedTo, F, G
<1>3. ASSUME NEW i \in Items, NEW q, MailHas(S, i, q) PROVE MailHas(R, i, q)
  BY <1>3 DEF MailHas, Swept, SweptAt
<1>4. ASSUME NEW i \in Items, NEW q, MailHas(R, i, q), ~MailHas(S, i, q)
      PROVE  q = p /\ \A r : ~MailHas(S, i, r)
  <2>1. PICK x \in MailIds : R[x] # NoMail /\ i \in R[x].items /\ q = Whose(R[x])
    BY <1>4 DEF MailHas
  <2>2. S[x] = NoMail /\ R[x].receiver = p /\ R[x].COD = 0
    BY <1>4, <2>1 DEF MailHas, Swept, SweptAt
  <2>3. q = p
    BY <2>1, <2>2 DEF Whose
  <2>4. ASSUME NEW y \in MailIds, S[y] # NoMail, i \in S[y].items PROVE FALSE
    <3>1. R[y] = S[y]
      BY <2>4 DEF Swept, SweptAt
    <3>2. x = y
      BY <2>1, <2>4, <3>1 DEF Distinct
    <3> QED BY <2>2, <2>4, <3>2
  <2> QED BY <2>3, <2>4 DEF MailHas
<1> QED BY <1>1, <1>2, <1>3, <1>4

\* Money goes to q, or an item.
Pay(p, q, gold) == IF p = q THEN gold ELSE 0
PaidTo(R, S, q, gold) ==
  /\ Rows(S)
  /\ \A p : MailedTo(S, p) = MailedTo(R, p) + Pay(p, q, gold)
  /\ \A i, p : MailHas(S, i, p) <=> MailHas(R, i, p)
GivenTo(R, S, q, i) ==
  /\ Rows(S)
  /\ \A p : MailedTo(S, p) = MailedTo(R, p)
  /\ \A j, p : MailHas(S, j, p) <=> MailHas(R, j, p) \/ (j = i /\ p = q)

LEMMA NothingPaid ==
  ASSUME NEW R, Rows(R), NEW q
  PROVE  PaidTo(R, R, q, 0)
<1>1. \A p : MailedTo(R, p) = MailedTo(R, p) + Pay(p, q, 0)
  BY MailedTyped DEF Pay
<1> QED BY <1>1 DEF PaidTo

LEMMA OfficeRows ==
  ASSUME NEW po, NEW on, OfficeOK(po, on)
  PROVE  Rows(po.row)
BY DEF OfficeOK, Offices, Rows

\* a mail with money only
LEMMA MoneyMails ==
  ASSUME NEW po, OfficeOK(po, online), FairOffice(po), NEW mail, MailOK(mail), FairMail(mail),
         mail.items = {}, FreeIds(po) # {}, NEW n, n = SendMailTo(po, mail)
  PROVE  FairOffice(n) /\ PaidTo(po.row, n.row, mail.receiver, mail.money)
<1>1. PICK id \in FreeIds(po) : Sent(po, n, mail, id)
  BY SendSends
<1>2. FairOffice(n) /\ Mailing(po.row, n.row, mail)
  BY <1>1, SentMails
<1>3. mail # NoMail
  BY MailShape DEF MailOK
<1>4. \A p : InMailTo(mail, p) = Pay(p, mail.receiver, mail.money)
  BY <1>3 DEF InMailTo, Pay
<1>5. PaidTo(po.row, n.row, mail.receiver, mail.money)
  BY <1>2, <1>4 DEF Mailing, PaidTo
<1> QED BY <1>2, <1>5

LEMMA HouseMailFair ==
  ASSUME NEW q \in Players, NEW S \in SUBSET Items, NEW gold \in Nat
  PROVE  /\ FairMail(HouseMail(q, S, gold)) /\ Whose(HouseMail(q, S, gold)) = q
         /\ HouseMail(q, S, gold).receiver = q /\ HouseMail(q, S, gold).money = gold
BY DEF FairMail, HouseMail, Whose

LEMMA PaidMails ==
  ASSUME NEW po, OfficeOK(po, online), FairOffice(po), NEW q \in Players, NEW gold \in Nat,
         FreeIds(po) # {}, NEW n, n = SendMailTo(po, HouseMail(q, {}, gold))
  PROVE  FairOffice(n) /\ PaidTo(po.row, n.row, q, gold)
<1> DEFINE mail == HouseMail(q, {}, gold)
<1>1. CASE gold = 0
  <2>1. ~Attached(mail)
    BY <1>1 DEF HouseMail, Attached
  <2>2. n = po
    BY <2>1, NothingSent
  <2> QED BY <1>1, <2>2, OfficeRows, NothingPaid
<1>2. CASE gold # 0
  <2>1. /\ MailOK(mail) /\ mail.items = {} /\ FairMail(mail) /\ mail.receiver = q
        /\ mail.money = gold /\ n = SendMailTo(po, mail)
    BY <1>2, HouseMailOK, HouseMailFair
  <2> HIDE DEF mail
  <2> QED BY <2>1, MoneyMails
<1> QED BY <1>1, <1>2

LEMMA GivenMails ==
  ASSUME NEW po, OfficeOK(po, online), FairOffice(po), NEW q \in Players, NEW i \in Items,
         FreeIds(po) # {}, NEW n, n = SendMailTo(po, HouseMail(q, {i}, 0))
  PROVE  FairOffice(n) /\ GivenTo(po.row, n.row, q, i)
<1> DEFINE mail == HouseMail(q, {i}, 0)
<1>1. /\ MailOK(mail) /\ mail.items = {i} /\ FairMail(mail) /\ mail.receiver = q
      /\ mail.money = 0 /\ n = SendMailTo(po, mail) /\ Whose(mail) = q
  BY HouseMailOK, HouseMailFair
<1> HIDE DEF mail
<1>2. PICK id \in FreeIds(po) : Sent(po, n, mail, id)
  BY <1>1, SendSends
<1>3. FairOffice(n) /\ Mailing(po.row, n.row, mail)
  BY <1>1, <1>2, SentMails
<1>4. \A p : MailedTo(po.row, p) + InMailTo(mail, p) = MailedTo(po.row, p)
  <2> TAKE p
  <2>1. InMailTo(mail, p) = 0
    BY <1>1 DEF InMailTo
  <2> QED BY <2>1, OfficeRows, MailedTyped
<1>5. GivenTo(po.row, n.row, q, i)
  BY <1>1, <1>3, <1>4 DEF Mailing, GivenTo
<1> QED BY <1>3, <1>5

\* the bid of a bidder other than p
Returned(a, p) == IF a.bidder = p THEN 0 ELSE a.bid

LEMMA RefundMails ==
  ASSUME OfficeOK(Office, online), FairOffice(Office), NEW a \in Auctions, BidOK(a), NEW p,
         FreeIds(Office) # {}, NEW n, n = Refund(Office, p, a)
  PROVE  FairOffice(n) /\ PaidTo(Office.row, n.row, a.bidder, Returned(a, p))
<1>1. a.bid \in Nat /\ (a.bidder = NoBidder => a.bid = 0)
  BY DEF Auctions, BidOK
<1>2. CASE a.bidder \in {NoBidder, p}
  <2>1. n = Office /\ Returned(a, p) = 0
    BY <1>1, <1>2 DEF Refund, Returned
  <2> QED BY <2>1, OfficeRows, NothingPaid
<1>3. CASE a.bidder \notin {NoBidder, p}
  <2>1. /\ a.bidder \in Players /\ n = SendMailTo(Office, HouseMail(a.bidder, {}, a.bid))
        /\ Returned(a, p) = a.bid
    BY <1>3 DEF Refund, SendOutbidMail, Auctions, Returned
  <2> QED BY <1>1, <2>1, PaidMails
<1> QED BY <1>2, <1>3

\* a sale: the owner has its price, the bidder its item
LEMMA SoldMails ==
  ASSUME NEW po, OfficeOK(po, online), FairOffice(po), NEW a \in Auctions, a.bidder \in Players,
         NEW i \in Items, HasRoom(po, 2), NEW n, n = SendSold(po, i, a)
  PROVE  /\ FairOffice(n)
         /\ \E R : /\ PaidTo(po.row, R, a.owner, a.bid + a.deposit - GetAuctionCut(a))
                   /\ GivenTo(R, n.row, a.bidder, i)
<1> DEFINE gold == a.bid + a.deposit - GetAuctionCut(a)
           paid == SendMailTo(po, HouseMail(a.owner, {}, gold))
<1>1. a.owner \in Players /\ a.bid \in Nat /\ a.deposit \in Nat
  BY DEF Auctions
<1>2. GetAuctionCut(a) \in 0..a.bid
  BY <1>1, CutFits, AuctionAssumption DEF GetAuctionCut
<1>3. gold \in Nat
  BY <1>1, <1>2
<1>4. n = SendMailTo(paid, HouseMail(a.bidder, {i}, 0))
  BY DEF SendSold, SendWonMail, SendSuccessfulMail
<1>5. paid = SendMailTo(po, HouseMail(a.owner, {}, gold)) /\ HasRoom(po, 1 + 1)
  OBVIOUS
<1> HIDE DEF paid, gold
<1>6. OfficeOK(paid, online) /\ HasRoom(paid, 1)
  BY <1>1, <1>3, <1>5, HousePays
<1>7. FreeIds(po) # {}
  BY <1>5, RoomLeft
<1>8. FreeIds(paid) # {}
  <2>1. HasRoom(paid, 0 + 1) /\ 0 \in Nat
    BY <1>6
  <2> QED BY <2>1, RoomLeft
<1>9. FairOffice(paid) /\ PaidTo(po.row, paid.row, a.owner, gold)
  BY <1>1, <1>3, <1>5, <1>7, PaidMails
<1>10. FairOffice(n) /\ GivenTo(paid.row, n.row, a.bidder, i)
  BY <1>4, <1>6, <1>8, <1>9, GivenMails
<1> QED BY <1>9, <1>10 DEF gold

\* _SaveMail, where what is written is what the rows have, except at id
LEMMA SavedEntries ==
  ASSUME NEW e \in Entries \cup {NoMail}
  PROVE  SaveEntry(e) # NoMail => SaveEntry(e).state = "unchanged"
<1>1. CASE SaveEntry(e) = NoMail
  BY <1>1
<1>2. CASE SaveEntry(e) # NoMail
  <2>1. e # NoMail /\ SaveEntry(e) = [e EXCEPT !.state = "unchanged"]
    BY <1>2 DEF SaveEntry
  <2>2. e \in Entries
    BY <2>1
  <2> QED BY <2>1, <2>2 DEF Entries
<1> QED BY <1>1, <1>2

LEMMA SavedRow ==
  ASSUME NEW r, NEW e \in Entries \cup {NoMail}, r # NoMail => MailOK(r),
         e # NoMail => r = e.mail
  PROVE  SaveRow(r, e) = r \/ (SaveRow(r, e) = NoMail /\ e # NoMail /\ e.state = "deleted")
<1>1. CASE e = NoMail \/ e.state = "deleted" \/ e.state = "unchanged" \/ r = NoMail
  BY <1>1 DEF SaveRow
<1>2. CASE e # NoMail /\ e.state = "changed" /\ r # NoMail
  <2>1. r = e.mail /\ r \in Mails /\ Attached(r)
    BY <1>2 DEF MailOK
  <2>2. [r EXCEPT !.items = e.mail.items, !.money = e.mail.money, !.COD = e.mail.COD,
                  !.final = e.mail.final] = r
    BY <2>1 DEF Mails
  <2> QED BY <1>2, <2>1, <2>2 DEF SaveRow, Kept
<1>3. e # NoMail => e.state \in {"unchanged", "changed", "deleted"}
  BY DEF Entries
<1> QED BY <1>1, <1>2, <1>3

LEMMA ChangedRow ==
  ASSUME NEW r \in Mails, NEW e \in Entries, e.state = "changed", Lesser(e.mail, r)
  PROVE  SaveRow(r, e) = Kept(e.mail)
<1> DEFINE m == e.mail
<1>1. m \in Mails /\ r # NoMail /\ e # NoMail
  BY MailShape DEF Entries
<1>2. [r EXCEPT !.items = m.items, !.money = m.money, !.COD = m.COD, !.final = m.final] = m
  BY <1>1 DEF Mails, Lesser
<1> QED BY <1>1, <1>2 DEF SaveRow

LEMMA SaveMailIs ==
  ASSUME NEW po \in Offices, NEW p \in Players, NEW n, n = SaveMail(po, p)
  PROVE  /\ \A x \in MailIds : /\ n.row[x] = SaveRow(po.row[x], po.box[p][x])
                               /\ n.box[p][x] = SaveEntry(po.box[p][x])
         /\ \A q \in Players \ {p} : n.box[q] = po.box[q]
<1>1. /\ n.row = [id \in MailIds |-> SaveRow(po.row[id], po.box[p][id])]
      /\ n.box = [po.box EXCEPT ![p] = [id \in MailIds |-> SaveEntry(po.box[p][id])]]
      /\ po.box \in [Players -> [MailIds -> Entries \cup {NoMail}]]
  BY DEF SaveMail, Offices
<1> QED BY <1>1

LEMMA SaveSweeps ==
  ASSUME NEW po, NEW p \in Players, AlmostOK(po, p), FairEntries(po.box), NEW n, n = SaveMail(po, p),
         NEW id, \A x \in MailIds \ {id} : po.box[p][x] # NoMail => po.row[x] = po.box[p][x].mail
  PROVE  /\ Rows(n.row) /\ FairEntries(n.box)
         /\ \A x \in MailIds \ {id} : SweptAt(po.row[x], n.row[x], p)
         /\ id \in MailIds => n.row[id] = SaveRow(po.row[id], po.box[p][id])
<1>1. po \in Offices /\ po.box \in [Players -> [MailIds -> Entries \cup {NoMail}]]
  BY DEF AlmostOK, Offices
<1>2. /\ \A x \in MailIds : /\ n.row[x] = SaveRow(po.row[x], po.box[p][x])
                            /\ n.box[p][x] = SaveEntry(po.box[p][x])
      /\ \A q \in Players \ {p} : n.box[q] = po.box[q]
  BY <1>1, SaveMailIs
<1>3. Rows(n.row)
  BY SaveMailOK, OfficeRows
<1>4. FairEntries(n.box)
  <2>1. ASSUME NEW q \in Players, NEW x \in MailIds, n.box[q][x] # NoMail, n.box[q][x].state = "deleted"
        PROVE  n.box[q][x].mail.COD = 0
    <3>1. q # p
      <4>1. po.box[p][x] \in Entries \cup {NoMail}
        BY <1>1
      <4>2. n.box[p][x] # NoMail => n.box[p][x].state = "unchanged"
        BY <1>2, <4>1, SavedEntries
      <4> QED BY <2>1, <4>2
    <3> QED BY <1>2, <2>1, <3>1 DEF FairEntries
  <2> QED BY <2>1 DEF FairEntries
<1>5. ASSUME NEW x \in MailIds \ {id} PROVE SweptAt(po.row[x], n.row[x], p)
  <2> DEFINE r == po.row[x]
             e == po.box[p][x]
  <2>1. e \in Entries \cup {NoMail} /\ n.row[x] = SaveRow(r, e)
    BY <1>1, <1>2
  <2>2. r # NoMail => MailOK(r)
    BY DEF AlmostOK
  <2>3. e # NoMail => r = e.mail /\ r # NoMail /\ r.receiver = p /\ (e.state = "deleted" => r.COD = 0)
    BY DEF AlmostOK, FairEntries
  <2> HIDE DEF r, e
  <2>4. SaveRow(r, e) = r \/ (SaveRow(r, e) = NoMail /\ e # NoMail /\ e.state = "deleted")
    BY <2>1, <2>2, <2>3, SavedRow
  <2>5. SweptAt(r, n.row[x], p)
    BY <2>1, <2>3, <2>4 DEF SweptAt
  <2> QED BY <2>5 DEF r
<1> QED BY <1>2, <1>3, <1>4, <1>5

LEMMA SweptFair ==
  ASSUME NEW R, FairRows(R), NEW S, NEW p, Swept(R, S, p)
  PROVE  FairRows(S)
BY DEF FairRows, Swept, SweptAt

LEMMA SaveSweepsAll ==
  ASSUME NEW po, OfficeOK(po, online), FairOffice(po), NEW p \in Players, NEW n, n = SaveMail(po, p)
  PROVE  Rows(n.row) /\ FairOffice(n) /\ Swept(po.row, n.row, p)
<1>1. AlmostOK(po, p)
  BY OfficeAlmostOK
<1>2. \A x \in MailIds : po.box[p][x] # NoMail => po.row[x] = po.box[p][x].mail
  BY DEF OfficeOK
<1>3. PICK id : id \notin MailIds
  BY NoSetContainsEverything
<1>4. /\ Rows(n.row) /\ FairEntries(n.box)
      /\ \A x \in MailIds \ {id} : SweptAt(po.row[x], n.row[x], p)
  BY <1>1, <1>2, SaveSweeps DEF FairOffice
<1>5. Swept(po.row, n.row, p)
  BY <1>3, <1>4 DEF Swept
<1> QED BY <1>4, <1>5, SweptFair DEF FairOffice

-----------------------------------------------------------------------------
(* Every step is a step of Market, and keeps things fair.                    *)

MarketStep == Fair' /\ (OpenMarket!Next \/ UNCHANGED OpenMarket!vars)

LEMMA Owners ==
  ASSUME AInv, AInv', NEW i \in Items
  PROVE  \A r : /\ Has(bag, row, auctions, i, r) <=> r = Owner(i)
                /\ Has(bag', row', auctions', i, r) <=> r = Owner(i)'
<1>1. OnePlace(bag, Office, auctions) /\ Office.row = row
  BY DEF AInv, Office
<1>2. OnePlace(bag', Office', auctions') /\ Office'.row = row'
  BY DEF AInv, Office
<1>3. \A r : Has(bag, row, auctions, i, r) <=> r = OwnerOf(bag, row, auctions, i)
  BY <1>1, OwnerHas
<1>4. \A r : Has(bag', row', auctions', i, r) <=> r = OwnerOf(bag', row', auctions', i)
  BY <1>2, OwnerHas
<1> QED BY <1>3, <1>4, OwnerIs

LEMMA Finances ==
  ASSUME AInv, AInv', NEW p \in Players
  PROVE  /\ Funds(p) = money[p] + MailedTo(row, p) + DepositsOf(auctions, p)
         /\ Stake(p) = StakeOf(auctions, p)
         /\ Funds(p)' = money'[p] + MailedTo(row', p) + DepositsOf(auctions', p)
         /\ Stake(p)' = StakeOf(auctions', p)
         /\ MailedTo(row, p) \in Nat /\ MailedTo(row', p) \in Nat
         /\ DepositsOf(auctions, p) \in Nat /\ DepositsOf(auctions', p) \in Nat
         /\ StakeOf(auctions, p) \in Nat /\ StakeOf(auctions', p) \in Nat
         /\ money[p] \in Nat /\ money'[p] \in Nat /\ unsaved[p] \in Nat
<1>1. Rows(row) /\ Book(auctions) /\ Rows(row') /\ Book(auctions')
  BY DEF AInv, OfficeOK, Offices, Office, Rows, AuctionsOK, Book
<1>2. money[p] \in Nat /\ money'[p] \in Nat /\ unsaved[p] \in Nat
  BY MailAssumption DEF AInv, PursesOK
<1> QED BY <1>1, <1>2, SumsAre, MailedTyped, BooksTyped

LEMMA Rest ==
  ASSUME AInv
  PROVE  /\ PursesOK /\ OfficeOK(Office, online) /\ AuctionsOK /\ OnePlace(bag, Office, auctions)
         /\ Rows(row) /\ Book(auctions) /\ Distinct(row) /\ Office.row = row /\ Office.box = m_mail
BY OnePlaceDistinct DEF AInv, OfficeOK, Offices, Office, Rows, AuctionsOK, Book

LEMMA SavedSecured ==
  ASSUME AInv, NEW p \in Players, SaveInventoryAndGold(p) \/ SaveGold(p) \/ unsaved' = unsaved
  PROVE  Secured
BY DEF AInv, PursesOK, Secured, SaveInventoryAndGold, SaveGold

\* An item has the owner it has a place of.
LEMMA OwnerWas ==
  ASSUME AInv, AInv', NEW i \in Items, NEW r, Has(bag, row, auctions, i, r)
  PROVE  Owner(i) = r
BY Owners

LEMMA OwnerBecomes ==
  ASSUME AInv, AInv', NEW i \in Items, NEW r, Has(bag', row', auctions', i, r)
  PROVE  Owner(i)' = r
BY Owners

LEMMA OwnerStays ==
  ASSUME AInv, AInv', NEW i \in Items,
         \A r : Has(bag, row, auctions, i, r) => Has(bag', row', auctions', i, r)
  PROVE  Owner(i)' = Owner(i)
BY Owners

\* What p has changes by what its purse, its mails, its deposits and its bids do.
Changes(p, a, b, c, d) ==
  /\ a \in Int /\ b \in Int /\ c \in Int /\ d \in Int
  /\ money'[p] = money[p] + a /\ MailedTo(row', p) = MailedTo(row, p) + b
  /\ DepositsOf(auctions', p) = DepositsOf(auctions, p) + c
  /\ StakeOf(auctions', p) = StakeOf(auctions, p) + d

LEMMA FundsChange ==
  ASSUME AInv, AInv', NEW p \in Players, NEW a, NEW b, NEW c, NEW d, Changes(p, a, b, c, d)
  PROVE  /\ Funds(p) \in Int /\ Stake(p) \in Int
         /\ Funds(p)' = Funds(p) + a + b + c /\ Stake(p)' = Stake(p) + d
         /\ Worth(p) \in Int /\ Worth(p)' = Worth(p) + a + b + c + d
<1> DEFINE M == money[p]
           R == MailedTo(row, p)
           D == DepositsOf(auctions, p)
           S == StakeOf(auctions, p)
<1>1. /\ Funds(p) = M + R + D /\ Stake(p) = S
      /\ Funds(p)' = (M + a) + (R + b) + (D + c) /\ Stake(p)' = S + d
      /\ M \in Nat /\ R \in Nat /\ D \in Nat /\ S \in Nat
      /\ a \in Int /\ b \in Int /\ c \in Int /\ d \in Int
  BY Finances DEF Changes
<1> HIDE DEF M, R, D, S
<1>2. /\ M + R + D \in Int /\ (M + a) + (R + b) + (D + c) = M + R + D + a + b + c
      /\ (M + a) + (R + b) + (D + c) + (S + d) = M + R + D + S + a + b + c + d
      /\ M + R + D + S \in Int /\ S \in Int
  BY <1>1
<1>3. Worth(p) = M + R + D + S /\ Worth(p)' = (M + a) + (R + b) + (D + c) + (S + d)
  BY <1>1 DEF Worth
<1> QED BY <1>1, <1>2, <1>3

\* the house is not concerned
LEMMA BooksSame ==
  ASSUME AInv, auctions' = auctions, NEW p
  PROVE  /\ DepositsOf(auctions', p) = DepositsOf(auctions, p) + 0
         /\ StakeOf(auctions', p) = StakeOf(auctions, p) + 0
BY Rest, BooksTyped

LEMMA FairNext ==
  ASSUME Fair, NEW n, FairOffice(n), Post(n), auctions' = auctions
  PROVE  Fair'
<1>1. FairRows(row') /\ FairEntries(m_mail') /\ FairAuctions'
  BY DEF Fair, FairOffice, Post, FairAuctions
<1> QED BY <1>1 DEF Fair, FairOffice, Office

\* p's deleted mails go: what was in them is gone.
LEMMA SweptItem ==
  ASSUME AInv, AInv', NEW p, NEW i \in Items, NEW R, Rows(R), Distinct(R), Swept(R, row', p),
         \A q : MailHas(R, i, q) <=> MailHas(row, i, q),
         \A q \in Players : i \in bag'[q] <=> i \in bag[q], auctions' = auctions,
         Owner(i)' # Owner(i)
  PROVE  Owner(i) = p /\ Owner(i)' = NoBidder
<1>1. Rows(row')
  <2>1. Rows(row)'
    BY DEF AInv, OfficeOK, Offices, Office, Rows
  <2> QED BY <2>1
<1>2. \A q : /\ MailHas(row', i, q) => MailHas(row, i, q)
             /\ MailHas(row, i, q) /\ ~MailHas(row', i, q) => q = p /\ \A r : ~MailHas(row', i, r)
  BY <1>1, SweptMails
<1> DEFINE o == Owner(i)
           n == Owner(i)'
<1>3. o # n /\ \A r : /\ Has(bag, row, auctions, i, r) <=> r = o
                      /\ Has(bag', row', auctions', i, r) <=> r = n
  BY Owners
<1> HIDE DEF o, n
<1>4. Has(bag, row, auctions, i, o) /\ ~Has(bag', row', auctions', i, o)
  BY <1>3
<1>5. \/ MailHas(row, i, o) /\ ~MailHas(row', i, o)
      \/ \E q : MailHas(row', i, q) /\ ~MailHas(row, i, q)
  BY <1>4 DEF Has
<1>6. o = p /\ MailHas(row, i, o) /\ \A r : ~MailHas(row', i, r)
  BY <1>2, <1>5
<1>7. auctions[i] = NoAuction /\ \A q \in Players : i \notin bag[q]
  <2>1. PICK x \in MailIds : row[x] # NoMail /\ i \in row[x].items
    BY <1>6 DEF MailHas
  <2>2. x \in Holding(Office, i)
    BY <2>1 DEF Holding, Office
  <2> QED BY <2>2, Rest DEF OnePlace
<1>8. Has(bag', row', auctions', i, NoBidder)
  BY <1>6, <1>7 DEF Has
<1>9. o = p /\ n = NoBidder
  BY <1>3, <1>6, <1>8
<1> QED BY <1>9 DEF o, n

\* Bags, purses and auctions stay, p's deleted mails go.
LEMMA SweptStep ==
  ASSUME AInv, AInv', NEW p \in Players, Swept(row, row', p), bag' = bag, money' = money,
         auctions' = auctions, Secured
  PROVE  OpenMarket!Next
<1>1. Rows(row) /\ Distinct(row) /\ Rows(row')
  <2>1. Rows(row)'
    BY DEF AInv, OfficeOK, Offices, Office, Rows
  <2> QED BY <2>1, Rest
<1>2. /\ \A q : q # p => MailedTo(row', q) = MailedTo(row, q)
      /\ MailedTo(row', p) <= MailedTo(row, p)
  BY <1>1, SweptMails
<1>3. Moves(p, NoBidder)
  <2>1. ASSUME NEW i \in Items, Owner(i)' # Owner(i) PROVE Owner(i) = p /\ Owner(i)' = NoBidder
    BY <1>1, <2>1, SweptItem
  <2> QED BY <2>1 DEF Moves
<1>4. ASSUME NEW r \in Players
      PROVE  /\ r # p => Worth(r)' = Worth(r)
             /\ Stake(r)' = Stake(r) /\ (r = p => Funds(r)' <= Funds(r))
  <2>1. /\ Stake(r)' = Stake(r)
        /\ Funds(r) = money[r] + MailedTo(row, r) + DepositsOf(auctions, r)
        /\ Funds(r)' = money[r] + MailedTo(row', r) + DepositsOf(auctions, r)
        /\ MailedTo(row, r) \in Nat /\ MailedTo(row', r) \in Nat /\ money[r] \in Nat
        /\ DepositsOf(auctions, r) \in Nat
    BY Finances
  <2>2. r # p => Funds(r)' = Funds(r)
    BY <1>2, <2>1
  <2>3. r = p => MailedTo(row', r) <= MailedTo(row, r)
    BY <1>2
  <2>4. r = p => Funds(r)' <= Funds(r)
    BY <2>1, <2>3
  <2> QED BY <2>1, <2>2, <2>4 DEF Worth
<1> QED BY <1>3, <1>4, LoseMaps DEF Keep

LEMMA SendMailMarket ==
  ASSUME AInv, AInv', Fair, NEW p \in Players, NEW q \in Players,
         NEW S \in {{}} \cup {{i} : i \in Items}, NEW gold \in Nat, NEW cod \in Nat,
         SendMail(p, q, S, gold, cod), auctions' = auctions
  PROVE  MarketStep
<1> DEFINE mail == NormalMail(p, q, S, gold, cod, FALSE)
<1>1. /\ p # q /\ S \in SUBSET bag[p] /\ (S # {} \/ gold > 0) /\ (cod > 0 => S # {})
      /\ FreeIds(Office) # {} /\ Post(SendMailTo(Office, mail)) /\ online' = online
      /\ bag' = [bag EXCEPT ![p] = @ \ S] /\ money' = [money EXCEPT ![p] = @ - (Postage + gold)]
      /\ SaveInventoryAndGold(p) /\ S \in SUBSET Items /\ \A i, j \in S : i = j
  BY DEF SendMail
<1>2. /\ OfficeOK(Office, online) /\ FairOffice(Office) /\ Office.row = row
      /\ bag \in [Players -> SUBSET Items] /\ money \in [Players -> 0..MaxMoney]
  BY Rest DEF Fair, PursesOK
<1>3. /\ MailOK(mail) /\ FairMail(mail) /\ mail # NoMail
      /\ mail.items = S /\ mail.money = gold /\ mail.receiver = q
      /\ Whose(mail) \in {p, q}
  <2>1. MailOK(mail)
    BY <1>1 DEF MailOK, Mails, Attached, NormalMail
  <2>2. FairMail(mail) /\ mail.items = S /\ mail.money = gold /\ mail.receiver = q
        /\ Whose(mail) \in {p, q}
    BY <1>1 DEF NormalMail, FairMail, Whose
  <2> HIDE DEF mail
  <2> QED BY <2>1, <2>2, MailShape DEF MailOK
<1> HIDE DEF mail
<1>4. PICK id \in FreeIds(Office) : Sent(Office, SendMailTo(Office, mail), mail, id)
  BY <1>1, <1>2, <1>3, SendSends
<1> DEFINE n == SendMailTo(Office, mail)
<1>5. FairOffice(n) /\ Mailing(row, n.row, mail) /\ row' = n.row
  <2>1. Sent(Office, n, mail, id) /\ Post(n)
    BY <1>1, <1>4
  <2> HIDE DEF n
  <2> QED BY <1>2, <1>3, <2>1, SentMails DEF Post
<1>6. Fair'
  <2>1. Post(n)
    BY <1>1
  <2> HIDE DEF n
  <2> QED BY <1>5, <2>1, FairNext
<1>7. Mailing(row, row', mail)
  BY <1>5
<1> HIDE DEF n
<1>8. ASSUME NEW i \in Items, Owner(i)' # Owner(i) PROVE Owner(i) = p /\ Owner(i)' = q
  <2>1. CASE i \in S
    <3>1. Has(bag, row, auctions, i, p)
      BY <1>1, <2>1 DEF Has
    <3>2. Has(bag', row', auctions', i, Whose(mail))
      BY <1>3, <1>7, <2>1 DEF Has, Mailing
    <3>3. Owner(i) = p /\ Owner(i)' = Whose(mail)
      BY <3>1, <3>2, OwnerWas, OwnerBecomes
    <3> QED BY <1>3, <1>8, <3>3
  <2>2. CASE i \notin S
    <3>1. \A r : MailHas(row', i, r) <=> MailHas(row, i, r)
      BY <1>3, <1>7, <2>2 DEF Mailing
    <3>2. \A r \in Players : i \in bag'[r] <=> i \in bag[r]
      BY <1>1, <1>2, <2>2
    <3>3. \A r : Has(bag, row, auctions, i, r) => Has(bag', row', auctions', i, r)
      BY <3>1, <3>2 DEF Has
    <3>4. Owner(i)' = Owner(i)
      BY <3>3, OwnerStays
    <3> QED BY <1>8, <3>4
  <2> QED BY <2>1, <2>2
<1>9. ASSUME NEW r \in Players
      PROVE  /\ Funds(r) \in Int /\ Stake(r)' = Stake(r) + 0 /\ Stake(r) \in Int
             /\ Worth(r) \in Int
             /\ r = p => Funds(r)' = Funds(r) + -(Postage + gold) + 0 + 0
             /\ r = q => Funds(r)' = Funds(r) + 0 + gold + 0
             /\ r \notin {p, q} => Worth(r)' = Worth(r) + 0 + 0 + 0 + 0
  <2>1. Postage \in Nat /\ -(Postage + gold) \in Int /\ money[r] \in Nat
    BY <1>2, MailAssumption
  <2>2. money'[r] = money[r] + (IF r = p THEN -(Postage + gold) ELSE 0)
    BY <1>1, <1>2, <2>1
  <2>3. MailedTo(row', r) = MailedTo(row, r) + (IF r = q THEN gold ELSE 0)
    BY <1>3, <1>7 DEF Mailing, InMailTo
  <2>4. /\ DepositsOf(auctions', r) = DepositsOf(auctions, r) + 0
        /\ StakeOf(auctions', r) = StakeOf(auctions, r) + 0
    BY BooksSame
  <2>5. CASE r = p
    <3>1. Changes(r, -(Postage + gold), 0, 0, 0)
      BY <1>1, <2>1, <2>2, <2>3, <2>4, <2>5 DEF Changes
    <3> QED BY <1>1, <2>5, <3>1, FundsChange
  <2>6. CASE r = q
    <3>1. Changes(r, 0, gold, 0, 0)
      BY <1>1, <2>1, <2>2, <2>3, <2>4, <2>6 DEF Changes
    <3> QED BY <1>1, <2>6, <3>1, FundsChange
  <2>7. CASE r \notin {p, q}
    <3>1. Changes(r, 0, 0, 0, 0)
      BY <1>1, <2>1, <2>2, <2>3, <2>4, <2>7 DEF Changes
    <3> QED BY <1>1, <2>7, <3>1, FundsChange
  <2> QED BY <2>5, <2>6, <2>7
<1>10. /\ Moves(p, q) /\ Keep({p, q}) /\ Secured
       /\ Stake(p)' = Stake(p) /\ Stake(q)' = Stake(q)
       /\ Funds(q)' >= Funds(q) /\ Funds(q)' - Funds(q) <= Funds(p) - Funds(p)'
  <2>1. Moves(p, q)
    BY <1>8 DEF Moves
  <2>2. Keep({p, q})
    <3>1. ASSUME NEW r \in Players \ {p, q} PROVE Worth(r)' = Worth(r)
      <4>1. Worth(r) \in Int /\ Worth(r)' = Worth(r) + 0 + 0 + 0 + 0
        BY <1>9
      <4> QED BY <4>1
    <3> QED BY <3>1 DEF Keep
  <2>3. Secured
    BY <1>1, SavedSecured
  <2>4. /\ Funds(p) \in Int /\ Funds(q) \in Int /\ Stake(p) \in Int /\ Stake(q) \in Int
        /\ Funds(p)' = Funds(p) + -(Postage + gold) + 0 + 0
        /\ Funds(q)' = Funds(q) + 0 + gold + 0
        /\ Stake(p)' = Stake(p) + 0 /\ Stake(q)' = Stake(q) + 0
    BY <1>9
  <2>5. Postage \in Nat
    BY MailAssumption
  <2>6. /\ Stake(p)' = Stake(p) /\ Stake(q)' = Stake(q)
        /\ Funds(q)' >= Funds(q) /\ Funds(q)' - Funds(q) <= Funds(p) - Funds(p)'
    BY <2>4, <2>5
  <2> QED BY <2>1, <2>2, <2>3, <2>6
<1>11. OpenMarket!Next
  BY <1>10, GiveMaps
<1> QED BY <1>6, <1>11 DEF MarketStep
\* The state of a mail in a mailbox changes: Market sees nothing of it.
LEMMA EntryMarket ==
  ASSUME AInv, AInv', Fair, NEW p \in Players, NEW id \in MailIds, MarkAsRead(p, id) \/ Delete(p, id),
         auctions' = auctions
  PROVE  MarketStep
<1>1. /\ UNCHANGED <<bag, money, row, auctions, unsaved>>
      /\ m_mail[p][id] # NoMail
      /\ \/ m_mail' = [m_mail EXCEPT ![p][id].state = "changed"]
         \/ m_mail' = [m_mail EXCEPT ![p][id].state = "deleted"] /\ m_mail[p][id].mail.COD = 0
  BY DEF MarkAsRead, Delete
<1>2. m_mail \in [Players -> [MailIds -> Entries \cup {NoMail}]]
  BY Rest DEF OfficeOK, Offices
<1>3. FairEntries(m_mail')
  <2> DEFINE e == [m_mail[p][id] EXCEPT !.state = "changed"]
             f == [m_mail[p][id] EXCEPT !.state = "deleted"]
  <2>1. m_mail[p][id] \in Entries
    BY <1>1, <1>2
  <2>2. e.state = "changed" /\ f.mail = m_mail[p][id].mail
    BY <2>1 DEF Entries
  <2>3. \/ m_mail' = [m_mail EXCEPT ![p] = [m_mail[p] EXCEPT ![id] = e]]
        \/ m_mail' = [m_mail EXCEPT ![p] = [m_mail[p] EXCEPT ![id] = f]] /\ m_mail[p][id].mail.COD = 0
    BY <1>1
  <2> HIDE DEF e, f
  <2>4. \A q \in Players, x \in MailIds : q # p \/ x # id => m_mail'[q][x] = m_mail[q][x]
    BY <1>2, <2>3
  <2>5. \/ m_mail'[p][id] = e
        \/ m_mail'[p][id] = f /\ m_mail[p][id].mail.COD = 0
    BY <1>2, <2>3
  <2>6. m_mail'[p][id].state = "deleted" => m_mail'[p][id].mail.COD = 0
    BY <2>2, <2>5
  <2>7. FairEntries(m_mail)
    BY DEF Fair, FairOffice, Office
  <2> QED BY <2>4, <2>6, <2>7 DEF FairEntries
<1>4. Fair'
  BY <1>1, <1>3 DEF Fair, FairOffice, FairRows, FairAuctions, Office
<1>5. ASSUME NEW i \in Items PROVE Owner(i)' = Owner(i)
  <2>1. \A r : Has(bag, row, auctions, i, r) => Has(bag', row', auctions', i, r)
    BY <1>1
  <2> QED BY <2>1, OwnerStays
<1>6. \A r \in Players : Funds(r)' = Funds(r) /\ Stake(r)' = Stake(r)
  BY <1>1, Finances
<1>7. UNCHANGED OpenMarket!vars
  BY <1>1, <1>5, <1>6, StillMaps
<1> QED BY <1>4, <1>7 DEF MarketStep

LEMMA RowMailing ==
  ASSUME NEW R, Rows(R), NEW id \in MailIds, R[id] = NoMail, NEW m \in Mails, NEW S,
         S = [R EXCEPT ![id] = m]
  PROVE  Mailing(R, S, m)
<1>1. m # NoMail
  BY MailShape
<1>2. /\ Rows(S) /\ S[id] = m /\ \A x \in MailIds \ {id} : S[x] = R[x]
      /\ \A p : MailedTo(S, p) = MailedTo(R, p) - InMailTo(R[id], p) + InMailTo(m, p)
  <2>1. RowAt(R, S, id, m)
    BY RowSet
  <2> QED BY <2>1 DEF RowAt
<1>3. \A p : MailedTo(S, p) = MailedTo(R, p) + InMailTo(m, p)
  <2> TAKE p
  <2>1. MailedTo(R, p) \in Nat /\ InMailTo(R[id], p) = 0
    BY MailedTyped DEF InMailTo
  <2>2. InMailTo(m, p) \in Nat
    BY DEF InMailTo, Mails
  <2> DEFINE t == MailedTo(R, p)
             k == InMailTo(m, p)
  <2>3. MailedTo(S, p) = t - 0 + k
    BY <1>2, <2>1
  <2> HIDE DEF t, k
  <2>4. t - 0 + k = t + k
    BY <2>1, <2>2 DEF t, k
  <2> QED BY <2>3, <2>4 DEF t, k
<1>4. \A i, p : MailHas(S, i, p) <=> MailHas(R, i, p) \/ (i \in m.items /\ p = Whose(m))
  BY <1>1, <1>2 DEF MailHas
<1> QED BY <1>2, <1>3, <1>4 DEF Mailing

\* What is in a mail is nowhere else.
LEMMA MailedOnly ==
  ASSUME AInv, NEW id \in MailIds, row[id] # NoMail, NEW i \in Items, i \in row[id].items
  PROVE  /\ auctions[i] = NoAuction /\ \A q \in Players : i \notin bag[q]
         /\ MailHas(row, i, Whose(row[id])) /\ Has(bag, row, auctions, i, Whose(row[id]))
<1>1. id \in Holding(Office, i)
  BY DEF Holding, Office
<1>2. auctions[i] = NoAuction /\ \A q \in Players : i \notin bag[q]
  BY <1>1, Rest DEF OnePlace
<1>3. MailHas(row, i, Whose(row[id]))
  <2> DEFINE p == Whose(row[id])
  <2>1. row[id] # NoMail /\ i \in row[id].items /\ p = Whose(row[id])
    OBVIOUS
  <2> HIDE DEF p
  <2>2. MailHas(row, i, p)
    BY <2>1 DEF MailHas
  <2> QED BY <2>2 DEF p
<1> QED BY <1>2, <1>3 DEF Has

\* A mail goes back to its sender.
LEMMA MailReturned ==
  ASSUME AInv, AInv', NEW id \in MailIds, NEW m, m = row[id], m # NoMail,
         NEW p \in Players, NEW q \in Players, p # q, m.receiver = p, m.sender = q, m.money \in Nat,
         NEW R, Unmailing(row, R, m), NEW e, Mailing(R, row', e), e # NoMail,
         e.items = m.items, e.money = m.money, e.receiver = q, e.COD = 0,
         UNCHANGED <<bag, money, auctions, unsaved>>
  PROVE  OpenMarket!Next
<1>1. Whose(m) \in {p, q} /\ Whose(e) = q
  BY DEF Whose
<1>2. ASSUME NEW i \in Items, Owner(i)' # Owner(i) PROVE Owner(i) = p /\ Owner(i)' = q
  <2>1. CASE i \in m.items
    <3>1. Has(bag, row, auctions, i, Whose(m))
      BY <2>1, MailedOnly
    <3>2. Has(bag', row', auctions', i, q)
      BY <1>1, <2>1 DEF Has, Mailing
    <3>3. Owner(i) = Whose(m) /\ Owner(i)' = q
      BY <3>1, <3>2, OwnerWas, OwnerBecomes
    <3> QED BY <1>1, <1>2, <3>3
  <2>2. CASE i \notin m.items
    <3>1. \A r : MailHas(row', i, r) <=> MailHas(row, i, r)
      BY <2>2 DEF Mailing, Unmailing
    <3>2. \A r : Has(bag, row, auctions, i, r) => Has(bag', row', auctions', i, r)
      BY <3>1 DEF Has
    <3>3. Owner(i)' = Owner(i)
      BY <3>2, OwnerStays
    <3> QED BY <1>2, <3>3
  <2> QED BY <2>1, <2>2
<1>3. ASSUME NEW r \in Players
      PROVE  /\ Funds(r) \in Int /\ Stake(r)' = Stake(r) + 0 /\ Stake(r) \in Int
             /\ Worth(r) \in Int
             /\ r = p => Funds(r)' = Funds(r) + 0 + -m.money + 0
             /\ r = q => Funds(r)' = Funds(r) + 0 + m.money + 0
             /\ r \notin {p, q} => Worth(r)' = Worth(r) + 0 + 0 + 0 + 0
  <2>1. m.money \in Int /\ -m.money \in Int /\ p # q
    OBVIOUS
  <2>2. money'[r] = money[r] + 0 /\ MailedTo(row, r) \in Int
    BY Finances
  <2>3. MailedTo(row', r) = MailedTo(row, r) - (IF r = p THEN m.money ELSE 0)
                                             + (IF r = q THEN m.money ELSE 0)
    <3>1. /\ MailedTo(row', r) = MailedTo(R, r) + InMailTo(e, r)
          /\ MailedTo(R, r) = MailedTo(row, r) - InMailTo(m, r)
      BY Zenon DEF Mailing, Unmailing
    <3>2. /\ InMailTo(e, r) = IF r = q THEN m.money ELSE 0
          /\ InMailTo(m, r) = IF r = p THEN m.money ELSE 0
      BY DEF InMailTo
    <3> QED BY <3>1, <3>2
  <2>4. /\ DepositsOf(auctions', r) = DepositsOf(auctions, r) + 0
        /\ StakeOf(auctions', r) = StakeOf(auctions, r) + 0
    <3>1. auctions' = auctions
      OBVIOUS
    <3> QED BY <3>1, BooksSame
  <2>5. CASE r = p
    <3>1. Changes(r, 0, -m.money, 0, 0)
      BY <2>1, <2>2, <2>3, <2>4, <2>5 DEF Changes
    <3> QED BY <2>1, <2>5, <3>1, FundsChange
  <2>6. CASE r = q
    <3>1. Changes(r, 0, m.money, 0, 0)
      BY <2>1, <2>2, <2>3, <2>4, <2>6 DEF Changes
    <3> QED BY <2>1, <2>6, <3>1, FundsChange
  <2>7. CASE r \notin {p, q}
    <3>1. Changes(r, 0, 0, 0, 0)
      BY <2>1, <2>2, <2>3, <2>4, <2>7 DEF Changes
    <3> QED BY <2>7, <3>1, FundsChange
  <2> QED BY <2>5, <2>6, <2>7
<1>4. m.money \in Nat
  OBVIOUS
<1>5. Secured
  BY DEF Secured
<1>6. Moves(p, q)
  BY <1>2 DEF Moves
<1>7. Keep({p, q})
  <2>1. ASSUME NEW r \in Players \ {p, q} PROVE Worth(r)' = Worth(r)
    <3>1. Worth(r) \in Int /\ Worth(r)' = Worth(r) + 0 + 0 + 0 + 0
      BY <1>3
    <3> QED BY <3>1
  <2> QED BY <2>1 DEF Keep
<1>8. /\ Stake(p)' = Stake(p) /\ Stake(q)' = Stake(q)
      /\ Funds(q)' >= Funds(q) /\ Funds(q)' - Funds(q) <= Funds(p) - Funds(p)'
  <2>1. /\ Funds(p) \in Int /\ Funds(q) \in Int /\ Stake(p) \in Int /\ Stake(q) \in Int
        /\ Funds(p)' = Funds(p) + 0 + -m.money + 0
        /\ Funds(q)' = Funds(q) + 0 + m.money + 0
        /\ Stake(p)' = Stake(p) + 0 /\ Stake(q)' = Stake(q) + 0
    BY <1>3, <1>4
  <2> QED BY <1>4, <2>1
<1> QED BY <1>5, <1>6, <1>7, <1>8, GiveMaps

\* A mail is destroyed.
LEMMA MailDestroyed ==
  ASSUME AInv, AInv', NEW id \in MailIds, NEW m, m = row[id], m # NoMail, NEW p \in Players,
         m.receiver = p, m.money \in Nat, m.COD = 0, Unmailing(row, row', m),
         UNCHANGED <<bag, money, auctions, unsaved>>
  PROVE  OpenMarket!Next
<1>1. Whose(m) = p
  BY DEF Whose
<1>2. ASSUME NEW i \in Items, Owner(i)' # Owner(i) PROVE Owner(i) = p /\ Owner(i)' = NoBidder
  <2>1. CASE i \in m.items
    <3>1. Has(bag, row, auctions, i, p) /\ auctions[i] = NoAuction /\ \A q \in Players : i \notin bag[q]
      BY <1>1, <2>1, MailedOnly
    <3>2. \A r : ~MailHas(row', i, r)
      BY <2>1 DEF Unmailing
    <3>3. Has(bag', row', auctions', i, NoBidder)
      BY <3>1, <3>2 DEF Has
    <3> QED BY <3>1, <3>3, OwnerWas, OwnerBecomes
  <2>2. CASE i \notin m.items
    <3>1. \A r : MailHas(row', i, r) <=> MailHas(row, i, r)
      BY <2>2 DEF Unmailing
    <3>2. \A r : Has(bag, row, auctions, i, r) => Has(bag', row', auctions', i, r)
      BY <3>1 DEF Has
    <3>3. Owner(i)' = Owner(i)
      BY <3>2, OwnerStays
    <3> QED BY <1>2, <3>3
  <2> QED BY <2>1, <2>2
<1>3. ASSUME NEW r \in Players
      PROVE  /\ Funds(r) \in Int /\ Stake(r)' = Stake(r) + 0 /\ Stake(r) \in Int
             /\ Worth(r) \in Int
             /\ r = p => Funds(r)' = Funds(r) + 0 + -m.money + 0
             /\ r # p => Worth(r)' = Worth(r) + 0 + 0 + 0 + 0
  <2>1. m.money \in Int /\ -m.money \in Int
    OBVIOUS
  <2>2. money'[r] = money[r] + 0 /\ MailedTo(row, r) \in Int
    BY Finances
  <2>3. MailedTo(row', r) = MailedTo(row, r) - (IF r = p THEN m.money ELSE 0)
    <3>1. MailedTo(row', r) = MailedTo(row, r) - InMailTo(m, r)
      BY Zenon DEF Unmailing
    <3>2. InMailTo(m, r) = IF r = p THEN m.money ELSE 0
      BY DEF InMailTo
    <3> QED BY <3>1, <3>2
  <2>4. /\ DepositsOf(auctions', r) = DepositsOf(auctions, r) + 0
        /\ StakeOf(auctions', r) = StakeOf(auctions, r) + 0
    <3>1. auctions' = auctions
      OBVIOUS
    <3> QED BY <3>1, BooksSame
  <2>5. CASE r = p
    <3>1. Changes(r, 0, -m.money, 0, 0)
      BY <2>1, <2>2, <2>3, <2>4, <2>5 DEF Changes
    <3> QED BY <2>1, <2>5, <3>1, FundsChange
  <2>6. CASE r # p
    <3>1. Changes(r, 0, 0, 0, 0)
      BY <2>1, <2>2, <2>3, <2>4, <2>6 DEF Changes
    <3> QED BY <2>6, <3>1, FundsChange
  <2> QED BY <2>5, <2>6
<1>4. m.money \in Nat
  OBVIOUS
<1>5. Secured
  BY DEF Secured
<1>6. Moves(p, NoBidder)
  BY <1>2 DEF Moves
<1>7. Keep({p})
  <2>1. ASSUME NEW r \in Players \ {p} PROVE Worth(r)' = Worth(r)
    <3>1. Worth(r) \in Int /\ Worth(r)' = Worth(r) + 0 + 0 + 0 + 0
      BY <1>3
    <3> QED BY <3>1
  <2> QED BY <2>1 DEF Keep
<1>8. Stake(p)' = Stake(p) /\ Funds(p)' <= Funds(p)
  <2>1. /\ Funds(p) \in Int /\ Stake(p) \in Int
        /\ Funds(p)' = Funds(p) + 0 + -m.money + 0 /\ Stake(p)' = Stake(p) + 0
    BY <1>3, <1>4
  <2> QED BY <1>4, <2>1
<1> QED BY <1>5, <1>6, <1>7, <1>8, LoseMaps
LEMMA RemovedFair ==
  ASSUME NEW po \in Offices, FairOffice(po), NEW p \in Players, NEW id \in MailIds,
         NEW n, n = RemoveMail(po, p, id)
  PROVE  FairOffice(n)
<1>1. /\ po.row \in [MailIds -> Mails \cup {NoMail}]
      /\ po.box \in [Players -> [MailIds -> Entries \cup {NoMail}]]
  BY DEF Offices
<1>2. /\ n.row = [po.row EXCEPT ![id] = NoMail]
      /\ n.box = [po.box EXCEPT ![p] = [po.box[p] EXCEPT ![id] = NoMail]]
  BY DEF RemoveMail
<1>3. \A x \in MailIds : n.row[x] # NoMail => n.row[x] = po.row[x]
  BY <1>1, <1>2
<1>4. \A q \in Players, x \in MailIds : n.box[q][x] # NoMail => n.box[q][x] = po.box[q][x]
  BY <1>1, <1>2
<1> QED BY <1>3, <1>4 DEF FairOffice, FairRows, FairEntries

LEMMA ReturnToSenderMarket ==
  ASSUME AInv, AInv', Fair, NEW p \in Players, NEW id \in MailIds, ReturnToSender(p, id),
         auctions' = auctions
  PROVE  MarketStep
<1> DEFINE m == m_mail[p][id].mail
           removed == RemoveMail(Office, p, id)
           mail == NormalMail(m.receiver, m.sender, m.items, m.money, 0, TRUE)
           n == SendMailTo(removed, mail)
<1>1. /\ OfficeOK(Office, online) /\ FairOffice(Office) /\ Rows(row) /\ Distinct(row)
      /\ m_mail[p][id] # NoMail /\ Office.row = row /\ Office \in Offices
      /\ UNCHANGED <<bag, money, auctions, unsaved>>
      /\ Post(IF m.type = "normal" THEN n ELSE removed)
  BY Rest DEF Fair, ReturnToSender, Readable, OfficeOK
<1>2. /\ row[id] = m /\ m # NoMail /\ MailOK(m) /\ m \in Mails /\ m.receiver = p /\ FairMail(m)
      /\ Office.box[p][id] # NoMail
  BY <1>1, MailShown DEF OfficeOK, FairOffice, FairRows
<1>3. removed = RemoveMail(Office, p, id) /\ n = SendMailTo(removed, mail)
  OBVIOUS
<1>4. \/ /\ MailOK(mail) /\ FairMail(mail) /\ mail.items = m.items /\ mail.money = m.money
         /\ mail.receiver = m.sender /\ mail.COD = 0 /\ m.sender \in Players /\ m.sender # p
      \/ m.type # "normal"
  <2>1. m \in Mails /\ MailOK(m) /\ m.receiver = p /\ FairMail(m)
    BY <1>2
  <2> HIDE DEF m
  <2>2. CASE m.type = "normal"
    <3>1. /\ m.sender \in Players /\ m.sender # p /\ m.receiver \in Players
          /\ m.items \in SUBSET Items /\ m.money \in Nat /\ (m.items # {} \/ m.money > 0)
      BY <2>1, <2>2 DEF MailOK, FairMail, Mails, Attached
    <3>2. /\ mail.items = m.items /\ mail.money = m.money /\ mail.receiver = m.sender /\ mail.COD = 0
          /\ mail.sender = p /\ mail.type = "normal"
      BY <2>1 DEF NormalMail
    <3>3. mail \in Mails /\ Attached(mail)
      BY <3>1 DEF NormalMail, Mails, Attached
    <3> HIDE DEF mail
    <3>4. MailOK(mail) /\ FairMail(mail)
      BY <2>1, <3>1, <3>2, <3>3 DEF MailOK, FairMail
    <3> QED BY <3>1, <3>2, <3>4
  <2> QED BY <2>2
<1>5. m.money \in Nat
  BY <1>2 DEF Mails
<1> HIDE DEF m, removed, mail, n
<1>6. /\ OfficeOK(removed, online) /\ id \in FreeIds(removed) /\ FairOffice(removed)
      /\ Unmailing(row, removed.row, m)
  <2>1. /\ OfficeOK(removed, online) /\ id \in FreeIds(removed)
        /\ removed.row = [row EXCEPT ![id] = NoMail]
    BY <1>1, <1>2, <1>3, RemoveMailOK
  <2>2. FairOffice(removed)
    BY <1>1, <1>3, RemovedFair
  <2>3. Unmailing(row, removed.row, m)
    BY <1>1, <1>2, <2>1, RowGone
  <2> QED BY <2>1, <2>2, <2>3
<1>7. CASE m.type = "normal"
  <2>1. MailOK(mail) /\ FairMail(mail) /\ mail.items = m.items /\ mail.money = m.money
        /\ mail.receiver = m.sender /\ mail.COD = 0 /\ m.sender \in Players /\ m.sender # p
        /\ Post(n)
    BY <1>1, <1>4, <1>7
  <2>2. PICK x \in FreeIds(removed) : Sent(removed, n, mail, x)
    BY <1>3, <1>6, <2>1, SendSends
  <2>3. FairOffice(n) /\ Mailing(removed.row, n.row, mail)
    BY <1>6, <2>1, <2>2, SentMails
  <2>4. Fair'
    BY <1>1, <2>1, <2>3, FairNext
  <2>5. Mailing(removed.row, row', mail) /\ mail # NoMail
    BY <2>1, <2>3, MailShape DEF Post, MailOK
  <2>6. OpenMarket!Next
    BY <1>1, <1>2, <1>5, <1>6, <2>1, <2>5, MailReturned
  <2> QED BY <2>4, <2>6 DEF MarketStep
<1>8. CASE m.type # "normal"
  <2>1. Post(removed) /\ m.COD = 0
    BY <1>1, <1>2, <1>8 DEF MailOK, Mails
  <2>2. Fair'
    BY <1>1, <1>6, <2>1, FairNext
  <2>3. Unmailing(row, row', m)
    BY <1>6, <2>1 DEF Post
  <2>4. OpenMarket!Next
    BY <1>1, <1>2, <1>5, <2>1, <2>3, MailDestroyed
  <2> QED BY <2>2, <2>4 DEF MarketStep
<1> QED BY <1>7, <1>8

LEMMA ReturnOrDeleteMarket ==
  ASSUME AInv, AInv', Fair, ~MayExpireLoaded, NEW id \in MailIds, ReturnOrDeleteOldMail(id),
         auctions' = auctions
  PROVE  MarketStep
<1> DEFINE m == row[id]
           p == m.receiver
           e == [m EXCEPT !.sender = m.receiver, !.receiver = m.sender, !.COD = 0, !.final = TRUE]
           R == [row EXCEPT ![id] = NoMail]
<1>1. /\ FairRows(row) /\ FairEntries(m_mail) /\ FairAuctions /\ Rows(row) /\ Distinct(row)
      /\ m # NoMail /\ row' = [row EXCEPT ![id] = Expired(m)] /\ m_mail' = m_mail
      /\ UNCHANGED <<bag, money, auctions, unsaved>>
  BY Rest DEF Fair, FairOffice, Office, ReturnOrDeleteOldMail
<1>2. m \in Mails /\ MailOK(m) /\ FairMail(m)
  BY <1>1, Rest DEF Rows, OfficeOK, FairRows
<1>3. /\ p \in Players /\ m.money \in Nat /\ m.items \in SUBSET Items
  BY <1>2 DEF Mails
<1>4. R = [row EXCEPT ![id] = NoMail] /\ m = row[id] /\ p = m.receiver
      /\ (m.items # {} /\ m.type = "normal" /\ ~m.final => Expired(m) = e)
      /\ (~(m.items # {} /\ m.type = "normal" /\ ~m.final) => Expired(m) = NoMail)
  BY DEF Expired
<1>5. m.type = "normal" =>
        /\ e \in Mails /\ e.items = m.items /\ e.money = m.money /\ e.receiver = m.sender
        /\ e.sender = p /\ e.COD = 0
        /\ m.sender \in Players /\ m.sender # p
  <2>1. m \in Mails /\ MailOK(m) /\ FairMail(m)
    BY <1>2
  <2> HIDE DEF m
  <2>2. m.type = "normal" => m.sender \in Players /\ m.sender # p
    BY <2>1 DEF MailOK, FairMail
  <2> QED BY <2>1, <2>2 DEF Mails
<1> HIDE DEF R, m, p, e
<1>6. Unmailing(row, R, m)
  BY <1>1, <1>4, RowGone
<1>7. CASE m.items # {} /\ m.type = "normal" /\ ~m.final
  <2>1. e \in Mails /\ e # NoMail /\ FairMail(e)
    BY <1>5, <1>7, MailShape DEF FairMail
  <2>2. /\ Rows(R) /\ R[id] = NoMail /\ row' = [R EXCEPT ![id] = e] /\ row'[id] = e
        /\ \A x \in MailIds \ {id} : row'[x] = row[x]
    BY <1>1, <1>4, <1>5, <1>7 DEF Rows
  <2>3. Mailing(R, row', e)
    BY <2>1, <2>2, RowMailing
  <2>4. FairRows(row')
    BY <1>1, <2>1, <2>2 DEF FairRows
  <2>5. PICK q \in Players : q = m.sender /\ q # p
    BY <1>2, <1>5, <1>7
  <2>6. OpenMarket!Next
    <3>1. /\ m = row[id] /\ m # NoMail /\ p \in Players /\ p # q
          /\ m.receiver = p /\ m.sender = q /\ m.money \in Nat
      BY <1>1, <1>2, <1>3, <1>4, <2>5 DEF Mails
    <3>2. /\ e # NoMail /\ e.items = m.items /\ e.money = m.money /\ e.receiver = q /\ e.COD = 0
      BY <1>5, <1>7, <2>1, <2>5
    <3>3. UNCHANGED <<bag, money, auctions, unsaved>>
      BY <1>1
    <3> QED BY <1>6, <2>3, <3>1, <3>2, <3>3, MailReturned
  <2>7. Fair'
    BY <1>1, <2>4 DEF Fair, FairOffice, Office, FairEntries, FairAuctions
  <2> QED BY <2>6, <2>7 DEF MarketStep
<1>8. CASE ~(m.items # {} /\ m.type = "normal" /\ ~m.final)
  <2>1. row' = R
    BY <1>1, <1>4, <1>8
  <2>2. m.COD = 0
    <3>1. m.COD \in Nat /\ (m.COD > 0 => m.type = "normal" /\ ~m.final /\ m.items # {})
      BY <1>2 DEF MailOK, FairMail, Mails
    <3> QED BY <1>8, <3>1
  <2>3. /\ \A x \in MailIds : row'[x] # NoMail => row'[x] = row[x]
    BY <1>1, <1>4, <2>1 DEF Rows
  <2>4. FairRows(row')
    BY <1>1, <2>3 DEF FairRows
  <2>5. OpenMarket!Next
    BY <1>1, <1>3, <1>4, <1>6, <2>1, <2>2, MailDestroyed
  <2>6. Fair'
    BY <1>1, <2>4 DEF Fair, FairOffice, Office, FairEntries, FairAuctions
  <2> QED BY <2>5, <2>6 DEF MarketStep
<1> QED BY <1>7, <1>8
\* What p takes from a mail is not in it any more; what p deleted goes when its mails are
\* written.
TakenRow(po, R, S, p, id, left) ==
  Distinct(R) /\ RowAt(po.row, R, id, Kept(left)) /\ Swept(R, S, p)

LEMMA Taken ==
  ASSUME NEW po, OfficeOK(po, online), FairOffice(po), Distinct(po.row), NEW p \in Players,
         NEW id \in MailIds, po.box[p][id] # NoMail, po.row[id] \in Mails, NEW left \in Mails,
         Lesser(left, po.row[id]), FairMail(left), NEW taken, taken = Change(po, p, id, left),
         NEW n, n = SaveMail(taken, p)
  PROVE  FairOffice(n) /\ \E R : TakenRow(po, R, n.row, p, id, left)
<1> DEFINE e == [mail |-> left, state |-> "changed"]
           R == [po.row EXCEPT ![id] = Kept(left)]
<1>1. AlmostOK(taken, p) /\ taken.row = po.row
  BY ChangeAlmostOK
<1>2. /\ po.row \in [MailIds -> Mails \cup {NoMail}]
      /\ po.box \in [Players -> [MailIds -> Entries \cup {NoMail}]]
  BY DEF OfficeOK, Offices
<1>3. taken.box = [po.box EXCEPT ![p] = [po.box[p] EXCEPT ![id] = e]]
  BY DEF Change, OfficeOK, Offices
<1>4. e \in Entries /\ e.state = "changed" /\ e.mail = left
  BY DEF Entries
<1>5. R = [po.row EXCEPT ![id] = Kept(left)] /\ Kept(left) \in {left, NoMail}
  BY DEF Kept
<1> HIDE DEF e, R
<1>6. /\ taken.box[p][id] = e
      /\ \A q \in Players, x \in MailIds : q # p \/ x # id => taken.box[q][x] = po.box[q][x]
  BY <1>2, <1>3, <1>4
<1>7. FairEntries(taken.box)
  BY <1>4, <1>6 DEF FairOffice, FairEntries
<1>8. \A x \in MailIds \ {id} : taken.box[p][x] # NoMail => taken.row[x] = taken.box[p][x].mail
  BY <1>1, <1>6 DEF OfficeOK
<1>9. /\ Rows(n.row) /\ FairEntries(n.box)
      /\ \A x \in MailIds \ {id} : SweptAt(po.row[x], n.row[x], p)
      /\ n.row[id] = SaveRow(po.row[id], e)
  BY <1>1, <1>6, <1>7, <1>8, SaveSweeps
<1>10. n.row[id] = Kept(left)
  BY <1>4, <1>9, ChangedRow
<1>11. RowAt(po.row, R, id, Kept(left))
  BY <1>2, <1>5, RowSet DEF Rows
<1>12. Swept(R, n.row, p)
  BY <1>9, <1>10, <1>11 DEF RowAt, Swept, SweptAt
<1>13. Distinct(R)
  <2>1. ASSUME NEW i \in Items, NEW x \in MailIds, R[x] # NoMail, i \in R[x].items
        PROVE  po.row[x] # NoMail /\ i \in po.row[x].items
    <3>1. CASE x = id
      BY <1>5, <1>11, <2>1, <3>1, MailShape DEF RowAt, Lesser
    <3>2. CASE x # id
      BY <1>11, <2>1, <3>2 DEF RowAt
    <3> QED BY <3>1, <3>2
  <2> QED BY <2>1 DEF Distinct
<1>14. FairRows(n.row)
  <2>1. FairRows(R)
    BY <1>5, <1>11 DEF RowAt, FairRows, FairOffice
  <2> QED BY <1>12, <2>1, SweptFair
<1> QED BY <1>9, <1>11, <1>12, <1>13, <1>14 DEF FairOffice, TakenRow

LEMMA TakeMoneyMarket ==
  ASSUME AInv, AInv', Fair, NEW p \in Players, NEW id \in MailIds, TakeMoney(p, id),
         auctions' = auctions
  PROVE  MarketStep
<1> DEFINE m == m_mail[p][id].mail
           left == [m EXCEPT !.money = 0]
           taken == Change(Office, p, id, left)
           n == SaveMail(taken, p)
<1>1. /\ OfficeOK(Office, online) /\ FairOffice(Office) /\ Rows(row) /\ Distinct(row)
      /\ Office.row = row /\ Office.box = m_mail /\ money \in [Players -> 0..MaxMoney]
      /\ m_mail[p][id] # NoMail /\ bag' = bag /\ SaveGold(p)
      /\ money' = [money EXCEPT ![p] = money[p] + m.money] /\ Post(n)
  BY Rest DEF Fair, PursesOK, TakeMoney, Readable
<1>2. row[id] = m /\ m # NoMail /\ m \in Mails /\ m.receiver = p /\ FairMail(m)
  BY <1>1, MailShown DEF OfficeOK, FairOffice, FairRows
<1>3. /\ left \in Mails /\ Lesser(left, m) /\ FairMail(left) /\ left.items = m.items
      /\ left.money = 0 /\ left.receiver = p /\ Whose(left) = Whose(m) /\ m.money \in Nat
  <2>1. m \in Mails /\ FairMail(m) /\ m.receiver = p
    BY <1>2
  <2> HIDE DEF m
  <2>2. /\ left.items = m.items /\ left.COD = m.COD /\ left.money = 0 /\ left.type = m.type
        /\ left.sender = m.sender /\ left.receiver = m.receiver /\ left.final = m.final
        /\ left \in Mails
    BY <2>1 DEF Mails
  <2>3. m.money \in Nat
    BY <2>1 DEF Mails
  <2> HIDE DEF left
  <2> QED BY <2>1, <2>2, <2>3 DEF Lesser, FairMail, Whose
<1>4. taken = Change(Office, p, id, left) /\ n = SaveMail(taken, p)
  OBVIOUS
<1> HIDE DEF m, left, taken, n
<1>5. FairOffice(n) /\ \E R : TakenRow(Office, R, n.row, p, id, left)
  BY <1>1, <1>2, <1>3, <1>4, Taken
<1>6. Fair'
  BY <1>1, <1>5, FairNext
<1>7. PICK R : Distinct(R) /\ RowAt(row, R, id, Kept(left)) /\ Swept(R, row', p)
  BY <1>1, <1>5 DEF TakenRow, Post
<1>8. /\ Rows(R) /\ R[id] = Kept(left) /\ \A x \in MailIds \ {id} : R[x] = row[x]
  BY <1>7 DEF RowAt
<1>9. \A i \in Items : \A q : MailHas(R, i, q) <=> MailHas(row, i, q)
  <2>1. CASE Attached(left)
    <3>1. R[id] = left /\ left # NoMail
      BY <1>3, <1>8, <2>1, MailShape DEF Kept
    <3> QED BY <1>2, <1>3, <1>8, <3>1 DEF MailHas
  <2>2. CASE ~Attached(left)
    <3>1. R[id] = NoMail /\ m.items = {}
      BY <1>3, <1>8, <2>2 DEF Kept, Attached
    <3> QED BY <1>2, <1>8, <3>1 DEF MailHas
  <2> QED BY <2>1, <2>2
<1>10. Rows(row')
  <2>1. Rows(row)'
    BY DEF AInv, OfficeOK, Offices, Office, Rows
  <2> QED BY <2>1
<1>11. /\ \A q : q # p => MailedTo(row', q) = MailedTo(R, q)
       /\ MailedTo(row', p) <= MailedTo(R, p)
  BY <1>7, <1>8, <1>10, SweptMails
<1>12. Moves(p, NoBidder)
  <2>1. ASSUME NEW i \in Items, Owner(i)' # Owner(i) PROVE Owner(i) = p /\ Owner(i)' = NoBidder
    BY <1>1, <1>7, <1>8, <1>9, <2>1, SweptItem
  <2> QED BY <2>1 DEF Moves
<1>13. ASSUME NEW r \in Players
       PROVE  /\ r # p => Worth(r)' = Worth(r)
              /\ Stake(r)' = Stake(r) /\ (r = p => Funds(r)' <= Funds(r))
  <2>1. /\ Stake(r)' = Stake(r)
        /\ Funds(r) = money[r] + MailedTo(row, r) + DepositsOf(auctions, r)
        /\ Funds(r)' = money'[r] + MailedTo(row', r) + DepositsOf(auctions, r)
        /\ MailedTo(row, r) \in Nat /\ MailedTo(row', r) \in Nat /\ money[r] \in Nat
        /\ DepositsOf(auctions, r) \in Nat
    BY Finances
  <2>2. /\ MailedTo(R, r) = MailedTo(row, r) - InMailTo(row[id], r) + InMailTo(Kept(left), r)
        /\ InMailTo(Kept(left), r) = 0
        /\ InMailTo(row[id], r) = IF r = p THEN m.money ELSE 0
    <3>1. MailedTo(R, r) = MailedTo(row, r) - InMailTo(row[id], r) + InMailTo(Kept(left), r)
      BY <1>7, Zenon DEF RowAt
    <3>2. InMailTo(Kept(left), r) = 0 /\ InMailTo(row[id], r) = IF r = p THEN m.money ELSE 0
      BY <1>2, <1>3 DEF InMailTo, Kept
    <3> QED BY <3>1, <3>2
  <2>3. money'[r] = IF r = p THEN money[r] + m.money ELSE money[r]
    BY <1>1
  <2>4. CASE r # p
    <3>1. MailedTo(row', r) = MailedTo(row, r) - 0 + 0 /\ money'[r] = money[r]
      BY <1>11, <2>2, <2>3, <2>4
    <3>2. Funds(r)' = Funds(r)
      BY <2>1, <3>1
    <3> QED BY <2>1, <2>4, <3>2 DEF Worth
  <2>5. CASE r = p
    <3>1. MailedTo(R, r) = MailedTo(row, r) - m.money + 0 /\ money'[r] = money[r] + m.money
      BY <2>2, <2>3, <2>5
    <3>2. MailedTo(row', r) <= MailedTo(row, r) - m.money
      BY <1>3, <1>11, <2>1, <2>5, <3>1
    <3>3. Funds(r)' <= Funds(r)
      BY <1>3, <2>1, <3>1, <3>2
    <3> QED BY <2>1, <2>5, <3>3
  <2> QED BY <2>4, <2>5
<1>14. Secured
  BY <1>1, SavedSecured
<1>15. OpenMarket!Next
  BY <1>12, <1>13, <1>14, LoseMaps DEF Keep
<1> QED BY <1>6, <1>15 DEF MarketStep
\* the mail at id is where it was
Unmoved(po, n, id) ==
  n.row[id] = po.row[id] /\ \A p \in Players : n.box[p][id] = po.box[p][id]

LEMMA MoneyMoves ==
  ASSUME NEW po, OfficeOK(po, online), NEW mail, MailOK(mail), mail.items = {}, FreeIds(po) # {},
         NEW n, n = SendMailTo(po, mail), NEW id \in MailIds, po.row[id] # NoMail
  PROVE  Unmoved(po, n, id)
<1>1. \A x \in MailIds : po.row[x] # NoMail =>
        n.row[x] = po.row[x] /\ \A p \in Players : n.box[p][x] = po.box[p][x]
  BY MoneySent
<1> QED BY <1>1 DEF Unmoved

\* Cash on delivery is paid, nothing else moves.
LEMMA CODPaid ==
  ASSUME AInv, Fair, NEW id \in MailIds, NEW m, m = row[id], m # NoMail, m.COD > 0,
         FreeIds(Office) # {}, NEW paid,
         paid = SendMailTo(Office, NormalMail(m.receiver, m.sender, {}, m.COD, 0, TRUE))
  PROVE  /\ OfficeOK(paid, online) /\ FairOffice(paid) /\ SameItems(Office, paid)
         /\ PaidTo(row, paid.row, m.sender, m.COD)
         /\ Unmoved(Office, paid, id)
<1> DEFINE mail == NormalMail(m.receiver, m.sender, {}, m.COD, 0, TRUE)
<1>1. /\ OfficeOK(Office, online) /\ FairOffice(Office) /\ Office.row = row /\ Office.box = m_mail
  BY Rest DEF Fair
<1>2. m \in Mails /\ MailOK(m) /\ FairMail(m)
  BY <1>1 DEF OfficeOK, FairOffice, FairRows, MailOK
<1>3. m.type = "normal" /\ m.sender \in Players /\ m.receiver \in Players /\ m.sender # m.receiver
      /\ m.COD \in Nat
  BY <1>2 DEF MailOK, FairMail, Mails
<1>4. MailOK(mail) /\ FairMail(mail) /\ mail.items = {} /\ mail.receiver = m.sender /\ mail.money = m.COD
  <2>1. /\ mail.type = "normal" /\ mail.sender = m.receiver /\ mail.receiver = m.sender
        /\ mail.items = {} /\ mail.money = m.COD /\ mail.COD = 0 /\ mail.final
    BY DEF NormalMail
  <2>2. mail \in Mails
    BY <1>3 DEF Mails, NormalMail
  <2> HIDE DEF mail
  <2>3. MailOK(mail)
    BY <1>3, <2>1, <2>2 DEF MailOK, Attached
  <2> QED BY <1>3, <2>1, <2>3 DEF FairMail
<1>5. paid = SendMailTo(Office, mail)
  OBVIOUS
<1> HIDE DEF mail
<1>6. FairOffice(paid) /\ PaidTo(row, paid.row, m.sender, m.COD)
  BY <1>1, <1>4, <1>5, MoneyMails
<1>7. OfficeOK(paid, online) /\ SameItems(Office, paid)
  <2>1. OfficeOK(Office, online) /\ MailOK(mail) /\ mail.items = {} /\ FreeIds(Office) # {}
    BY <1>1, <1>4
  <2> QED BY <1>5, <2>1, MoneySent, Zenon
<1>8. Unmoved(Office, paid, id)
  <2>1. OfficeOK(Office, online) /\ MailOK(mail) /\ mail.items = {} /\ Office.row[id] # NoMail
    BY <1>1, <1>4
  <2> QED BY <1>5, <2>1, MoneyMoves
<1> QED BY <1>6, <1>7, <1>8

LEMMA SameDistinct ==
  ASSUME NEW po, NEW n, Distinct(po.row), SameItems(po, n)
  PROVE  Distinct(n.row)
<1>1. ASSUME NEW i \in Items, NEW x \in Holding(n, i), NEW y \in Holding(n, i) PROVE x = y
  <2>1. x \in Holding(po, i) /\ y \in Holding(po, i)
    BY DEF SameItems
  <2> QED BY <2>1 DEF Holding, Distinct
<1> QED BY <1>1 DEF Distinct, Holding

LEMMA TakeItemMarket ==
  ASSUME AInv, AInv', Fair, NEW p \in Players, NEW id \in MailIds, NEW i \in Items,
         TakeItem(p, id, i), auctions' = auctions
  PROVE  MarketStep
<1> DEFINE m0 == m_mail[p][id].mail
           paid0 == IF m0.COD > 0
                    THEN SendMailTo(Office, NormalMail(m0.receiver, m0.sender, {}, m0.COD, 0, TRUE))
                    ELSE Office
           left0 == [m0 EXCEPT !.items = @ \ {i}, !.COD = 0]
           taken0 == Change(paid0, p, id, left0)
           n0 == SaveMail(taken0, p)
<1>1. PICK m, s : m = m0 /\ s = m0.sender
  OBVIOUS
<1>2. PICK paid, left, taken, n : paid = paid0 /\ left = left0 /\ taken = taken0 /\ n = n0
  OBVIOUS
<1>3. /\ OfficeOK(Office, online) /\ FairOffice(Office) /\ Rows(row) /\ Distinct(row)
      /\ Office.row = row /\ Office.box = m_mail /\ money \in [Players -> 0..MaxMoney]
      /\ bag \in [Players -> SUBSET Items]
      /\ m_mail[p][id] # NoMail /\ i \in m.items /\ SaveInventoryAndGold(p)
      /\ bag' = [bag EXCEPT ![p] = bag[p] \cup {i}]
      /\ money' = [money EXCEPT ![p] = money[p] - m.COD] /\ Post(n)
      /\ m.COD > 0 => FreeIds(Office) # {}
  BY <1>1, <1>2, Rest DEF Fair, PursesOK, TakeItem, Readable
<1>4. /\ row[id] = m /\ m # NoMail /\ m \in Mails /\ m.receiver = p /\ FairMail(m)
      /\ MailOK(m)
  BY <1>1, <1>3, MailShown DEF OfficeOK, FairOffice, FairRows
<1>5. /\ paid = IF m.COD > 0
                THEN SendMailTo(Office, NormalMail(m.receiver, m.sender, {}, m.COD, 0, TRUE))
                ELSE Office
      /\ left = [m EXCEPT !.items = m.items \ {i}, !.COD = 0]
      /\ taken = Change(paid, p, id, left) /\ n = SaveMail(taken, p) /\ s = m.sender
  BY <1>1, <1>2
<1> HIDE DEF m0, paid0, left0, taken0, n0
<1>6. /\ left \in Mails /\ Lesser(left, m) /\ FairMail(left) /\ left.items = m.items \ {i}
      /\ left.money = m.money /\ left.receiver = p /\ Whose(left) = p /\ left # NoMail
      /\ m.money \in Nat /\ m.COD \in Nat
  <2>1. /\ left.items = m.items \ {i} /\ left.COD = 0 /\ left.money = m.money /\ left.type = m.type
        /\ left.sender = m.sender /\ left.receiver = m.receiver /\ left.final = m.final
    BY <1>4, <1>5 DEF Mails
  <2>2. left \in Mails
    BY <1>4, <1>5 DEF Mails
  <2>3. m.money \in Nat /\ m.COD \in Nat
    BY <1>4 DEF Mails
  <2> QED BY <1>4, <2>1, <2>2, <2>3, MailShape DEF Lesser, FairMail, Whose
<1>7. /\ OfficeOK(paid, online) /\ FairOffice(paid) /\ Distinct(paid.row)
      /\ PaidTo(row, paid.row, s, m.COD) /\ paid.row[id] = m /\ paid.box[p][id] = m_mail[p][id]
  <2>1. CASE m.COD > 0
    <3>1. /\ OfficeOK(paid, online) /\ FairOffice(paid) /\ SameItems(Office, paid)
          /\ PaidTo(row, paid.row, s, m.COD)
          /\ Unmoved(Office, paid, id)
      <4>1. /\ paid = SendMailTo(Office, NormalMail(m.receiver, m.sender, {}, m.COD, 0, TRUE))
            /\ m = row[id] /\ m # NoMail /\ FreeIds(Office) # {} /\ s = m.sender
        BY <1>3, <1>4, <1>5, <2>1
      <4> QED BY <2>1, <4>1, CODPaid
    <3> QED BY <1>3, <1>4, <3>1, SameDistinct DEF Unmoved
  <2>2. CASE ~(m.COD > 0)
    <3>1. paid = Office
      BY <1>5, <2>2, Zenon
    <3>2. m.COD = 0
      BY <1>6, <2>2
    <3> QED BY <1>3, <1>4, <3>1, <3>2, NothingPaid
  <2> QED BY <2>1, <2>2
<1>8. FairOffice(n) /\ \E R : TakenRow(paid, R, n.row, p, id, left)
  BY <1>3, <1>4, <1>5, <1>6, <1>7, Taken
<1>9. Fair'
  BY <1>3, <1>8, FairNext
<1>10. PICK R : Distinct(R) /\ RowAt(paid.row, R, id, Kept(left)) /\ Swept(R, row', p)
  BY <1>3, <1>8 DEF TakenRow, Post
<1>11. /\ Rows(R) /\ R[id] = Kept(left) /\ \A x \in MailIds \ {id} : R[x] = paid.row[x]
  BY <1>10 DEF RowAt
<1>12. \A j \in Items : \A q : MailHas(paid.row, j, q) <=> MailHas(row, j, q)
  BY <1>7 DEF PaidTo
<1>13. m.COD > 0 => \A j \in m.items : j = i
  BY <1>3, <1>4 DEF FairMail
<1>14. \A j \in Items \ {i} : \A q : MailHas(R, j, q) <=> MailHas(paid.row, j, q)
  <2>1. \A j \in m.items \ {i} : Whose(left) = Whose(m)
    BY <1>4, <1>6, <1>13 DEF Whose
  <2>2. CASE Attached(left)
    <3>1. R[id] = left
      BY <1>11, <2>2 DEF Kept
    <3> QED BY <1>4, <1>6, <1>7, <1>11, <2>1, <3>1 DEF MailHas
  <2>3. CASE ~Attached(left)
    <3>1. R[id] = NoMail /\ m.items \ {i} = {}
      BY <1>6, <1>11, <2>3 DEF Kept, Attached
    <3> QED BY <1>7, <1>11, <3>1 DEF MailHas
  <2> QED BY <2>2, <2>3
<1>15. Rows(row')
  <2>1. Rows(row)'
    BY DEF AInv, OfficeOK, Offices, Office, Rows
  <2> QED BY <2>1
<1>16. /\ \A q : q # p => MailedTo(row', q) = MailedTo(R, q)
       /\ MailedTo(row', p) <= MailedTo(R, p)
  BY <1>10, <1>11, <1>15, SweptMails
<1>17. ASSUME NEW j \in Items \ {i}, Owner(j)' # Owner(j) PROVE Owner(j) = p /\ Owner(j)' = NoBidder
  <2>1. \A q : MailHas(R, j, q) <=> MailHas(row, j, q)
    BY <1>12, <1>14
  <2>2. \A q \in Players : j \in bag'[q] <=> j \in bag[q]
    BY <1>3
  <2> QED BY <1>10, <1>11, <1>17, <2>1, <2>2, SweptItem
<1>18. Owner(i) = Whose(m) /\ Owner(i)' = p
  <2>1. Has(bag, row, auctions, i, Whose(m))
    BY <1>3, <1>4, MailedOnly
  <2>2. i \in bag'[p]
    BY <1>3
  <2>3. Has(bag', row', auctions', i, p)
    BY <2>2 DEF Has
  <2> QED BY <2>1, <2>3, OwnerWas, OwnerBecomes
<1>19. ASSUME NEW r \in Players
       PROVE  /\ Stake(r)' = Stake(r) /\ Stake(r) \in Nat /\ Funds(r) \in Nat /\ Funds(r)' \in Nat
              /\ r = p => Funds(r)' <= Funds(r) - m.COD + Pay(r, s, m.COD)
              /\ r # p => Funds(r)' = Funds(r) + Pay(r, s, m.COD)
  <2>1. /\ Stake(r)' = Stake(r) /\ Stake(r) \in Nat
        /\ Funds(r) = money[r] + MailedTo(row, r) + DepositsOf(auctions, r)
        /\ Funds(r)' = money'[r] + MailedTo(row', r) + DepositsOf(auctions, r)
        /\ MailedTo(row, r) \in Nat /\ MailedTo(row', r) \in Nat /\ money[r] \in Nat
        /\ DepositsOf(auctions, r) \in Nat /\ money'[r] \in Nat
    BY Finances
  <2>2. MailedTo(paid.row, r) = MailedTo(row, r) + Pay(r, s, m.COD) /\ Pay(r, s, m.COD) \in Nat
    <3>1. MailedTo(paid.row, r) = MailedTo(row, r) + Pay(r, s, m.COD)
      BY <1>7, Zenon DEF PaidTo
    <3> QED BY <1>6, <3>1 DEF Pay
  <2>3. MailedTo(R, r) = MailedTo(paid.row, r)
    <3>1. MailedTo(R, r) = MailedTo(paid.row, r) - InMailTo(paid.row[id], r) + InMailTo(Kept(left), r)
      BY <1>10, Zenon DEF RowAt
    <3>2. InMailTo(paid.row[id], r) = IF r = p THEN m.money ELSE 0
      BY <1>4, <1>7 DEF InMailTo
    <3>3. InMailTo(Kept(left), r) = IF r = p THEN m.money ELSE 0
      <4>1. ~Attached(left) => m.money = 0
        BY <1>6 DEF Attached
      <4> QED BY <1>6, <4>1 DEF InMailTo, Kept
    <3>4. MailedTo(paid.row, r) \in Nat
      BY <2>1, <2>2
    <3> DEFINE t == MailedTo(paid.row, r)
    <3>5. \E k \in Nat : MailedTo(R, r) = t - k + k
      BY <1>6, <3>1, <3>2, <3>3
    <3> HIDE DEF t
    <3>6. MailedTo(R, r) = t
      BY <3>4, <3>5 DEF t
    <3> QED BY <3>6 DEF t
  <2>4. money'[r] = IF r = p THEN money[r] - m.COD ELSE money[r]
    BY <1>3
  <2> DEFINE k == Pay(r, s, m.COD)
             M == MailedTo(row, r)
             N == MailedTo(row', r)
             D == DepositsOf(auctions, r)
             c == m.COD
             x == money[r]
             y == money'[r]
  <2>5. /\ k \in Nat /\ M \in Nat /\ N \in Nat /\ D \in Nat
        /\ Funds(r) = x + M + D /\ Funds(r)' = y + N + D
        /\ x \in Nat /\ y \in Nat /\ c \in Nat /\ y = IF r = p THEN x - c ELSE x
        /\ r # p => N = M + k
        /\ r = p => N <= M + k
    BY <1>6, <1>16, <2>1, <2>2, <2>3, <2>4
  <2> HIDE DEF k, M, N, D, c, x, y
  <2>6. /\ Funds(r) \in Nat /\ Funds(r)' \in Nat
        /\ r # p => Funds(r)' = Funds(r) + k
        /\ r = p => Funds(r)' <= Funds(r) - c + k
    BY <2>5
  <2> QED BY <2>1, <2>6 DEF k, c
<1>20. Secured
  BY <1>3, SavedSecured
<1>21. CASE m.COD = 0
  <2>1. \A r : Pay(r, s, 0) = 0
    BY DEF Pay
  <2>2. Owner(i) = p
    BY <1>4, <1>18, <1>21 DEF Whose
  <2>3. Moves(p, NoBidder)
    BY <1>17, <1>18, <2>2 DEF Moves
  <2>4. ASSUME NEW r \in Players
        PROVE  /\ r # p => Worth(r)' = Worth(r)
               /\ Stake(r)' = Stake(r) /\ (r = p => Funds(r)' <= Funds(r))
    <3>1. /\ Stake(r)' = Stake(r) /\ Stake(r) \in Nat /\ Funds(r) \in Nat /\ Funds(r)' \in Nat
          /\ r = p => Funds(r)' <= Funds(r) - 0 + 0
          /\ r # p => Funds(r)' = Funds(r) + 0
      BY <1>19, <1>21, <2>1
    <3>2. /\ r = p => Funds(r)' <= Funds(r)
          /\ r # p => Funds(r)' = Funds(r)
      BY <3>1
    <3> QED BY <3>1, <3>2 DEF Worth
  <2>5. OpenMarket!Next
    BY <1>20, <2>3, <2>4, LoseMaps DEF Keep
  <2> QED BY <1>9, <2>5 DEF MarketStep
<1>22. CASE m.COD > 0
  <2>1. s \in Players /\ s # p
    BY <1>4, <1>5, <1>22 DEF MailOK, FairMail
  <2>2. Owner(i) = s /\ Owner(i)' = p
    BY <1>5, <1>18, <1>22 DEF Whose
  <2>3. \A r : Pay(r, s, m.COD) = IF r = s THEN m.COD ELSE 0
    BY DEF Pay
  <2>4. Keep({s, p})
    <3>1. ASSUME NEW r \in Players \ {s, p} PROVE Worth(r)' = Worth(r)
      <4>1. /\ Stake(r)' = Stake(r) /\ Funds(r) \in Nat /\ Funds(r)' = Funds(r) + 0
        BY <1>19, <2>3
      <4>2. Funds(r)' = Funds(r)
        BY <4>1
      <4> QED BY <4>1, <4>2 DEF Worth
    <3> QED BY <3>1 DEF Keep
  <2>5. /\ Stake(s)' = Stake(s) /\ Funds(s) \in Nat /\ Funds(s)' = Funds(s) + m.COD
    BY <1>19, <2>1, <2>3
  <2>6. /\ Stake(p)' = Stake(p) /\ Stake(p) \in Nat /\ Funds(p) \in Nat /\ Funds(p)' \in Nat
        /\ Funds(p)' <= Funds(p) - m.COD + 0
    BY <1>19, <2>1, <2>3
  <2>7. /\ Worth(p) = Funds(p) + Stake(p) /\ Worth(p)' = Funds(p)' + Stake(p)'
    BY DEF Worth
  <2>8. /\ Stake(s)' = Stake(s) /\ Funds(s)' >= Funds(s) /\ Worth(p)' < Worth(p)
        /\ Funds(s)' - Funds(s) <= Worth(p) - Worth(p)'
    BY <1>6, <1>22, <2>5, <2>6, <2>7
  <2>9. OpenMarket!Next
    BY <1>17, <1>20, <2>1, <2>2, <2>4, <2>8, SellMaps
  <2> QED BY <1>9, <2>9 DEF MarketStep
<1> QED BY <1>6, <1>21, <1>22
\* Mailboxes of whose mails what is deleted asks for no payment.
LEMMA BoxFair ==
  ASSUME Fair, FairRows(row'), FairEntries(m_mail'), auctions' = auctions
  PROVE  Fair'
BY DEF Fair, FairOffice, FairAuctions, Office

LEMMA SaveMarket ==
  ASSUME AInv, AInv', Fair, NEW p \in Players, Save(p), auctions' = auctions
  PROVE  MarketStep
<1> DEFINE n == SaveMail(Office, p)
<1>1. /\ OfficeOK(Office, online) /\ FairOffice(Office) /\ Office.row = row
      /\ Post(n) /\ bag' = bag /\ money' = money /\ SaveInventoryAndGold(p)
  BY Rest DEF Fair, Save
<1>2. n = SaveMail(Office, p)
  OBVIOUS
<1> HIDE DEF n
<1>3. FairOffice(n) /\ Swept(row, n.row, p)
  BY <1>1, <1>2, SaveSweepsAll
<1>4. Fair'
  BY <1>1, <1>3, FairNext
<1>5. Swept(row, row', p)
  BY <1>1, <1>3 DEF Post
<1>6. OpenMarket!Next
  BY <1>1, <1>5, SavedSecured, SweptStep
<1> QED BY <1>4, <1>6 DEF MarketStep

LEMMA LogoutMarket ==
  ASSUME AInv, AInv', Fair, NEW p \in Players, Logout(p), auctions' = auctions
  PROVE  MarketStep
<1> DEFINE n == SaveMail(Office, p)
           out == [n EXCEPT !.box[p] = EmptyBox]
<1>1. /\ OfficeOK(Office, online) /\ FairOffice(Office) /\ Office.row = row
      /\ Post(out) /\ bag' = bag /\ money' = money /\ SaveInventoryAndGold(p)
  BY Rest DEF Fair, Logout
<1>2. n = SaveMail(Office, p)
  OBVIOUS
<1> HIDE DEF n
<1>3. FairOffice(n) /\ Swept(row, n.row, p)
  BY <1>1, <1>2, SaveSweepsAll
<1>4. OfficeOK(n, online)
  BY <1>1, <1>2, OfficeAlmostOK, SaveMailOK
<1>5. /\ n.box \in [Players -> [MailIds -> Entries \cup {NoMail}]]
      /\ n = [row |-> n.row, box |-> n.box]
  BY <1>4 DEF OfficeOK, Offices
<1>6. out.row = n.row /\ out.box = [n.box EXCEPT ![p] = EmptyBox]
  <2> DEFINE emptied == [n.box EXCEPT ![p] = EmptyBox]
  <2>1. out = [n EXCEPT !.box = emptied]
    OBVIOUS
  <2> HIDE DEF emptied, out
  <2>2. out = [row |-> n.row, box |-> emptied]
    BY <1>5, <2>1
  <2> QED BY <2>2 DEF emptied
<1> HIDE DEF out
<1>7. row' = n.row /\ m_mail' = [n.box EXCEPT ![p] = EmptyBox]
  BY <1>1, <1>6 DEF Post
<1>8. \A q \in Players, x \in MailIds : m_mail'[q][x] # NoMail => m_mail'[q][x] = n.box[q][x]
  BY <1>5, <1>7 DEF EmptyBox
<1>9. FairEntries(m_mail') /\ FairRows(row')
  BY <1>3, <1>7, <1>8 DEF FairOffice, FairEntries
<1>10. Fair'
  BY <1>9, BoxFair
<1>11. OpenMarket!Next
  BY <1>1, <1>3, <1>7, SavedSecured, SweptStep
<1> QED BY <1>10, <1>11 DEF MarketStep

LEMMA LoginMarket ==
  ASSUME AInv, AInv', Fair, NEW p \in Players, Login(p), auctions' = auctions
  PROVE  MarketStep
<1>1. /\ PursesOK /\ p \notin online /\ m_mail' = [m_mail EXCEPT ![p] = LoadMail(p)]
      /\ bag' = [bag EXCEPT ![p] = saved[p].bag] /\ money' = [money EXCEPT ![p] = saved[p].money]
      /\ row' = row /\ unsaved' = unsaved /\ FairRows(row) /\ FairEntries(m_mail)
      /\ m_mail \in [Players -> [MailIds -> Entries \cup {NoMail}]]
  BY Rest DEF Fair, FairOffice, Office, Login, OfficeOK, Offices
<1>2. saved[p].bag = bag[p] /\ saved[p].money = money[p]
  <2>1. unsaved[p] = 0 /\ money[p] \in 0..MaxMoney /\ saved[p].money = money[p] + unsaved[p]
        /\ saved[p].bag = bag[p]
    BY <1>1 DEF PursesOK
  <2>2. money[p] + 0 = money[p]
    BY <2>1, MailAssumption
  <2> QED BY <2>1, <2>2
<1>3. bag' = bag /\ money' = money
  BY <1>1, <1>2 DEF PursesOK
<1>4. \A x \in MailIds : LoadMail(p)[x] # NoMail => LoadMail(p)[x].state = "unchanged"
  BY DEF LoadMail
<1>5. \A q \in Players, x \in MailIds :
        m_mail'[q][x] = IF q = p THEN LoadMail(p)[x] ELSE m_mail[q][x]
  BY <1>1
<1>6. FairEntries(m_mail') /\ FairRows(row')
  BY <1>1, <1>4, <1>5 DEF FairEntries
<1>7. Fair'
  BY <1>6, BoxFair
<1>8. ASSUME NEW i \in Items PROVE Owner(i)' = Owner(i)
  <2>1. \A r : Has(bag, row, auctions, i, r) => Has(bag', row', auctions', i, r)
    BY <1>1, <1>3
  <2> QED BY <2>1, OwnerStays
<1>9. \A r \in Players : Funds(r)' = Funds(r) /\ Stake(r)' = Stake(r)
  BY <1>1, <1>3, Finances
<1>10. UNCHANGED OpenMarket!vars
  BY <1>1, <1>8, <1>9, StillMaps
<1> QED BY <1>7, <1>10 DEF MarketStep

LEMMA CrashMarket ==
  ASSUME AInv, AInv', Fair, CrashAndRestart
  PROVE  MarketStep
<1>1. /\ PursesOK /\ AuctionsOK /\ m_mail' = [p \in Players |-> EmptyBox]
      /\ bag' = [p \in Players |-> saved[p].bag] /\ money' = [p \in Players |-> saved[p].money]
      /\ row' = row /\ unsaved' = [p \in Players |-> 0] /\ auctions' = savedAuctions
      /\ FairRows(row)
  BY Rest DEF Fair, FairOffice, Office, CrashAndRestart, Crash
<1>2. bag' = bag /\ auctions' = auctions
  BY <1>1 DEF PursesOK, AuctionsOK
<1>3. FairEntries(m_mail')
  BY <1>1 DEF FairEntries, EmptyBox
<1>4. Fair'
  BY <1>1, <1>2, <1>3, BoxFair
<1>5. ASSUME NEW i \in Items PROVE Owner(i)' = Owner(i)
  <2>1. \A r : Has(bag, row, auctions, i, r) => Has(bag', row', auctions', i, r)
    BY <1>1, <1>2
  <2> QED BY <2>1, OwnerStays
<1>6. ASSUME NEW r \in Players PROVE Funds(r)' = Funds(r) + unsaved[r] /\ Stake(r)' = Stake(r)
  <2> DEFINE M == MailedTo(row, r)
             D == DepositsOf(auctions, r)
  <2>1. /\ Funds(r) = money[r] + M + D /\ Funds(r)' = money'[r] + M + D
        /\ Stake(r)' = Stake(r) /\ M \in Nat /\ D \in Nat
        /\ money[r] \in Nat /\ unsaved[r] \in Nat
    BY <1>1, <1>2, Finances
  <2>2. money'[r] = money[r] + unsaved[r]
    BY <1>1 DEF PursesOK
  <2> HIDE DEF M, D
  <2> QED BY <2>1, <2>2
<1>7. OpenMarket!Next
  BY <1>1, <1>5, <1>6, RestartMaps
<1> QED BY <1>4, <1>7 DEF MarketStep
\* The book with the auction of one item set.
LEMMA BookChanged ==
  ASSUME AInv, Fair, NEW i \in Items, NEW a \in Auctions \cup {NoAuction}, SetAuction(i, a),
         a # NoAuction => a.bidder # a.owner
  PROVE  BookAt(auctions, auctions', i, a) /\ FairAuctions'
<1>1. Book(auctions) /\ auctions' = [auctions EXCEPT ![i] = a]
  BY Rest DEF SetAuction
<1>2. BookAt(auctions, auctions', i, a)
  <2> DEFINE A == auctions
             B == auctions'
  <2>1. Book(A) /\ B = [A EXCEPT ![i] = a]
    BY <1>1
  <2> HIDE DEF A, B
  <2>2. BookAt(A, B, i, a)
    BY <2>1, BookSet
  <2> QED BY <2>2 DEF A, B
<1>3. FairAuctions'
  BY <1>2 DEF Fair, FairAuctions, BookAt
<1> QED BY <1>2, <1>3

LEMMA BookMoney ==
  ASSUME AInv, NEW i \in Items, NEW a, BookAt(auctions, auctions', i, a), NEW p
  PROVE  /\ DepositsOf(auctions', p) = DepositsOf(auctions, p) - InDeposit(auctions[i], p) + InDeposit(a, p)
         /\ StakeOf(auctions', p) = StakeOf(auctions, p) - InBid(auctions[i], p) + InBid(a, p)
         /\ DepositsOf(auctions, p) \in Nat /\ StakeOf(auctions, p) \in Nat
<1>1. DepositsOf(auctions, p) \in Nat /\ StakeOf(auctions, p) \in Nat
  BY Rest, BooksTyped
<1> QED BY <1>1, Zenon DEF BookAt

\* The item is still the seller's, and so is the deposit.
LEMMA SellItemMarket ==
  ASSUME AInv, AInv', Fair, NEW p \in Players, NEW i \in Items, NEW startbid \in Nat,
         NEW buyout \in Nat, SellItem(p, i, startbid, buyout)
  PROVE  MarketStep
<1> DEFINE a0 == [owner |-> p, bidder |-> NoBidder, startbid |-> startbid, buyout |-> buyout,
                  bid |-> 0, deposit |-> Deposit]
<1>1. PICK a : a = a0
  OBVIOUS
<1>2. /\ PursesOK /\ i \in bag[p] /\ auctions[i] = NoAuction /\ money[p] >= Deposit
      /\ SetAuction(i, a) /\ bag' = [bag EXCEPT ![p] = @ \ {i}]
      /\ money' = [money EXCEPT ![p] = @ - Deposit] /\ unsaved' = [unsaved EXCEPT ![p] = Deposit]
      /\ m_mail' = m_mail /\ row' = row
  BY <1>1, Rest DEF SellItem, HasEnoughMoney
<1>3. /\ a \in Auctions /\ a.owner = p /\ a.bidder = NoBidder /\ a.bid = 0 /\ a.deposit = Deposit
      /\ a # NoAuction /\ Deposit \in Nat /\ NoBidder \notin Players
  BY <1>1, AuctionAssumption, AuctionShape DEF Auctions
<1> HIDE DEF a0
<1>4. BookAt(auctions, auctions', i, a) /\ FairAuctions'
  BY <1>2, <1>3, BookChanged
<1>5. Fair'
  BY <1>2, <1>4 DEF Fair, FairOffice, Office
<1>6. /\ auctions'[i] = a /\ \A j \in Items \ {i} : auctions'[j] = auctions[j]
  BY <1>4 DEF BookAt
<1>7. bag \in [Players -> SUBSET Items] /\ money \in [Players -> 0..MaxMoney]
      /\ unsaved \in [Players -> Nat]
  BY <1>2 DEF PursesOK
<1>8. ASSUME NEW j \in Items PROVE Owner(j)' = Owner(j)
  <2>1. CASE j = i
    <3>1. Has(bag, row, auctions, i, p)
      BY <1>2 DEF Has
    <3>2. Has(bag', row', auctions', i, p)
      BY <1>3, <1>6 DEF Has
    <3> QED BY <2>1, <3>1, <3>2, OwnerWas, OwnerBecomes
  <2>2. CASE j # i
    <3>1. auctions'[j] = auctions[j] /\ \A q \in Players : j \in bag'[q] <=> j \in bag[q]
      BY <1>2, <1>6, <1>7, <2>2
    <3>2. \A r : Has(bag, row, auctions, j, r) => Has(bag', row', auctions', j, r)
      BY <1>2, <3>1 DEF Has
    <3> QED BY <3>2, OwnerStays
  <2> QED BY <2>1, <2>2
<1>9. ASSUME NEW r \in Players
      PROVE  Funds(r)' = Funds(r) /\ Stake(r)' = Stake(r) /\ Funds(r) >= money[r]
  <2>1. /\ Stake(r) = StakeOf(auctions, r) /\ Stake(r)' = StakeOf(auctions', r)
        /\ Funds(r) = money[r] + MailedTo(row, r) + DepositsOf(auctions, r)
        /\ Funds(r)' = money'[r] + MailedTo(row, r) + DepositsOf(auctions', r)
        /\ MailedTo(row, r) \in Nat /\ money[r] \in Nat
    BY <1>2, Finances
  <2>2. /\ DepositsOf(auctions', r) = DepositsOf(auctions, r) - InDeposit(auctions[i], r) + InDeposit(a, r)
        /\ StakeOf(auctions', r) = StakeOf(auctions, r) - InBid(auctions[i], r) + InBid(a, r)
        /\ DepositsOf(auctions, r) \in Nat /\ StakeOf(auctions, r) \in Nat
    BY <1>4, BookMoney
  <2>3. /\ InDeposit(auctions[i], r) = 0 /\ InBid(auctions[i], r) = 0 /\ InBid(a, r) = 0
        /\ InDeposit(a, r) = IF r = p THEN Deposit ELSE 0
    BY <1>2, <1>3 DEF InDeposit, InBid
  <2>4. money'[r] = IF r = p THEN money[r] - Deposit ELSE money[r]
    BY <1>2, <1>7
  <2> DEFINE M == MailedTo(row, r)
             D == DepositsOf(auctions, r)
             S == StakeOf(auctions, r)
             x == money[r]
             y == money'[r]
  <2>5. /\ Stake(r) = S /\ Stake(r)' = S - 0 + 0 /\ S \in Nat
        /\ Funds(r) = x + M + D /\ x \in Nat /\ M \in Nat /\ D \in Nat
        /\ Funds(r)' = y + M + (D - 0 + (IF r = p THEN Deposit ELSE 0))
        /\ y = IF r = p THEN x - Deposit ELSE x
    BY <2>1, <2>2, <2>3, <2>4
  <2> HIDE DEF M, D, S, x, y
  <2>6. Funds(r)' = Funds(r) /\ Stake(r)' = Stake(r) /\ Funds(r) >= x
    BY <1>3, <2>5
  <2> QED BY <2>6 DEF x
<1>10. \A r \in Players \ {p} : unsaved'[r] = unsaved[r]
  BY <1>2, <1>7
<1>11. unsaved'[p] <= Funds(p)
  <2>1. unsaved'[p] = Deposit /\ Funds(p) >= money[p] /\ money[p] \in Nat /\ Funds(p) \in Int
    <3>1. Funds(p) \in Int /\ money[p] \in Nat
      BY Finances
    <3> QED BY <1>2, <1>7, <1>9, <3>1
  <2> QED BY <1>2, <1>3, <2>1
<1>12. OpenMarket!Next
  BY <1>8, <1>9, <1>10, <1>11, ChargeMaps
<1> QED BY <1>5, <1>12 DEF MarketStep

\* Money goes from a purse into a bid, and back from the bid of another player.
LEMMA PlaceBidMarket ==
  ASSUME AInv, AInv', Fair, NEW p \in Players, NEW i \in Items, NEW price \in Nat,
         PlaceBid(p, i, price)
  PROVE  MarketStep
<1>1. PICK a : a = auctions[i]
  OBVIOUS
<1>2. PICK b : b = [a EXCEPT !.bidder = p, !.bid = price]
  OBVIOUS
<1>3. PICK n : n = Refund(Office, p, a)
  OBVIOUS
<1>4. /\ PursesOK /\ OfficeOK(Office, online) /\ FairOffice(Office) /\ Office.row = row
      /\ a # NoAuction /\ a.owner # p /\ Room(1)
      /\ money' = [money EXCEPT ![p] = @ - Price(p, a, price)] /\ Post(n) /\ SetAuction(i, b)
      /\ bag' = bag /\ SaveInventoryAndGold(p)
  BY <1>1, <1>2, <1>3, Rest DEF Fair, PlaceBid, MayBid
<1>5. a \in Auctions /\ BidOK(a)
  BY <1>1, <1>4, Rest DEF AuctionsOK
<1>6. /\ b \in Auctions /\ b # NoAuction /\ b.owner = a.owner /\ b.bidder = p /\ b.bid = price
      /\ b.deposit = a.deposit /\ a.bid \in Nat /\ (a.bidder = NoBidder => a.bid = 0)
      /\ a.deposit \in Nat
  BY <1>2, <1>5, AuctionShape DEF Auctions, BidOK
<1>7. FreeIds(Office) # {}
  <2>1. HasRoom(Office, 0 + 1)
    BY <1>4, RoomOf
  <2> QED BY <2>1, RoomLeft
<1>8. FairOffice(n) /\ PaidTo(row, row', a.bidder, Returned(a, p))
  <2>1. FairOffice(n) /\ PaidTo(Office.row, n.row, a.bidder, Returned(a, p))
    BY <1>3, <1>4, <1>5, <1>7, RefundMails
  <2> QED BY <1>4, <2>1 DEF Post
<1>9. BookAt(auctions, auctions', i, b) /\ FairAuctions'
  BY <1>4, <1>6, BookChanged
<1>10. Fair'
  BY <1>4, <1>8, <1>9 DEF Fair, FairOffice, Office, Post
<1>11. ASSUME NEW j \in Items PROVE Owner(j)' = Owner(j)
  <2>1. \A r : MailHas(row', j, r) <=> MailHas(row, j, r)
    BY <1>8 DEF PaidTo
  <2>2. /\ auctions'[j] = NoAuction <=> auctions[j] = NoAuction
        /\ auctions[j] # NoAuction => auctions'[j].owner = auctions[j].owner
    BY <1>1, <1>4, <1>6, <1>9 DEF BookAt
  <2>3. \A r : Has(bag, row, auctions, j, r) => Has(bag', row', auctions', j, r)
    BY <1>4, <2>1, <2>2 DEF Has
  <2> QED BY <2>3, OwnerStays
<1>12. ASSUME NEW r \in Players PROVE Worth(r)' = Worth(r)
  <2>1. /\ Stake(r) = StakeOf(auctions, r) /\ Stake(r)' = StakeOf(auctions', r)
        /\ Funds(r) = money[r] + MailedTo(row, r) + DepositsOf(auctions, r)
        /\ Funds(r)' = money'[r] + MailedTo(row', r) + DepositsOf(auctions', r)
        /\ MailedTo(row, r) \in Nat /\ money[r] \in Nat
    BY Finances
  <2>2. /\ DepositsOf(auctions', r) = DepositsOf(auctions, r) - InDeposit(a, r) + InDeposit(b, r)
        /\ StakeOf(auctions', r) = StakeOf(auctions, r) - InBid(a, r) + InBid(b, r)
        /\ DepositsOf(auctions, r) \in Nat /\ StakeOf(auctions, r) \in Nat
    BY <1>1, <1>9, BookMoney
  <2>3. InDeposit(a, r) = InDeposit(b, r) /\ InDeposit(a, r) \in Nat
    BY <1>4, <1>6 DEF InDeposit
  <2>4. /\ InBid(a, r) = IF r = a.bidder THEN a.bid ELSE 0
        /\ InBid(b, r) = IF r = p THEN price ELSE 0
    BY <1>4, <1>6 DEF InBid
  <2>5. MailedTo(row', r) = MailedTo(row, r) + Pay(r, a.bidder, Returned(a, p))
    BY <1>8, Zenon DEF PaidTo
  <2>6. money'[r] = IF r = p THEN money[r] - Price(p, a, price) ELSE money[r]
    BY <1>4 DEF PursesOK
  <2>7. /\ Pay(r, a.bidder, Returned(a, p)) = IF r = a.bidder /\ r # p THEN a.bid ELSE 0
        /\ Price(p, a, price) = IF a.bidder = p THEN price - a.bid ELSE price
    BY DEF Pay, Returned, Price
  <2> DEFINE M == MailedTo(row, r)
             D == DepositsOf(auctions, r)
             S == StakeOf(auctions, r)
             x == money[r]
             d == InDeposit(a, r)
             v == a.bid
  <2>8. /\ Worth(r) = (x + M + D) + S /\ x \in Nat /\ M \in Nat /\ D \in Nat /\ S \in Nat
        /\ d \in Nat /\ v \in Nat
        /\ Worth(r)' = ((IF r = p THEN x - Price(p, a, price) ELSE x)
                          + (M + (IF r = a.bidder /\ r # p THEN v ELSE 0)) + (D - d + d))
                       + (S - (IF r = a.bidder THEN v ELSE 0) + (IF r = p THEN price ELSE 0))
        /\ Price(p, a, price) = IF a.bidder = p THEN price - v ELSE price
    BY <1>6, <2>1, <2>2, <2>3, <2>4, <2>5, <2>6, <2>7 DEF Worth
  <2> HIDE DEF M, D, S, x, d, v
  <2>9. CASE r = p /\ a.bidder = p
    BY <2>8, <2>9
  <2>10. CASE r = p /\ a.bidder # p
    BY <2>8, <2>10
  <2>11. CASE r # p /\ a.bidder = r
    BY <2>8, <2>11
  <2>12. CASE r # p /\ a.bidder # r
    BY <2>8, <2>12
  <2> QED BY <2>9, <2>10, <2>11, <2>12
<1>13. Keep({})
  BY <1>12 DEF Keep
<1>14. Secured
  BY <1>4, SavedSecured
<1>15. OpenMarket!Next
  BY <1>11, <1>13, <1>14, BidMaps
<1> QED BY <1>10, <1>15 DEF MarketStep
\* An auction is over, and its item is mailed to q.
LEMMA ItemGiven ==
  ASSUME AInv, AInv', NEW i \in Items, NEW a, a = auctions[i], a # NoAuction, NEW q,
         BookAt(auctions, auctions', i, NoAuction), bag' = bag,
         \A j, r : MailHas(row', j, r) <=> MailHas(row, j, r) \/ (j = i /\ r = q)
  PROVE  /\ Owner(i) = a.owner /\ Owner(i)' = q
         /\ \A j \in Items \ {i} : Owner(j)' = Owner(j)
<1>1. Owner(i) = a.owner
  <2>1. PICK o : o = a.owner
    OBVIOUS
  <2>2. Has(bag, row, auctions, i, o)
    BY <2>1 DEF Has
  <2> QED BY <2>1, <2>2, OwnerWas
<1>2. Owner(i)' = q
  <2>1. MailHas(row', i, q)
    OBVIOUS
  <2>2. Has(bag', row', auctions', i, q)
    BY <2>1 DEF Has
  <2> QED BY <2>2, OwnerBecomes
<1>3. ASSUME NEW j \in Items \ {i} PROVE Owner(j)' = Owner(j)
  <2>1. auctions'[j] = auctions[j]
    BY DEF BookAt
  <2>2. \A r : Has(bag, row, auctions, j, r) => Has(bag', row', auctions', j, r)
    BY <2>1 DEF Has
  <2> QED BY <2>2, OwnerStays
<1> QED BY <1>1, <1>2, <1>3

\* Money after an auction: bids and deposit come back, q pays its price, o has what the
\* house leaves of it.
Settled(a, o, q, price, cut) ==
  \A r \in Players :
    money'[r] + MailedTo(row', r) =
      money[r] + MailedTo(row, r) + InBid(a, r) + InDeposit(a, r)
        + Pay(r, o, price - cut) - Pay(r, q, price)

LEMMA BookCloses ==
  ASSUME AInv, AInv', NEW i \in Items, NEW a, a = auctions[i], a \in Auctions, a # NoAuction,
         BookAt(auctions, auctions', i, NoAuction), NEW r \in Players, NEW g \in Int,
         money'[r] + MailedTo(row', r) = money[r] + MailedTo(row, r) + g
  PROVE  /\ Stake(r)' = Stake(r) - InBid(a, r) /\ Funds(r)' = Funds(r) + g - InDeposit(a, r)
         /\ Worth(r)' = Worth(r) + g - InDeposit(a, r) - InBid(a, r)
         /\ Stake(r) \in Int /\ Funds(r) \in Int /\ Worth(r) \in Int
         /\ Worth(r) = Funds(r) + Stake(r) /\ Worth(r)' = Funds(r)' + Stake(r)'
         /\ InDeposit(a, r) \in Nat /\ InBid(a, r) \in Nat
<1>1. /\ Stake(r) = StakeOf(auctions, r) /\ Stake(r)' = StakeOf(auctions', r)
      /\ Funds(r) = money[r] + MailedTo(row, r) + DepositsOf(auctions, r)
      /\ Funds(r)' = money'[r] + MailedTo(row', r) + DepositsOf(auctions', r)
      /\ MailedTo(row, r) \in Nat /\ money[r] \in Nat /\ MailedTo(row', r) \in Nat
      /\ money'[r] \in Nat
  BY Finances
<1>2. /\ DepositsOf(auctions', r) = DepositsOf(auctions, r) - InDeposit(a, r) + InDeposit(NoAuction, r)
      /\ StakeOf(auctions', r) = StakeOf(auctions, r) - InBid(a, r) + InBid(NoAuction, r)
      /\ DepositsOf(auctions, r) \in Nat /\ StakeOf(auctions, r) \in Nat
  BY BookMoney
<1>3. InDeposit(NoAuction, r) = 0 /\ InBid(NoAuction, r) = 0
  BY DEF InDeposit, InBid
<1>4. InDeposit(a, r) \in Nat /\ InBid(a, r) \in Nat
  BY DEF InDeposit, InBid, Auctions
<1> DEFINE M == MailedTo(row, r)
           N == MailedTo(row', r)
           D == DepositsOf(auctions, r)
           S == StakeOf(auctions, r)
           x == money[r]
           y == money'[r]
           d == InDeposit(a, r)
           v == InBid(a, r)
<1>5. /\ Stake(r) = S /\ Stake(r)' = S - v + 0 /\ S \in Nat /\ D \in Nat /\ M \in Nat /\ N \in Nat
      /\ Funds(r) = x + M + D /\ Funds(r)' = y + N + (D - d + 0) /\ x \in Nat /\ y \in Nat
      /\ d \in Nat /\ v \in Nat /\ y + N = x + M + g
  BY <1>1, <1>2, <1>3, <1>4
<1> HIDE DEF M, N, D, S, x, y, d, v
<1>6. /\ Stake(r)' = Stake(r) - v /\ Funds(r)' = Funds(r) + g - d
      /\ Stake(r) \in Int /\ Funds(r) \in Int /\ d \in Nat /\ v \in Nat
  BY <1>5
<1>7. Worth(r) = Funds(r) + Stake(r) /\ Worth(r)' = Funds(r)' + Stake(r)'
  BY DEF Worth
<1>8. Worth(r)' = Worth(r) + g - d - v /\ Worth(r) \in Int
  BY <1>6, <1>7
<1> QED BY <1>6, <1>7, <1>8 DEF d, v

\* A sale.
LEMMA SoldStep ==
  ASSUME AInv, AInv', NEW i \in Items, NEW a, a = auctions[i], a \in Auctions, a # NoAuction,
         NEW o \in Players, o = a.owner, a.bidder # o, NEW q \in Players, q # o,
         NEW price \in Nat, price > 0, NEW cut \in 0..price,
         BookAt(auctions, auctions', i, NoAuction), bag' = bag, Secured,
         \A j, r : MailHas(row', j, r) <=> MailHas(row, j, r) \/ (j = i /\ r = q),
         Settled(a, o, q, price, cut)
  PROVE  OpenMarket!Next
<1>1. /\ Owner(i) = o /\ Owner(i)' = q
      /\ \A j \in Items \ {i} : Owner(j)' = Owner(j)
  BY ItemGiven
<1>2. ASSUME NEW r \in Players
      PROVE  /\ r = o => Funds(r)' = Funds(r) + price - cut /\ Stake(r)' = Stake(r)
             /\ r = q => Worth(r)' = Worth(r) - price
             /\ r \notin {o, q} => Worth(r)' = Worth(r)
             /\ Worth(r) \in Int /\ Funds(r) \in Int
  <2> DEFINE g == InBid(a, r) + InDeposit(a, r) + Pay(r, o, price - cut) - Pay(r, q, price)
             d == InDeposit(a, r)
             v == InBid(a, r)
             x == money[r] + MailedTo(row, r)
  <2>1. money'[r] + MailedTo(row', r) =
          money[r] + MailedTo(row, r) + InBid(a, r) + InDeposit(a, r)
            + Pay(r, o, price - cut) - Pay(r, q, price)
    BY DEF Settled
  <2>2. v \in Nat /\ d \in Nat /\ x \in Nat /\ (r = o => v = 0)
    <3>1. money[r] \in Nat /\ MailedTo(row, r) \in Nat
      BY Finances
    <3> QED BY <3>1 DEF InBid, InDeposit, Auctions
  <2>3. Pay(r, o, price - cut) = IF r = o THEN price - cut ELSE 0
    BY DEF Pay
  <2>4. Pay(r, q, price) = IF r = q THEN price ELSE 0
    BY DEF Pay
  <2>5. g \in Int /\ money'[r] + MailedTo(row', r) = x + g
    <3>1. Pay(r, o, price - cut) \in Int /\ Pay(r, q, price) \in Int
      BY <2>3, <2>4
    <3> DEFINE s == Pay(r, o, price - cut)
               t == Pay(r, q, price)
    <3>2. money'[r] + MailedTo(row', r) = x + v + d + s - t /\ g = v + d + s - t
      BY <2>1
    <3> HIDE DEF x, v, d, s, t, g
    <3>3. v + d + s - t \in Int /\ x + v + d + s - t = x + (v + d + s - t)
      BY <2>2, <3>1 DEF s, t
    <3> QED BY <3>2, <3>3
  <2> HIDE DEF g
  <2>6. money'[r] + MailedTo(row', r) = money[r] + MailedTo(row, r) + g
    BY <2>5
  <2> HIDE DEF d, v, x
  <2>7. /\ Stake(r)' = Stake(r) - InBid(a, r) /\ Funds(r)' = Funds(r) + g - InDeposit(a, r)
        /\ Worth(r)' = Worth(r) + g - InDeposit(a, r) - InBid(a, r)
        /\ Stake(r) \in Int /\ Funds(r) \in Int /\ Worth(r) \in Int
    BY <2>5, <2>6, BookCloses
  <2>8. g = v + d + (IF r = o THEN price - cut ELSE 0) - (IF r = q THEN price ELSE 0)
    BY <2>3, <2>4 DEF g, d, v
  <2>9. /\ Stake(r)' = Stake(r) - v /\ Funds(r)' = Funds(r) + g - d
        /\ Worth(r)' = Worth(r) + g - d - v
    BY <2>7 DEF d, v
  <2>10. r = o => Funds(r)' = Funds(r) + price - cut /\ Stake(r)' = Stake(r)
    BY <2>2, <2>7, <2>8, <2>9
  <2>11. r = q => Worth(r)' = Worth(r) - price
    BY <2>2, <2>7, <2>8, <2>9
  <2>12. r \notin {o, q} => Worth(r)' = Worth(r)
    BY <2>2, <2>7, <2>8, <2>9
  <2> QED BY <2>7, <2>10, <2>11, <2>12
<1>3. /\ Funds(o)' = Funds(o) + price - cut /\ Stake(o)' = Stake(o) /\ Funds(o) \in Int
      /\ Worth(q)' = Worth(q) - price /\ Worth(q) \in Int
  BY <1>2
<1>4. /\ Funds(o)' >= Funds(o) /\ Worth(q)' < Worth(q)
      /\ Funds(o)' - Funds(o) <= Worth(q) - Worth(q)'
  BY <1>3
<1>5. Keep({o, q})
  BY <1>2 DEF Keep
<1> QED BY <1>1, <1>3, <1>4, <1>5, SellMaps

\* An item nobody bought goes back; the deposit and cost are lost.
LEMMA UnsoldStep ==
  ASSUME AInv, AInv', NEW i \in Items, NEW a, a = auctions[i], a \in Auctions, a # NoAuction,
         NEW o \in Players, o = a.owner, a.bidder # o, NEW cost \in Nat,
         BookAt(auctions, auctions', i, NoAuction), bag' = bag, Secured,
         \A j, r : MailHas(row', j, r) <=> MailHas(row, j, r) \/ (j = i /\ r = o),
         \A r \in Players : money'[r] + MailedTo(row', r) =
                              money[r] + MailedTo(row, r) + InBid(a, r) - Pay(r, o, cost)
  PROVE  OpenMarket!Next
<1>1. /\ Owner(i) = o /\ Owner(i)' = o
      /\ \A j \in Items \ {i} : Owner(j)' = Owner(j)
  <2>1. PICK q : q = o
    OBVIOUS
  <2>2. \A j, r : MailHas(row', j, r) <=> MailHas(row, j, r) \/ (j = i /\ r = q)
    BY <2>1
  <2>3. /\ Owner(i) = a.owner /\ Owner(i)' = q
        /\ \A j \in Items \ {i} : Owner(j)' = Owner(j)
    BY <2>2, ItemGiven
  <2> QED BY <2>1, <2>3
<1>2. ASSUME NEW r \in Players
      PROVE  /\ r = o => Funds(r)' <= Funds(r) /\ Stake(r)' = Stake(r)
             /\ r # o => Worth(r)' = Worth(r)
  <2> DEFINE g == InBid(a, r) - Pay(r, o, cost)
             d == InDeposit(a, r)
             v == InBid(a, r)
             x == money[r] + MailedTo(row, r)
  <2>1. money'[r] + MailedTo(row', r) = money[r] + MailedTo(row, r) + InBid(a, r) - Pay(r, o, cost)
    OBVIOUS
  <2>2. v \in Nat /\ d \in Nat /\ x \in Nat /\ (r = o => v = 0) /\ (r # o => d = 0)
    <3>1. money[r] \in Nat /\ MailedTo(row, r) \in Nat
      BY Finances
    <3> QED BY <3>1 DEF InBid, InDeposit, Auctions
  <2>3. Pay(r, o, cost) = IF r = o THEN cost ELSE 0
    BY DEF Pay
  <2>4. g \in Int /\ money'[r] + MailedTo(row', r) = x + g
    <3> DEFINE t == Pay(r, o, cost)
    <3>1. t \in Int
      BY <2>3
    <3>2. money'[r] + MailedTo(row', r) = x + v - t /\ g = v - t
      BY <2>1
    <3> HIDE DEF x, v, t, g
    <3>3. v - t \in Int /\ x + v - t = x + (v - t)
      BY <2>2, <3>1
    <3> QED BY <3>2, <3>3
  <2> HIDE DEF g
  <2>5. money'[r] + MailedTo(row', r) = money[r] + MailedTo(row, r) + g
    BY <2>4
  <2> HIDE DEF d, v, x
  <2>6. /\ Stake(r)' = Stake(r) - InBid(a, r) /\ Funds(r)' = Funds(r) + g - InDeposit(a, r)
        /\ Worth(r)' = Worth(r) + g - InDeposit(a, r) - InBid(a, r)
        /\ Stake(r) \in Int /\ Funds(r) \in Int /\ Worth(r) \in Int
    BY <2>4, <2>5, BookCloses
  <2>7. g = v - (IF r = o THEN cost ELSE 0)
    BY <2>3 DEF g, v
  <2>8. /\ Stake(r)' = Stake(r) - v /\ Funds(r)' = Funds(r) + g - d
        /\ Worth(r)' = Worth(r) + g - d - v
    BY <2>6 DEF d, v
  <2>9. r = o => Funds(r)' <= Funds(r) /\ Stake(r)' = Stake(r)
    BY <2>2, <2>6, <2>7, <2>8
  <2>10. r # o => Worth(r)' = Worth(r)
    BY <2>2, <2>6, <2>7, <2>8
  <2> QED BY <2>9, <2>10
<1>3. Moves(o, NoBidder)
  BY <1>1 DEF Moves
<1>4. Keep({o})
  BY <1>2 DEF Keep
<1> QED BY <1>2, <1>3, <1>4, LoseMaps

\* An auction is over: fair it was, and fair it is.
LEMMA AuctionCloses ==
  ASSUME AInv, Fair, NEW i \in Items, SetAuction(i, NoAuction), NEW n, FairOffice(n), Post(n)
  PROVE  BookAt(auctions, auctions', i, NoAuction) /\ Fair'
<1>1. PICK a \in Auctions \cup {NoAuction} : a = NoAuction
  OBVIOUS
<1>2. SetAuction(i, a) /\ (a # NoAuction => a.bidder # a.owner)
  BY <1>1
<1>3. BookAt(auctions, auctions', i, a) /\ FairAuctions'
  BY <1>2, BookChanged
<1>4. FairRows(row') /\ FairEntries(m_mail')
  BY DEF FairOffice, Post
<1> QED BY <1>1, <1>3, <1>4 DEF Fair, FairOffice, Office

\* who has the item of an auction, and bids for it
LEMMA AuctionUp ==
  ASSUME AInv, Fair, NEW i \in Items, auctions[i] # NoAuction, NEW a, a = auctions[i]
  PROVE  /\ a \in Auctions /\ a # NoAuction /\ BidOK(a) /\ a.bidder # a.owner /\ a.owner \in Players
         /\ a.bid \in Nat /\ a.deposit \in Nat /\ a.buyout \in Nat
         /\ a.bidder \in Players \cup {NoBidder} /\ (a.bidder = NoBidder => a.bid = 0)
         /\ GetAuctionCut(a) \in 0..a.bid
<1>1. a \in Auctions /\ BidOK(a)
  BY Rest DEF AuctionsOK
<1>2. /\ a.owner \in Players /\ a.bid \in Nat /\ a.deposit \in Nat /\ a.buyout \in Nat
      /\ a.bidder \in Players \cup {NoBidder}
  BY <1>1 DEF Auctions
<1>3. a.bidder # a.owner
  BY DEF Fair, FairAuctions
<1>4. a.bidder = NoBidder => a.bid = 0
  BY <1>1 DEF BidOK
<1>5. GetAuctionCut(a) \in 0..a.bid
  BY <1>2, CutFits, AuctionAssumption DEF GetAuctionCut
<1> QED BY <1>1, <1>2, <1>3, <1>4, <1>5

\* The buyer pays the buyout, or what is missing if the highest bid is its own.
LEMMA BuyoutMarket ==
  ASSUME AInv, AInv', Fair, NEW p \in Players, NEW i \in Items, NEW price \in Nat,
         Buyout(p, i, price)
  PROVE  MarketStep
<1>1. PICK a : a = auctions[i]
  OBVIOUS
<1>2. PICK sold : sold = [a EXCEPT !.bidder = p, !.bid = a.buyout]
  OBVIOUS
<1>3. PICK refunded : refunded = Refund(Office, p, a)
  OBVIOUS
<1>4. PICK n : n = SendSold(refunded, i, sold)
  OBVIOUS
<1>5. /\ PursesOK /\ OfficeOK(Office, online) /\ FairOffice(Office) /\ Office.row = row
      /\ a # NoAuction /\ a.owner # p /\ IsBuyout(a, price) /\ Room(3)
      /\ money' = [money EXCEPT ![p] = @ - Price(p, a, a.buyout)] /\ Post(n)
      /\ SetAuction(i, NoAuction) /\ bag' = bag /\ SaveInventoryAndGold(p)
  BY <1>1, <1>2, <1>3, <1>4, Rest DEF Fair, Buyout, MayBid
<1>6. /\ a \in Auctions /\ BidOK(a) /\ a.bidder # a.owner /\ a.owner \in Players
      /\ a.bid \in Nat /\ a.deposit \in Nat /\ a.buyout \in Nat
      /\ (a.bidder = NoBidder => a.bid = 0)
  BY <1>1, <1>5, AuctionUp
<1>7. /\ sold \in Auctions /\ sold.bidder = p /\ sold.owner = a.owner /\ sold.bid = a.buyout
      /\ sold.deposit = a.deposit
  BY <1>2, <1>6 DEF Auctions
<1>8. a.buyout > 0 /\ GetAuctionCut(sold) \in 0..a.buyout
  <2>1. a.buyout > 0
    BY <1>5 DEF IsBuyout
  <2> QED BY <1>6, <1>7, <2>1, CutFits, AuctionAssumption DEF GetAuctionCut
<1>9. HasRoom(Office, 2 + 1) /\ 2 \in Nat
  BY <1>5, RoomOf
<1>10. OfficeOK(refunded, online) /\ HasRoom(refunded, 2) /\ FreeIds(Office) # {}
  BY <1>3, <1>5, <1>6, <1>9, RefundOK, RoomLeft
<1>11. FairOffice(refunded) /\ PaidTo(row, refunded.row, a.bidder, Returned(a, p))
  <2>1. PaidTo(Office.row, refunded.row, a.bidder, Returned(a, p)) /\ FairOffice(refunded)
    BY <1>3, <1>5, <1>6, <1>10, RefundMails
  <2> QED BY <1>5, <2>1
<1>12. PICK cut \in 0..a.buyout : cut = GetAuctionCut(sold)
  BY <1>8
<1>13. FairOffice(n) /\ \E R : PaidTo(refunded.row, R, a.owner, a.buyout + a.deposit - cut)
                               /\ GivenTo(R, n.row, p, i)
  <2>1. sold.bidder \in Players
    BY <1>7
  <2>2. FairOffice(n) /\ \E R : PaidTo(refunded.row, R, sold.owner, sold.bid + sold.deposit - GetAuctionCut(sold))
                                /\ GivenTo(R, n.row, sold.bidder, i)
    BY <1>4, <1>7, <1>10, <1>11, <2>1, SoldMails
  <2> QED BY <1>7, <1>12, <2>2
<1>14. BookAt(auctions, auctions', i, NoAuction) /\ Fair'
  BY <1>5, <1>13, AuctionCloses
<1>15. PICK R : PaidTo(refunded.row, R, a.owner, a.buyout + a.deposit - cut) /\ GivenTo(R, row', p, i)
  BY <1>5, <1>13 DEF Post
<1>16. \A j, r : MailHas(row', j, r) <=> MailHas(row, j, r) \/ (j = i /\ r = p)
  BY <1>11, <1>15 DEF PaidTo, GivenTo
<1>17. ASSUME NEW r \in Players
       PROVE  money'[r] + MailedTo(row', r) =
                money[r] + MailedTo(row, r) + InBid(a, r) + InDeposit(a, r)
                  + Pay(r, a.owner, a.buyout - cut) - Pay(r, p, a.buyout)
  <2>1. MailedTo(row', r) = MailedTo(row, r) + Pay(r, a.bidder, Returned(a, p))
                              + Pay(r, a.owner, a.buyout + a.deposit - cut)
    <3>1. MailedTo(row', r) = MailedTo(R, r)
      BY <1>15, Zenon DEF GivenTo
    <3>2. MailedTo(R, r) = MailedTo(refunded.row, r) + Pay(r, a.owner, a.buyout + a.deposit - cut)
      BY <1>15, Zenon DEF PaidTo
    <3>3. MailedTo(refunded.row, r) = MailedTo(row, r) + Pay(r, a.bidder, Returned(a, p))
      BY <1>11, Zenon DEF PaidTo
    <3> QED BY <3>1, <3>2, <3>3
  <2>2. money'[r] = IF r = p THEN money[r] - Price(p, a, a.buyout) ELSE money[r]
    BY <1>5 DEF PursesOK
  <2>3. /\ Pay(r, a.bidder, Returned(a, p)) = IF r = a.bidder /\ r # p THEN a.bid ELSE 0
        /\ Price(p, a, a.buyout) = IF a.bidder = p THEN a.buyout - a.bid ELSE a.buyout
        /\ Pay(r, a.owner, a.buyout - cut) = IF r = a.owner THEN a.buyout - cut ELSE 0
        /\ Pay(r, p, a.buyout) = IF r = p THEN a.buyout ELSE 0
        /\ Pay(r, a.owner, a.buyout + a.deposit - cut) =
             IF r = a.owner THEN a.buyout + a.deposit - cut ELSE 0
    BY <1>6 DEF Pay, Returned, Price
  <2>4. /\ InBid(a, r) = IF r = a.bidder THEN a.bid ELSE 0
        /\ InDeposit(a, r) = IF r = a.owner THEN a.deposit ELSE 0
    BY <1>5 DEF InBid, InDeposit
  <2>5. money[r] \in Nat /\ MailedTo(row, r) \in Nat
    BY Finances
  <2> DEFINE x == money[r]
             M == MailedTo(row, r)
             v == a.bid
             d == a.deposit
             k == a.buyout
  <2>6. /\ x \in Nat /\ M \in Nat /\ v \in Nat /\ d \in Nat /\ k \in Nat /\ cut \in 0..k
        /\ money'[r] + MailedTo(row', r) =
             (IF r = p THEN x - (IF a.bidder = p THEN k - v ELSE k) ELSE x)
               + (M + (IF r = a.bidder /\ r # p THEN v ELSE 0)
                    + (IF r = a.owner THEN k + d - cut ELSE 0))
        /\ x + M + InBid(a, r) + InDeposit(a, r) + Pay(r, a.owner, k - cut) - Pay(r, p, k) =
             x + M + (IF r = a.bidder THEN v ELSE 0) + (IF r = a.owner THEN d ELSE 0)
               + (IF r = a.owner THEN k - cut ELSE 0) - (IF r = p THEN k ELSE 0)
    BY <1>6, <2>1, <2>2, <2>3, <2>4, <2>5
  <2>7. a.owner # p /\ a.bidder # a.owner
    BY <1>5, <1>6
  <2> HIDE DEF x, M, v, d, k
  <2>8. money'[r] + MailedTo(row', r) =
          x + M + InBid(a, r) + InDeposit(a, r) + Pay(r, a.owner, k - cut) - Pay(r, p, k)
    <3>1. CASE r = p /\ a.bidder = p
      BY <2>6, <2>7, <3>1
    <3>2. CASE r = p /\ a.bidder # p
      BY <2>6, <2>7, <3>2
    <3>3. CASE r # p /\ r = a.bidder
      BY <2>6, <2>7, <3>3
    <3>4. CASE r # p /\ r # a.bidder /\ r = a.owner
      BY <2>6, <2>7, <3>4
    <3>5. CASE r \notin {p, a.bidder, a.owner}
      BY <2>6, <2>7, <3>5
    <3> QED BY <3>1, <3>2, <3>3, <3>4, <3>5
  <2> QED BY <2>8 DEF x, M, k
<1>18. PICK o \in Players : o = a.owner
  BY <1>6
<1>19. Settled(a, o, p, a.buyout, cut)
  BY <1>17, <1>18 DEF Settled
<1>20. Secured
  BY <1>5, SavedSecured
<1>21. OpenMarket!Next
  BY <1>1, <1>5, <1>6, <1>8, <1>14, <1>16, <1>18, <1>19, <1>20, SoldStep
<1> QED BY <1>14, <1>21 DEF MarketStep

\* The owner takes its item back, and pays the cut of a bid.
LEMMA RemoveItemMarket ==
  ASSUME AInv, AInv', Fair, NEW p \in Players, NEW i \in Items, RemoveItem(p, i)
  PROVE  MarketStep
<1>1. PICK a : a = auctions[i]
  OBVIOUS
<1>2. PICK cut : cut = IF a.bidder = NoBidder THEN 0 ELSE GetAuctionCut(a)
  OBVIOUS
<1>3. PICK refunded : refunded = Refund(Office, NoBidder, a)
  OBVIOUS
<1>4. PICK n : n = SendMailTo(refunded, HouseMail(a.owner, {i}, 0))
  OBVIOUS
<1>5. /\ PursesOK /\ OfficeOK(Office, online) /\ FairOffice(Office) /\ Office.row = row
      /\ a # NoAuction /\ a.owner = p /\ Room(2) /\ money' = [money EXCEPT ![p] = @ - cut]
      /\ SetAuction(i, NoAuction) /\ bag' = bag /\ SaveInventoryAndGold(p)
  BY <1>1, <1>2, Rest DEF Fair, RemoveItem
<1>6. Post(n)
  <2>1. refunded = IF a.bidder = NoBidder THEN Office ELSE SendOutbidMail(Office, a)
    BY <1>3 DEF Refund
  <2>2. n = SendExpiredMail(refunded, i, a)
    BY <1>4 DEF SendExpiredMail
  <2> QED BY <1>1, <2>1, <2>2 DEF RemoveItem
<1>7. /\ a \in Auctions /\ BidOK(a) /\ a.bidder # a.owner /\ a.bid \in Nat
      /\ (a.bidder = NoBidder => a.bid = 0) /\ GetAuctionCut(a) \in 0..a.bid
  BY <1>1, <1>5, AuctionUp
<1>8. cut \in Nat
  BY <1>2, <1>7
<1>9. HasRoom(Office, 1 + 1) /\ 1 \in Nat
  BY <1>5, RoomOf
<1>10. OfficeOK(refunded, online) /\ HasRoom(refunded, 1) /\ FreeIds(Office) # {}
  <2>1. OfficeOK(refunded, online) /\ HasRoom(refunded, 1)
    BY <1>3, <1>5, <1>7, <1>9, RefundOK
  <2> QED BY <1>9, <2>1, RoomLeft
<1>11. FreeIds(refunded) # {}
  <2>1. HasRoom(refunded, 0 + 1) /\ 0 \in Nat
    BY <1>10
  <2> QED BY <2>1, RoomLeft
<1>12. FairOffice(refunded) /\ PaidTo(row, refunded.row, a.bidder, Returned(a, NoBidder))
  <2>1. FairOffice(refunded) /\ PaidTo(Office.row, refunded.row, a.bidder, Returned(a, NoBidder))
    BY <1>3, <1>5, <1>7, <1>10, RefundMails
  <2> QED BY <1>5, <2>1
<1>13. FairOffice(n) /\ GivenTo(refunded.row, row', p, i)
  <2>1. n = SendMailTo(refunded, HouseMail(p, {i}, 0))
    BY <1>4, <1>5
  <2>2. FairOffice(n) /\ GivenTo(refunded.row, n.row, p, i)
    BY <1>10, <1>11, <1>12, <2>1, GivenMails
  <2> QED BY <1>6, <2>2 DEF Post
<1>14. BookAt(auctions, auctions', i, NoAuction) /\ Fair'
  BY <1>5, <1>6, <1>13, AuctionCloses
<1>15. \A j, r : MailHas(row', j, r) <=> MailHas(row, j, r) \/ (j = i /\ r = p)
  BY <1>12, <1>13 DEF PaidTo, GivenTo
<1>16. ASSUME NEW r \in Players
       PROVE  money'[r] + MailedTo(row', r) =
                money[r] + MailedTo(row, r) + InBid(a, r) - Pay(r, p, cut)
  <2>1. MailedTo(row', r) = MailedTo(row, r) + Pay(r, a.bidder, Returned(a, NoBidder))
    <3>1. MailedTo(row', r) = MailedTo(refunded.row, r)
      BY <1>13, Zenon DEF GivenTo
    <3>2. MailedTo(refunded.row, r) = MailedTo(row, r) + Pay(r, a.bidder, Returned(a, NoBidder))
      BY <1>12, Zenon DEF PaidTo
    <3> QED BY <3>1, <3>2
  <2>2. money'[r] = money[r] - Pay(r, p, cut)
    <3>1. money[r] \in Nat
      BY Finances
    <3>2. money'[r] = IF r = p THEN money[r] - cut ELSE money[r]
      BY <1>5 DEF PursesOK
    <3> QED BY <3>1, <3>2 DEF Pay
  <2>3. Pay(r, a.bidder, Returned(a, NoBidder)) = InBid(a, r)
    BY <1>5, <1>7, AuctionAssumption DEF Pay, Returned, InBid
  <2>4. /\ money[r] \in Nat /\ MailedTo(row, r) \in Nat /\ InBid(a, r) \in Nat
        /\ Pay(r, p, cut) \in Nat
    <3>1. money[r] \in Nat /\ MailedTo(row, r) \in Nat
      BY Finances
    <3> QED BY <1>7, <1>8, <3>1 DEF InBid, Pay
  <2> DEFINE x == money[r]
             M == MailedTo(row, r)
             v == InBid(a, r)
             k == Pay(r, p, cut)
  <2>5. /\ money'[r] + MailedTo(row', r) = (x - k) + (M + v)
        /\ x \in Nat /\ M \in Nat /\ v \in Nat /\ k \in Nat
    BY <2>1, <2>2, <2>3, <2>4
  <2> HIDE DEF x, M, v, k
  <2>6. money'[r] + MailedTo(row', r) = x + M + v - k
    BY <2>5
  <2> QED BY <2>6 DEF x, M, v, k
<1>17. Secured
  BY <1>5, SavedSecured
<1>18. OpenMarket!Next
  BY <1>1, <1>5, <1>7, <1>8, <1>14, <1>15, <1>16, <1>17, UnsoldStep
<1> QED BY <1>14, <1>18 DEF MarketStep

\* Nobody bid: the item goes back, the deposit is lost.
LEMMA ExpiredMarket ==
  ASSUME AInv, AInv', Fair, NEW i \in Items, EndAuction(i), auctions[i].bidder = NoBidder
  PROVE  MarketStep
<1>1. PICK a : a = auctions[i]
  OBVIOUS
<1>2. PICK n : n = SendMailTo(Office, HouseMail(a.owner, {i}, 0))
  OBVIOUS
<1>3. /\ OfficeOK(Office, online) /\ FairOffice(Office) /\ Office.row = row /\ Post(n)
      /\ a # NoAuction /\ Room(2) /\ SetAuction(i, NoAuction) /\ bag' = bag /\ money' = money
      /\ unsaved' = unsaved
  BY <1>1, <1>2, Rest DEF Fair, EndAuction, SendExpiredMail
<1>4. /\ a \in Auctions /\ a.bidder # a.owner /\ a.owner \in Players /\ a.bid = 0
  BY <1>1, <1>3, AuctionUp
<1>5. FreeIds(Office) # {}
  <2>1. HasRoom(Office, 1 + 1) /\ 1 \in Nat
    BY <1>3, RoomOf
  <2> QED BY <2>1, RoomLeft
<1>6. PICK o \in Players : o = a.owner
  BY <1>4
<1>7. FairOffice(n) /\ GivenTo(row, row', o, i)
  <2>1. n = SendMailTo(Office, HouseMail(o, {i}, 0))
    BY <1>2, <1>6
  <2>2. FairOffice(n) /\ GivenTo(Office.row, n.row, o, i)
    BY <1>3, <1>5, <2>1, GivenMails
  <2> QED BY <1>3, <2>2 DEF Post
<1>8. BookAt(auctions, auctions', i, NoAuction) /\ Fair'
  BY <1>3, <1>7, AuctionCloses
<1>9. \A j, r : MailHas(row', j, r) <=> MailHas(row, j, r) \/ (j = i /\ r = o)
  BY <1>7 DEF GivenTo
<1>10. ASSUME NEW r \in Players
       PROVE  money'[r] + MailedTo(row', r) =
                money[r] + MailedTo(row, r) + InBid(a, r) - Pay(r, o, 0)
  <2>1. MailedTo(row', r) = MailedTo(row, r)
    BY <1>7, Zenon DEF GivenTo
  <2>2. InBid(a, r) = 0 /\ Pay(r, o, 0) = 0
    BY <1>4 DEF InBid, Pay
  <2>3. money[r] \in Nat /\ MailedTo(row, r) \in Nat
    BY Finances
  <2>4. money'[r] + MailedTo(row', r) = money[r] + MailedTo(row, r)
    BY <1>3, <2>1
  <2>5. money[r] + MailedTo(row, r) + 0 - 0 = money[r] + MailedTo(row, r)
    BY <2>3
  <2> QED BY <2>2, <2>4, <2>5
<1>11. Secured /\ a.bidder # o
  BY <1>3, <1>4, <1>6 DEF Secured
<1>12. OpenMarket!Next
  BY <1>1, <1>3, <1>4, <1>6, <1>8, <1>9, <1>10, <1>11, UnsoldStep
<1> QED BY <1>8, <1>12 DEF MarketStep

\* The highest bid buys the item.
LEMMA SoldMarket ==
  ASSUME AInv, AInv', Fair, NEW i \in Items, EndAuction(i), auctions[i].bidder # NoBidder
  PROVE  MarketStep
<1>1. PICK a : a = auctions[i]
  OBVIOUS
<1>2. PICK n : n = SendSold(Office, i, a)
  OBVIOUS
<1>3. /\ OfficeOK(Office, online) /\ FairOffice(Office) /\ Office.row = row /\ Post(n)
      /\ a # NoAuction /\ Room(2) /\ SetAuction(i, NoAuction) /\ bag' = bag /\ money' = money
      /\ unsaved' = unsaved
  BY <1>1, <1>2, Rest DEF Fair, EndAuction
<1>4. /\ a \in Auctions /\ BidOK(a) /\ a.bidder # a.owner /\ a.owner \in Players
      /\ a.bidder \in Players /\ a.bid \in Nat /\ a.deposit \in Nat
      /\ GetAuctionCut(a) \in 0..a.bid
  BY <1>1, <1>3, AuctionUp
<1>5. a.bid > 0
  BY <1>1, <1>4 DEF BidOK
<1>6. PICK cut \in 0..a.bid : cut = GetAuctionCut(a)
  BY <1>4
<1>7. PICK o \in Players : o = a.owner
  BY <1>4
<1>8. PICK q \in Players : q = a.bidder
  BY <1>4
<1>9. HasRoom(Office, 2)
  BY <1>3, RoomOf
<1>10. FairOffice(n) /\ \E R : PaidTo(row, R, o, a.bid + a.deposit - cut) /\ GivenTo(R, n.row, q, i)
  <2>1. FairOffice(n) /\ \E R : PaidTo(Office.row, R, a.owner, a.bid + a.deposit - GetAuctionCut(a))
                                /\ GivenTo(R, n.row, a.bidder, i)
    BY <1>2, <1>3, <1>4, <1>9, SoldMails
  <2> QED BY <1>3, <1>6, <1>7, <1>8, <2>1
<1>11. BookAt(auctions, auctions', i, NoAuction) /\ Fair'
  BY <1>3, <1>10, AuctionCloses
<1>12. PICK R : PaidTo(row, R, o, a.bid + a.deposit - cut) /\ GivenTo(R, row', q, i)
  BY <1>3, <1>10 DEF Post
<1>13. \A j, r : MailHas(row', j, r) <=> MailHas(row, j, r) \/ (j = i /\ r = q)
  BY <1>12 DEF PaidTo, GivenTo
<1>14. ASSUME NEW r \in Players
       PROVE  money'[r] + MailedTo(row', r) =
                money[r] + MailedTo(row, r) + InBid(a, r) + InDeposit(a, r)
                  + Pay(r, o, a.bid - cut) - Pay(r, q, a.bid)
  <2>1. MailedTo(row', r) = MailedTo(row, r) + Pay(r, o, a.bid + a.deposit - cut)
    <3>1. MailedTo(row', r) = MailedTo(R, r)
      BY <1>12, Zenon DEF GivenTo
    <3>2. MailedTo(R, r) = MailedTo(row, r) + Pay(r, o, a.bid + a.deposit - cut)
      BY <1>12, Zenon DEF PaidTo
    <3> QED BY <3>1, <3>2
  <2>2. /\ Pay(r, o, a.bid + a.deposit - cut) = IF r = o THEN a.bid + a.deposit - cut ELSE 0
        /\ Pay(r, o, a.bid - cut) = IF r = o THEN a.bid - cut ELSE 0
        /\ Pay(r, q, a.bid) = IF r = q THEN a.bid ELSE 0
    BY DEF Pay
  <2>3. /\ InBid(a, r) = IF r = q THEN a.bid ELSE 0
        /\ InDeposit(a, r) = IF r = o THEN a.deposit ELSE 0
    BY <1>3, <1>7, <1>8 DEF InBid, InDeposit
  <2>4. money[r] \in Nat /\ MailedTo(row, r) \in Nat
    BY Finances
  <2> DEFINE x == money[r]
             M == MailedTo(row, r)
             v == a.bid
             d == a.deposit
  <2>5. /\ x \in Nat /\ M \in Nat /\ v \in Nat /\ d \in Nat /\ cut \in 0..v
        /\ money'[r] + MailedTo(row', r) = x + (M + (IF r = o THEN v + d - cut ELSE 0))
        /\ x + M + InBid(a, r) + InDeposit(a, r) + Pay(r, o, v - cut) - Pay(r, q, v) =
             x + M + (IF r = q THEN v ELSE 0) + (IF r = o THEN d ELSE 0)
               + (IF r = o THEN v - cut ELSE 0) - (IF r = q THEN v ELSE 0)
    BY <1>3, <1>4, <2>1, <2>2, <2>3, <2>4
  <2>6. o # q
    BY <1>4, <1>7, <1>8
  <2> HIDE DEF x, M, v, d
  <2>7. money'[r] + MailedTo(row', r) =
          x + M + InBid(a, r) + InDeposit(a, r) + Pay(r, o, v - cut) - Pay(r, q, v)
    BY <2>5, <2>6
  <2> QED BY <2>7 DEF x, M, v
<1>15. Settled(a, o, q, a.bid, cut)
  BY <1>14 DEF Settled
<1>16. Secured /\ q # o /\ a.bidder # o
  BY <1>3, <1>4, <1>7, <1>8 DEF Secured
<1>17. OpenMarket!Next
  BY <1>1, <1>3, <1>4, <1>5, <1>7, <1>11, <1>13, <1>15, <1>16, SoldStep
<1> QED BY <1>11, <1>17 DEF MarketStep

LEMMA StillMarket ==
  ASSUME AInv, AInv', Fair, UNCHANGED vars
  PROVE  MarketStep
<1>1. bag' = bag /\ money' = money /\ m_mail' = m_mail /\ row' = row /\ unsaved' = unsaved
      /\ auctions' = auctions
  BY DEF vars, mailVars
<1>2. Fair'
  BY <1>1 DEF Fair, FairOffice, FairAuctions, Office
<1>3. ASSUME NEW i \in Items PROVE Owner(i)' = Owner(i)
  BY <1>1, OwnerStays DEF Has
<1>4. ASSUME NEW p \in Players PROVE Funds(p)' = Funds(p) /\ Stake(p)' = Stake(p)
  BY <1>1, Finances
<1> QED BY <1>1, <1>2, <1>3, <1>4, StillMaps DEF MarketStep

LEMMA MailMarket ==
  ASSUME AInv, AInv', Fair, ~MayExpireLoaded, MailNext, auctions' = auctions
  PROVE  MarketStep
<1>1. ASSUME NEW p \in Players, NEW q \in Players, NEW gold \in Amounts \cup {0},
             NEW cod \in Amounts \cup {0}, NEW S \in {{}} \cup {{i} : i \in Items},
             SendMail(p, q, S, gold, cod)
      PROVE  MarketStep
  <2>1. gold \in Nat /\ cod \in Nat
    BY MailAssumption
  <2> QED BY <1>1, <2>1, SendMailMarket
<1>2. ASSUME NEW p \in Players, NEW id \in MailIds, MarkAsRead(p, id) \/ Delete(p, id)
      PROVE  MarketStep
  BY <1>2, EntryMarket
<1>3. ASSUME NEW p \in Players, NEW id \in MailIds, ReturnToSender(p, id) PROVE MarketStep
  BY <1>3, ReturnToSenderMarket
<1>4. ASSUME NEW p \in Players, NEW id \in MailIds, TakeMoney(p, id) PROVE MarketStep
  BY <1>4, TakeMoneyMarket
<1>5. ASSUME NEW p \in Players, NEW id \in MailIds, NEW i \in Items, TakeItem(p, id, i)
      PROVE  MarketStep
  BY <1>5, TakeItemMarket
<1>6. ASSUME NEW p \in Players, Save(p) \/ Logout(p) \/ Login(p) PROVE MarketStep
  BY <1>6, SaveMarket, LogoutMarket, LoginMarket
<1>7. ASSUME NEW id \in MailIds, ReturnOrDeleteOldMail(id) PROVE MarketStep
  BY <1>7, ReturnOrDeleteMarket
<1> QED BY <1>1, <1>2, <1>3, <1>4, <1>5, <1>6, <1>7 DEF MailNext

LEMMA StepMarket ==
  ASSUME AInv, AInv', Fair, ~MayExpireLoaded, [Next]_vars
  PROVE  MarketStep
<1>1. CASE MailNext /\ UNCHANGED <<auctions, savedAuctions>>
  BY <1>1, MailMarket
<1>2. ASSUME NEW p \in Players, NEW i \in Items, NEW startbid \in Bids, NEW buyout \in Bids \cup {0},
             SellItem(p, i, startbid, buyout)
      PROVE  MarketStep
  <2>1. startbid \in Nat /\ buyout \in Nat
    BY AuctionAssumption
  <2> QED BY <1>2, <2>1, SellItemMarket
<1>3. ASSUME NEW p \in Players, NEW i \in Items, NEW price \in Bids,
             PlaceBid(p, i, price) \/ Buyout(p, i, price)
      PROVE  MarketStep
  <2>1. price \in Nat
    BY AuctionAssumption
  <2> QED BY <1>3, <2>1, PlaceBidMarket, BuyoutMarket
<1>4. ASSUME NEW p \in Players, NEW i \in Items, RemoveItem(p, i) PROVE MarketStep
  BY <1>4, RemoveItemMarket
<1>5. ASSUME NEW i \in Items, EndAuction(i) PROVE MarketStep
  BY <1>5, ExpiredMarket, SoldMarket
<1>6. CASE CrashAndRestart
  BY <1>6, CrashMarket
<1>7. CASE UNCHANGED vars
  BY <1>7, StillMarket
<1> QED BY <1>1, <1>2, <1>3, <1>4, <1>5, <1>6, <1>7 DEF Next

\* At the start there is no mail, no bid and no deposit.
LEMMA MarketInit ==
  ASSUME Init
  PROVE  Fair /\ OpenMarket!Init
<1>1. /\ AInv /\ bag = StartBag /\ money = StartMoney /\ row = [id \in MailIds |-> NoMail]
      /\ m_mail = [p \in Players |-> [id \in MailIds |-> NoMail]]
      /\ unsaved = [p \in Players |-> 0] /\ auctions = [i \in Items |-> NoAuction]
  BY InitOK DEF Init, MailInit, EmptyBox
<1>2. Fair
  BY <1>1 DEF Fair, FairOffice, FairRows, FairEntries, FairAuctions, Office
<1>3. ASSUME NEW p PROVE MailedTo(row, p) = 0 /\ DepositsOf(auctions, p) = 0 /\ StakeOf(auctions, p) = 0
  <2>1. InMails(row, p) = [id \in MailIds |-> 0]
    BY <1>1 DEF InMails, InMailTo
  <2>2. InDeposits(auctions, p) = [i \in Items |-> 0] /\ InBids(auctions, p) = [i \in Items |-> 0]
    BY <1>1 DEF InDeposits, InBids, InDeposit, InBid
  <2> QED BY <2>1, <2>2, TotalNothing DEF MailedTo, DepositsOf, StakeOf
<1>4. ASSUME NEW p \in Players PROVE Stake(p) = 0 /\ unsaved[p] = 0 /\ Funds(p) >= 0
  <2>1. Mailed(p) = 0 /\ Deposits(p) = 0 /\ Stake(p) = 0
    BY <1>1, <1>3, Rest, SumsNow DEF SumsRight
  <2>2. money[p] \in Nat
    BY <1>1, MailAssumption
  <2> QED BY <1>1, <2>1, <2>2 DEF Funds
<1>5. ASSUME NEW i \in Items PROVE Owner(i) \in Players \cup {NoBidder}
  <2>1. auctions[i] = NoAuction /\ InMail(i) = {}
    BY <1>1 DEF InMail
  <2>2. CASE CarriedBy(i) = {}
    BY <2>1, <2>2 DEF Owner
  <2>3. CASE CarriedBy(i) # {}
    BY <2>1, <2>3 DEF Owner, CarriedBy
  <2> QED BY <2>2, <2>3
<1>6. [i \in Items |-> Owner(i)] \in [Items -> Players \cup {NoBidder}]
  BY <1>5
<1>7. ASSUME NEW p \in Players
      PROVE  /\ [x \in Players |-> Stake(x)][p] = 0 /\ unsaved[p] = 0
             /\ [x \in Players |-> money[x] + Mailed(x) + Deposits(x)][p] >= 0
  BY <1>4, MarketState
<1> QED BY <1>2, <1>6, <1>7 DEF OpenMarket!Init

\* Mail and auctions keep what Market promises, whoever sends, buys, bids, cancels or
\* crashes: every item has one owner at most, goods change hands as gifts or against
\* payment, bids come back unless they buy something, who takes no part in a step loses
\* nothing, and a crash gives back deposits at the most.
THEOREM MarketKept == ASSUME ~MayExpireLoaded PROVE Spec => MarketSpec
<1>1. Init => AInv /\ Fair /\ OpenMarket!Init
  BY InitOK, MarketInit
<1>2. AInv /\ Fair /\ [Next]_vars => (AInv /\ Fair)' /\ [OpenMarket!Next]_(OpenMarket!vars)
  <2> SUFFICES ASSUME AInv, Fair, [Next]_vars
               PROVE  (AInv /\ Fair)' /\ [OpenMarket!Next]_(OpenMarket!vars)
    OBVIOUS
  <2>1. AInv'
    BY StepOK
  <2> QED BY <2>1, StepMarket DEF MarketStep
<1> QED BY <1>1, <1>2, PTL DEF Spec, MarketSpec, OpenMarket!Spec
=============================================================================
