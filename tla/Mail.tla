--------------------------------- MODULE Mail ---------------------------------
(***************************************************************************)
(* Mail between players: the handlers of MailHandler.cpp, MailDraft, the   *)
(* daily ObjectMgr::ReturnOrDeleteOldMails, and the inventories and purses *)
(* they work on.  The mailbox of a player in the world is a copy of rows   *)
(* of the table mail: handlers change the copy, and _SaveMail writes it    *)
(* back.  Every handler is PROCESS_THREADUNSAFE and one step.              *)
(*                                                                         *)
(* A mail is what is attached to it: one without items and money (a letter,*)
(* a notice, a mail that was emptied) is left out.  Delivery delays, which *)
(* only keep a mail from being opened, and full inventories, which only    *)
(* refuse an item, are left out too.                                       *)
(***************************************************************************)
EXTENDS Integers, FiniteSets

CONSTANTS
  Players,
  Items,             \* item guids
  StartBag,          \* StartBag[p]: what p carries at the start
  StartMoney,        \* StartMoney[p]
  MaxMoney,          \* MAX_MONEY_AMOUNT
  Senders,           \* bound: who sends mail
  Postage,           \* what a mail costs
  Amounts,           \* the amounts of money sent or asked for
  MailIds,           \* bound: the mails there are at a time
  MayExpireLoaded,   \* whether the mail of a player in the world may expire
  House,             \* the sender of the auction house's mails
  NoMail             \* no row, or no entry in a mailbox

ASSUME MailAssumption ==
  /\ StartBag \in [Players -> SUBSET Items]
  /\ \A p, q \in Players : p # q => StartBag[p] \cap StartBag[q] = {}
  /\ MaxMoney \in Nat /\ StartMoney \in [Players -> 0..MaxMoney]
  /\ Postage \in Nat /\ Amounts \subseteq Nat \ {0}
  /\ IsFiniteSet(MailIds) /\ IsFiniteSet(Items)
  /\ MayExpireLoaded \in BOOLEAN /\ House \notin Players /\ Senders \subseteq Players

VARIABLES
  online,    \* players in the world
  bag,       \* bag[p]: the items of p
  money,     \* PLAYER_FIELD_COINAGE
  m_mail,    \* m_mail[p][id]: the mailbox of p while it is in the world
  row,       \* row[id]: the tables mail and mail_items
  saved,     \* saved[p]: bag and money of p in the database
  unsaved    \* history: charges not in the database yet

mailVars == <<online, bag, money, m_mail, row, saved, unsaved>>

\* final: MAIL_CHECK_MASK_COD_PAYMENT or MAIL_CHECK_MASK_RETURNED
Mails ==
  [type : {"normal", "auction"}, sender : Players \cup {House}, receiver : Players,
   items : SUBSET Items, money : Nat, COD : Nat, final : BOOLEAN]
Entries == [mail : Mails, state : {"unchanged", "changed", "deleted"}]

ASSUME NoMailAssumption == NoMail \notin Mails /\ NoMail \notin Entries

NormalMail(p, q, S, gold, cod, final) ==
  [type |-> "normal", sender |-> p, receiver |-> q, items |-> S, money |-> gold,
   COD |-> cod, final |-> final]

-----------------------------------------------------------------------------
(* A post office is what the handlers of mail change: both copies.          *)

Office == [row |-> row, box |-> m_mail]
Post(po) == row' = po.row /\ m_mail' = po.box

FreeIds(po) == {id \in MailIds : po.row[id] = NoMail /\ \A p \in Players : po.box[p][id] = NoMail}
GenerateMailID(po) == CHOOSE id \in FreeIds(po) : TRUE   \* an id no other mail has

Attached(mail) == mail.items # {} \/ mail.money > 0
Kept(mail) == IF Attached(mail) THEN mail ELSE NoMail

\* MailDraft::SendMailTo: into the table, and into the mailbox of a receiver
\* who is in the world
Insert(po, id, mail) ==
  [row |-> [po.row EXCEPT ![id] = mail],
   box |-> IF mail.receiver \in online
           THEN [po.box EXCEPT ![mail.receiver][id] = [mail |-> mail, state |-> "unchanged"]]
           ELSE po.box]
SendMailTo(po, mail) ==
  IF Attached(mail) THEN Insert(po, GenerateMailID(po), mail) ELSE po

\* Player::RemoveMail and CHAR_DEL_MAIL_BY_ID
RemoveMailFromBox(po, p, id) == [po EXCEPT !.box[p][id] = NoMail]
RemoveMail(po, p, id) ==
  [row |-> [po.row EXCEPT ![id] = NoMail], box |-> [po.box EXCEPT ![p][id] = NoMail]]

\* a handler leaves the mail m in the mailbox
Change(po, p, id, m) == [po EXCEPT !.box[p][id] = [mail |-> m, state |-> "changed"]]

\* Player::_SaveMail: changed mails are written, deleted ones go with their items
SaveRow(r, e) ==
  IF e = NoMail THEN r
  ELSE CASE e.state = "deleted" -> NoMail
         [] e.state = "changed" /\ r # NoMail ->
              Kept([r EXCEPT !.items = e.mail.items, !.money = e.mail.money,
                             !.COD = e.mail.COD, !.final = e.mail.final])
         [] OTHER -> r
SaveEntry(e) ==
  IF e = NoMail THEN NoMail
  ELSE IF e.state = "deleted" \/ ~Attached(e.mail) THEN NoMail
  ELSE [e EXCEPT !.state = "unchanged"]
SaveMail(po, p) ==
  [row |-> [id \in MailIds |-> SaveRow(po.row[id], po.box[p][id])],
   box |-> [po.box EXCEPT ![p] = [id \in MailIds |-> SaveEntry(@[id])]]]

\* Player::_LoadMail
LoadMail(p) ==
  [id \in MailIds |->
     IF row[id] = NoMail THEN NoMail
     ELSE IF row[id].receiver = p THEN [mail |-> row[id], state |-> "unchanged"]
     ELSE NoMail]

\* Player::SaveInventoryAndGoldToDB, Player::SaveGoldToDB
SaveInventoryAndGold(p) ==
  /\ saved' = [saved EXCEPT ![p] = [bag |-> bag'[p], money |-> money'[p]]]
  /\ unsaved' = [unsaved EXCEPT ![p] = 0]
SaveGoldLater(p) == UNCHANGED <<saved, unsaved>>
SaveGold(p) ==
  /\ saved' = [saved EXCEPT ![p].money = money'[p]]
  /\ unsaved' = [unsaved EXCEPT ![p] = 0]

\* Player::ModifyMoney refuses what would not fit the purse
Fits(p, amount) == money[p] < MaxMoney - amount

HasAlmostEnoughMoney(p, amount) == money[p] + 1 >= amount
HasEnoughMoney(p, amount) == money[p] >= amount

Readable(p, id) == m_mail[p][id] # NoMail /\ m_mail[p][id].state # "deleted"

-----------------------------------------------------------------------------
(* The handlers.                                                            *)

\* HandleSendMail; the client asks for payment only with an item, and sends no
\* money with it
SendMail(p, q, S, gold, cod) ==
  /\ p \in online \cap Senders /\ q # p /\ S \subseteq bag[p]
  /\ S # {} \/ gold > 0
  /\ cod > 0 => S # {} /\ gold = 0
  /\ HasEnoughMoney(p, Postage + gold)
  /\ FreeIds(Office) # {}
  /\ bag' = [bag EXCEPT ![p] = @ \ S]
  /\ money' = [money EXCEPT ![p] = @ - (Postage + gold)]
  /\ Post(SendMailTo(Office, NormalMail(p, q, S, gold, cod, FALSE)))
  /\ SaveInventoryAndGold(p)
  /\ UNCHANGED online

\* HandleMailMarkAsRead; the mail whose state it changes is one that was deleted
MarkAsRead(p, id) ==
  /\ p \in online /\ m_mail[p][id] # NoMail /\ m_mail[p][id].state = "deleted"
  /\ m_mail' = [m_mail EXCEPT ![p][id].state = "changed"]
  /\ UNCHANGED <<online, bag, money, row, saved, unsaved>>

Delete(p, id) ==
  /\ p \in online /\ m_mail[p][id] # NoMail /\ m_mail[p][id].mail.COD = 0
  /\ m_mail' = [m_mail EXCEPT ![p][id].state = "deleted"]
  /\ UNCHANGED <<online, bag, money, row, saved, unsaved>>

\* HandleMailReturnToSender: the payment asked for is forgotten; a mail that no
\* player sent is destroyed
ReturnToSender(p, id) ==
  LET m == m_mail[p][id].mail
      removed == RemoveMail(Office, p, id)
  IN  /\ p \in online /\ Readable(p, id)
      /\ Post(IF m.type = "normal"
              THEN SendMailTo(removed, NormalMail(m.receiver, m.sender, m.items, m.money, 0, TRUE))
              ELSE removed)
      /\ UNCHANGED <<online, bag, money, saved, unsaved>>

\* HandleMailTakeItem: cash on delivery is paid by a mail to the sender
TakeItem(p, id, i) ==
  LET m == m_mail[p][id].mail
      paid == IF m.COD > 0
              THEN SendMailTo(Office, NormalMail(m.receiver, m.sender, {}, m.COD, 0, TRUE))
              ELSE Office
      taken == Change(paid, p, id, [m EXCEPT !.items = @ \ {i}, !.COD = 0])
  IN  /\ p \in online /\ Readable(p, id) /\ i \in m.items
      /\ HasEnoughMoney(p, m.COD)
      /\ m.COD > 0 => FreeIds(Office) # {}
      /\ bag' = [bag EXCEPT ![p] = @ \cup {i}]
      /\ money' = [money EXCEPT ![p] = @ - m.COD]
      /\ Post(SaveMail(taken, p))
      /\ SaveInventoryAndGold(p)
      /\ UNCHANGED online

\* HandleMailTakeMoney
TakeMoney(p, id) ==
  LET m == m_mail[p][id].mail
      taken == Change(Office, p, id, [m EXCEPT !.money = 0])
  IN  /\ p \in online /\ Readable(p, id) /\ m.money > 0
      /\ Fits(p, m.money)
      /\ money' = [money EXCEPT ![p] = @ + m.money]
      /\ Post(SaveMail(taken, p))
      /\ SaveGold(p)
      /\ UNCHANGED <<online, bag>>

\* ReturnOrDeleteOldMails, one mail: with items and from a player it goes back
\* once, otherwise it is destroyed.  It looks the receiver up by a low guid, finds
\* nobody, and so does not spare the mails of players in the world.
Expired(m) ==
  IF m.items # {} /\ m.type = "normal" /\ ~m.final
  THEN [m EXCEPT !.sender = m.receiver, !.receiver = m.sender, !.COD = 0, !.final = TRUE]
  ELSE NoMail
ReturnOrDeleteOldMail(id) ==
  /\ row[id] # NoMail
  /\ MayExpireLoaded \/ row[id].receiver \notin online
  /\ row' = [row EXCEPT ![id] = Expired(@)]
  /\ UNCHANGED <<online, bag, money, m_mail, saved, unsaved>>

-----------------------------------------------------------------------------
(* Players come and go.                                                     *)

\* Player::SaveToDB, from the save timer
Save(p) ==
  /\ p \in online
  /\ UNCHANGED <<online, bag, money>>
  /\ Post(SaveMail(Office, p))
  /\ SaveInventoryAndGold(p)

\* WorldSession::LogoutPlayer saves and deletes the player
EmptyBox == [id \in MailIds |-> NoMail]
Logout(p) ==
  LET stored == SaveMail(Office, p)
  IN  /\ p \in online /\ online' = online \ {p}
      /\ UNCHANGED <<bag, money>>
      /\ Post([stored EXCEPT !.box[p] = EmptyBox])
      /\ SaveInventoryAndGold(p)

Login(p) ==
  /\ p \notin online /\ online' = online \cup {p}
  /\ m_mail' = [m_mail EXCEPT ![p] = LoadMail(p)]
  /\ bag' = [bag EXCEPT ![p] = saved[p].bag]
  /\ money' = [money EXCEPT ![p] = saved[p].money]
  /\ UNCHANGED <<row, saved, unsaved>>

\* only the database survives
Crash ==
  /\ online # {} /\ online' = {}
  /\ m_mail' = [p \in Players |-> EmptyBox]
  /\ bag' = [p \in Players |-> saved[p].bag]
  /\ money' = [p \in Players |-> saved[p].money]
  /\ unsaved' = [p \in Players |-> 0]
  /\ UNCHANGED <<row, saved>>

MailInit ==
  /\ online = Players
  /\ bag = StartBag /\ money = StartMoney
  /\ m_mail = [p \in Players |-> EmptyBox] /\ row = EmptyBox
  /\ saved = [p \in Players |-> [bag |-> StartBag[p], money |-> StartMoney[p]]]
  /\ unsaved = [p \in Players |-> 0]

\* everything but the crash, which the auction house shares; bound: a mail has one
\* item at most, the code's limit is MAX_MAIL_ITEMS
MailNext ==
  \/ \E p \in Players :
       \/ \E q \in Players, gold, cod \in Amounts \cup {0}, S \in {{}} \cup {{i} : i \in Items} :
            SendMail(p, q, S, gold, cod)
       \/ \E id \in MailIds :
            \/ MarkAsRead(p, id) \/ Delete(p, id) \/ ReturnToSender(p, id)
            \/ TakeMoney(p, id) \/ \E i \in Items : TakeItem(p, id, i)
       \/ Save(p) \/ Logout(p) \/ Login(p)
  \/ \E id \in MailIds : ReturnOrDeleteOldMail(id)

-----------------------------------------------------------------------------
(* Properties.                                                              *)

\* ObjectMgr.cpp, ReturnOrDeleteOldMails: mails of a player who is in the world and
\* "has already listed his mails" are skipped.  A mail in a loaded mailbox is still
\* that player's in the database.
LoadedMailStaysPut ==
  \A p \in online, id \in MailIds :
    m_mail[p][id] # NoMail => row[id] # NoMail /\ row[id].receiver = p
=============================================================================
