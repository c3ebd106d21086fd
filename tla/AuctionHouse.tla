------------------------------ MODULE AuctionHouse -----------------------------
(***************************************************************************)
(* The auction house: selling, bidding, buying out, cancelling and the end *)
(* of an auction, with the mails they send.  AuctionHouseObject::Update    *)
(* runs on the world thread as the handlers do, so each is one step and    *)
(* each commits one transaction.  An auction is named by its item: one     *)
(* item is in one auction at most (AuctionHouseMgr::mAitems).              *)
(***************************************************************************)
EXTENDS Mail

CONSTANTS
  Sellers,       \* bound: who puts items up
  Deposit,       \* GetAuctionDeposit
  CutPercent,    \* the house's share of the price
  Bids,          \* the amounts of money bid
  NoAuction,
  NoBidder

ASSUME AuctionAssumption ==
  /\ Deposit \in Nat /\ CutPercent \in 0..100 /\ Bids \subseteq Nat \ {0}
  /\ NoBidder \notin Players /\ Sellers \subseteq Players

VARIABLES
  auctions,      \* auctions[i]: AuctionHouseObject::AuctionsMap
  savedAuctions  \* the table auctionhouse

vars == <<mailVars, auctions, savedAuctions>>

Auctions ==
  [owner : Players, bidder : Players \cup {NoBidder}, startbid : Nat, buyout : Nat,
   bid : Nat, deposit : Nat]

ASSUME NoAuctionAssumption == NoAuction \notin Auctions

GetAuctionCut(a) == (a.bid * CutPercent) \div 100
GetAuctionOutBid(a) == IF (a.bid * 5) \div 100 > 0 THEN (a.bid * 5) \div 100 ELSE 1

HouseMail(q, S, gold) ==
  [type |-> "auction", sender |-> House, receiver |-> q, items |-> S, money |-> gold,
   COD |-> 0, final |-> FALSE]

\* the mails of AuctionHouseMgr
SendOutbidMail(po, a) == SendMailTo(po, HouseMail(a.bidder, {}, a.bid))
SendSuccessfulMail(po, a) ==
  SendMailTo(po, HouseMail(a.owner, {}, a.bid + a.deposit - GetAuctionCut(a)))
SendWonMail(po, i, a) == SendMailTo(po, HouseMail(a.bidder, {i}, 0))
SendExpiredMail(po, i, a) == SendMailTo(po, HouseMail(a.owner, {i}, 0))
SendSold(po, i, a) == SendWonMail(SendSuccessfulMail(po, a), i, a)

Room(n) == Cardinality(FreeIds(Office)) >= n

\* the auction and its row change together
SetAuction(i, a) ==
  /\ auctions' = [auctions EXCEPT ![i] = a]
  /\ savedAuctions' = [savedAuctions EXCEPT ![i] = a]

\* HandleAuctionSellItem, a whole stack: the deposit is charged when the
\* transaction with the purse is already queued
SellItem(p, i, startbid, buyout) ==
  /\ p \in online \cap Sellers /\ i \in bag[p] /\ auctions[i] = NoAuction
  /\ buyout = 0 \/ buyout >= startbid      \* the client sees to it
  /\ HasEnoughMoney(p, Deposit)
  /\ SetAuction(i, [owner |-> p, bidder |-> NoBidder, startbid |-> startbid,
                    buyout |-> buyout, bid |-> 0, deposit |-> Deposit])
  /\ bag' = [bag EXCEPT ![p] = @ \ {i}]
  /\ money' = [money EXCEPT ![p] = @ - Deposit]
  /\ saved' = [saved EXCEPT ![p] = [bag |-> bag'[p], money |-> money[p]]]
  /\ unsaved' = [unsaved EXCEPT ![p] = Deposit]
  /\ UNCHANGED <<online, m_mail, row>>

\* HandleAuctionPlaceBid: what p pays; who already holds the highest bid pays the
\* difference
Price(p, a, price) == IF a.bidder = p THEN price - a.bid ELSE price
IsBuyout(a, price) == a.buyout > 0 /\ price >= a.buyout
MayBid(p, i, price) ==
  LET a == auctions[i]
  IN  /\ p \in online /\ a # NoAuction
      /\ a.owner # p
      /\ price > a.bid /\ price >= a.startbid
      /\ IsBuyout(a, price) \/ price >= a.bid + GetAuctionOutBid(a)
      /\ HasEnoughMoney(p, price)

\* the bid of another player goes back to it
RefundAlways(po, p, a) ==
  IF a.bidder = NoBidder \/ p \notin Players THEN po ELSE SendOutbidMail(po, a)
Refund(po, p, a) ==
  IF a.bidder \in {NoBidder, p} THEN po ELSE SendOutbidMail(po, a)

PlaceBid(p, i, price) ==
  LET a == auctions[i]
  IN  /\ MayBid(p, i, price) /\ ~IsBuyout(a, price) /\ Room(1)
      /\ money' = [money EXCEPT ![p] = @ - Price(p, a, price)]
      /\ Post(Refund(Office, p, a))
      /\ SetAuction(i, [a EXCEPT !.bidder = p, !.bid = price])
      /\ UNCHANGED <<online, bag>>
      /\ SaveInventoryAndGold(p)

Buyout(p, i, price) ==
  LET a == auctions[i]
      sold == [a EXCEPT !.bidder = p, !.bid = a.buyout]
  IN  /\ MayBid(p, i, price) /\ IsBuyout(a, price) /\ Room(3)
      /\ money' = [money EXCEPT ![p] = @ - Price(p, a, a.buyout)]
      /\ Post(SendSold(Refund(Office, p, a), i, sold))
      /\ SetAuction(i, NoAuction)
      /\ UNCHANGED <<online, bag>>
      /\ SaveInventoryAndGold(p)

\* HandleAuctionRemoveItem: the owner pays the cut if there was a bid
RemoveItem(p, i) ==
  LET a == auctions[i]
      cut == IF a.bidder = NoBidder THEN 0 ELSE GetAuctionCut(a)
      refunded == IF a.bidder = NoBidder THEN Office ELSE SendOutbidMail(Office, a)
  IN  /\ p \in online /\ a # NoAuction /\ Room(2)
      /\ a.owner = p /\ HasEnoughMoney(p, cut)
      /\ money' = [money EXCEPT ![p] = @ - cut]
      /\ Post(SendExpiredMail(refunded, i, a))
      /\ SetAuction(i, NoAuction)
      /\ UNCHANGED <<online, bag>>
      /\ SaveInventoryAndGold(p)

\* AuctionHouseObject::Update, and LoadAuctions at the start: an auction is over
EndAuction(i) ==
  LET a == auctions[i]
  IN  /\ a # NoAuction /\ Room(2)
      /\ Post(IF a.bidder = NoBidder THEN SendExpiredMail(Office, i, a)
              ELSE SendSold(Office, i, a))
      /\ SetAuction(i, NoAuction)
      /\ UNCHANGED <<online, bag, money, saved, unsaved>>

\* AuctionHouseMgr::LoadAuctions
CrashAndRestart == Crash /\ auctions' = savedAuctions /\ UNCHANGED savedAuctions

Init ==
  /\ MailInit
  /\ auctions = [i \in Items |-> NoAuction] /\ savedAuctions = [i \in Items |-> NoAuction]

Next ==
  \/ MailNext /\ UNCHANGED <<auctions, savedAuctions>>
  \/ \E p \in Players, i \in Items :
       \/ \E startbid \in Bids, buyout \in Bids \cup {0} : SellItem(p, i, startbid, buyout)
       \/ \E price \in Bids : PlaceBid(p, i, price) \/ Buyout(p, i, price)
       \/ RemoveItem(p, i)
  \/ \E i \in Items : EndAuction(i)
  \/ CrashAndRestart

Spec == Init /\ [][Next]_vars

-----------------------------------------------------------------------------
(* Properties.                                                              *)

TypeOK ==
  /\ online \subseteq Players
  /\ bag \in [Players -> SUBSET Items] /\ money \in [Players -> 0..MaxMoney]
  /\ row \in [MailIds -> Mails \cup {NoMail}]
  /\ m_mail \in [Players -> [MailIds -> Entries \cup {NoMail}]]
  /\ saved \in [Players -> [bag : SUBSET Items, money : 0..MaxMoney]]
  /\ unsaved \in [Players -> Nat]
  /\ auctions \in [Items -> Auctions \cup {NoAuction}]
  /\ savedAuctions \in [Items -> Auctions \cup {NoAuction}]

\* An item is in one place: one player's bags, one mail or one auction, whatever
\* is bought, returned, expires or crashes.
InMail(i) == {id \in MailIds : row[id] # NoMail /\ i \in row[id].items}
CarriedBy(i) == {p \in Players : i \in bag[p]}
ItemsHaveOnePlace ==
  \A i \in Items :
    Cardinality(CarriedBy(i)) + Cardinality(InMail(i))
      + (IF auctions[i] = NoAuction THEN 0 ELSE 1) <= 1

\* The database never lags behind: whenever the server crashes, everything is as
\* it was, but for deposits charged since the purse was last saved.  (A mail that
\* ReturnOrDeleteOldMails gives back to a player in the world is only in the table.)
DatabaseIsCurrent ==
  /\ savedAuctions = auctions
  /\ \A p \in Players :
       /\ saved[p].bag = bag[p]
       /\ saved[p].money = money[p] + unsaved[p]
  /\ \A p \in online, id \in MailIds :
       m_mail[p][id] # NoMail => row[id] = m_mail[p][id].mail

\* Mail and auctions keep what Market promises.  Cash on delivery: until it is paid
\* the item is the sender's.
Owner(i) ==
  IF auctions[i] # NoAuction THEN auctions[i].owner
  ELSE IF InMail(i) # {}
       THEN LET m == row[CHOOSE id \in InMail(i) : TRUE]
            IN  IF m.COD > 0 THEN m.sender ELSE m.receiver
  ELSE IF CarriedBy(i) # {} THEN CHOOSE p \in CarriedBy(i) : TRUE
  ELSE NoBidder
\* the sum of amount(x) over S
Coins(S, amount(_)) == Cardinality(UNION {{x} \X (1..amount(x)) : x \in S})
Mailed(p) ==
  Coins({id \in MailIds : row[id] # NoMail /\ row[id].receiver = p}, LAMBDA id : row[id].money)
Up == {i \in Items : auctions[i] # NoAuction}
Deposits(p) == Coins({i \in Up : auctions[i].owner = p}, LAMBDA i : auctions[i].deposit)
Stake(p) == Coins({i \in Up : auctions[i].bidder = p}, LAMBDA i : auctions[i].bid)
OpenMarket == INSTANCE Market WITH
  Nobody <- NoBidder,
  owner <- [i \in Items |-> Owner(i)],
  funds <- [p \in Players |-> money[p] + Mailed(p) + Deposits(p)],
  stake <- [p \in Players |-> Stake(p)],
  refundable <- unsaved
MarketSpec == OpenMarket!Spec
=============================================================================
