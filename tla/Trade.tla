-------------------------------- MODULE Trade --------------------------------
(***************************************************************************)
(* Trading between players: the TradeData of each side, the handlers of    *)
(* TradeHandler.cpp, and the inventories and purses they work on.  Every   *)
(* handler is PROCESS_THREADUNSAFE, so it runs alone on the world thread   *)
(* and is one step.  Between two handlers the players' goods may change:   *)
(* items are destroyed or become soulbound, money is earned and spent,     *)
(* characters are saved, log out, and the server may crash.                *)
(*                                                                         *)
(* Each item takes one inventory slot (stacks are not merged), and amounts *)
(* of money are those a trade window offers: at most MaxGold.              *)
(***************************************************************************)
EXTENDS Integers, FiniteSets

CONSTANTS
  Players,
  Items,         \* item guids
  StartBag,      \* StartBag[p]: what p carries at the start
  StartMoney,    \* StartMoney[p]
  Space,         \* inventory slots of each player
  Limited,       \* the items of one ItemLimitCategory (mode HAVE)
  LimitMax,      \* its maxCount
  TradedSlots,   \* TRADE_SLOT_TRADED_COUNT
  MaxMoney,      \* MAX_MONEY_AMOUNT
  MaxGold,       \* the most money put in a trade window
  MaxMinted,     \* bound: money earned in a behaviour
  MayCrash,      \* whether the server may crash
  NoItem,        \* an empty trade slot
  NULL           \* a player without TradeData

ASSUME TradeAssumption ==
  /\ IsFiniteSet(Players) /\ IsFiniteSet(Items)
  /\ StartBag \in [Players -> SUBSET Items] /\ Limited \subseteq Items
  /\ \A p, q \in Players : p # q => StartBag[p] \cap StartBag[q] = {}
  /\ StartMoney \in [Players -> Nat]
  /\ Space \in Nat /\ LimitMax \in Nat \ {0} /\ TradedSlots \in Nat \ {0}
  /\ MaxMoney \in Nat /\ MaxGold \in Nat /\ MaxGold <= MaxMoney /\ MaxMinted \in Nat
  /\ MayCrash \in BOOLEAN
  /\ \A p \in Players : /\ Cardinality(StartBag[p]) <= Space
                         /\ Cardinality(StartBag[p] \cap Limited) <= LimitMax
                         /\ StartMoney[p] <= MaxMoney
  /\ NoItem \notin Items

VARIABLES
  online,    \* players in the world
  m_trade,   \* m_trade[p]: p's TradeData or NULL
  seen,      \* history: both lists as they were when p accepted
  bag,       \* bag[p]: the items Player::GetItemByGuid finds
  bound,     \* items for which Item::CanBeTraded is false
  money,     \* PLAYER_FIELD_COINAGE
  saved,     \* the character database: [bag, money] of each player
  surplus,   \* items cloned into a second inventory slot
  minted     \* history: money that came from outside

vars == <<online, m_trade, seen, bag, bound, money, saved, surplus, minted>>

NonTraded == 0                       \* TRADE_SLOT_NONTRADED
Traded == 1..TradedSlots
Slots == Traded \cup {NonTraded}
TradeDatas ==
  [trader : Players, accepted : BOOLEAN, money : 0..MaxGold, spell : Items \cup {NoItem},
   items : [Slots -> Items \cup {NoItem}]]

ASSUME NullAssumption == NULL \notin TradeDatas

TradeData(q) == [trader |-> q, accepted |-> FALSE, money |-> 0, spell |-> NoItem,
                 items |-> [s \in Slots |-> NoItem]]

Trading(p) == m_trade[p] # NULL
Trader(p) == m_trade[p].trader
HasItem(p, i) == \E s \in Slots : m_trade[p].items[s] = i

\* TradeData::GetItem: the listed item, if its owner still has it
GetItem(p, s) ==
  IF m_trade[p].items[s] \in bag[p] THEN m_trade[p].items[s] ELSE NoItem
Offer(p) == {GetItem(p, s) : s \in Traded} \ {NoItem}

\* what a player looks at when pressing accept
List(t, p) == [t[p] EXCEPT !.accepted = FALSE]
View(t, p) == <<List(t, p), List(t, t[p].trader)>>

\* m_trade' = t; the players by press accept in this step
Set(t, by) ==
  /\ m_trade' = t
  /\ seen' = [p \in Players |->
                IF t[p] = NULL THEN <<>>
                ELSE IF ~t[p].accepted THEN <<>>
                ELSE IF p \in by THEN View(t, p) ELSE seen[p]]

Unaccept(t, who) ==
  [p \in Players |-> IF p \in who THEN [t[p] EXCEPT !.accepted = FALSE] ELSE t[p]]
Closed(t, who) == [p \in Players |-> IF p \in who THEN NULL ELSE t[p]]
Both(p) == {p, Trader(p)}

-----------------------------------------------------------------------------
(* The handlers that edit a trade.                                          *)

goods == <<bag, bound, money, saved, surplus, minted>>

\* HandleInitiateTradeOpcode; distance, faction, level and life are guards that
\* only keep a trade from starting
InitiateTradeWithSelf(p, q) ==          \* mutant: pOther may be the player
  /\ {p, q} \subseteq online /\ ~Trading(p) /\ ~Trading(q)
  /\ Set([m_trade EXCEPT ![p] = TradeData(q), ![q] = TradeData(p)], {})
  /\ UNCHANGED <<online, goods>>
InitiateTrade(p, q) ==
  /\ {p, q} \subseteq online /\ p # q
  /\ ~Trading(p) /\ ~Trading(q)
  /\ Set([m_trade EXCEPT ![p] = TradeData(q), ![q] = TradeData(p)], {})
  /\ UNCHANGED <<online, goods>>

TradeCancelOwnSide(p) ==                \* mutant: the trader's TradeData stays
  /\ Trading(p)
  /\ Set(Closed(m_trade, {p}), {})
  /\ UNCHANGED <<online, goods>>
\* Player::TradeCancel, by the handler and by taking a flight
TradeCancel(p) ==
  /\ Trading(p)
  /\ Set(Closed(m_trade, Both(p)), {})
  /\ UNCHANGED <<online, goods>>

\* TradeData::SetMoney
SetMoneyKeepsTrader(p, gold) ==         \* mutant: resets only the own acceptance
  /\ Trading(p) /\ m_trade[p].money # gold
  /\ Set([Unaccept(m_trade, {p}) EXCEPT ![p].money = gold], {})
  /\ UNCHANGED <<online, goods>>
SetMoney(p, gold) ==
  /\ Trading(p) /\ m_trade[p].money # gold
  /\ Set([Unaccept(m_trade, Both(p)) EXCEPT ![p].money = gold], {})
  /\ UNCHANGED <<online, goods>>

\* TradeData::SetItem: a change of the not traded item also takes back the
\* spell the trader has prepared for it
SetItemKeepsSpell(p, s, i) ==           \* mutant: the trader's spell stays
  /\ m_trade[p].items[s] # i
  /\ Set([Unaccept(m_trade, Both(p)) EXCEPT ![p].items[s] = i, ![p].spell = NoItem], {})
SetItem(p, s, i) ==
  /\ m_trade[p].items[s] # i
  /\ Set([Unaccept(m_trade, Both(p)) EXCEPT
            ![p].items[s] = i, ![p].spell = NoItem,
            ![Trader(p)].spell = IF s = NonTraded THEN NoItem ELSE @], {})

SetTradeItem(p, s, i) ==
  /\ Trading(p) /\ i \in bag[p]
  /\ s # NonTraded => i \notin bound
  /\ ~HasItem(p, i)
  /\ SetItem(p, s, i)
  /\ UNCHANGED <<online, goods>>

ClearTradeItem(p, s) ==
  /\ Trading(p)
  /\ SetItem(p, s, NoItem)
  /\ UNCHANGED <<online, goods>>

\* a spell on the item in the trade window is remembered in the trade, and may
\* replace another one (TradeData::SetSpell)
SetSpell(p) ==
  /\ Trading(p)
  /\ GetItem(Trader(p), NonTraded) # NoItem
  /\ Set([Unaccept(m_trade, Both(p)) EXCEPT
            ![p].spell = m_trade[Trader(p)].items[NonTraded]], {})
  /\ UNCHANGED <<online, goods>>

UnacceptTrade(p) ==
  /\ Trading(p) /\ m_trade[p].accepted
  /\ Set(Unaccept(m_trade, {p}), {})
  /\ UNCHANGED <<online, goods>>

-----------------------------------------------------------------------------
(* HandleAcceptTradeOpcode.                                                 *)

Accepted(p) == [m_trade EXCEPT ![p].accepted = TRUE]

\* the side whose acceptance the money checks take back, at most one
MoneyProblemFirstOnly(p, q) ==          \* mutant: the trader's purse is not checked
  IF money[p] < m_trade[p].money THEN {p} ELSE {}
MoneyProblem(p, q) ==
  IF money[p] < m_trade[p].money THEN {p}
  ELSE IF money[q] < m_trade[q].money THEN {q}
  ELSE IF money[p] >= MaxMoney - m_trade[q].money THEN {p}
  ELSE IF money[q] >= MaxMoney - m_trade[p].money THEN {q}
  ELSE {}

ItemProblem(p, q) == (Offer(p) \cup Offer(q)) \cap bound # {}

\* the early returns: the money checks take one acceptance back, the item checks
\* none
AcceptRefused(p, q) ==
  /\ MoneyProblem(p, q) # {} \/ ItemProblem(p, q)
  /\ Set(Unaccept(Accepted(p), MoneyProblem(p, q)), {p})
  /\ UNCHANGED <<online, goods>>

MayProceed(p, q) == MoneyProblem(p, q) = {} /\ ~ItemProblem(p, q)

AcceptFirst(p, q) ==
  /\ MayProceed(p, q) /\ ~m_trade[q].accepted
  /\ Set(Accepted(p), {p})
  /\ UNCHANGED <<online, goods>>

\* the spell of r has lost its item, or CheckCast fails now
SpellFails(p, q) ==
  /\ MayProceed(p, q) /\ m_trade[q].accepted
  /\ \E r \in {p, q} :
       /\ m_trade[r].spell # NoItem
       /\ Set([Unaccept(m_trade, {p, q}) EXCEPT ![r].spell = NoItem], {})
  /\ UNCHANGED <<online, goods>>

SpellsReady(p, q) ==
  \A r \in {p, q} : m_trade[r].spell # NoItem => GetItem(Trader(r), NonTraded) # NoItem

\* Player::CanTakeMoreSimilarItems and Player::CanStoreItems, which counts the
\* items in trade as gone but judges each incoming item alone
CanTakeMoreSimilarItems(b, i) ==
  i \in Limited => Cardinality((b \ {i}) \cap Limited) < LimitMax
CanStoreItems(p, q) ==
  /\ Cardinality(bag[p] \ Offer(p)) + Cardinality(Offer(q)) <= Space
  /\ \A i \in Offer(q) : CanTakeMoreSimilarItems(bag[p], i)

AcceptNoRoom(p, q) ==
  /\ MayProceed(p, q) /\ m_trade[q].accepted /\ SpellsReady(p, q)
  /\ ~(CanStoreItems(p, q) /\ CanStoreItems(q, p))
  /\ Set(Unaccept(m_trade, {p, q}), {})
  /\ UNCHANGED <<online, goods>>

\* moveItems, one pair of trade slots: both are stored, or each goes back to its
\* owner.  The destinations found for the other item are still in the list, so
\* a returned item needs one slot more and is cloned into it.
Only(i) == {i} \ {NoItem}
CanStoreItem(b, i, taken) ==
  i = NoItem \/ (Cardinality(b) + taken < Space /\ CanTakeMoreSimilarItems(b, i))
movePair(p, q, st, s) ==
  LET mine == GetItem(p, s)
      his == GetItem(q, s)
      traderCanTrade == CanStoreItem(st.bag[q], mine, 0)
      playerCanTrade == CanStoreItem(st.bag[p], his, 0)
      stale(ok, i) == IF ok /\ i # NoItem THEN 1 ELSE 0
      back(r, i, n) == IF CanStoreItem(st.bag[r], i, n) THEN Only(i) ELSE {}
      mineBack == back(p, mine, stale(playerCanTrade, his))
      hisBack == back(q, his, stale(traderCanTrade, mine))
  IN  IF traderCanTrade /\ playerCanTrade
      THEN [st EXCEPT !.bag[p] = @ \cup Only(his), !.bag[q] = @ \cup Only(mine)]
      ELSE [bag |-> [st.bag EXCEPT ![p] = @ \cup mineBack, ![q] = @ \cup hisBack],
            surplus |-> st.surplus
              \cup (IF stale(playerCanTrade, his) = 1 THEN mineBack ELSE {})
              \cup (IF stale(traderCanTrade, mine) = 1 THEN hisBack ELSE {})]
moveItemsKeepsHis(p, q) ==              \* mutant: the trader's items are not removed
  LET kept == [bag |-> [bag EXCEPT ![p] = @ \ Offer(p)], surplus |-> surplus]
      after[s \in 0..TradedSlots] ==
        IF s = 0 THEN kept ELSE movePair(p, q, after[s - 1], s)
  IN  after[TradedSlots]
\* the items leave both inventories, then the slots are taken one after another
removed(p, q) ==
  [bag |-> [bag EXCEPT ![p] = @ \ Offer(p), ![q] = @ \ Offer(q)], surplus |-> surplus]
moveItems(p, q) ==
  LET after[s \in 0..TradedSlots] ==
        IF s = 0 THEN removed(p, q) ELSE movePair(p, q, after[s - 1], s)
  IN  after[TradedSlots]

\* Player::ModifyMoney
ModifyMoney(m, amount) ==
  IF amount < 0 THEN (IF m > -amount THEN m + amount ELSE 0)
  ELSE IF amount = 0 \/ m < MaxMoney - amount THEN m + amount
  ELSE m

\* SaveInventoryAndGoldToDB for both players in one transaction
SaveBothOnlyFirst(p, q, b, m) == [saved EXCEPT ![p] = [bag |-> b[p], money |-> m[p]]]
                                        \* mutant: the trader is not saved
SaveBoth(p, q, b, m) ==
  [saved EXCEPT ![p] = [bag |-> b[p], money |-> m[p]], ![q] = [bag |-> b[q], money |-> m[q]]]

CompleteTrade(p, q) ==
  LET moved == moveItems(p, q)
      pay(r, s) == ModifyMoney(ModifyMoney(money[r], -m_trade[r].money), m_trade[s].money)
      paid == [money EXCEPT ![p] = pay(p, q), ![q] = pay(q, p)]
  IN  /\ MayProceed(p, q) /\ m_trade[q].accepted /\ SpellsReady(p, q)
      /\ CanStoreItems(p, q) /\ CanStoreItems(q, p)
      /\ bag' = moved.bag /\ surplus' = moved.surplus
      /\ money' = paid
      /\ saved' = SaveBoth(p, q, moved.bag, paid)
      /\ Set(Closed(m_trade, {p, q}), {})
      /\ UNCHANGED <<online, bound, minted>>

AcceptTrade(p) ==
  /\ Trading(p)
  /\ \/ AcceptRefused(p, Trader(p))
     \/ AcceptFirst(p, Trader(p))
     \/ SpellFails(p, Trader(p))
     \/ AcceptNoRoom(p, Trader(p))
     \/ CompleteTrade(p, Trader(p))

-----------------------------------------------------------------------------
(* What happens to the goods and the players meanwhile.                     *)

\* sold, mailed, used up, dropped: no handler looks at the trade window
LoseItem(p, i) ==
  /\ p \in online /\ i \in bag[p]
  /\ bag' = [bag EXCEPT ![p] = @ \ {i}]
  /\ UNCHANGED <<online, m_trade, seen, bound, money, saved, surplus, minted>>

\* equipped: from now on soulbound
BindItem(p, i) ==
  /\ p \in online /\ i \in bag[p] \ bound
  /\ bound' = bound \cup {i}
  /\ UNCHANGED <<online, m_trade, seen, bag, money, saved, surplus, minted>>

SpendMoney(p) ==
  /\ p \in online /\ money[p] > 0
  /\ money' = [money EXCEPT ![p] = ModifyMoney(@, -1)]
  /\ UNCHANGED <<online, m_trade, seen, bag, bound, saved, surplus, minted>>

EarnMoney(p) ==
  /\ p \in online /\ minted < MaxMinted /\ ModifyMoney(money[p], 1) # money[p]
  /\ money' = [money EXCEPT ![p] = ModifyMoney(@, 1)]
  /\ minted' = minted + 1
  /\ UNCHANGED <<online, m_trade, seen, bag, bound, saved, surplus>>

\* Player::SaveToDB, from the save timer
Save(p) ==
  /\ p \in online
  /\ saved' = [saved EXCEPT ![p] = [bag |-> bag[p], money |-> money[p]]]
  /\ UNCHANGED <<online, m_trade, seen, bag, bound, money, surplus, minted>>

\* WorldSession::LogoutPlayer saves; CleanupsBeforeDelete cancels the trade
Logout(p) ==
  /\ p \in online /\ online' = online \ {p}
  /\ Set(IF Trading(p) THEN Closed(m_trade, Both(p)) ELSE m_trade, {})
  /\ saved' = [saved EXCEPT ![p] = [bag |-> bag[p], money |-> money[p]]]
  /\ UNCHANGED <<bag, bound, money, surplus, minted>>

Login(p) ==
  /\ p \notin online /\ online' = online \cup {p}
  /\ bag' = [bag EXCEPT ![p] = saved[p].bag]
  /\ money' = [money EXCEPT ![p] = saved[p].money]
  /\ UNCHANGED <<m_trade, seen, bound, saved, surplus, minted>>

\* only the database survives
Crash ==
  /\ MayCrash /\ online # {} /\ online' = {}
  /\ Set(Closed(m_trade, Players), {})
  /\ bag' = [p \in Players |-> saved[p].bag]
  /\ money' = [p \in Players |-> saved[p].money]
  /\ bound' \in SUBSET bound            \* bindings not saved yet are lost
  /\ surplus' = {}
  /\ UNCHANGED <<saved, minted>>

Init ==
  /\ online = Players
  /\ m_trade = [p \in Players |-> NULL] /\ seen = [p \in Players |-> <<>>]
  /\ bag = StartBag /\ bound = {} /\ money = StartMoney
  /\ saved = [p \in Players |-> [bag |-> StartBag[p], money |-> StartMoney[p]]]
  /\ surplus = {} /\ minted = 0

Next ==
  \/ \E p \in Players :
       \/ \E q \in Players : InitiateTrade(p, q)
       \/ TradeCancel(p)
       \/ \E gold \in 0..MaxGold : SetMoney(p, gold)
       \/ \E s \in Slots : ClearTradeItem(p, s) \/ \E i \in Items : SetTradeItem(p, s, i)
       \/ SetSpell(p)
       \/ UnacceptTrade(p)
       \/ AcceptTrade(p)
       \/ \E i \in Items : LoseItem(p, i) \/ BindItem(p, i)
       \/ SpendMoney(p) \/ EarnMoney(p)
       \/ Save(p) \/ Logout(p) \/ Login(p)
  \/ Crash

Spec == Init /\ [][Next]_vars

-----------------------------------------------------------------------------
(* Properties.                                                              *)

TypeOK ==
  /\ online \subseteq Players /\ bound \subseteq Items /\ surplus \subseteq Items
  /\ bag \in [Players -> SUBSET Items]
  /\ money \in [Players -> 0..MaxMoney]
  /\ minted \in 0..MaxMinted
  /\ m_trade \in [Players -> TradeDatas \cup {NULL}]
  /\ \A p \in Players : Trading(p) => Trader(p) # p

\* TradeData comes in pairs of players in the world, each naming the other: the
\* m_trader pointers are never dereferenced after their player is gone, and
\* nobody trades with two players.
PartnersMatch ==
  \A p \in Players : Trading(p) =>
    /\ {p, Trader(p)} \subseteq online
    /\ Trading(Trader(p)) /\ Trader(Trader(p)) = p

\* An acceptance stands only for the two lists its player was looking at: any
\* change of items, money or spell on either side has taken it back.
AcceptedListIsCurrent ==
  \A p \in Players : Trading(p) =>
    (m_trade[p].accepted => seen[p] = View(m_trade, p))

\* A spell remembered in a trade was cast on the item that is still in the other
\* side's not traded slot.
SpellIsForListedItem ==
  \A p \in Players : Trading(p) =>
    m_trade[p].spell \in {NoItem, m_trade[Trader(p)].items[NonTraded]}

\* No item is carried by two players, and none has been cloned.
ItemsHaveOneOwner ==
  /\ \A p, q \in Players : p # q => bag[p] \cap bag[q] = {}
  /\ surplus = {}

\* the coins in all purses together
Coins(purse) == Cardinality({c \in Players \X (1..MaxMoney) : c[2] <= purse[c[1]]})

\* What is in the database, hence what a crash leaves, gives no item to two
\* characters and holds no more money than there ever was.
CrashCreatesNothing ==
  /\ \A p, q \in Players : p # q => saved[p].bag \cap saved[q].bag = {}
  /\ Coins([p \in Players |-> saved[p].money]) <= Coins(StartMoney) + minted

\* Goods change hands only as a whole, between two traders of whom one had
\* accepted both lists: every listed item that is still there and the exact
\* amounts of money, in both directions.
ChangesHands(p, q) ==
  bag[p] \cap bag'[q] # {} \/ (money'[p] < money[p] /\ money'[q] > money[q])
ExchangeIsWhole ==
  [][online \subseteq online' =>
       \A p, q \in Players : p # q /\ ChangesHands(p, q) =>
         /\ Trading(p) /\ Trader(p) = q
         /\ \E r \in {p, q} : seen[r] = View(m_trade, r)
         /\ \A r \in {p, q} :
              /\ bag'[r] = (bag[r] \ Offer(r)) \cup Offer(Trader(r))
              /\ money'[r] = money[r] - m_trade[r].money + m_trade[Trader(r)].money]_vars
=============================================================================
