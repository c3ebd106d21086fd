----------------------------- MODULE TradeProofs ------------------------------
(***************************************************************************)
(* Trading, for every finite set of players and items and every number of  *)
(* slots.  First the trade windows: who trades with whom, what an          *)
(* acceptance stands for, the spells prepared in a trade.  Then the goods: *)
(* what moveItems does, slot by slot, and what becomes of the money.       *)
(***************************************************************************)
EXTENDS Trade, FiniteSetTheorems, WellFoundedInduction, TLAPS

-----------------------------------------------------------------------------
(* The strengthening.  AcceptedListIsCurrent and SpellIsForListedItem speak *)
(* of two records at once, so a step that edits or closes one trade must    *)
(* leave every other trade's pair of records alone: that is PartnersMatch.  *)

TradesTyped ==
  /\ online \subseteq Players
  /\ m_trade \in [Players -> TradeDatas \cup {NULL}]
  /\ \A p \in Players : Trading(p) => Trader(p) # p

\* no item is listed in two slots of a window
Once(list) == \A s, t \in Slots : list[s] = list[t] /\ list[s] # NoItem => s = t
ListsOnce == \A p \in Players : Trading(p) => Once(m_trade[p].items)

TInv ==
  /\ TradesTyped
  /\ ListsOnce
  /\ PartnersMatch
  /\ AcceptedListIsCurrent
  /\ SpellIsForListedItem

-----------------------------------------------------------------------------
(* Lemmas. *)

\* A TradeData with one field replaced.
LEMMA WithAccepted ==
  ASSUME NEW d \in TradeDatas, NEW b \in BOOLEAN
  PROVE  /\ [d EXCEPT !.accepted = b] \in TradeDatas
         /\ [d EXCEPT !.accepted = b].trader = d.trader
         /\ [d EXCEPT !.accepted = b].accepted = b
         /\ [d EXCEPT !.accepted = b].money = d.money
         /\ [d EXCEPT !.accepted = b].spell = d.spell
         /\ [d EXCEPT !.accepted = b].items = d.items
         /\ [[d EXCEPT !.accepted = b] EXCEPT !.accepted = FALSE] = [d EXCEPT !.accepted = FALSE]
<1>1. [d EXCEPT !.accepted = b] \in TradeDatas
  BY DEF TradeDatas
<1>2. /\ [d EXCEPT !.accepted = b].trader = d.trader
      /\ [d EXCEPT !.accepted = b].accepted = b
      /\ [d EXCEPT !.accepted = b].money = d.money
      /\ [d EXCEPT !.accepted = b].spell = d.spell
      /\ [d EXCEPT !.accepted = b].items = d.items
  BY DEF TradeDatas
<1>3. [[d EXCEPT !.accepted = b] EXCEPT !.accepted = FALSE] = [d EXCEPT !.accepted = FALSE]
  BY DEF TradeDatas
<1> QED BY <1>1, <1>2, <1>3

LEMMA WithSpell ==
  ASSUME NEW d \in TradeDatas, NEW i \in Items \cup {NoItem}
  PROVE  /\ [d EXCEPT !.spell = i] \in TradeDatas
         /\ [d EXCEPT !.spell = i].trader = d.trader
         /\ [d EXCEPT !.spell = i].accepted = d.accepted
         /\ [d EXCEPT !.spell = i].spell = i
         /\ [d EXCEPT !.spell = i].items = d.items
<1>1. [d EXCEPT !.spell = i] \in TradeDatas
  BY DEF TradeDatas
<1> QED BY <1>1 DEF TradeDatas

LEMMA WithItems ==
  ASSUME NEW d \in TradeDatas, NEW x \in [Slots -> Items \cup {NoItem}]
  PROVE  /\ [d EXCEPT !.items = x] \in TradeDatas
         /\ [d EXCEPT !.items = x].trader = d.trader
         /\ [d EXCEPT !.items = x].accepted = d.accepted
         /\ [d EXCEPT !.items = x].items = x
<1>1. [d EXCEPT !.items = x] \in TradeDatas
  BY DEF TradeDatas
<1> QED BY <1>1 DEF TradeDatas

\* Trades are disjoint pairs.
LEMMA Pairs ==
  ASSUME TInv, NEW p \in Players, Trading(p)
  PROVE  /\ Trader(p) \in Players /\ Trader(p) # p
         /\ Trading(Trader(p)) /\ Trader(Trader(p)) = p
         /\ {p, Trader(p)} \subseteq online
         /\ m_trade[p] \in TradeDatas /\ m_trade[Trader(p)] \in TradeDatas
         /\ \A r \in Players \ Both(p) : Trading(r) => Trader(r) \notin Both(p)
<1>1. m_trade[p] \in TradeDatas
  BY DEF TInv, TradesTyped, Trading
<1>2. Trader(p) \in Players
  BY <1>1 DEF Trader, TradeDatas
<1>3. Trader(p) # p /\ Trading(Trader(p)) /\ Trader(Trader(p)) = p /\ {p, Trader(p)} \subseteq online
  BY DEF TInv, TradesTyped, PartnersMatch
<1>4. m_trade[Trader(p)] \in TradeDatas
  BY <1>2, <1>3 DEF TInv, TradesTyped, Trading
<1>5. \A r \in Players \ Both(p) : Trading(r) => Trader(r) \notin Both(p)
  BY <1>3 DEF TInv, PartnersMatch, Both
<1> QED BY <1>1, <1>2, <1>3, <1>4, <1>5

\* What Set does to the acceptances: those that stand were given for the lists as
\* they are.
LEMMA SetCurrent ==
  ASSUME NEW t, NEW by, Set(t, by),
         \A r \in Players :
           t[r] # NULL /\ t[r].accepted /\ r \notin by => seen[r] = View(t, r)
  PROVE  AcceptedListIsCurrent'
<1> SUFFICES ASSUME NEW r \in Players, m_trade'[r] # NULL, m_trade'[r].accepted
             PROVE  seen'[r] = View(t, r)
  BY DEF AcceptedListIsCurrent, Trading, Set
<1>1. t[r] # NULL /\ t[r].accepted
  BY DEF Set
<1>2. seen'[r] = IF r \in by THEN View(t, r) ELSE seen[r]
  BY <1>1 DEF Set
<1> QED BY <1>1, <1>2

\* A step that edits one trade and takes back both acceptances.
LEMMA EditInv ==
  ASSUME TInv, NEW p \in Players, Trading(p), UNCHANGED online, NEW t, Set(t, {}),
         t \in [Players -> TradeDatas \cup {NULL}],
         \A r \in Players \ Both(p) : t[r] = m_trade[r],
         \A r \in Both(p) :
           /\ t[r] \in TradeDatas /\ t[r].trader = Trader(r) /\ ~t[r].accepted
           /\ t[r].spell \in {NoItem, t[Trader(r)].items[NonTraded]}
           /\ Once(t[r].items)
  PROVE  TInv'
<1> DEFINE q == Trader(p)
<1>0. m_trade' = t
  BY DEF Set
<1>1. /\ q \in Players /\ q # p /\ Trading(q) /\ Trader(q) = p /\ {p, q} \subseteq online
      /\ Both(p) = {p, q}
      /\ \A r \in Players \ Both(p) : Trading(r) => Trader(r) \notin Both(p)
  BY Pairs DEF Both
<1> HIDE DEF q
<1>2. \A r \in Players : Trading(r)' <=> Trading(r)
  BY <1>0, <1>1, NullAssumption DEF Trading
<1>3. \A r \in Players : Trading(r) => Trader(r)' = Trader(r)
  BY <1>0, <1>1 DEF Trader
<1>4. TradesTyped'
  BY <1>0, <1>2, <1>3 DEF TInv, TradesTyped
<1>5. PartnersMatch'
  <2>1. \A r \in Players : Trading(r) => Trader(r) \in Players
    BY Pairs
  <2> QED BY <1>2, <1>3, <2>1 DEF TInv, PartnersMatch
<1>6. ASSUME NEW r \in Players \ Both(p), Trading(r)
      PROVE  View(t, r) = View(m_trade, r) /\ Trader(r) \in Players \ Both(p)
  <2>1. Trader(r) \in Players \ Both(p)
    BY <1>1, <1>6, Pairs
  <2> QED BY <1>6, <2>1 DEF View, List, Trader
<1>7. AcceptedListIsCurrent'
  <2>1. ASSUME NEW r \in Players, t[r] # NULL, t[r].accepted
        PROVE  seen[r] = View(t, r)
    <3>1. r \notin Both(p)
      BY <2>1
    <3> QED BY <1>6, <2>1, <3>1 DEF TInv, AcceptedListIsCurrent, Trading
  <2> QED BY <2>1, SetCurrent
<1>8. SpellIsForListedItem'
  <2> SUFFICES ASSUME NEW r \in Players, Trading(r)'
               PROVE  t[r].spell \in {NoItem, t[Trader(r)'].items[NonTraded]}
    BY <1>0 DEF SpellIsForListedItem
  <2>1. CASE r \in Both(p)
    BY <1>2, <1>3, <2>1
  <2>2. CASE r \notin Both(p)
    <3>1. Trading(r) /\ Trader(r)' = Trader(r) /\ Trader(r) \in Players \ Both(p)
      BY <1>2, <1>3, <1>6, <2>2
    <3> QED BY <2>2, <3>1 DEF TInv, SpellIsForListedItem
  <2> QED BY <2>1, <2>2
<1>9. ListsOnce'
  BY <1>0, <1>2 DEF TInv, ListsOnce, Once, Slots, Traded, NonTraded
<1> QED BY <1>4, <1>5, <1>7, <1>8, <1>9 DEF TInv

\* A step that changes nothing but acceptances in one trade.
LEMMA AcceptInv ==
  ASSUME TInv, NEW p \in Players, Trading(p), UNCHANGED online,
         NEW t, NEW by, Set(t, by),
         t \in [Players -> TradeDatas \cup {NULL}],
         \A r \in Players \ Both(p) : t[r] = m_trade[r],
         \A r \in Both(p) :
           /\ t[r] \in TradeDatas
           /\ t[r].trader = Trader(r) /\ t[r].spell = m_trade[r].spell
           /\ t[r].items = m_trade[r].items /\ List(t, r) = List(m_trade, r)
           /\ t[r].accepted => r \in by \/ m_trade[r].accepted
  PROVE  TInv'
<1> DEFINE q == Trader(p)
<1>0. m_trade' = t
  BY DEF Set
<1>1. /\ q \in Players /\ q # p /\ Trading(q) /\ Trader(q) = p
      /\ Both(p) = {p, q}
      /\ \A r \in Players \ Both(p) : Trading(r) => Trader(r) \notin Both(p)
  BY Pairs DEF Both
<1> HIDE DEF q
<1>2. \A r \in Players : Trading(r)' <=> Trading(r)
  BY <1>0, <1>1, NullAssumption DEF Trading
<1>3. \A r \in Players : Trading(r) => Trader(r)' = Trader(r) /\ Trader(r) \in Players
  BY <1>0, <1>1, Pairs DEF Trader
<1>4. TradesTyped'
  BY <1>0, <1>2, <1>3 DEF TInv, TradesTyped
<1>5. PartnersMatch'
  BY <1>2, <1>3 DEF TInv, PartnersMatch
<1>6. \A r \in Players : List(t, r) = List(m_trade, r)
  BY DEF List
<1>7. \A r \in Players : Trading(r) => View(t, r) = View(m_trade, r)
  <2> TAKE r \in Players
  <2> HAVE Trading(r)
  <2>1. t[r].trader = Trader(r) /\ m_trade[r].trader = Trader(r)
    BY DEF Trader
  <2> QED BY <1>3, <1>6, <2>1 DEF View
<1>8. AcceptedListIsCurrent'
  <2>1. ASSUME NEW r \in Players, t[r] # NULL, t[r].accepted, r \notin by
        PROVE  seen[r] = View(t, r)
    <3>1. Trading(r) /\ m_trade[r].accepted
      BY <1>0, <1>2, <2>1 DEF Trading
    <3> QED BY <1>7, <3>1 DEF TInv, AcceptedListIsCurrent
  <2> QED BY <2>1, SetCurrent
<1>9. SpellIsForListedItem'
  <2>1. \A r \in Players : Trading(r) => t[r].spell = m_trade[r].spell /\ t[r].items = m_trade[r].items
    OBVIOUS
  <2>2. \A r \in Players : Trading(r) => Trading(Trader(r))
    BY DEF TInv, PartnersMatch
  <2> QED BY <1>0, <1>2, <1>3, <2>1, <2>2 DEF TInv, SpellIsForListedItem
<1>10. ListsOnce'
  <2>1. \A r \in Players : Trading(r) => t[r].items = m_trade[r].items
    OBVIOUS
  <2> QED BY <1>0, <1>2, <2>1 DEF TInv, ListsOnce, Once, Slots, Traded, NonTraded
<1> QED BY <1>4, <1>5, <1>8, <1>9, <1>10 DEF TInv

\* A step that opens no trade, closes none and changes no list.
LEMMA KeptInv ==
  ASSUME TInv, UNCHANGED <<m_trade, seen>>, online \subseteq online', online' \subseteq Players
  PROVE  TInv'
<1>1. TradesTyped'
  BY DEF TInv, TradesTyped, Trading, Trader
<1>2. PartnersMatch'
  BY DEF TInv, PartnersMatch, Trading, Trader
<1>3. AcceptedListIsCurrent'
  BY DEF TInv, AcceptedListIsCurrent, Trading, View, List
<1>4. SpellIsForListedItem'
  BY DEF TInv, SpellIsForListedItem, Trading, Trader
<1>5. ListsOnce'
  BY DEF TInv, ListsOnce, Once, Trading, Slots, Traded, NonTraded
<1> QED BY <1>1, <1>2, <1>3, <1>4, <1>5 DEF TInv

\* A step that closes the trades of a set of players closed under trading, and
\* after which all the other traders are still in the world.
LEMMA CloseInv ==
  ASSUME TInv, NEW W \in SUBSET Players, Set(Closed(m_trade, W), {}),
         \A r \in Players \ W : Trading(r) => Trader(r) \notin W /\ {r, Trader(r)} \subseteq online',
         online' \subseteq Players
  PROVE  TInv'
<1>0. /\ m_trade' = Closed(m_trade, W)
      /\ m_trade' = [r \in Players |-> IF r \in W THEN NULL ELSE m_trade[r]]
  BY DEF Set, Closed
<1>1. \A r \in Players : Trading(r)' <=> Trading(r) /\ r \notin W
  BY <1>0 DEF Trading
<1>2. \A r \in Players \ W : m_trade'[r] = m_trade[r] /\ Trader(r)' = Trader(r)
  BY <1>0 DEF Trader
<1>3. \A r \in Players \ W : Trading(r) => Trader(r) \in Players \ W /\ Trading(Trader(r))
  BY Pairs
<1>4. TradesTyped'
  <2>1. m_trade' \in [Players -> TradeDatas \cup {NULL}]
    BY <1>0 DEF TInv, TradesTyped
  <2> QED BY <1>1, <1>2, <2>1 DEF TInv, TradesTyped
<1>5. PartnersMatch'
  BY <1>1, <1>2, <1>3 DEF TInv, PartnersMatch
<1>6. AcceptedListIsCurrent'
  <2> DEFINE t == Closed(m_trade, W)
  <2>1. t = m_trade'
    BY <1>0
  <2> HIDE DEF t
  <2>2. ASSUME NEW r \in Players, t[r] # NULL, t[r].accepted
        PROVE  seen[r] = View(t, r)
    <3>1. r \in Players \ W /\ Trading(r)
      BY <1>1, <2>1, <2>2 DEF Trading
    <3>2. t[r] = m_trade[r] /\ t[Trader(r)] = m_trade[Trader(r)]
      BY <1>2, <1>3, <2>1, <3>1
    <3>3. View(t, r) = View(m_trade, r)
      BY <3>2 DEF View, List, Trader
    <3> QED BY <2>2, <3>1, <3>2, <3>3 DEF TInv, AcceptedListIsCurrent
  <2>3. Set(t, {})
    BY DEF t
  <2> QED BY <2>2, <2>3, SetCurrent
<1>7. SpellIsForListedItem'
  <2> SUFFICES ASSUME NEW r \in Players, Trading(r)'
               PROVE  (m_trade[r].spell \in {NoItem, m_trade[Trader(r)].items[NonTraded]})'
    BY DEF SpellIsForListedItem
  <2>1. r \in Players \ W /\ Trading(r) /\ Trader(r) \in Players \ W
    BY <1>1, <1>3
  <2>2. m_trade'[r] = m_trade[r] /\ m_trade'[Trader(r)'] = m_trade[Trader(r)]
    BY <1>2, <2>1
  <2> QED BY <2>1, <2>2 DEF TInv, SpellIsForListedItem, NonTraded
<1>8. ListsOnce'
  BY <1>1, <1>2 DEF TInv, ListsOnce, Once, Slots, Traded, NonTraded
<1> QED BY <1>4, <1>5, <1>6, <1>7, <1>8 DEF TInv

\* Taking back acceptances leaves the rest of the trades.
LEMMA Unaccepted ==
  ASSUME TInv, NEW p \in Players, Trading(p), NEW who \in SUBSET Both(p)
  PROVE  /\ Unaccept(m_trade, who) \in [Players -> TradeDatas \cup {NULL}]
         /\ \A r \in Players \ who : Unaccept(m_trade, who)[r] = m_trade[r]
         /\ \A r \in Both(p) :
              /\ Unaccept(m_trade, who)[r] \in TradeDatas
              /\ Unaccept(m_trade, who)[r].trader = Trader(r)
              /\ Unaccept(m_trade, who)[r].money = m_trade[r].money
              /\ Unaccept(m_trade, who)[r].spell = m_trade[r].spell
              /\ Unaccept(m_trade, who)[r].items = m_trade[r].items
              /\ List(Unaccept(m_trade, who), r) = List(m_trade, r)
         /\ \A r \in who : ~Unaccept(m_trade, who)[r].accepted
<1>1. /\ who \subseteq Both(p) /\ Both(p) \subseteq Players
      /\ \A r \in Both(p) : m_trade[r] \in TradeDatas
  BY Pairs DEF Both
<1>2. m_trade \in [Players -> TradeDatas \cup {NULL}]
  BY DEF TInv, TradesTyped
<1> DEFINE u == Unaccept(m_trade, who)
<1>3. u = [r \in Players |-> IF r \in who THEN [m_trade[r] EXCEPT !.accepted = FALSE] ELSE m_trade[r]]
  BY DEF Unaccept
<1> HIDE DEF u
<1>4. \A r \in Players \ who : u[r] = m_trade[r]
  BY <1>3
<1>5. ASSUME NEW r \in who
      PROVE  /\ u[r] \in TradeDatas /\ u[r].trader = m_trade[r].trader
             /\ u[r].money = m_trade[r].money /\ u[r].spell = m_trade[r].spell
             /\ u[r].items = m_trade[r].items /\ ~u[r].accepted
             /\ List(u, r) = List(m_trade, r)
  <2> DEFINE d == m_trade[r]
             e == [d EXCEPT !.accepted = FALSE]
  <2>1. u[r] = e /\ d \in TradeDatas
    BY <1>1, <1>3
  <2> HIDE DEF d
  <2>2. /\ e \in TradeDatas /\ e.trader = d.trader /\ e.money = d.money
        /\ e.spell = d.spell /\ e.items = d.items /\ e.accepted = FALSE
        /\ [e EXCEPT !.accepted = FALSE] = [d EXCEPT !.accepted = FALSE]
    BY <2>1, WithAccepted
  <2> HIDE DEF e
  <2> QED BY <2>1, <2>2 DEF List, d
<1>6. ASSUME NEW r \in Both(p) \ who
      PROVE  u[r] = m_trade[r] /\ m_trade[r] \in TradeDatas /\ List(u, r) = List(m_trade, r)
  BY <1>1, <1>4 DEF List
<1>7. u \in [Players -> TradeDatas \cup {NULL}]
  <2>1. \A r \in Players : u[r] \in TradeDatas \cup {NULL}
    BY <1>2, <1>4, <1>5
  <2> QED BY <1>3, <2>1
<1> QED BY <1>4, <1>5, <1>6, <1>7 DEF Trader, u

-----------------------------------------------------------------------------
(* One lemma per handler. *)

LEMMA InitiateTradeInv ==
  ASSUME TInv, NEW p \in Players, NEW q \in Players, InitiateTrade(p, q)
  PROVE  TInv'
<1> DEFINE t == [m_trade EXCEPT ![p] = TradeData(q), ![q] = TradeData(p)]
<1>1. /\ p # q /\ {p, q} \subseteq online /\ UNCHANGED online
      /\ ~Trading(p) /\ ~Trading(q) /\ Set(t, {})
  BY DEF InitiateTrade
<1>2. m_trade \in [Players -> TradeDatas \cup {NULL}]
  BY DEF TInv, TradesTyped
<1>3. \A r \in Players :
        /\ TradeData(r) \in TradeDatas /\ TradeData(r) # NULL
        /\ TradeData(r).trader = r /\ ~TradeData(r).accepted /\ TradeData(r).spell = NoItem
  <2> TAKE r \in Players
  <2>1. 0 \in 0..MaxGold
    BY TradeAssumption
  <2>2. TradeData(r) \in TradeDatas
    BY <2>1 DEF TradeData, TradeDatas
  <2>3. TradeData(r) # NULL
    BY <2>2, NullAssumption
  <2> QED BY <2>2, <2>3 DEF TradeData
<1>4. /\ t[p] = TradeData(q) /\ t[q] = TradeData(p)
      /\ \A r \in Players \ {p, q} : t[r] = m_trade[r]
      /\ t \in [Players -> TradeDatas \cup {NULL}]
  BY <1>1, <1>2, <1>3
<1>5. m_trade' = t
  BY <1>1 DEF Set
<1> HIDE DEF t
<1>6. \A r \in Players : Trading(r)' <=> Trading(r) \/ r \in {p, q}
  BY <1>1, <1>3, <1>4, <1>5 DEF Trading
<1>7. \A r \in Players \ {p, q} :
        Trading(r) => Trader(r)' = Trader(r) /\ Trader(r) \in Players \ {p, q}
  <2>1. \A r \in Players : Trading(r) => Trader(r) \in Players /\ Trading(Trader(r))
    BY Pairs
  <2> QED BY <1>1, <1>4, <1>5, <2>1 DEF Trader
<1>8. Trader(p)' = q /\ Trader(q)' = p
  BY <1>3, <1>4, <1>5 DEF Trader
<1>9. TradesTyped'
  BY <1>1, <1>4, <1>5, <1>6, <1>7, <1>8 DEF TInv, TradesTyped
<1>10. PartnersMatch'
  BY <1>1, <1>6, <1>7, <1>8 DEF TInv, PartnersMatch
<1>11. AcceptedListIsCurrent'
  <2>1. ASSUME NEW r \in Players, t[r] # NULL, t[r].accepted
        PROVE  seen[r] = View(t, r)
    <3>1. r \in Players \ {p, q} /\ Trading(r)
      BY <1>3, <1>4, <2>1 DEF Trading
    <3>2. t[r] = m_trade[r] /\ t[Trader(r)] = m_trade[Trader(r)]
      BY <1>4, <1>7, <3>1
    <3>3. View(t, r) = View(m_trade, r)
      BY <3>2 DEF View, List, Trader
    <3> QED BY <2>1, <3>1, <3>2, <3>3 DEF TInv, AcceptedListIsCurrent
  <2> QED BY <1>1, <2>1, SetCurrent
<1>12. SpellIsForListedItem'
  <2> SUFFICES ASSUME NEW r \in Players, Trading(r)'
               PROVE  (m_trade[r].spell \in {NoItem, m_trade[Trader(r)].items[NonTraded]})'
    BY DEF SpellIsForListedItem
  <2>1. CASE r \in {p, q}
    BY <1>3, <1>4, <1>5, <2>1
  <2>2. CASE r \notin {p, q}
    <3>1. Trading(r) /\ m_trade'[r] = m_trade[r] /\ m_trade'[Trader(r)'] = m_trade[Trader(r)]
      BY <1>4, <1>5, <1>6, <1>7, <2>2
    <3> QED BY <3>1 DEF TInv, SpellIsForListedItem, NonTraded
  <2> QED BY <2>1, <2>2
<1>13. ListsOnce'
  <2>1. \A r \in {p, q} : m_trade'[r].items = [s \in Slots |-> NoItem]
    BY <1>4, <1>5 DEF TradeData
  <2>2. \A r \in Players \ {p, q} : Trading(r)' => Trading(r) /\ m_trade'[r] = m_trade[r]
    BY <1>4, <1>5, <1>6
  <2>3. Once([s \in Slots |-> NoItem])
    BY DEF Once
  <2> SUFFICES ASSUME NEW r \in Players, Trading(r)' PROVE Once(m_trade'[r].items)
    BY DEF ListsOnce
  <2>4. CASE r \in {p, q}
    BY <2>1, <2>3, <2>4
  <2>5. CASE r \notin {p, q}
    BY <2>2, <2>5 DEF TInv, ListsOnce
  <2> QED BY <2>4, <2>5
<1> QED BY <1>9, <1>10, <1>11, <1>12, <1>13 DEF TInv

LEMMA TradeCancelInv ==
  ASSUME TInv, NEW p \in Players, Trading(p), Set(Closed(m_trade, Both(p)), {}),
         online' \in {online, online \ {p}}
  PROVE  TInv'
<1>1. Both(p) \in SUBSET Players
  BY Pairs DEF Both
<1>2. \A r \in Players \ Both(p) :
        Trading(r) => Trader(r) \notin Both(p) /\ {r, Trader(r)} \subseteq online
  BY Pairs
<1>3. \A r \in Players \ Both(p) : Trading(r) => {r, Trader(r)} \subseteq online'
  BY <1>2 DEF Both
<1>4. online' \subseteq Players
  BY DEF TInv, TradesTyped
<1> QED BY <1>1, <1>2, <1>3, <1>4, CloseInv

LEMMA SetMoneyInv ==
  ASSUME TInv, NEW p \in Players, NEW gold \in 0..MaxGold, SetMoney(p, gold)
  PROVE  TInv'
<1> DEFINE u == Unaccept(m_trade, Both(p))
           t == [u EXCEPT ![p].money = gold]
<1>1. Trading(p) /\ Set(t, {}) /\ UNCHANGED online
  BY DEF SetMoney
<1>2. /\ u \in [Players -> TradeDatas \cup {NULL}]
      /\ \A r \in Players \ Both(p) : u[r] = m_trade[r]
      /\ \A r \in Both(p) : /\ u[r] \in TradeDatas /\ u[r].trader = Trader(r)
                            /\ u[r].spell = m_trade[r].spell /\ u[r].items = m_trade[r].items
                            /\ ~u[r].accepted
  BY <1>1, Unaccepted
<1>3. p \in Both(p) /\ \A r \in Both(p) : r \in Players /\ Trading(r) /\ Trader(r) \in Both(p)
  BY <1>1, Pairs DEF Both
<1> HIDE DEF u
<1>4. /\ t[p] = [u[p] EXCEPT !.money = gold]
      /\ \A r \in Players \ {p} : t[r] = u[r]
  BY <1>2, <1>3
<1>5. /\ t[p] \in TradeDatas /\ t[p].trader = u[p].trader /\ t[p].spell = u[p].spell
      /\ t[p].items = u[p].items /\ t[p].accepted = u[p].accepted
  <2> DEFINE d == u[p]
  <2>1. d \in TradeDatas /\ t[p] = [d EXCEPT !.money = gold]
    BY <1>2, <1>3, <1>4
  <2> HIDE DEF d
  <2> QED BY <2>1 DEF TradeDatas, d
<1>6. t \in [Players -> TradeDatas \cup {NULL}]
  BY <1>2, <1>5
<1> HIDE DEF t
<1>7. ASSUME NEW r \in Both(p)
      PROVE  /\ t[r] \in TradeDatas /\ t[r].trader = Trader(r) /\ ~t[r].accepted
             /\ t[r].spell = m_trade[r].spell /\ t[r].items = m_trade[r].items
  BY <1>2, <1>3, <1>4, <1>5
<1>8. \A r \in Both(p) : t[r].spell \in {NoItem, t[Trader(r)].items[NonTraded]}
  BY <1>3, <1>7 DEF TInv, SpellIsForListedItem
<1>9. \A r \in Players \ Both(p) : t[r] = m_trade[r]
  BY <1>2, <1>3, <1>4
<1>10. \A r \in Both(p) : Once(t[r].items)
  BY <1>3, <1>7 DEF TInv, ListsOnce
<1> QED BY <1>1, <1>6, <1>7, <1>8, <1>9, <1>10, EditInv

LEMMA SetItemInv ==
  ASSUME TInv, NEW p \in Players, Trading(p), UNCHANGED online,
         NEW s \in Slots, NEW i \in Items \cup {NoItem}, SetItem(p, s, i),
         i = NoItem \/ ~HasItem(p, i)
  PROVE  TInv'
<1> DEFINE u == Unaccept(m_trade, Both(p))
           q == Trader(p)
           t == [u EXCEPT ![p].items[s] = i, ![p].spell = NoItem,
                          ![q].spell = IF s = NonTraded THEN NoItem ELSE @]
<1>1. Set(t, {})
  BY DEF SetItem
<1>2. /\ u \in [Players -> TradeDatas \cup {NULL}]
      /\ \A r \in Players \ Both(p) : u[r] = m_trade[r]
      /\ \A r \in Both(p) : /\ u[r] \in TradeDatas /\ u[r].trader = Trader(r)
                            /\ u[r].spell = m_trade[r].spell /\ u[r].items = m_trade[r].items
                            /\ ~u[r].accepted
  BY Unaccepted
<1>3. /\ q \in Players /\ q # p /\ Trading(q) /\ Trader(q) = p /\ Both(p) = {p, q}
      /\ NonTraded \in Slots
  BY Pairs DEF Both, Slots
<1> HIDE DEF u, q
<1>4. /\ t[p] = [u[p] EXCEPT !.items = [u[p].items EXCEPT ![s] = i], !.spell = NoItem]
      /\ t[q] = [u[q] EXCEPT !.spell = IF s = NonTraded THEN NoItem ELSE u[q].spell]
      /\ \A r \in Players \ {p, q} : t[r] = u[r]
  BY <1>2, <1>3
<1>5. /\ t[p] \in TradeDatas /\ t[p].trader = u[p].trader /\ t[p].accepted = u[p].accepted
      /\ t[p].spell = NoItem /\ t[p].items = [u[p].items EXCEPT ![s] = i]
  <2> DEFINE its == [u[p].items EXCEPT ![s] = i]
  <2>1. u[p] \in TradeDatas
    BY <1>2, <1>3
  <2>2. its \in [Slots -> Items \cup {NoItem}]
    BY <2>1 DEF TradeDatas
  <2> HIDE DEF its
  <2>3. t[p] = [u[p] EXCEPT !.items = its, !.spell = NoItem]
    BY <1>4 DEF its
  <2> DEFINE d == [u[p] EXCEPT !.items = its]
  <2>4. /\ d \in TradeDatas /\ d.trader = u[p].trader /\ d.accepted = u[p].accepted
        /\ d.items = its
    BY <2>1, <2>2, WithItems
  <2>5. t[p] = [d EXCEPT !.spell = NoItem]
    BY <2>3
  <2> HIDE DEF d, t
  <2>6. /\ t[p] \in TradeDatas /\ t[p].trader = d.trader /\ t[p].accepted = d.accepted
        /\ t[p].spell = NoItem /\ t[p].items = d.items
    BY <2>4, <2>5, WithSpell
  <2> QED BY <2>4, <2>6 DEF its
<1>6. /\ t[q] \in TradeDatas /\ t[q].trader = u[q].trader /\ t[q].accepted = u[q].accepted
      /\ t[q].spell = (IF s = NonTraded THEN NoItem ELSE u[q].spell) /\ t[q].items = u[q].items
  BY <1>2, <1>3, <1>4 DEF TradeDatas
<1>7. t \in [Players -> TradeDatas \cup {NULL}]
  BY <1>2, <1>5, <1>6
<1> HIDE DEF t
<1>8. \A r \in Both(p) : t[r] \in TradeDatas /\ t[r].trader = Trader(r) /\ ~t[r].accepted
  BY <1>2, <1>3, <1>5, <1>6
<1>9. \A r \in Both(p) : t[r].spell \in {NoItem, t[Trader(r)].items[NonTraded]}
  <2>1. u[p].items \in [Slots -> Items \cup {NoItem}]
    BY <1>2, <1>3 DEF TradeDatas
  <2>2. u[q].spell \in {NoItem, u[p].items[NonTraded]}
    BY <1>2, <1>3 DEF TInv, SpellIsForListedItem
  <2>3. s # NonTraded => t[p].items[NonTraded] = u[p].items[NonTraded]
    BY <1>3, <1>5, <2>1
  <2> QED BY <1>3, <1>5, <1>6, <2>2, <2>3
<1>10. \A r \in Players \ Both(p) : t[r] = m_trade[r]
  BY <1>2, <1>3, <1>4
<1>11. \A r \in Both(p) : Once(t[r].items)
  <2>1. Trading(p) /\ u[p].items = m_trade[p].items /\ u[q].items = m_trade[q].items
    BY <1>2, <1>3
  <2>2. Once(t[q].items)
    BY <1>3, <1>6, <2>1 DEF TInv, ListsOnce
  <2>3. Once(u[p].items) /\ u[p].items \in [Slots -> Items \cup {NoItem}]
    BY <1>2, <1>3, <2>1 DEF TInv, ListsOnce, TradeDatas
  <2>4. i = NoItem \/ \A x \in Slots : u[p].items[x] # i
    BY <2>1 DEF HasItem
  <2> DEFINE list == u[p].items
             new == [list EXCEPT ![s] = i]
  <2> HIDE DEF list
  <2>5. Once(new)
    BY <2>3, <2>4 DEF Once, list
  <2> QED BY <1>3, <1>5, <2>2, <2>5 DEF list
<1> QED BY <1>1, <1>7, <1>8, <1>9, <1>10, <1>11, EditInv

LEMMA SetSpellInv ==
  ASSUME TInv, NEW p \in Players, SetSpell(p)
  PROVE  TInv'
<1> DEFINE u == Unaccept(m_trade, Both(p))
           q == Trader(p)
           t == [u EXCEPT ![p].spell = m_trade[q].items[NonTraded]]
<1>1. Trading(p) /\ Set(t, {}) /\ UNCHANGED online
  BY DEF SetSpell
<1>2. /\ u \in [Players -> TradeDatas \cup {NULL}]
      /\ \A r \in Players \ Both(p) : u[r] = m_trade[r]
      /\ \A r \in Both(p) : /\ u[r] \in TradeDatas /\ u[r].trader = Trader(r)
                            /\ u[r].spell = m_trade[r].spell /\ u[r].items = m_trade[r].items
                            /\ ~u[r].accepted
  BY <1>1, Unaccepted
<1>3. /\ q \in Players /\ q # p /\ Trading(q) /\ Trader(q) = p /\ Both(p) = {p, q}
      /\ NonTraded \in Slots
  BY <1>1, Pairs DEF Both, Slots
<1> HIDE DEF u, q
<1>4. /\ t[p] = [u[p] EXCEPT !.spell = m_trade[q].items[NonTraded]]
      /\ \A r \in Players \ {p} : t[r] = u[r]
  BY <1>2, <1>3
<1>5. m_trade[q].items[NonTraded] \in Items \cup {NoItem}
  BY <1>2, <1>3 DEF TradeDatas
<1>6. /\ t[p] \in TradeDatas /\ t[p].trader = u[p].trader /\ t[p].accepted = u[p].accepted
      /\ t[p].spell = m_trade[q].items[NonTraded] /\ t[p].items = u[p].items
  BY <1>2, <1>3, <1>4, <1>5, WithSpell
<1>7. t \in [Players -> TradeDatas \cup {NULL}]
  BY <1>2, <1>6
<1> HIDE DEF t
<1>8. \A r \in Both(p) : /\ t[r] \in TradeDatas /\ t[r].trader = Trader(r) /\ ~t[r].accepted
                         /\ t[r].items = m_trade[r].items
  <2>1. t[q] = u[q]
    BY <1>3, <1>4
  <2>2. p \in Both(p) /\ q \in Both(p) /\ \A r \in Both(p) : r = p \/ r = q
    BY <1>3
  <2> QED BY <1>2, <1>6, <2>1, <2>2
<1>9. \A r \in Both(p) : t[r].spell \in {NoItem, t[Trader(r)].items[NonTraded]}
  <2>1. t[p].spell = t[q].items[NonTraded]
    BY <1>3, <1>6, <1>8
  <2>2. t[q].spell = m_trade[q].spell
    BY <1>2, <1>3, <1>4
  <2>3. m_trade[q].spell \in {NoItem, m_trade[p].items[NonTraded]}
    BY <1>3 DEF TInv, SpellIsForListedItem
  <2> QED BY <1>1, <1>3, <1>8, <2>1, <2>2, <2>3 DEF q
<1>10. \A r \in Players \ Both(p) : t[r] = m_trade[r]
  BY <1>2, <1>3, <1>4
<1>11. \A r \in Both(p) : Once(t[r].items)
  <2>1. \A r \in Both(p) : r \in Players /\ Trading(r) /\ t[r].items = m_trade[r].items
    BY <1>1, <1>3, <1>8
  <2> QED BY <2>1 DEF TInv, ListsOnce
<1> QED BY <1>1, <1>7, <1>8, <1>9, <1>10, <1>11, EditInv

LEMMA UnacceptTradeInv ==
  ASSUME TInv, NEW p \in Players, UnacceptTrade(p)
  PROVE  TInv'
<1> DEFINE t == Unaccept(m_trade, {p})
<1>1. Trading(p) /\ Set(t, {}) /\ UNCHANGED online
  BY DEF UnacceptTrade
<1>2. {p} \in SUBSET Both(p) /\ Both(p) \subseteq Players
  BY <1>1, Pairs DEF Both
<1>3. /\ t \in [Players -> TradeDatas \cup {NULL}]
      /\ \A r \in Players \ {p} : t[r] = m_trade[r]
      /\ ~t[p].accepted
      /\ \A r \in Both(p) :
           /\ t[r] \in TradeDatas
           /\ t[r].trader = Trader(r) /\ t[r].spell = m_trade[r].spell
           /\ t[r].items = m_trade[r].items /\ List(t, r) = List(m_trade, r)
  BY <1>1, <1>2, Unaccepted
<1> HIDE DEF t
<1>4. \A r \in Both(p) : t[r].accepted => r \in {} \/ m_trade[r].accepted
  BY <1>2, <1>3
<1>5. \A r \in Players \ Both(p) : t[r] = m_trade[r]
  BY <1>2, <1>3
<1> QED BY <1>1, <1>3, <1>4, <1>5, AcceptInv

\* p's acceptance is set first; the sides in `back` lose theirs again.
LEMMA AcceptedInv ==
  ASSUME TInv, NEW p \in Players, Trading(p), UNCHANGED online,
         NEW back \in SUBSET Both(p), Set(Unaccept(Accepted(p), back), {p})
  PROVE  TInv'
<1> DEFINE a == Accepted(p)
           t == Unaccept(a, back)
<1>1. m_trade \in [Players -> TradeDatas \cup {NULL}]
  BY DEF TInv, TradesTyped
<1>2. /\ p \in Both(p) /\ Both(p) \subseteq Players
      /\ \A r \in Both(p) : m_trade[r] \in TradeDatas
  BY Pairs DEF Both
<1>3. /\ a[p] = [m_trade[p] EXCEPT !.accepted = TRUE]
      /\ \A r \in Players \ {p} : a[r] = m_trade[r]
  BY <1>1 DEF Accepted
<1> HIDE DEF a
<1>4. ASSUME NEW r \in Both(p)
      PROVE  /\ a[r] \in TradeDatas /\ a[r].trader = m_trade[r].trader
             /\ a[r].spell = m_trade[r].spell /\ a[r].items = m_trade[r].items
             /\ [a[r] EXCEPT !.accepted = FALSE] = [m_trade[r] EXCEPT !.accepted = FALSE]
             /\ a[r].accepted => r \in {p} \/ m_trade[r].accepted
  <2>1. CASE r = p
    <3>1. a[r] = [m_trade[r] EXCEPT !.accepted = TRUE] /\ m_trade[r] \in TradeDatas
      BY <1>2, <1>3, <2>1
    <3> DEFINE e == [m_trade[r] EXCEPT !.accepted = TRUE]
    <3>2. /\ e \in TradeDatas /\ e.trader = m_trade[r].trader /\ e.spell = m_trade[r].spell
          /\ e.items = m_trade[r].items
          /\ [e EXCEPT !.accepted = FALSE] = [m_trade[r] EXCEPT !.accepted = FALSE]
      BY <3>1, WithAccepted
    <3>3. a[r] = e
      BY <3>1
    <3> HIDE DEF e
    <3> QED BY <2>1, <3>2, <3>3
  <2>2. CASE r # p
    BY <1>2, <1>3, <2>2
  <2> QED BY <2>1, <2>2
<1>5. t = [r \in Players |-> IF r \in back THEN [a[r] EXCEPT !.accepted = FALSE] ELSE a[r]]
  BY DEF Unaccept
<1> HIDE DEF t
<1>6. ASSUME NEW r \in Both(p)
      PROVE  /\ t[r] \in TradeDatas /\ t[r].trader = m_trade[r].trader
             /\ t[r].spell = m_trade[r].spell /\ t[r].items = m_trade[r].items
             /\ [t[r] EXCEPT !.accepted = FALSE] = [m_trade[r] EXCEPT !.accepted = FALSE]
             /\ t[r].accepted => r \in {p} \/ m_trade[r].accepted
  <2>1. CASE r \in back
    <3>1. t[r] = [a[r] EXCEPT !.accepted = FALSE] /\ a[r] \in TradeDatas
      <4>1. r \in Players
        BY <1>2
      <4>2. t[r] = [a[r] EXCEPT !.accepted = FALSE]
        BY <1>5, <2>1, <4>1
      <4> QED BY <1>4, <4>2
    <3>2. /\ t[r] \in TradeDatas /\ t[r].trader = a[r].trader /\ t[r].spell = a[r].spell
          /\ t[r].items = a[r].items /\ ~t[r].accepted
          /\ [t[r] EXCEPT !.accepted = FALSE] = [a[r] EXCEPT !.accepted = FALSE]
      <4> DEFINE d == a[r]
                 e == [d EXCEPT !.accepted = FALSE]
      <4>1. d \in TradeDatas /\ t[r] = e
        BY <3>1
      <4> HIDE DEF d
      <4>2. /\ e \in TradeDatas /\ e.trader = d.trader /\ e.spell = d.spell
            /\ e.items = d.items /\ ~e.accepted
            /\ [e EXCEPT !.accepted = FALSE] = [d EXCEPT !.accepted = FALSE]
        BY <4>1, WithAccepted
      <4> HIDE DEF e
      <4> QED BY <4>1, <4>2 DEF d
    <3> QED BY <1>4, <3>2
  <2>2. CASE r \notin back
    BY <1>2, <1>4, <1>5, <2>2
  <2> QED BY <2>1, <2>2
<1>7. \A r \in Players \ Both(p) : t[r] = m_trade[r]
  BY <1>2, <1>3, <1>5
<1>8. t \in [Players -> TradeDatas \cup {NULL}]
  <2>1. \A r \in Players : t[r] \in TradeDatas \cup {NULL}
    BY <1>1, <1>6, <1>7
  <2> QED BY <1>5, <2>1
<1>9. \A r \in Both(p) :
         /\ t[r] \in TradeDatas
         /\ t[r].trader = Trader(r) /\ t[r].spell = m_trade[r].spell
         /\ t[r].items = m_trade[r].items /\ List(t, r) = List(m_trade, r)
         /\ t[r].accepted => r \in {p} \/ m_trade[r].accepted
  BY <1>6 DEF List, Trader
<1>10. Set(t, {p})
  BY DEF t, a
<1> QED BY <1>7, <1>8, <1>9, <1>10, AcceptInv

LEMMA AcceptRefusedInv ==
  ASSUME TInv, NEW p \in Players, Trading(p), AcceptRefused(p, Trader(p))
  PROVE  TInv'
<1>1. MoneyProblem(p, Trader(p)) \in SUBSET Both(p)
  BY DEF MoneyProblem, Both
<1> QED BY <1>1, AcceptedInv DEF AcceptRefused

LEMMA AcceptFirstInv ==
  ASSUME TInv, NEW p \in Players, Trading(p), AcceptFirst(p, Trader(p))
  PROVE  TInv'
<1>1. Accepted(p) = Unaccept(Accepted(p), {})
  <2>1. Accepted(p) = [r \in Players |-> Accepted(p)[r]]
    BY DEF Accepted, TInv, TradesTyped
  <2> QED BY <2>1 DEF Unaccept
<1> QED BY <1>1, AcceptedInv DEF AcceptFirst

\* The spell that fails is forgotten and both acceptances with it.
LEMMA SpellFailsInv ==
  ASSUME TInv, NEW p \in Players, Trading(p), SpellFails(p, Trader(p))
  PROVE  TInv'
<1>1. PICK r \in {p, Trader(p)} : Set([Unaccept(m_trade, {p, Trader(p)}) EXCEPT ![r].spell = NoItem], {})
  BY DEF SpellFails
<1> DEFINE u == Unaccept(m_trade, Both(p))
           t == [u EXCEPT ![r].spell = NoItem]
<1>2. Set(t, {}) /\ UNCHANGED online
  BY <1>1 DEF SpellFails, Both
<1>3. /\ u \in [Players -> TradeDatas \cup {NULL}]
      /\ \A x \in Players \ Both(p) : u[x] = m_trade[x]
      /\ \A x \in Both(p) : /\ u[x] \in TradeDatas /\ u[x].trader = Trader(x)
                            /\ u[x].spell = m_trade[x].spell /\ u[x].items = m_trade[x].items
                            /\ ~u[x].accepted
  BY Unaccepted
<1>4. r \in Both(p) /\ \A x \in Both(p) : x \in Players /\ Trading(x) /\ Trader(x) \in Both(p)
  BY Pairs DEF Both
<1> HIDE DEF u
<1>5. /\ t[r] = [u[r] EXCEPT !.spell = NoItem]
      /\ \A x \in Players \ {r} : t[x] = u[x]
  BY <1>3, <1>4
<1>6. /\ t[r] \in TradeDatas /\ t[r].trader = u[r].trader /\ t[r].accepted = u[r].accepted
      /\ t[r].spell = NoItem /\ t[r].items = u[r].items
  BY <1>3, <1>4, <1>5 DEF TradeDatas
<1>7. t \in [Players -> TradeDatas \cup {NULL}]
  BY <1>3, <1>6
<1> HIDE DEF t
<1>8. ASSUME NEW x \in Both(p)
      PROVE  /\ t[x] \in TradeDatas /\ t[x].trader = Trader(x) /\ ~t[x].accepted
             /\ t[x].spell \in {NoItem, m_trade[x].spell} /\ t[x].items = m_trade[x].items
  <2>1. CASE x = r
    BY <1>3, <1>4, <1>6, <2>1
  <2>2. CASE x # r
    BY <1>3, <1>4, <1>5, <2>2
  <2> QED BY <2>1, <2>2
<1>9. \A x \in Both(p) : t[x].spell \in {NoItem, t[Trader(x)].items[NonTraded]}
  BY <1>4, <1>8 DEF TInv, SpellIsForListedItem
<1>10. \A x \in Players \ Both(p) : t[x] = m_trade[x]
  BY <1>3, <1>4, <1>5
<1>11. \A x \in Both(p) : Once(t[x].items)
  BY <1>4, <1>8 DEF TInv, ListsOnce
<1> QED BY <1>2, <1>7, <1>8, <1>9, <1>10, <1>11, EditInv

LEMMA AcceptNoRoomInv ==
  ASSUME TInv, NEW p \in Players, Trading(p), AcceptNoRoom(p, Trader(p))
  PROVE  TInv'
<1> DEFINE t == Unaccept(m_trade, Both(p))
<1>1. Set(t, {}) /\ UNCHANGED online
  BY DEF AcceptNoRoom, Both
<1>2. Both(p) \in SUBSET Both(p) /\ Both(p) \subseteq Players
  BY Pairs DEF Both
<1>3. /\ t \in [Players -> TradeDatas \cup {NULL}]
      /\ \A r \in Players \ Both(p) : t[r] = m_trade[r]
      /\ \A r \in Both(p) :
           /\ t[r] \in TradeDatas
           /\ t[r].trader = Trader(r) /\ t[r].spell = m_trade[r].spell
           /\ t[r].items = m_trade[r].items /\ List(t, r) = List(m_trade, r)
      /\ \A r \in Both(p) : ~t[r].accepted
  BY <1>2, Unaccepted
<1> HIDE DEF t
<1> QED BY <1>1, <1>3, AcceptInv

\* The exchange closes the trade; what it does to the goods is not looked at.
LEMMA AcceptTradeInv ==
  ASSUME TInv, NEW p \in Players, AcceptTrade(p)
  PROVE  TInv'
<1>1. Trading(p)
  BY DEF AcceptTrade
<1>2. CASE CompleteTrade(p, Trader(p))
  <2>1. Set(Closed(m_trade, Both(p)), {}) /\ UNCHANGED online
    BY <1>2 DEF CompleteTrade, Both
  <2> QED BY <1>1, <2>1, TradeCancelInv
<1> QED BY <1>1, <1>2, AcceptRefusedInv, AcceptFirstInv, SpellFailsInv, AcceptNoRoomInv
        DEF AcceptTrade

\* A player who logs out leaves its trade, if it has one.
LEMMA LogoutInv ==
  ASSUME TInv, NEW p \in Players, Logout(p)
  PROVE  TInv'
<1>1. online' = online \ {p}
  BY DEF Logout
<1>2. CASE Trading(p)
  BY <1>1, <1>2, TradeCancelInv DEF Logout
<1>3. CASE ~Trading(p)
  <2>1. Set(Closed(m_trade, {}), {})
    <3>1. m_trade = Closed(m_trade, {})
      BY DEF Closed, TInv, TradesTyped
    <3> QED BY <1>3, <3>1 DEF Logout
  <2>2. \A r \in Players : Trading(r) => {r, Trader(r)} \subseteq online'
    BY <1>1, <1>3 DEF TInv, PartnersMatch
  <2>3. {} \in SUBSET Players /\ online' \subseteq Players
    BY <1>1 DEF TInv, TradesTyped
  <2> QED BY <2>1, <2>2, <2>3, CloseInv
<1> QED BY <1>2, <1>3

LEMMA CrashInv ==
  ASSUME TInv, Crash
  PROVE  TInv'
<1>1. Set(Closed(m_trade, Players), {}) /\ online' = {}
  BY DEF Crash
<1> QED BY <1>1, CloseInv

-----------------------------------------------------------------------------
(* The invariant and the theorems. *)

LEMMA TInvInit == Init => TInv
<1> SUFFICES ASSUME Init PROVE TInv
  OBVIOUS
<1>1. \A p \in Players : ~Trading(p)
  BY DEF Init, Trading
<1> QED BY <1>1 DEF Init, TInv, TradesTyped, ListsOnce, PartnersMatch, AcceptedListIsCurrent, SpellIsForListedItem

LEMMA TInvNext == TInv /\ [Next]_vars => TInv'
<1> SUFFICES ASSUME TInv, [Next]_vars PROVE TInv'
  OBVIOUS
<1>1. ASSUME NEW p \in Players, NEW q \in Players, InitiateTrade(p, q) PROVE TInv'
  BY <1>1, InitiateTradeInv
<1>2. ASSUME NEW p \in Players, TradeCancel(p) PROVE TInv'
  BY <1>2, TradeCancelInv DEF TradeCancel
<1>3. ASSUME NEW p \in Players, NEW gold \in 0..MaxGold, SetMoney(p, gold) PROVE TInv'
  BY <1>3, SetMoneyInv
<1>4. ASSUME NEW p \in Players, NEW s \in Slots, ClearTradeItem(p, s) PROVE TInv'
  BY <1>4, SetItemInv, Zenon DEF ClearTradeItem
<1>5. ASSUME NEW p \in Players, NEW s \in Slots, NEW i \in Items, SetTradeItem(p, s, i) PROVE TInv'
  BY <1>5, SetItemInv DEF SetTradeItem
<1>6. ASSUME NEW p \in Players, SetSpell(p) PROVE TInv'
  BY <1>6, SetSpellInv
<1>7. ASSUME NEW p \in Players, UnacceptTrade(p) PROVE TInv'
  BY <1>7, UnacceptTradeInv
<1>8. ASSUME NEW p \in Players, AcceptTrade(p) PROVE TInv'
  BY <1>8, AcceptTradeInv
<1>9. ASSUME NEW p \in Players, NEW i \in Items, LoseItem(p, i) \/ BindItem(p, i) PROVE TInv'
  <2>1. UNCHANGED <<m_trade, seen, online>>
    BY <1>9 DEF LoseItem, BindItem
  <2> QED BY <2>1, KeptInv DEF TInv, TradesTyped
<1>10. ASSUME NEW p \in Players, SpendMoney(p) \/ EarnMoney(p) \/ Save(p) PROVE TInv'
  <2>1. UNCHANGED <<m_trade, seen, online>>
    BY <1>10 DEF SpendMoney, EarnMoney, Save
  <2> QED BY <2>1, KeptInv DEF TInv, TradesTyped
<1>11. ASSUME NEW p \in Players, Logout(p) PROVE TInv'
  BY <1>11, LogoutInv
<1>12. ASSUME NEW p \in Players, Login(p) PROVE TInv'
  <2>1. UNCHANGED <<m_trade, seen>> /\ online' = online \cup {p}
    BY <1>12 DEF Login
  <2> QED BY <2>1, KeptInv DEF TInv, TradesTyped
<1>13. CASE Crash
  BY <1>13, CrashInv
<1>14. CASE UNCHANGED vars
  <2>1. UNCHANGED <<m_trade, seen, online>>
    BY <1>14 DEF vars
  <2> QED BY <2>1, KeptInv DEF TInv, TradesTyped
<1> QED BY <1>1, <1>2, <1>3, <1>4, <1>5, <1>6, <1>7, <1>8, <1>9, <1>10, <1>11, <1>12, <1>13, <1>14
        DEF Next

LEMMA TInvAlways == Spec => []TInv
BY TInvInit, TInvNext, PTL DEF Spec

\* Trades are pairs of players in the world, whoever logs out and whatever the
\* handlers are sent (Player::m_trade, TradeData::m_trader).
THEOREM PartnersAlwaysMatch == Spec => []PartnersMatch
<1>1. TInv => PartnersMatch
  BY DEF TInv
<1> QED BY <1>1, TInvAlways, PTL

\* No acceptance outlives a change of what was accepted (TradeData::SetAccepted
\* and every caller of it).
THEOREM AcceptanceIsCurrent == Spec => []AcceptedListIsCurrent
<1>1. TInv => AcceptedListIsCurrent
  BY DEF TInv
<1> QED BY <1>1, TInvAlways, PTL

\* A remembered spell belongs to the item now in the other side's not traded
\* slot (TradeData::SetItem, TradeData::SetSpell).
THEOREM SpellBelongsToItem == Spec => []SpellIsForListedItem
<1>1. TInv => SpellIsForListedItem
  BY DEF TInv
<1> QED BY <1>1, TInvAlways, PTL

-----------------------------------------------------------------------------
(* moveItems is a recursive function over the slots.  That it exists, and    *)
(* induction over the slots, follow from the order of the naturals being    *)
(* well-founded: facts about sets, where a rule with an operator for its    *)
(* parameter would be out of the provers' reach.                            *)

\* A set of numbers has a least one.
LEMMA LeastSlot ==
  ASSUME NEW T \in SUBSET Nat, T # {}
  PROVE  \E n \in T : \A k \in T : n <= k
<1>1. PICK n \in T : \A k \in T : <<k, n>> \notin OpToRel(<, Nat)
  BY WFMin, NatLessThanWellFounded, Zenon
<1>2. \A k \in T : ~(k < n)
  BY <1>1 DEF OpToRel
<1>3. \A k \in T : n <= k
  BY <1>2
<1> QED BY <1>3

\* moveItems goes through the slots in their order.
LEMMA moveItemsSteps ==
  ASSUME NEW p, NEW q
  PROVE  \E f : /\ f[0] = removed(p, q)
                /\ \A s \in 1..TradedSlots : f[s] = movePair(p, q, f[s - 1], s)
                /\ moveItems(p, q) = f[TradedSlots]
<1> DEFINE R == removed(p, q)
           M(x, s) == movePair(p, q, x, s)
           Good(g, n) == g = [s \in 0..n |-> IF s = 0 THEN R ELSE M(g[s - 1], s)]
           F == CHOOSE g : Good(g, TradedSlots)
           T == {n \in 0..TradedSlots : ~\E g : Good(g, n)}
<1>1. moveItems(p, q) = F[TradedSlots]
  BY Zenon DEF moveItems
<1>0. TradedSlots \in Nat
  BY TradeAssumption
<1> HIDE DEF R, M
<1>2. ASSUME T # {} PROVE FALSE
  <2>1. T \subseteq 0..TradedSlots
    OBVIOUS
  <2>2. T \in SUBSET Nat
    BY <1>0, <2>1
  <2>3. PICK n \in T : \A k \in T : n <= k
    BY <1>2, <2>2, LeastSlot, Zenon
  <2>4. n \in Nat /\ n <= TradedSlots
    <3> HIDE DEF T
    <3> QED BY <1>0, <2>1, <2>3
  <2>5. CASE n = 0
    <3> DEFINE h == [s \in 0..n |-> R]
    <3>1. \A s \in 0..n : R = IF s = 0 THEN R ELSE M(h[s - 1], s)
      <4>1. \A s \in 0..n : s = 0
        BY <2>5
      <4> QED BY <4>1
    <3>2. h = [s \in 0..n |-> IF s = 0 THEN R ELSE M(h[s - 1], s)]
      BY <3>1, Zenon
    <3>3. \E g : Good(g, n)
      BY <3>2, Zenon
    <3> QED BY <2>3, <3>3, Zenon
  <2>6. CASE n # 0
    <3>1. n - 1 \in 0..TradedSlots /\ n - 1 \notin T
      <4> HIDE DEF T
      <4> QED BY <1>0, <2>3, <2>4, <2>6
    <3>2. PICK g : Good(g, n - 1)
      BY <3>1, Zenon
    <3> DEFINE h == [s \in 0..n |-> IF s = n THEN M(g[n - 1], n) ELSE g[s]]
    <3>3. ASSUME NEW s \in 0..n PROVE h[s] = IF s = 0 THEN R ELSE M(h[s - 1], s)
      <4>1. CASE s = n
        <5>1. h[s] = M(g[n - 1], n) /\ h[s - 1] = g[n - 1]
          BY <2>4, <2>6, <4>1
        <5> QED BY <2>6, <4>1, <5>1
      <4>2. CASE s # n
        <5>1. s \in 0..(n - 1) /\ h[s] = g[s]
          BY <2>4, <4>2
        <5>2. g[s] = IF s = 0 THEN R ELSE M(g[s - 1], s)
          BY <3>2, <5>1
        <5>3. CASE s = 0
          BY <5>1, <5>2, <5>3
        <5>4. CASE s # 0
          <6>1. h[s - 1] = g[s - 1]
            BY <2>4, <4>2, <5>4
          <6> QED BY <5>1, <5>2, <5>4, <6>1
        <5> QED BY <5>3, <5>4
      <4> QED BY <4>1, <4>2
    <3>4. h = [s \in 0..n |-> h[s]]
      OBVIOUS
    <3> HIDE DEF h
    <3>5. Good(h, n)
      BY <3>3, <3>4
    <3> QED BY <2>3, <3>5
  <2> QED BY <2>5, <2>6
<1>3. \E g : Good(g, TradedSlots)
  BY <1>0, <1>2
<1>4. Good(F, TradedSlots)
  BY <1>3, Zenon
<1> HIDE DEF F
<1>5. F[0] = R
  BY <1>0, <1>4
<1>6. \A s \in 1..TradedSlots : F[s] = M(F[s - 1], s)
  BY <1>0, <1>4
<1> QED BY <1>1, <1>5, <1>6 DEF R, M

\* Induction over slots, for the set of those at which something holds.
LEMMA AllSlots ==
  ASSUME NEW K \in Nat, NEW T \in SUBSET Nat, 0 \in T, \A s \in 1..K : s - 1 \in T => s \in T
  PROVE  \A s \in 0..K : s \in T
<1> DEFINE U == {n \in 0..K : n \notin T}
<1>0. U \in SUBSET Nat /\ U \subseteq 0..K /\ \A n \in U : n \notin T
  OBVIOUS
<1>1. ASSUME U # {} PROVE FALSE
  <2>1. PICK n \in U : \A k \in U : n <= k
    BY <1>0, <1>1, LeastSlot, Zenon
  <2>2. n \in 1..K /\ n - 1 \in 0..K /\ n \notin T
    <3> HIDE DEF U
    <3> QED BY <1>0, <2>1
  <2>3. n - 1 \notin T
    BY <2>2
  <2>4. n - 1 \in U
    BY <2>2, <2>3
  <2> QED
    <3> HIDE DEF U
    <3> QED BY <2>1, <2>2, <2>4
<1> QED BY <1>1

-----------------------------------------------------------------------------
(* The goods of the players. *)

Saves == [Players -> [bag : SUBSET Items, money : 0..MaxMoney]]

GoodsTyped ==
  /\ bound \subseteq Items /\ surplus \subseteq Items
  /\ bag \in [Players -> SUBSET Items]
  /\ money \in [Players -> 0..MaxMoney] /\ minted \in 0..MaxMinted
  /\ saved \in Saves

\* every inventory is part of its saved copy, and the copies are disjoint
BagsSaved ==
  /\ \A p \in Players : bag[p] \subseteq saved[p].bag
  /\ \A p, q \in Players : p # q => saved[p].bag \cap saved[q].bag = {}

(* One pair of slots.                                                       *)

Stores == [bag : [Players -> SUBSET Items], surplus : SUBSET Items]

\* Both items find room: they change sides.
LEMMA PairExchanged ==
  ASSUME NEW p \in Players, NEW q \in Players, p # q, NEW st \in Stores, NEW s,
         NEW mine, mine = GetItem(p, s), NEW his, his = GetItem(q, s),
         {mine, his} \subseteq Items \cup {NoItem},
         CanStoreItem(st.bag[q], mine, 0), CanStoreItem(st.bag[p], his, 0),
         NEW n, n = movePair(p, q, st, s)
  PROVE  /\ n \in Stores
         /\ n.bag[p] = st.bag[p] \cup Only(his)
         /\ n.bag[q] = st.bag[q] \cup Only(mine)
         /\ \A r \in Players \ {p, q} : n.bag[r] = st.bag[r]
         /\ n.surplus = st.surplus
<1>1. n = [st EXCEPT !.bag[p] = @ \cup Only(his), !.bag[q] = @ \cup Only(mine)]
  BY Zenon DEF movePair
<1>2. Only(his) \subseteq Items /\ Only(mine) \subseteq Items
  BY DEF Only
<1> DEFINE b == [st.bag EXCEPT ![p] = @ \cup Only(his), ![q] = @ \cup Only(mine)]
<1>3. st.bag \in [Players -> SUBSET Items] /\ st.surplus \in SUBSET Items
  BY DEF Stores
<1>4. n.bag = b /\ n.surplus = st.surplus
  BY <1>1 DEF Stores
<1>5. b \in [Players -> SUBSET Items]
  BY <1>2, <1>3
<1>6. n = [bag |-> b, surplus |-> st.surplus]
  BY <1>1 DEF Stores
<1>7. n \in Stores
  BY <1>3, <1>5, <1>6 DEF Stores
<1> QED BY <1>3, <1>4, <1>7

\* One does not: each goes back to its owner, or nowhere.
LEMMA PairReturned ==
  ASSUME NEW p \in Players, NEW q \in Players, p # q, NEW st \in Stores, NEW s,
         NEW mine, mine = GetItem(p, s), NEW his, his = GetItem(q, s),
         {mine, his} \subseteq Items \cup {NoItem},
         ~(CanStoreItem(st.bag[q], mine, 0) /\ CanStoreItem(st.bag[p], his, 0)),
         NEW n, n = movePair(p, q, st, s)
  PROVE  /\ n \in Stores
         /\ n.bag[p] \subseteq st.bag[p] \cup Only(mine)
         /\ n.bag[q] \subseteq st.bag[q] \cup Only(his)
         /\ \A r \in Players \ {p, q} : n.bag[r] = st.bag[r]
<1>1. \E mb, hb, su :
        /\ mb \subseteq Only(mine) /\ hb \subseteq Only(his)
        /\ su \subseteq st.surplus \cup mb \cup hb
        /\ n = [bag |-> [st.bag EXCEPT ![p] = @ \cup mb, ![q] = @ \cup hb], surplus |-> su]
  <2> DEFINE traderCanTrade == CanStoreItem(st.bag[q], mine, 0)
             playerCanTrade == CanStoreItem(st.bag[p], his, 0)
             stale(ok, i) == IF ok /\ i # NoItem THEN 1 ELSE 0
             back(r, i, x) == IF CanStoreItem(st.bag[r], i, x) THEN Only(i) ELSE {}
             mineBack == back(p, mine, stale(playerCanTrade, his))
             hisBack == back(q, his, stale(traderCanTrade, mine))
             over == st.surplus
                       \cup (IF stale(playerCanTrade, his) = 1 THEN mineBack ELSE {})
                       \cup (IF stale(traderCanTrade, mine) = 1 THEN hisBack ELSE {})
  <2>1. n = [bag |-> [st.bag EXCEPT ![p] = @ \cup mineBack, ![q] = @ \cup hisBack],
             surplus |-> over]
    BY Zenon DEF movePair
  <2>2. mineBack \subseteq Only(mine) /\ hisBack \subseteq Only(his)
    BY Zenon
  <2>3. over \subseteq st.surplus \cup mineBack \cup hisBack
    OBVIOUS
  <2> HIDE DEF mineBack, hisBack, over
  <2> QED BY <2>1, <2>2, <2>3, Zenon
<1>2. PICK mb, hb, su :
        /\ mb \subseteq Only(mine) /\ hb \subseteq Only(his)
        /\ su \subseteq st.surplus \cup mb \cup hb
        /\ n = [bag |-> [st.bag EXCEPT ![p] = @ \cup mb, ![q] = @ \cup hb], surplus |-> su]
  BY <1>1, Zenon
<1>3. Only(his) \subseteq Items /\ Only(mine) \subseteq Items
  BY DEF Only
<1>4. st.bag \in [Players -> SUBSET Items] /\ st.surplus \in SUBSET Items
  BY DEF Stores
<1> DEFINE b == [st.bag EXCEPT ![p] = @ \cup mb, ![q] = @ \cup hb]
<1>5. b \in [Players -> SUBSET Items] /\ su \in SUBSET Items
  BY <1>2, <1>3, <1>4
<1>6. n = [bag |-> b, surplus |-> su]
  BY <1>2
<1>7. n \in Stores /\ n.bag = b
  <2> HIDE DEF b
  <2> QED BY <1>5, <1>6 DEF Stores
<1> QED BY <1>2, <1>4, <1>7

\* the player whose handler runs and its trader
Partners(p, q) == p \in Players /\ q = Trader(p) /\ Trading(p)

\* The listed items that are still there are all different.
LEMMA Offered ==
  ASSUME TInv, GoodsTyped, BagsSaved, NEW p, NEW q, Partners(p, q)
  PROVE  /\ p \in Players /\ q \in Players /\ p # q
         /\ bag[p] \subseteq Items /\ bag[q] \subseteq Items /\ bag[p] \cap bag[q] = {}
         /\ \A t \in Slots : /\ GetItem(p, t) \in bag[p] \cup {NoItem}
                             /\ GetItem(q, t) \in bag[q] \cup {NoItem}
         /\ \A t, u \in Slots : /\ GetItem(p, t) = GetItem(p, u) => t = u \/ GetItem(p, t) = NoItem
                                /\ GetItem(q, t) = GetItem(q, u) => t = u \/ GetItem(q, t) = NoItem
<1>1. p \in Players /\ q \in Players /\ p # q /\ Trading(p) /\ Trading(q)
  BY Pairs DEF Partners
<1>2. bag[p] \subseteq Items /\ bag[q] \subseteq Items
  BY <1>1 DEF GoodsTyped
<1>3. bag[p] \cap bag[q] = {}
  BY <1>1 DEF BagsSaved
<1>4. \A r \in {p, q} : \A t \in Slots : GetItem(r, t) \in bag[r] \cup {NoItem}
  BY DEF GetItem
<1>5. ASSUME NEW r \in {p, q}, NEW t \in Slots, NEW u \in Slots, GetItem(r, t) = GetItem(r, u),
             GetItem(r, t) # NoItem
      PROVE  t = u
  <2>1. m_trade[r].items[t] = m_trade[r].items[u] /\ m_trade[r].items[t] # NoItem
    BY <1>5 DEF GetItem
  <2> QED BY <1>1, <2>1 DEF TInv, ListsOnce, Once
<1> QED BY <1>1, <1>2, <1>3, <1>4, <1>5

\* After the slots up to s: the inventories share nothing, hold nothing from
\* elsewhere, and nothing that is still to be stored.
MovedApart(p, q, x, s) ==
  /\ x \in Stores
  /\ x.bag[p] \cap x.bag[q] = {}
  /\ x.bag[p] \cup x.bag[q] \subseteq bag[p] \cup bag[q]
  /\ \A r \in Players \ {p, q} : x.bag[r] = bag[r]
  /\ \A t \in (s + 1)..TradedSlots :
       /\ GetItem(p, t) \notin x.bag[p] \cup x.bag[q]
       /\ GetItem(q, t) \notin x.bag[p] \cup x.bag[q]

\* MovedApart holds when everything has been removed,
LEMMA RemovedApart ==
  ASSUME TInv, GoodsTyped, BagsSaved, NEW p, NEW q, Partners(p, q)
  PROVE  MovedApart(p, q, removed(p, q), 0)
<1>0. /\ p \in Players /\ q \in Players /\ p # q
      /\ bag[p] \subseteq Items /\ bag[q] \subseteq Items /\ bag[p] \cap bag[q] = {}
      /\ \A t \in Slots : /\ GetItem(p, t) \in bag[p] \cup {NoItem}
                          /\ GetItem(q, t) \in bag[q] \cup {NoItem}
  BY Offered
<1>1. bag \in [Players -> SUBSET Items] /\ surplus \in SUBSET Items /\ NoItem \notin Items
  BY TradeAssumption DEF GoodsTyped
<1> DEFINE x == removed(p, q)
           b == [bag EXCEPT ![p] = @ \ Offer(p), ![q] = @ \ Offer(q)]
<1>2. x = [bag |-> b, surplus |-> surplus]
  BY DEF removed
<1>3. /\ b \in [Players -> SUBSET Items]
      /\ b[p] = bag[p] \ Offer(p) /\ b[q] = bag[q] \ Offer(q)
      /\ \A r \in Players \ {p, q} : b[r] = bag[r]
  BY <1>0, <1>1
<1> HIDE DEF b, x
<1>4. x \in Stores /\ x.bag = b
  BY <1>1, <1>2, <1>3 DEF Stores
<1>5. ASSUME NEW t \in 1..TradedSlots
      PROVE  GetItem(p, t) \notin b[p] \cup b[q] /\ GetItem(q, t) \notin b[p] \cup b[q]
  <2>1. t \in Traded /\ t \in Slots
    BY <1>5 DEF Traded, Slots
  <2>2. GetItem(p, t) \in Offer(p) \cup {NoItem} /\ GetItem(q, t) \in Offer(q) \cup {NoItem}
    BY <2>1 DEF Offer
  <2> QED BY <1>0, <1>1, <1>3, <2>1, <2>2
<1>6. x.bag[p] \cap x.bag[q] = {} /\ x.bag[p] \cup x.bag[q] \subseteq bag[p] \cup bag[q]
  BY <1>0, <1>3, <1>4
<1>7. 0 + 1 = 1
  OBVIOUS
<1> QED BY <1>3, <1>4, <1>5, <1>6, <1>7 DEF MovedApart, x

\* is kept by each pair of slots, whether or not the items find room,
LEMMA PairApart ==
  ASSUME TInv, GoodsTyped, BagsSaved, NEW p, NEW q, Partners(p, q),
         NEW s \in 1..TradedSlots, NEW x, MovedApart(p, q, x, s - 1)
  PROVE  MovedApart(p, q, movePair(p, q, x, s), s)
<1> DEFINE mine == GetItem(p, s)
           his == GetItem(q, s)
           n == movePair(p, q, x, s)
<1>0. /\ p \in Players /\ q \in Players /\ p # q
      /\ bag[p] \subseteq Items /\ bag[q] \subseteq Items /\ bag[p] \cap bag[q] = {}
      /\ \A t \in Slots : /\ GetItem(p, t) \in bag[p] \cup {NoItem}
                          /\ GetItem(q, t) \in bag[q] \cup {NoItem}
      /\ \A t, u \in Slots : /\ GetItem(p, t) = GetItem(p, u) => t = u \/ GetItem(p, t) = NoItem
                             /\ GetItem(q, t) = GetItem(q, u) => t = u \/ GetItem(q, t) = NoItem
  BY Offered
<1>1. NoItem \notin Items /\ TradedSlots \in Nat
  BY TradeAssumption
<1>2. s \in Slots /\ s \in (s - 1 + 1)..TradedSlots
  BY <1>1 DEF Traded, Slots
<1>3. /\ mine \notin x.bag[p] \cup x.bag[q] /\ his \notin x.bag[p] \cup x.bag[q]
      /\ mine \in bag[p] \cup {NoItem} /\ his \in bag[q] \cup {NoItem}
  BY <1>0, <1>2 DEF MovedApart
<1>4. {mine, his} \subseteq Items \cup {NoItem} /\ (mine = his => mine = NoItem)
  BY <1>0, <1>3
<1>5. x \in Stores /\ x.bag[p] \cap x.bag[q] = {}
  BY DEF MovedApart
<1>6. /\ n \in Stores
      /\ \A r \in Players \ {p, q} : n.bag[r] = x.bag[r]
      /\ \/ n.bag[p] \subseteq x.bag[p] \cup Only(his) /\ n.bag[q] \subseteq x.bag[q] \cup Only(mine)
         \/ n.bag[p] \subseteq x.bag[p] \cup Only(mine) /\ n.bag[q] \subseteq x.bag[q] \cup Only(his)
  <2> HIDE DEF mine, his, n
  <2>0. mine = GetItem(p, s) /\ his = GetItem(q, s) /\ n = movePair(p, q, x, s)
    BY DEF mine, his, n
  <2>1. CASE CanStoreItem(x.bag[q], mine, 0) /\ CanStoreItem(x.bag[p], his, 0)
    <3>1. /\ n \in Stores /\ n.bag[p] = x.bag[p] \cup Only(his) /\ n.bag[q] = x.bag[q] \cup Only(mine)
          /\ \A r \in Players \ {p, q} : n.bag[r] = x.bag[r]
      BY <1>0, <1>4, <1>5, <2>0, <2>1, PairExchanged
    <3> QED BY <3>1
  <2>2. CASE ~(CanStoreItem(x.bag[q], mine, 0) /\ CanStoreItem(x.bag[p], his, 0))
    <3>1. /\ n \in Stores
          /\ n.bag[p] \subseteq x.bag[p] \cup Only(mine)
          /\ n.bag[q] \subseteq x.bag[q] \cup Only(his)
          /\ \A r \in Players \ {p, q} : n.bag[r] = x.bag[r]
      BY <1>0, <1>4, <1>5, <2>0, <2>2, PairReturned
    <3> QED BY <3>1
  <2> QED BY <2>1, <2>2
<1> HIDE DEF mine, his, n
<1>7. /\ n.bag[p] \cap n.bag[q] = {}
      /\ n.bag[p] \cup n.bag[q] \subseteq x.bag[p] \cup x.bag[q] \cup Only(mine) \cup Only(his)
  <2>1. /\ mine \notin x.bag[p] \cup x.bag[q] /\ his \notin x.bag[p] \cup x.bag[q]
        /\ mine = his => mine = NoItem
        /\ x.bag[p] \cap x.bag[q] = {}
        /\ \/ n.bag[p] \subseteq x.bag[p] \cup Only(his) /\ n.bag[q] \subseteq x.bag[q] \cup Only(mine)
           \/ n.bag[p] \subseteq x.bag[p] \cup Only(mine) /\ n.bag[q] \subseteq x.bag[q] \cup Only(his)
    BY <1>3, <1>4, <1>5, <1>6
  <2> QED BY <2>1 DEF Only
<1>8. n.bag[p] \cup n.bag[q] \subseteq bag[p] \cup bag[q]
  <2>1. Only(mine) \subseteq bag[p] /\ Only(his) \subseteq bag[q]
    BY <1>3 DEF Only
  <2> QED BY <1>7, <2>1 DEF MovedApart
<1>9. ASSUME NEW t \in (s + 1)..TradedSlots
      PROVE  GetItem(p, t) \notin n.bag[p] \cup n.bag[q] /\ GetItem(q, t) \notin n.bag[p] \cup n.bag[q]
  <2>1. t \in Slots /\ t # s /\ t \in (s - 1 + 1)..TradedSlots
    BY <1>1, <1>9 DEF Traded, Slots
  <2>2. GetItem(p, t) \notin x.bag[p] \cup x.bag[q] /\ GetItem(q, t) \notin x.bag[p] \cup x.bag[q]
    BY <2>1 DEF MovedApart
  <2>3. GetItem(p, t) \notin Only(mine) \cup Only(his) /\ GetItem(q, t) \notin Only(mine) \cup Only(his)
    BY <1>0, <1>1, <1>2, <1>3, <2>1 DEF Only, mine, his
  <2> QED BY <1>7, <2>2, <2>3
<1>10. \A r \in Players \ {p, q} : n.bag[r] = bag[r]
  BY <1>6 DEF MovedApart
<1> QED BY <1>6, <1>7, <1>8, <1>9, <1>10 DEF MovedApart, n

\* and so holds of the whole exchange.
LEMMA ExchangeApart ==
  ASSUME TInv, GoodsTyped, BagsSaved, NEW p, NEW q, Partners(p, q)
  PROVE  MovedApart(p, q, moveItems(p, q), TradedSlots)
<1>1. PICK f : /\ f[0] = removed(p, q)
               /\ \A s \in 1..TradedSlots : f[s] = movePair(p, q, f[s - 1], s)
               /\ moveItems(p, q) = f[TradedSlots]
  BY moveItemsSteps
<1>0. TradedSlots \in Nat
  BY TradeAssumption
<1> DEFINE T == {s \in Nat : MovedApart(p, q, f[s], s)}
<1>2. 0 \in T
  BY <1>1, RemovedApart
<1>3. ASSUME NEW s \in 1..TradedSlots, s - 1 \in T PROVE s \in T
  <2>1. MovedApart(p, q, f[s - 1], s - 1)
    BY <1>3
  <2>2. MovedApart(p, q, movePair(p, q, f[s - 1], s), s)
    BY <2>1, PairApart
  <2>3. s \in Nat
    BY <1>0
  <2> QED BY <1>1, <2>2, <2>3
<1>4. T \in SUBSET Nat
  OBVIOUS
<1>5. TradedSlots \in T
  <2> HIDE DEF T
  <2>1. \A s \in 0..TradedSlots : s \in T
    BY <1>0, <1>2, <1>3, <1>4, AllSlots
  <2> QED BY <1>0, <2>1
<1> QED BY <1>1, <1>5

\* what r has given in the slots up to s
Got(r, s) == {GetItem(r, t) : t \in 1..s} \ {NoItem}

\* After the slots up to s: everything listed in them has changed sides.
MovedWhole(p, q, x, s) ==
  /\ x \in Stores
  /\ x.bag[p] = (bag[p] \ Offer(p)) \cup Got(q, s)
  /\ x.bag[q] = (bag[q] \ Offer(q)) \cup Got(p, s)
  /\ x.surplus = surplus

\* As long as an item of O is still to come there is a free slot.
LEMMA RoomLeft ==
  ASSUME NEW R \in SUBSET Items, NEW O \in SUBSET Items, NEW B, NEW i \in O,
         B \subseteq R \cup O, i \notin B,
         Cardinality(R) + Cardinality(O) <= Space
  PROVE  Cardinality(B) + 0 < Space
<1>0. IsFiniteSet(Items) /\ Space \in Nat
  BY TradeAssumption
<1>1. IsFiniteSet(R) /\ IsFiniteSet(O)
  BY <1>0, FS_Subset
<1>2. /\ IsFiniteSet(R \cup O)
      /\ Cardinality(R \cup O) = Cardinality(R) + Cardinality(O) - Cardinality(R \cap O)
  BY <1>1, FS_Union
<1>3. IsFiniteSet(B)
  BY <1>2, FS_Subset
<1>4. IsFiniteSet(B \cup {i}) /\ Cardinality(B \cup {i}) = Cardinality(B) + 1
  BY <1>3, FS_AddElement
<1>5. Cardinality(B \cup {i}) <= Cardinality(R \cup O)
  <2>1. B \cup {i} \in SUBSET (R \cup O)
    OBVIOUS
  <2> QED BY <1>2, <2>1, FS_Subset
<1>6. IsFiniteSet(R \cap O)
  BY <1>1, FS_Intersection
<1>7. /\ Cardinality(R) \in Nat /\ Cardinality(O) \in Nat /\ Cardinality(B) \in Nat
      /\ Cardinality(R \cap O) \in Nat
  BY <1>1, <1>3, <1>6, FS_CardinalityType
<1> QED BY <1>0, <1>2, <1>4, <1>5, <1>7

\* What CanStoreItems found for all the items holds for each when its turn comes:
\* the slots it counted have not been taken by anything else.
LEMMA SlotHasRoom ==
  ASSUME Limited = {}, NEW p, NEW q, CanStoreItems(p, q), NEW s \in 1..TradedSlots, NEW B,
         bag[p] \subseteq Items, bag[q] \subseteq Items,  bag[p] \cap bag[q] = {},
         \A t \in Slots : GetItem(q, t) \in bag[q] \cup {NoItem},
         \A t, u \in Slots : GetItem(q, t) = GetItem(q, u) => t = u \/ GetItem(q, t) = NoItem,
         B = (bag[p] \ Offer(p)) \cup Got(q, s - 1)
  PROVE  CanStoreItem(B, GetItem(q, s), 0)
<1> SUFFICES ASSUME GetItem(q, s) # NoItem
             PROVE  Cardinality(B) + 0 < Space
  BY DEF CanStoreItem, CanTakeMoreSimilarItems
<1>0. TradedSlots \in Nat /\ s \in Slots /\ (\A t \in 1..(s - 1) : t \in Slots /\ t \in Traded /\ t # s) /\ s \in Traded
  BY TradeAssumption DEF Slots, Traded
<1>1. Cardinality(bag[p] \ Offer(p)) + Cardinality(Offer(q)) <= Space
  BY DEF CanStoreItems
<1>2. Offer(q) \subseteq bag[q]
  BY DEF Offer, Slots
<1>3. GetItem(q, s) \in Offer(q)
  BY <1>0 DEF Offer
<1>4. Got(q, s - 1) \subseteq Offer(q)
  BY <1>0 DEF Got, Offer
<1>5. GetItem(q, s) \notin Got(q, s - 1)
  BY <1>0 DEF Got
<1>6. GetItem(q, s) \notin bag[p]
  BY <1>2, <1>3
<1> DEFINE R == bag[p] \ Offer(p)
           O == Offer(q)
           i == GetItem(q, s)
<1>7. /\ R \in SUBSET Items /\ O \in SUBSET Items /\ i \in O /\ B \subseteq R \cup O /\ i \notin B
      /\ Cardinality(R) + Cardinality(O) <= Space
  BY <1>1, <1>2, <1>3, <1>4, <1>5, <1>6
<1> HIDE DEF R, O, i
<1> QED BY <1>7, RoomLeft

\* Each slot adds its item.
LEMMA GotOne ==
  ASSUME NEW r, NEW s \in 1..TradedSlots
  PROVE  Got(r, s) = Got(r, s - 1) \cup Only(GetItem(r, s))
<1>1. TradedSlots \in Nat
  BY TradeAssumption
<1>2. 1..s = (1..(s - 1)) \cup {s}
  BY <1>1
<1> QED BY <1>2 DEF Got, Only

\* MovedWhole is kept by each pair of slots: no item is refused,
LEMMA PairWhole ==
  ASSUME TInv, GoodsTyped, BagsSaved, NEW p, NEW q, Partners(p, q),
         Limited = {}, CanStoreItems(p, q), CanStoreItems(q, p),
         NEW s \in 1..TradedSlots, NEW x, MovedWhole(p, q, x, s - 1)
  PROVE  MovedWhole(p, q, movePair(p, q, x, s), s)
<1> DEFINE mine == GetItem(p, s)
           his == GetItem(q, s)
           n == movePair(p, q, x, s)
<1>0. /\ p \in Players /\ q \in Players /\ p # q
      /\ bag[p] \subseteq Items /\ bag[q] \subseteq Items /\ bag[p] \cap bag[q] = {}
      /\ \A t \in Slots : /\ GetItem(p, t) \in bag[p] \cup {NoItem}
                          /\ GetItem(q, t) \in bag[q] \cup {NoItem}
      /\ \A t, u \in Slots : /\ GetItem(p, t) = GetItem(p, u) => t = u \/ GetItem(p, t) = NoItem
                             /\ GetItem(q, t) = GetItem(q, u) => t = u \/ GetItem(q, t) = NoItem
  BY Offered
<1>1. s \in Slots
  BY TradeAssumption DEF Slots, Traded
<1>2. {mine, his} \subseteq Items \cup {NoItem}
  BY <1>0, <1>1
<1>3. /\ x \in Stores
      /\ x.bag[p] = (bag[p] \ Offer(p)) \cup Got(q, s - 1)
      /\ x.bag[q] = (bag[q] \ Offer(q)) \cup Got(p, s - 1)
      /\ x.surplus = surplus
  BY DEF MovedWhole
<1>4. CanStoreItem(x.bag[p], his, 0)
  BY <1>0, <1>3, SlotHasRoom
<1>5. CanStoreItem(x.bag[q], mine, 0)
  <2>1. bag[q] \cap bag[p] = {}
    BY <1>0
  <2> QED BY <1>0, <1>3, <2>1, SlotHasRoom
<1>6. mine = GetItem(p, s) /\ his = GetItem(q, s) /\ n = movePair(p, q, x, s)
  OBVIOUS
<1>7. Got(q, s) = Got(q, s - 1) \cup Only(his) /\ Got(p, s) = Got(p, s - 1) \cup Only(mine)
  BY GotOne
<1> HIDE DEF mine, his, n
<1>8. /\ n \in Stores
      /\ n.bag[p] = x.bag[p] \cup Only(his)
      /\ n.bag[q] = x.bag[q] \cup Only(mine)
      /\ \A r \in Players \ {p, q} : n.bag[r] = x.bag[r]
      /\ n.surplus = x.surplus
  <2>1. p \in Players /\ q \in Players /\ p # q /\ x \in Stores
    BY <1>0, <1>3
  <2> QED BY <1>2, <1>4, <1>5, <1>6, <2>1, PairExchanged
<1> QED BY <1>3, <1>7, <1>8 DEF MovedWhole, n

\* so after the last everything has changed sides, nothing was returned or cloned.
LEMMA ExchangeWhole ==
  ASSUME TInv, GoodsTyped, BagsSaved, NEW p, NEW q, Partners(p, q),
         Limited = {}, CanStoreItems(p, q), CanStoreItems(q, p)
  PROVE  /\ moveItems(p, q).bag[p] = (bag[p] \ Offer(p)) \cup Offer(q)
         /\ moveItems(p, q).bag[q] = (bag[q] \ Offer(q)) \cup Offer(p)
         /\ moveItems(p, q).surplus = surplus
<1>1. PICK f : /\ f[0] = removed(p, q)
               /\ \A s \in 1..TradedSlots : f[s] = movePair(p, q, f[s - 1], s)
               /\ moveItems(p, q) = f[TradedSlots]
  BY moveItemsSteps
<1>0. TradedSlots \in Nat
  BY TradeAssumption
<1> DEFINE T == {s \in Nat : MovedWhole(p, q, f[s], s)}
<1>2. MovedWhole(p, q, f[0], 0)
  <2>1. Got(p, 0) = {} /\ Got(q, 0) = {}
    BY DEF Got
  <2>2. removed(p, q) \in Stores /\ p \in Players /\ q \in Players /\ p # q
    BY RemovedApart, Offered DEF MovedApart
  <2>3. /\ removed(p, q).bag[p] = bag[p] \ Offer(p) /\ removed(p, q).bag[q] = bag[q] \ Offer(q)
        /\ removed(p, q).surplus = surplus
    BY <2>2 DEF removed, GoodsTyped
  <2> QED BY <1>1, <2>1, <2>2, <2>3 DEF MovedWhole
<1>3. ASSUME NEW s \in 1..TradedSlots, s - 1 \in T PROVE s \in T
  <2>1. MovedWhole(p, q, f[s - 1], s - 1)
    BY <1>3
  <2>2. MovedWhole(p, q, movePair(p, q, f[s - 1], s), s)
    BY <2>1, PairWhole
  <2>3. s \in Nat
    BY <1>0
  <2> QED BY <1>1, <2>2, <2>3
<1>4. T \in SUBSET Nat
  OBVIOUS
<1>5. TradedSlots \in T
  <2>0. 0 \in T
    BY <1>2
  <2> HIDE DEF T
  <2>1. \A s \in 0..TradedSlots : s \in T
    BY <1>0, <1>3, <1>4, <2>0, AllSlots
  <2> QED BY <1>0, <2>1
<1>6. MovedWhole(p, q, moveItems(p, q), TradedSlots)
  BY <1>1, <1>5
<1>7. Got(p, TradedSlots) = Offer(p) /\ Got(q, TradedSlots) = Offer(q)
  BY DEF Got, Offer, Traded
<1> QED BY <1>6, <1>7 DEF MovedWhole

-----------------------------------------------------------------------------
(* Money: the coins <<player, number>> of all purses.                        *)

Purse(f) == {c \in Players \X (1..MaxMoney) : c[2] <= f[c[1]]}

\* There are finitely many coins.
LEMMA PurseFinite ==
  ASSUME NEW f
  PROVE  /\ IsFiniteSet(Purse(f)) /\ Coins(f) = Cardinality(Purse(f)) /\ Coins(f) \in Nat
<1>1. IsFiniteSet(1..MaxMoney) /\ IsFiniteSet(Players)
  BY TradeAssumption, FS_Interval
<1>2. IsFiniteSet(Players \X (1..MaxMoney))
  BY <1>1, FS_Product
<1>3. Purse(f) \in SUBSET (Players \X (1..MaxMoney))
  BY DEF Purse
<1>4. IsFiniteSet(Purse(f))
  BY <1>2, <1>3, FS_Subset
<1> QED BY <1>4, FS_CardinalityType DEF Coins, Purse

\* One purse grew by a coin.
LEMMA CoinsPlusOne ==
  ASSUME NEW f \in [Players -> 0..MaxMoney], NEW g \in [Players -> 0..MaxMoney], NEW p \in Players,
         g[p] <= f[p] + 1, \A r \in Players \ {p} : g[r] <= f[r]
  PROVE  Coins(g) <= Coins(f) + 1
<1>0. MaxMoney \in Nat
  BY TradeAssumption
<1>1. Purse(g) \subseteq Purse(f) \cup {<<p, f[p] + 1>>}
  <2> SUFFICES ASSUME NEW c \in Purse(g), c # <<p, f[p] + 1>>
               PROVE  c \in Purse(f)
    OBVIOUS
  <2>1. c \in Players \X (1..MaxMoney) /\ c[2] <= g[c[1]]
    BY DEF Purse
  <2>2. c[1] \in Players /\ c[2] \in 1..MaxMoney /\ c = <<c[1], c[2]>>
    BY <2>1
  <2>3. c[2] <= f[c[1]]
    <3>1. CASE c[1] = p
      <4>1. c[2] # f[p] + 1
        BY <2>2, <3>1
      <4>2. f[p] \in 0..MaxMoney /\ g[p] \in 0..MaxMoney /\ c[2] <= g[p]
        BY <2>1, <3>1
      <4> QED BY <1>0, <2>2, <3>1, <4>1, <4>2
    <3>2. CASE c[1] # p
      <4>1. g[c[1]] <= f[c[1]] /\ g[c[1]] \in 0..MaxMoney /\ f[c[1]] \in 0..MaxMoney
        BY <2>2, <3>2
      <4> QED BY <1>0, <2>1, <2>2, <4>1
    <3> QED BY <3>1, <3>2
  <2> QED BY <2>1, <2>3 DEF Purse
<1>2. /\ IsFiniteSet(Purse(f) \cup {<<p, f[p] + 1>>})
      /\ Cardinality(Purse(f) \cup {<<p, f[p] + 1>>}) <= Cardinality(Purse(f)) + 1
  <2>1. IsFiniteSet(Purse(f)) /\ Cardinality(Purse(f)) \in Nat
    BY PurseFinite
  <2> DEFINE P == Purse(f)
             x == <<p, f[p] + 1>>
  <2> HIDE DEF P, x
  <2>2. IsFiniteSet(P) /\ Cardinality(P) \in Nat
    BY <2>1 DEF P
  <2>3. /\ IsFiniteSet(P \cup {x})
        /\ Cardinality(P \cup {x}) = IF x \in P THEN Cardinality(P) ELSE Cardinality(P) + 1
    BY <2>2, FS_AddElement
  <2>4. Cardinality(P \cup {x}) <= Cardinality(P) + 1
    BY <2>2, <2>3
  <2> QED BY <2>3, <2>4 DEF P, x
<1>3. Cardinality(Purse(g)) <= Cardinality(Purse(f) \cup {<<p, f[p] + 1>>})
  BY <1>1, <1>2, FS_Subset
<1>4. Cardinality(Purse(f) \cup {<<p, f[p] + 1>>}) \in Nat
  BY <1>2, FS_CardinalityType
<1> DEFINE n == Cardinality(Purse(f) \cup {<<p, f[p] + 1>>})
<1>5. n \in Nat /\ Coins(g) <= n /\ n <= Coins(f) + 1 /\ Coins(f) \in Nat /\ Coins(g) \in Nat
  BY <1>2, <1>3, <1>4, PurseFinite
<1> HIDE DEF n
<1> QED BY <1>5

\* No purse grew.
LEMMA CoinsMonotone ==
  ASSUME NEW f \in [Players -> 0..MaxMoney], NEW g \in [Players -> 0..MaxMoney],
         \A r \in Players : g[r] <= f[r]
  PROVE  Coins(g) <= Coins(f)
<1>1. Purse(g) \subseteq Purse(f)
  <2> SUFFICES ASSUME NEW c \in Purse(g)
               PROVE  c \in Purse(f)
    OBVIOUS
  <2>1. c \in Players \X (1..MaxMoney) /\ c[2] <= g[c[1]]
    BY DEF Purse
  <2>2. c[1] \in Players /\ c[2] \in 1..MaxMoney
    BY <2>1
  <2>3. g[c[1]] <= f[c[1]] /\ g[c[1]] \in 0..MaxMoney /\ f[c[1]] \in 0..MaxMoney
    BY <2>2
  <2>4. c[2] <= f[c[1]]
    BY <2>1, <2>2, <2>3, TradeAssumption
  <2> QED BY <2>1, <2>4 DEF Purse
<1> QED BY <1>1, PurseFinite, FS_Subset

Part(f, r) == {c \in Purse(f) : c[1] = r}

\* A player's coins are counted by the purse.
LEMMA PartSize ==
  ASSUME NEW f \in [Players -> 0..MaxMoney], NEW r \in Players
  PROVE  IsFiniteSet(Part(f, r)) /\ Cardinality(Part(f, r)) = f[r]
<1>0. f[r] \in 0..MaxMoney /\ MaxMoney \in Nat
  BY TradeAssumption
<1>1. Part(f, r) = {r} \X (1..f[r])
  <2>1. ASSUME NEW c \in Part(f, r) PROVE c \in {r} \X (1..f[r])
    <3>1. c \in Players \X (1..MaxMoney) /\ c[2] <= f[c[1]] /\ c[1] = r
      BY DEF Part, Purse
    <3>2. c = <<c[1], c[2]>> /\ c[2] \in 1..MaxMoney
      BY <3>1
    <3>3. c[2] \in 1..f[r]
      BY <1>0, <3>1, <3>2
    <3> QED BY <3>1, <3>2, <3>3
  <2>2. ASSUME NEW c \in {r} \X (1..f[r]) PROVE c \in Part(f, r)
    <3>1. c[1] = r /\ c[2] \in 1..f[r] /\ c = <<c[1], c[2]>>
      BY <2>2
    <3>2. c[2] \in 1..MaxMoney /\ c[2] <= f[r]
      BY <1>0, <3>1
    <3>3. c \in Players \X (1..MaxMoney)
      BY <3>1, <3>2
    <3> QED BY <3>1, <3>2, <3>3 DEF Part, Purse
  <2> QED BY <2>1, <2>2
<1>2. IsFiniteSet(1..f[r]) /\ Cardinality(1..f[r]) = f[r]
  BY <1>0, FS_Interval
<1>3. IsFiniteSet({r}) /\ Cardinality({r}) = 1
  BY FS_Singleton
<1>4. IsFiniteSet({r} \X (1..f[r])) /\ Cardinality({r} \X (1..f[r])) = 1 * Cardinality(1..f[r])
  BY <1>2, <1>3, FS_Product
<1> QED BY <1>0, <1>1, <1>2, <1>4

\* The coins of two players and of the others.
LEMMA CoinsSplit ==
  ASSUME NEW f \in [Players -> 0..MaxMoney], NEW p \in Players, NEW q \in Players, p # q
  PROVE  \E n \in Nat : /\ n = Cardinality({c \in Purse(f) : c[1] \notin {p, q}})
                        /\ Coins(f) = n + f[p] + f[q]
<1> DEFINE O == {c \in Purse(f) : c[1] \notin {p, q}}
           B == Part(f, p) \cup Part(f, q)
<1>0. f[p] \in Nat /\ f[q] \in Nat
  BY TradeAssumption
<1>1. /\ IsFiniteSet(Part(f, p)) /\ Cardinality(Part(f, p)) = f[p]
      /\ IsFiniteSet(Part(f, q)) /\ Cardinality(Part(f, q)) = f[q]
  BY PartSize
<1>2. Part(f, p) \cap Part(f, q) = {}
  BY DEF Part
<1>3. Cardinality({}) = 0
  BY FS_EmptySet
<1>4. IsFiniteSet(B) /\ Cardinality(B) = f[p] + f[q]
  <2>1. IsFiniteSet(B) /\ Cardinality(B) = f[p] + f[q] - Cardinality(Part(f, p) \cap Part(f, q))
    BY <1>1, FS_Union
  <2> QED BY <1>0, <1>2, <1>3, <2>1
<1>5. O \in SUBSET Purse(f) /\ B \cap O = {} /\ Purse(f) = O \cup B
  BY DEF Part
<1>6. IsFiniteSet(O) /\ Cardinality(O) \in Nat
  BY <1>5, PurseFinite, FS_Subset, FS_CardinalityType
<1> HIDE DEF O, B
<1>7. Cardinality(O \cup B) = Cardinality(O) + Cardinality(B) - Cardinality(O \cap B)
  BY <1>4, <1>6, FS_Union
<1>8. O \cap B = {}
  BY <1>5
<1>9. Coins(f) = Cardinality(O) + f[p] + f[q]
  <2>1. Coins(f) = Cardinality(O \cup B)
    BY <1>5, PurseFinite
  <2>2. Cardinality(O \cap B) = 0
    BY <1>3, <1>8
  <2> DEFINE a == Cardinality(O)
             b == Cardinality(B)
             d == Cardinality(O \cap B)
             e == Cardinality(O \cup B)
  <2>3. e = a + b - d /\ d = 0 /\ b = f[p] + f[q] /\ a \in Nat /\ Coins(f) = e
    BY <1>4, <1>6, <1>7, <2>1, <2>2
  <2> HIDE DEF a, b, d, e
  <2>4. Coins(f) = a + f[p] + f[q]
    BY <1>0, <2>3
  <2> QED BY <2>4 DEF a
<1> QED BY <1>6, <1>9 DEF O

\* Money passed between two players.
LEMMA CoinsMoved ==
  ASSUME NEW f \in [Players -> 0..MaxMoney], NEW g \in [Players -> 0..MaxMoney],
         NEW p \in Players, NEW q \in Players, p # q,
         g[p] + g[q] <= f[p] + f[q], \A r \in Players \ {p, q} : g[r] = f[r]
  PROVE  Coins(g) <= Coins(f)
<1>1. {c \in Purse(f) : c[1] \notin {p, q}} = {c \in Purse(g) : c[1] \notin {p, q}}
  BY DEF Purse
<1>2. PICK n \in Nat : n = Cardinality({c \in Purse(f) : c[1] \notin {p, q}}) /\ Coins(f) = n + f[p] + f[q]
  BY CoinsSplit
<1>3. PICK m \in Nat : m = Cardinality({c \in Purse(g) : c[1] \notin {p, q}}) /\ Coins(g) = m + g[p] + g[q]
  BY CoinsSplit
<1>4. m = n
  BY <1>1, <1>2, <1>3
<1>5. f[p] \in Nat /\ f[q] \in Nat /\ g[p] \in Nat /\ g[q] \in Nat
  BY TradeAssumption
<1> QED BY <1>2, <1>3, <1>4, <1>5

\* ModifyMoney saturates, but not within the limits that were checked.
LEMMA ExactPayment ==
  ASSUME NEW m \in 0..MaxMoney, NEW a \in Nat, NEW b \in Nat, m >= a, m < MaxMoney - b
  PROVE  /\ ModifyMoney(ModifyMoney(m, -a), b) = m - a + b
         /\ m - a + b \in 0..MaxMoney
<1>0. MaxMoney \in Nat
  BY TradeAssumption
<1>1. ModifyMoney(m, -a) = m - a
  BY <1>0 DEF ModifyMoney
<1>2. ModifyMoney(m - a, b) = m - a + b
  BY <1>0 DEF ModifyMoney
<1> QED BY <1>0, <1>1, <1>2

-----------------------------------------------------------------------------
(* The invariant of the goods.  A crash brings the saved copies back, so      *)
(* neither the purses nor the copies may be counted alone: NoNewMoney counts *)
(* the fuller of the two for each player.                                    *)

LargestOf(m, sv) == [r \in Players |-> IF sv[r].money > m[r] THEN sv[r].money ELSE m[r]]
Largest == LargestOf(money, saved)
NoNewMoney == Coins(Largest) <= Coins(StartMoney) + minted
NothingCloned == Limited = {} => surplus = {}

GoodsInv == GoodsTyped /\ BagsSaved /\ NoNewMoney /\ NothingCloned

\* The fuller purse is one of the two.
LEMMA LargestTyped ==
  ASSUME NEW m \in [Players -> 0..MaxMoney], NEW sv \in Saves
  PROVE  /\ LargestOf(m, sv) \in [Players -> 0..MaxMoney]
         /\ \A r \in Players : /\ m[r] <= LargestOf(m, sv)[r] /\ sv[r].money <= LargestOf(m, sv)[r]
                               /\ LargestOf(m, sv)[r] \in {m[r], sv[r].money}
<1>1. ASSUME NEW r \in Players
      PROVE  m[r] \in 0..MaxMoney /\ sv[r].money \in 0..MaxMoney
  BY DEF Saves
<1> QED BY <1>1, TradeAssumption DEF LargestOf

\* No purse is fuller than it or its saved copy was.
LEMMA MoneyKept ==
  ASSUME GoodsTyped, NoNewMoney, GoodsTyped', minted' = minted,
         \A r \in Players : {money'[r], saved'[r].money} \subseteq {money[r], saved[r].money, money[r] - 1}
  PROVE  NoNewMoney'
<1> DEFINE f == LargestOf(money, saved)
           g == LargestOf(money', saved')
<1>1. /\ money \in [Players -> 0..MaxMoney] /\ saved \in Saves
      /\ money' \in [Players -> 0..MaxMoney] /\ saved' \in Saves
  BY DEF GoodsTyped
<1>2. /\ f \in [Players -> 0..MaxMoney] /\ g \in [Players -> 0..MaxMoney]
      /\ \A r \in Players : /\ money[r] <= f[r] /\ saved[r].money <= f[r]
                            /\ g[r] \in {money'[r], saved'[r].money}
  BY <1>1, LargestTyped
<1>3. Largest = f /\ Largest' = g
  BY DEF Largest, LargestOf
<1> HIDE DEF f, g
<1>4. ASSUME NEW r \in Players PROVE g[r] <= f[r]
  <2>1. g[r] \in {money[r], saved[r].money, money[r] - 1} /\ money[r] <= f[r] /\ saved[r].money <= f[r]
    BY <1>2
  <2>2. money[r] \in 0..MaxMoney /\ f[r] \in 0..MaxMoney /\ g[r] \in 0..MaxMoney
    BY <1>1, <1>2
  <2> QED BY <2>1, <2>2, TradeAssumption
<1>5. Coins(g) <= Coins(f)
  BY <1>2, <1>4, CoinsMonotone
<1>6. Coins(f) \in Nat /\ Coins(g) \in Nat /\ Coins(StartMoney) \in Nat /\ minted \in Int
  BY PurseFinite DEF GoodsTyped
<1>7. Coins(g) <= Coins(StartMoney) + minted
  <2>1. Coins(f) <= Coins(StartMoney) + minted
    BY <1>3 DEF NoNewMoney
  <2> DEFINE a == Coins(f)
             b == Coins(g)
             c == Coins(StartMoney)
  <2>2. a <= c + minted /\ b <= a /\ a \in Nat /\ b \in Nat /\ c \in Nat /\ minted \in Int
    BY <1>5, <1>6, <2>1
  <2> HIDE DEF a, b, c
  <2>3. b <= c + minted
    BY <2>2
  <2> QED BY <2>3 DEF b, c
<1>8. (Coins(Largest) <= Coins(StartMoney) + minted)'
  <2>1. Coins(Largest)' = Coins(g)
    BY <1>3 DEF Coins
  <2>2. Coins(StartMoney)' = Coins(StartMoney)
    BY DEF Coins
  <2> QED BY <1>7, <2>1, <2>2
<1> QED BY <1>8 DEF NoNewMoney

\* The invariant holds at the start.
LEMMA GoodsInit == Init => GoodsInv
<1> SUFFICES ASSUME Init PROVE GoodsInv
  OBVIOUS
<1>0. /\ MaxMoney \in Nat /\ MaxMinted \in Nat /\ StartMoney \in [Players -> 0..MaxMoney]
      /\ StartBag \in [Players -> SUBSET Items]
  <2>1. MaxMoney \in Nat /\ MaxMinted \in Nat /\ StartBag \in [Players -> SUBSET Items]
    BY TradeAssumption
  <2>2. StartMoney \in [Players -> Nat] /\ \A r \in Players : StartMoney[r] <= MaxMoney
    BY TradeAssumption
  <2>3. \A r \in Players : StartMoney[r] \in 0..MaxMoney
    BY <2>1, <2>2
  <2> QED BY <2>1, <2>2, <2>3
<1>1. /\ money = StartMoney /\ bag = StartBag /\ bound = {} /\ surplus = {} /\ minted = 0
      /\ saved = [p \in Players |-> [bag |-> StartBag[p], money |-> StartMoney[p]]]
  BY DEF Init
<1>2. saved \in Saves
  BY <1>0, <1>1 DEF Saves
<1>3. GoodsTyped
  BY <1>0, <1>1, <1>2 DEF GoodsTyped
<1>4. BagsSaved
  BY <1>0, <1>1, TradeAssumption DEF BagsSaved
<1>5. Largest = StartMoney
  BY <1>0, <1>1 DEF Largest, LargestOf
<1>6. Coins(StartMoney) \in Nat
  BY PurseFinite
<1>7. NoNewMoney
  BY <1>1, <1>5, <1>6 DEF NoNewMoney
<1> QED BY <1>1, <1>3, <1>4, <1>7 DEF GoodsInv, NothingCloned

(* One lemma per step that touches the goods. *)

\* A step that does not.
LEMMA GoodsKept ==
  ASSUME GoodsInv, UNCHANGED goods
  PROVE  GoodsInv'
<1>1. GoodsTyped'
  BY DEF goods, GoodsInv, GoodsTyped, Saves
<1>2. BagsSaved'
  BY DEF goods, GoodsInv, BagsSaved
<1>3. NoNewMoney'
  BY <1>1, MoneyKept DEF goods, GoodsInv
<1>4. NothingCloned'
  BY DEF goods, GoodsInv, NothingCloned
<1> QED BY <1>1, <1>2, <1>3, <1>4 DEF GoodsInv

\* Items lost or bound.
LEMMA GoodsLost ==
  ASSUME GoodsInv, NEW p \in Players, NEW i \in Items,
         LoseItem(p, i) \/ BindItem(p, i)
  PROVE  GoodsInv'
<1>1. CASE LoseItem(p, i)
  <2>1. /\ bag' = [bag EXCEPT ![p] = bag[p] \ {i}]
        /\ UNCHANGED <<bound, money, saved, surplus, minted>>
    BY <1>1 DEF LoseItem
  <2>2. GoodsTyped'
    BY <2>1 DEF GoodsInv, GoodsTyped, Saves
  <2>3. BagsSaved'
    BY <2>1 DEF GoodsInv, GoodsTyped, BagsSaved
  <2>4. NoNewMoney'
    BY <2>1, <2>2, MoneyKept DEF GoodsInv
  <2> QED BY <2>1, <2>2, <2>3, <2>4 DEF GoodsInv, NothingCloned
<1>2. CASE BindItem(p, i)
  <2>1. bound' = bound \cup {i} /\ UNCHANGED <<bag, money, saved, surplus, minted>>
    BY <1>2 DEF BindItem
  <2>2. GoodsTyped'
    BY <2>1 DEF GoodsInv, GoodsTyped, Saves
  <2>3. BagsSaved'
    BY <2>1 DEF GoodsInv, BagsSaved
  <2>4. NoNewMoney'
    BY <2>1, <2>2, MoneyKept DEF GoodsInv
  <2> QED BY <2>1, <2>2, <2>3, <2>4 DEF GoodsInv, NothingCloned
<1> QED BY <1>1, <1>2

\* Money spent.
LEMMA GoodsSpent ==
  ASSUME GoodsInv, NEW p \in Players, SpendMoney(p)
  PROVE  GoodsInv'
<1>1. /\ money' = [money EXCEPT ![p] = ModifyMoney(money[p], -1)] /\ money[p] > 0
      /\ UNCHANGED <<bag, bound, saved, surplus, minted>>
  BY DEF SpendMoney
<1>2. /\ money \in [Players -> 0..MaxMoney] /\ money[p] \in 0..MaxMoney /\ MaxMoney \in Nat
  BY TradeAssumption DEF GoodsInv, GoodsTyped
<1>3. ModifyMoney(money[p], -1) = money[p] - 1
  BY <1>1, <1>2 DEF ModifyMoney
<1>4. money[p] - 1 \in 0..MaxMoney
  BY <1>1, <1>2
<1>5. money' \in [Players -> 0..MaxMoney]
  BY <1>1, <1>2, <1>3, <1>4
<1>6. GoodsTyped'
  BY <1>1, <1>5 DEF GoodsInv, GoodsTyped, Saves
<1>7. BagsSaved'
  BY <1>1 DEF GoodsInv, BagsSaved
<1>8. \A r \in Players : {money'[r], saved'[r].money} \subseteq {money[r], saved[r].money, money[r] - 1}
  BY <1>1, <1>2, <1>3
<1>9. NoNewMoney'
  BY <1>1, <1>6, <1>8, MoneyKept DEF GoodsInv
<1> QED BY <1>1, <1>6, <1>7, <1>9 DEF GoodsInv, NothingCloned

\* Player::SaveToDB, by the timer or at logout.
LEMMA GoodsSaved ==
  ASSUME GoodsInv, NEW p \in Players,
         saved' = [saved EXCEPT ![p] = [bag |-> bag[p], money |-> money[p]]],
         UNCHANGED <<bag, bound, money, surplus, minted>>
  PROVE  GoodsInv'
<1>1. /\ saved \in Saves /\ bag \in [Players -> SUBSET Items] /\ money \in [Players -> 0..MaxMoney]
  BY DEF GoodsInv, GoodsTyped
<1>2. /\ saved'[p].bag = bag[p] /\ saved'[p].money = money[p]
      /\ \A r \in Players \ {p} : saved'[r] = saved[r]
  BY <1>1 DEF Saves
<1>3. saved' \in Saves
  <2>1. [bag |-> bag[p], money |-> money[p]] \in [bag : SUBSET Items, money : 0..MaxMoney]
    BY <1>1
  <2> QED BY <1>1, <2>1 DEF Saves
<1>4. GoodsTyped'
  BY <1>3 DEF GoodsInv, GoodsTyped, Saves
<1>5. BagsSaved'
  BY <1>2 DEF GoodsInv, BagsSaved
<1>6. \A r \in Players : {money'[r], saved'[r].money} \subseteq {money[r], saved[r].money, money[r] - 1}
  BY <1>2
<1>7. NoNewMoney'
  BY <1>4, <1>6, MoneyKept DEF GoodsInv
<1> QED BY <1>4, <1>5, <1>7 DEF GoodsInv, NothingCloned

\* The saved copy comes back.
LEMMA GoodsLoaded ==
  ASSUME GoodsInv, NEW p \in Players, Login(p)
  PROVE  GoodsInv'
<1>0. /\ bag' = [bag EXCEPT ![p] = saved[p].bag]
      /\ money' = [money EXCEPT ![p] = saved[p].money]
      /\ UNCHANGED <<bound, saved, surplus, minted>>
  BY DEF Login
<1>1. /\ saved \in Saves /\ bag \in [Players -> SUBSET Items] /\ money \in [Players -> 0..MaxMoney]
  BY DEF GoodsInv, GoodsTyped
<1>2. saved[p].bag \subseteq Items /\ saved[p].money \in 0..MaxMoney
  BY <1>1 DEF Saves
<1>3. bag' \in [Players -> SUBSET Items] /\ money' \in [Players -> 0..MaxMoney]
  BY <1>0, <1>1, <1>2
<1>4. GoodsTyped'
  BY <1>0, <1>3 DEF GoodsInv, GoodsTyped, Saves
<1>5. BagsSaved'
  BY <1>0, <1>1 DEF GoodsInv, BagsSaved
<1>6. \A r \in Players : {money'[r], saved'[r].money} \subseteq {money[r], saved[r].money, money[r] - 1}
  BY <1>0, <1>1
<1>7. NoNewMoney'
  BY <1>0, <1>4, <1>6, MoneyKept DEF GoodsInv
<1> QED BY <1>0, <1>4, <1>5, <1>7 DEF GoodsInv, NothingCloned

\* All saved copies come back.
LEMMA GoodsAfterCrash ==
  ASSUME GoodsInv, Crash
  PROVE  GoodsInv'
<1>0. /\ bag' = [p \in Players |-> saved[p].bag]
      /\ money' = [p \in Players |-> saved[p].money]
      /\ bound' \subseteq bound /\ surplus' = {}
      /\ UNCHANGED <<saved, minted>>
  BY DEF Crash
<1>1. \A p \in Players : saved[p].bag \subseteq Items /\ saved[p].money \in 0..MaxMoney
  BY DEF GoodsInv, GoodsTyped, Saves
<1>2. bag' \in [Players -> SUBSET Items] /\ money' \in [Players -> 0..MaxMoney]
  BY <1>0, <1>1
<1>3. GoodsTyped'
  BY <1>0, <1>2 DEF GoodsInv, GoodsTyped, Saves
<1>4. BagsSaved'
  BY <1>0 DEF GoodsInv, BagsSaved
<1>5. \A r \in Players : {money'[r], saved'[r].money} \subseteq {money[r], saved[r].money, money[r] - 1}
  BY <1>0
<1>6. NoNewMoney'
  BY <1>0, <1>3, <1>5, MoneyKept DEF GoodsInv
<1> QED BY <1>0, <1>3, <1>4, <1>6 DEF GoodsInv, NothingCloned

\* Money earned is counted in minted.
LEMMA GoodsEarned ==
  ASSUME GoodsInv, NEW p \in Players, EarnMoney(p)
  PROVE  GoodsInv'
<1>0. /\ minted < MaxMinted /\ ModifyMoney(money[p], 1) # money[p]
      /\ money' = [money EXCEPT ![p] = ModifyMoney(money[p], 1)]
      /\ minted' = minted + 1
      /\ UNCHANGED <<bag, bound, saved, surplus>>
  BY DEF EarnMoney
<1>1. /\ saved \in Saves /\ money \in [Players -> 0..MaxMoney]
      /\ money[p] \in 0..MaxMoney /\ MaxMoney \in Nat /\ minted \in 0..MaxMinted /\ MaxMinted \in Nat
  BY TradeAssumption DEF GoodsInv, GoodsTyped
<1>2. ModifyMoney(money[p], 1) = money[p] + 1 /\ money[p] + 1 \in 0..MaxMoney
  BY <1>0, <1>1 DEF ModifyMoney
<1>3. money' \in [Players -> 0..MaxMoney] /\ minted' \in 0..MaxMinted
  BY <1>0, <1>1, <1>2
<1>4. GoodsTyped'
  BY <1>0, <1>3 DEF GoodsInv, GoodsTyped, Saves
<1>5. BagsSaved'
  BY <1>0 DEF GoodsInv, BagsSaved
<1> DEFINE f == LargestOf(money, saved)
           g == LargestOf(money', saved')
<1>6. saved' = saved /\ saved' \in Saves
  BY <1>0, <1>1
<1>7. /\ f \in [Players -> 0..MaxMoney] /\ g \in [Players -> 0..MaxMoney]
      /\ \A r \in Players : /\ money[r] <= f[r] /\ saved[r].money <= f[r]
                            /\ g[r] \in {money'[r], saved'[r].money}
  BY <1>1, <1>3, <1>6, LargestTyped
<1>8. Largest = f /\ Largest' = g
  BY DEF Largest, LargestOf
<1>9. g[p] <= f[p] + 1
  <2> HIDE DEF f, g
  <2>1. g[p] \in {money[p] + 1, saved[p].money} /\ money[p] <= f[p] /\ saved[p].money <= f[p]
    BY <1>0, <1>1, <1>2, <1>6, <1>7
  <2>2. f[p] \in 0..MaxMoney /\ g[p] \in 0..MaxMoney
    BY <1>7
  <2> QED BY <1>1, <2>1, <2>2
<1>10. \A r \in Players \ {p} : g[r] <= f[r]
  <2>1. ASSUME NEW r \in Players \ {p} PROVE g[r] = f[r]
    BY <1>0, <1>1 DEF LargestOf
  <2>2. ASSUME NEW r \in Players \ {p} PROVE f[r] \in 0..MaxMoney
    BY <1>7
  <2> HIDE DEF f, g
  <2> QED BY <1>1, <2>1, <2>2
<1> HIDE DEF f, g
<1>11. Coins(g) <= Coins(f) + 1
  BY <1>7, <1>9, <1>10, CoinsPlusOne
<1>12. Coins(f) \in Nat /\ Coins(g) \in Nat /\ Coins(StartMoney) \in Nat
  BY PurseFinite
<1>13. Coins(g) <= Coins(StartMoney) + minted'
  <2> DEFINE a == Coins(f)
             b == Coins(g)
             c == Coins(StartMoney)
  <2>1. a <= c + minted
    BY <1>8 DEF GoodsInv, NoNewMoney
  <2>2. b <= a + 1 /\ a \in Nat /\ b \in Nat /\ c \in Nat /\ minted \in Int /\ minted' = minted + 1
    BY <1>0, <1>1, <1>11, <1>12
  <2> HIDE DEF a, b, c
  <2>3. b <= c + minted'
    BY <2>1, <2>2
  <2> QED BY <2>3 DEF b, c
<1>14. NoNewMoney'
  <2>1. Coins(Largest)' = Coins(g)
    BY <1>8 DEF Coins
  <2>2. Coins(StartMoney)' = Coins(StartMoney)
    BY DEF Coins
  <2> QED BY <1>13, <2>1, <2>2 DEF NoNewMoney
<1> QED BY <1>0, <1>4, <1>5, <1>14 DEF GoodsInv, NothingCloned

\* The four ModifyMoney calls move the exact amounts once the money checks have
\* passed.
LEMMA Paid ==
  ASSUME TInv, GoodsTyped, NEW p, NEW q, Partners(p, q), CompleteTrade(p, q)
  PROVE  /\ money' \in [Players -> 0..MaxMoney]
         /\ money'[p] = money[p] - m_trade[p].money + m_trade[q].money
         /\ money'[q] = money[q] - m_trade[q].money + m_trade[p].money
         /\ money'[p] + money'[q] = money[p] + money[q]
         /\ \A r \in Players \ {p, q} : money'[r] = money[r]
<1> DEFINE a == m_trade[p].money
           b == m_trade[q].money
           pay(r, s) == ModifyMoney(ModifyMoney(money[r], -m_trade[r].money), m_trade[s].money)
<1>1. money' = [money EXCEPT ![p] = pay(p, q), ![q] = pay(q, p)] /\ MoneyProblem(p, q) = {}
  BY DEF CompleteTrade, MayProceed
<1>2. p \in Players /\ q \in Players /\ p # q /\ m_trade[p] \in TradeDatas /\ m_trade[q] \in TradeDatas
  BY Pairs DEF Partners
<1>3. MaxMoney \in Nat /\ MaxGold \in Nat
  BY TradeAssumption
<1>4. a \in Nat /\ b \in Nat
  BY <1>2, <1>3 DEF TradeDatas
<1>5. money \in [Players -> 0..MaxMoney] /\ money[p] \in 0..MaxMoney /\ money[q] \in 0..MaxMoney
  BY <1>2 DEF GoodsTyped
<1>6. ~(money[p] < a) /\ ~(money[q] < b) /\ ~(money[p] >= MaxMoney - b) /\ ~(money[q] >= MaxMoney - a)
  BY <1>1 DEF MoneyProblem
<1>7. money[p] >= a /\ money[q] >= b /\ money[p] < MaxMoney - b /\ money[q] < MaxMoney - a
  <2> HIDE DEF a, b
  <2> QED BY <1>3, <1>4, <1>5, <1>6
<1>8. pay(p, q) = money[p] - a + b /\ money[p] - a + b \in 0..MaxMoney
  <2>1. ModifyMoney(ModifyMoney(money[p], -a), b) = money[p] - a + b /\ money[p] - a + b \in 0..MaxMoney
    <3> HIDE DEF a, b
    <3> QED BY <1>4, <1>5, <1>7, ExactPayment
  <2> QED BY <2>1
<1>9. pay(q, p) = money[q] - b + a /\ money[q] - b + a \in 0..MaxMoney
  <2>1. ModifyMoney(ModifyMoney(money[q], -b), a) = money[q] - b + a /\ money[q] - b + a \in 0..MaxMoney
    <3> HIDE DEF a, b
    <3> QED BY <1>4, <1>5, <1>7, ExactPayment
  <2> QED BY <2>1
<1> HIDE DEF pay, a, b
<1>10. /\ money' \in [Players -> 0..MaxMoney]
       /\ money'[p] = money[p] - a + b /\ money'[q] = money[q] - b + a
       /\ \A r \in Players \ {p, q} : money'[r] = money[r]
  BY <1>1, <1>2, <1>5, <1>8, <1>9
<1>11. money'[p] + money'[q] = money[p] + money[q]
  BY <1>4, <1>5, <1>10
<1> QED BY <1>10, <1>11 DEF a, b

\* The exchange: items as in ExchangeApart, money as in Paid, both sides saved.
LEMMA GoodsExchanged ==
  ASSUME TInv, GoodsInv, NEW p, NEW q, Partners(p, q), CompleteTrade(p, q)
  PROVE  GoodsInv'
<1> DEFINE m == moveItems(p, q)
<1>0. /\ bag' = m.bag /\ surplus' = m.surplus
      /\ saved' = [saved EXCEPT ![p] = [bag |-> bag'[p], money |-> money'[p]],
                                ![q] = [bag |-> bag'[q], money |-> money'[q]]]
      /\ UNCHANGED <<bound, minted>>
      /\ CanStoreItems(p, q) /\ CanStoreItems(q, p)
  BY DEF CompleteTrade, SaveBoth
<1> HIDE DEF m
<1>1. p \in Players /\ q \in Players /\ p # q
  BY Pairs DEF Partners
<1>2. GoodsTyped /\ BagsSaved
  BY DEF GoodsInv
<1>3. /\ m \in Stores
      /\ m.bag[p] \cap m.bag[q] = {}
      /\ m.bag[p] \cup m.bag[q] \subseteq bag[p] \cup bag[q]
      /\ \A r \in Players \ {p, q} : m.bag[r] = bag[r]
  BY <1>2, ExchangeApart DEF MovedApart, m
<1>4. bag' \in [Players -> SUBSET Items] /\ surplus' \subseteq Items
  BY <1>0, <1>3 DEF Stores
<1>5. /\ money' \in [Players -> 0..MaxMoney] /\ money'[p] + money'[q] = money[p] + money[q]
      /\ \A r \in Players \ {p, q} : money'[r] = money[r]
  BY <1>2, Paid
<1>6. saved \in Saves
  BY <1>2 DEF GoodsTyped
<1>7. /\ saved'[p].bag = bag'[p] /\ saved'[p].money = money'[p]
      /\ saved'[q].bag = bag'[q] /\ saved'[q].money = money'[q]
      /\ \A r \in Players \ {p, q} : saved'[r] = saved[r]
  BY <1>0, <1>1, <1>6 DEF Saves
<1>8. saved' \in Saves
  <2> DEFINE x == [bag |-> bag'[p], money |-> money'[p]]
             y == [bag |-> bag'[q], money |-> money'[q]]
  <2>1. x \in [bag : SUBSET Items, money : 0..MaxMoney] /\ y \in [bag : SUBSET Items, money : 0..MaxMoney]
    BY <1>1, <1>4, <1>5
  <2>2. saved' = [saved EXCEPT ![p] = x, ![q] = y]
    BY <1>0
  <2> HIDE DEF x, y
  <2> QED BY <1>6, <2>1, <2>2 DEF Saves
<1>9. GoodsTyped'
  BY <1>0, <1>2, <1>4, <1>5, <1>8 DEF GoodsTyped, Saves
<1>10. BagsSaved'
  <2>1. bag'[p] \cap bag'[q] = {} /\ bag'[p] \cup bag'[q] \subseteq saved[p].bag \cup saved[q].bag
    BY <1>0, <1>1, <1>2, <1>3 DEF BagsSaved
  <2>2. \A r \in Players \ {p, q} :
          bag'[r] \subseteq saved'[r].bag /\ saved'[r].bag \cap (bag'[p] \cup bag'[q]) = {}
    BY <1>0, <1>1, <1>2, <1>3, <1>7, <2>1 DEF BagsSaved
  <2>3. \A r \in Players : bag'[r] \subseteq saved'[r].bag
    BY <1>7, <2>2
  <2>4. ASSUME NEW r \in Players, NEW s \in Players, r # s
        PROVE  saved'[r].bag \cap saved'[s].bag = {}
    <3>1. CASE r \notin {p, q} /\ s \notin {p, q}
      BY <1>2, <1>7, <2>4, <3>1 DEF BagsSaved
    <3>2. CASE r \in {p, q} /\ s \notin {p, q}
      BY <1>7, <2>2, <3>2
    <3>3. CASE r \notin {p, q} /\ s \in {p, q}
      BY <1>7, <2>2, <3>3
    <3>4. CASE r \in {p, q} /\ s \in {p, q}
      BY <1>7, <2>1, <2>4, <3>4
    <3> QED BY <3>1, <3>2, <3>3, <3>4
  <2> QED BY <2>3, <2>4 DEF BagsSaved
<1>11. NoNewMoney'
  <2> DEFINE f == LargestOf(money, saved)
             g == LargestOf(money', saved')
  <2>1. money \in [Players -> 0..MaxMoney]
    BY <1>2 DEF GoodsTyped
  <2>2. /\ f \in [Players -> 0..MaxMoney] /\ g \in [Players -> 0..MaxMoney]
        /\ \A r \in Players : /\ money[r] <= f[r] /\ saved[r].money <= f[r]
                              /\ g[r] \in {money'[r], saved'[r].money}
    BY <1>5, <1>6, <1>8, <2>1, LargestTyped
  <2>3. Largest = f /\ Largest' = g
    BY DEF Largest, LargestOf
  <2>4. \A r \in Players \ {p, q} : g[r] = f[r]
    BY <1>5, <1>7 DEF LargestOf
  <2> HIDE DEF f, g
  <2>5. g[p] = money'[p] /\ g[q] = money'[q] /\ money[p] <= f[p] /\ money[q] <= f[q]
    BY <1>1, <1>7, <2>2
  <2>6. /\ money[p] \in 0..MaxMoney /\ money[q] \in 0..MaxMoney /\ f[p] \in 0..MaxMoney /\ f[q] \in 0..MaxMoney
        /\ money'[p] \in 0..MaxMoney /\ money'[q] \in 0..MaxMoney
    BY <1>1, <1>5, <2>1, <2>2
  <2>7. g[p] + g[q] <= f[p] + f[q]
    BY <1>5, <2>5, <2>6, TradeAssumption
  <2>8. Coins(g) <= Coins(f)
    BY <1>1, <2>2, <2>4, <2>7, CoinsMoved
  <2>9. Coins(f) \in Nat /\ Coins(g) \in Nat /\ Coins(StartMoney) \in Nat /\ minted \in Int
    BY <1>2, PurseFinite DEF GoodsTyped
  <2>10. Coins(g) <= Coins(StartMoney) + minted'
    <3> DEFINE a == Coins(f)
               b == Coins(g)
               c == Coins(StartMoney)
    <3>1. a <= c + minted
      BY <2>3 DEF GoodsInv, NoNewMoney
    <3>2. b <= a /\ a \in Nat /\ b \in Nat /\ c \in Nat /\ minted \in Int /\ minted' = minted
      BY <1>0, <2>8, <2>9
    <3> HIDE DEF a, b, c
    <3>3. b <= c + minted'
      BY <3>1, <3>2
    <3> QED BY <3>3 DEF b, c
  <2>11. Coins(Largest)' = Coins(g)
    BY <2>3 DEF Coins
  <2>12. Coins(StartMoney)' = Coins(StartMoney)
    BY DEF Coins
  <2> QED BY <2>10, <2>11, <2>12 DEF NoNewMoney
<1>12. NothingCloned'
  <2>1. ASSUME Limited = {} PROVE surplus' = surplus
    BY <1>0, <1>2, <2>1, ExchangeWhole DEF m
  <2> QED BY <2>1 DEF GoodsInv, NothingCloned
<1> QED BY <1>9, <1>10, <1>11, <1>12 DEF GoodsInv

\* Every step keeps the invariant.
LEMMA GoodsNext == TInv /\ GoodsInv /\ [Next]_vars => GoodsInv'
<1> SUFFICES ASSUME TInv, GoodsInv, [Next]_vars PROVE GoodsInv'
  OBVIOUS
<1>1. ASSUME NEW p \in Players, NEW q \in Players, InitiateTrade(p, q) PROVE GoodsInv'
  BY <1>1, GoodsKept DEF InitiateTrade
<1>2. ASSUME NEW p \in Players, TradeCancel(p) PROVE GoodsInv'
  BY <1>2, GoodsKept DEF TradeCancel
<1>3. ASSUME NEW p \in Players, NEW gold \in 0..MaxGold, SetMoney(p, gold) PROVE GoodsInv'
  BY <1>3, GoodsKept DEF SetMoney
<1>4. ASSUME NEW p \in Players, NEW s \in Slots, ClearTradeItem(p, s) PROVE GoodsInv'
  BY <1>4, GoodsKept DEF ClearTradeItem
<1>5. ASSUME NEW p \in Players, NEW s \in Slots, NEW i \in Items, SetTradeItem(p, s, i) PROVE GoodsInv'
  BY <1>5, GoodsKept DEF SetTradeItem
<1>6. ASSUME NEW p \in Players, SetSpell(p) PROVE GoodsInv'
  BY <1>6, GoodsKept DEF SetSpell
<1>7. ASSUME NEW p \in Players, UnacceptTrade(p) PROVE GoodsInv'
  BY <1>7, GoodsKept DEF UnacceptTrade
<1>8. ASSUME NEW p \in Players, AcceptTrade(p) PROVE GoodsInv'
  <2>1. CASE CompleteTrade(p, Trader(p))
    BY <1>8, <2>1, GoodsExchanged DEF AcceptTrade, Partners
  <2>2. CASE ~CompleteTrade(p, Trader(p))
    <3>1. UNCHANGED goods
      BY <1>8, <2>2 DEF AcceptTrade, AcceptRefused, AcceptFirst, SpellFails, AcceptNoRoom
    <3> QED BY <3>1, GoodsKept
  <2> QED BY <2>1, <2>2
<1>9. ASSUME NEW p \in Players, NEW i \in Items, LoseItem(p, i) \/ BindItem(p, i) PROVE GoodsInv'
  BY <1>9, GoodsLost
<1>10. ASSUME NEW p \in Players, SpendMoney(p) PROVE GoodsInv'
  BY <1>10, GoodsSpent
<1>11. ASSUME NEW p \in Players, EarnMoney(p) PROVE GoodsInv'
  BY <1>11, GoodsEarned
<1>12. ASSUME NEW p \in Players, Save(p) PROVE GoodsInv'
  BY <1>12, GoodsSaved DEF Save
<1>13. ASSUME NEW p \in Players, Logout(p) PROVE GoodsInv'
  BY <1>13, GoodsSaved DEF Logout
<1>14. ASSUME NEW p \in Players, Login(p) PROVE GoodsInv'
  BY <1>14, GoodsLoaded
<1>15. CASE Crash
  BY <1>15, GoodsAfterCrash
<1>16. CASE UNCHANGED vars
  BY <1>16, GoodsKept DEF vars, goods
<1> QED BY <1>1, <1>2, <1>3, <1>4, <1>5, <1>6, <1>7, <1>8, <1>9, <1>10, <1>11, <1>12, <1>13, <1>14,
           <1>15, <1>16
        DEF Next

\* Both invariants always hold.
LEMMA GoodsAlways == Spec => []GoodsInv
<1>1. Init => TInv /\ GoodsInv
  BY TInvInit, GoodsInit
<1>2. TInv /\ GoodsInv /\ [Next]_vars => (TInv /\ GoodsInv)'
  BY TInvNext, GoodsNext
<1> QED BY <1>1, <1>2, PTL DEF Spec

\* Inventories, purses, saved copies and trade windows have their types; purses
\* stay within MAX_MONEY_AMOUNT (Player::ModifyMoney).
THEOREM TypeCorrect == Spec => []TypeOK
<1>1. TInv /\ GoodsInv => TypeOK
  BY DEF TInv, TradesTyped, GoodsInv, GoodsTyped, TypeOK
<1> QED BY <1>1, TInvAlways, GoodsAlways, PTL

\* Whatever is saved when (the save timer, logout, both sides of an exchange in
\* one transaction), the saved copies never hold an item twice or more money than
\* there ever was.
THEOREM CrashesCreateNothing == Spec => []CrashCreatesNothing
<1>1. GoodsInv => CrashCreatesNothing
  <2> SUFFICES ASSUME GoodsInv PROVE CrashCreatesNothing
    OBVIOUS
  <2> DEFINE h == [p \in Players |-> saved[p].money]
             f == LargestOf(money, saved)
  <2>1. money \in [Players -> 0..MaxMoney] /\ saved \in Saves
    BY DEF GoodsInv, GoodsTyped
  <2>2. h \in [Players -> 0..MaxMoney]
    BY <2>1 DEF Saves
  <2>3. f \in [Players -> 0..MaxMoney] /\ \A r \in Players : h[r] <= f[r]
    BY <2>1, LargestTyped
  <2> HIDE DEF f
  <2>4. Coins(h) <= Coins(f)
    <3> HIDE DEF h
    <3> QED BY <2>2, <2>3, CoinsMonotone
  <2>5. Coins(f) <= Coins(StartMoney) + minted
    BY DEF f, GoodsInv, NoNewMoney, Largest
  <2>6. Coins(h) <= Coins(StartMoney) + minted
    <3> HIDE DEF h
    <3>1. Coins(h) \in Nat /\ Coins(f) \in Nat /\ Coins(StartMoney) \in Nat /\ minted \in Int
      BY PurseFinite DEF GoodsInv, GoodsTyped
    <3> QED BY <2>4, <2>5, <3>1
  <2> QED BY <2>6 DEF CrashCreatesNothing, GoodsInv, BagsSaved
<1> QED BY <1>1, GoodsAlways, PTL

\* No item is carried by two players, and moveItems clones none, as long as no
\* item belongs to a limited category: with one, a returned item may be stored
\* twice.
THEOREM OneOwner ==
  ASSUME Limited = {}
  PROVE  Spec => []ItemsHaveOneOwner
<1>1. GoodsInv => ItemsHaveOneOwner
  <2>1. ASSUME GoodsInv, NEW p \in Players, NEW q \in Players, p # q PROVE bag[p] \cap bag[q] = {}
    BY <2>1 DEF GoodsInv, BagsSaved
  <2> QED BY <2>1 DEF ItemsHaveOneOwner, GoodsInv, NothingCloned
<1> QED BY <1>1, GoodsAlways, PTL

-----------------------------------------------------------------------------
(* The action property. *)

\* what ExchangeIsWhole asks of a step by which goods change hands
WholeExchange(p, q) ==
  /\ Trading(p) /\ Trader(p) = q
  /\ \E r \in {p, q} : seen[r] = View(m_trade, r)
  /\ \A r \in {p, q} :
       /\ bag'[r] = (bag[r] \ Offer(r)) \cup Offer(Trader(r))
       /\ money'[r] = money[r] - m_trade[r].money + m_trade[Trader(r)].money

\* A step that gives a player no more than the own saved copy holds, and changes
\* one purse at most, hands nothing over.
LEMMA NothingHandedOver ==
  ASSUME GoodsInv, NEW p \in Players, NEW q \in Players, p # q,
         bag'[q] \subseteq saved[q].bag,
         money'[p] = money[p] \/ money'[q] = money[q]
  PROVE  ~ChangesHands(p, q)
<1>1. bag[p] \cap bag'[q] = {}
  BY DEF GoodsInv, BagsSaved
<1>2. money[p] \in Int /\ money[q] \in Int
  BY TradeAssumption DEF GoodsInv, GoodsTyped
<1> QED BY <1>1, <1>2 DEF ChangesHands

\* An exchange hands over what was listed, between the two who trade.
LEMMA HandedOverWhole ==
  ASSUME TInv, GoodsInv, Limited = {}, NEW a, NEW b, Partners(a, b), CompleteTrade(a, b),
         NEW p \in Players, NEW q \in Players, p # q, ChangesHands(p, q)
  PROVE  WholeExchange(p, q)
<1>1. /\ a \in Players /\ b \in Players /\ a # b /\ Trading(a) /\ Trader(a) = b
      /\ Trading(b) /\ Trader(b) = a
  BY Pairs DEF Partners
<1>2. GoodsTyped /\ BagsSaved
  BY DEF GoodsInv
<1>3. bag' = moveItems(a, b).bag /\ m_trade[b].accepted /\ CanStoreItems(a, b) /\ CanStoreItems(b, a)
  BY DEF CompleteTrade
<1>4. /\ bag'[a] \cup bag'[b] \subseteq bag[a] \cup bag[b]
      /\ \A r \in Players \ {a, b} : bag'[r] = bag[r]
  BY <1>2, <1>3, ExchangeApart DEF MovedApart
<1>5. /\ bag'[a] = (bag[a] \ Offer(a)) \cup Offer(b)
      /\ bag'[b] = (bag[b] \ Offer(b)) \cup Offer(a)
  BY <1>2, <1>3, ExchangeWhole
<1>6. /\ money'[a] = money[a] - m_trade[a].money + m_trade[b].money
      /\ money'[b] = money[b] - m_trade[b].money + m_trade[a].money
      /\ \A r \in Players \ {a, b} : money'[r] = money[r]
  BY <1>2, Paid
<1>7. money[p] \in Int /\ money[q] \in Int
  BY TradeAssumption DEF GoodsInv, GoodsTyped
<1>8. \A r, s \in Players : r # s => bag[r] \cap bag[s] = {}
  BY <1>2 DEF BagsSaved
<1>9. {p, q} = {a, b}
  <2>1. ASSUME p \notin {a, b} PROVE FALSE
    <3>1. money'[p] = money[p] /\ bag[p] \cap (bag[a] \cup bag[b]) = {}
      BY <1>1, <1>6, <1>8, <2>1
    <3>2. bag[p] \cap bag'[q] = {}
      BY <1>4, <1>8, <3>1
    <3> QED BY <1>7, <3>1, <3>2 DEF ChangesHands
  <2>2. ASSUME q \notin {a, b} PROVE FALSE
    <3>1. money'[q] = money[q] /\ bag'[q] = bag[q] /\ bag[p] \cap bag[q] = {}
      BY <1>4, <1>6, <1>8, <2>2
    <3> QED BY <1>7, <3>1 DEF ChangesHands
  <2> QED BY <2>1, <2>2
<1>10. seen[b] = View(m_trade, b)
  BY <1>1, <1>3 DEF TInv, AcceptedListIsCurrent
<1>11. CASE p = a /\ q = b
  BY <1>1, <1>5, <1>6, <1>10, <1>11 DEF WholeExchange
<1>12. CASE p = b /\ q = a
  BY <1>1, <1>5, <1>6, <1>10, <1>12 DEF WholeExchange
<1> QED BY <1>9, <1>11, <1>12

\* Only an exchange hands anything over.
LEMMA StepIsWhole ==
  ASSUME TInv, GoodsInv, Limited = {}, Next, online \subseteq online',
         NEW p \in Players, NEW q \in Players, p # q, ChangesHands(p, q)
  PROVE  WholeExchange(p, q)
<1> DEFINE Own == bag'[q] \subseteq saved[q].bag /\ (money'[p] = money[p] \/ money'[q] = money[q])
<1>0. bag[q] \subseteq saved[q].bag /\ bag \in [Players -> SUBSET Items] /\ money \in [Players -> 0..MaxMoney]
  BY DEF GoodsInv, BagsSaved, GoodsTyped
<1>1. ~Own
  BY NothingHandedOver
<1>2. ~UNCHANGED <<bag, money>>
  BY <1>0, <1>1
<1>3. ASSUME NEW r \in Players, AcceptTrade(r) PROVE WholeExchange(p, q)
  <2>1. CompleteTrade(r, Trader(r))
    BY <1>2, <1>3 DEF AcceptTrade, AcceptRefused, AcceptFirst, SpellFails, AcceptNoRoom, goods
  <2> QED BY <1>3, <2>1, HandedOverWhole DEF AcceptTrade, Partners
<1>4. ASSUME NEW r \in Players, NEW i \in Items, LoseItem(r, i) PROVE FALSE
  BY <1>0, <1>1, <1>4 DEF LoseItem
<1>5. ASSUME NEW r \in Players, SpendMoney(r) \/ EarnMoney(r) PROVE FALSE
  BY <1>0, <1>1, <1>5 DEF SpendMoney, EarnMoney
<1>6. ASSUME NEW r \in Players, Login(r) PROVE FALSE
  BY <1>0, <1>1, <1>6 DEF Login
<1>7. ~Crash
  BY DEF Crash
<1>8. ASSUME NEW r \in Players,
             \/ \E x \in Players : InitiateTrade(r, x)
             \/ TradeCancel(r)
             \/ \E gold \in 0..MaxGold : SetMoney(r, gold)
             \/ \E s \in Slots : ClearTradeItem(r, s) \/ \E i \in Items : SetTradeItem(r, s, i)
             \/ SetSpell(r) \/ UnacceptTrade(r)
             \/ \E i \in Items : BindItem(r, i)
             \/ Save(r) \/ Logout(r)
      PROVE  FALSE
  BY <1>2, <1>8 DEF InitiateTrade, TradeCancel, SetMoney, ClearTradeItem, SetTradeItem, SetSpell,
                    UnacceptTrade, BindItem, Save, Logout, goods
<1> HIDE DEF Own
<1> QED BY <1>3, <1>4, <1>5, <1>6, <1>7, <1>8 DEF Next

\* Goods pass from one player to another only in an exchange between the two, of
\* whom one had accepted both lists, with every listed item still there and the
\* exact amounts of money (HandleAcceptTradeOpcode, moveItems), as long as no item
\* belongs to a limited category.
THEOREM ExchangesAreWhole ==
  ASSUME Limited = {}
  PROVE  Spec => ExchangeIsWhole
<1> DEFINE Whole == online \subseteq online' =>
                      \A p, q \in Players : p # q /\ ChangesHands(p, q) => WholeExchange(p, q)
<1>1. TInv /\ GoodsInv /\ [Next]_vars => [Whole]_vars
  BY StepIsWhole
<1>2. ExchangeIsWhole <=> [][Whole]_vars
  BY DEF ExchangeIsWhole, WholeExchange
<1> HIDE DEF Whole
<1> QED BY <1>1, <1>2, TInvAlways, GoodsAlways, PTL DEF Spec
=============================================================================
