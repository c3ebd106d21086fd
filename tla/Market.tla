-------------------------------- MODULE Market --------------------------------
(***************************************************************************)
(* What mail and auctions promise about property, without mails, mailboxes *)
(* and transactions.  Every item has one owner at most.  Goods change      *)
(* hands as gifts or against payment; money staked in bids comes back      *)
(* unless it buys something; who takes no part in a step loses nothing.    *)
(***************************************************************************)
EXTENDS Integers

CONSTANTS Players, Items, Nobody

VARIABLES
  owner,       \* owner[i]: a player, or Nobody when i is gone
  funds,       \* funds[p]: what p has, apart from
  stake,       \* stake[p]: what p has in bids
  refundable   \* refundable[p]: charges that a crash gives back

vars == <<owner, funds, stake, refundable>>

Owned(p) == {i \in Items : owner[i] = p}
Wealth(p) == funds[p] + stake[p]

\* items leave p for q or are gone; nobody else's item moves
ItemsMove(p, q) ==
  \A i \in Items : owner'[i] # owner[i] => owner[i] = p /\ owner'[i] = q

\* bids may be made and returned in any step; nobody outside who has more or less
OthersKeep(who) ==
  \A r \in Players \ who : funds'[r] + stake'[r] = Wealth(r)

\* a charge is secured with any later save
Secure == \A p \in Players : refundable'[p] \in {0, refundable[p]}

Give(p, q) ==
  /\ ItemsMove(p, q) /\ OthersKeep({p, q}) /\ Secure
  /\ stake'[p] = stake[p] /\ stake'[q] = stake[q]
  /\ funds'[q] >= funds[q]
  /\ funds'[q] - funds[q] <= funds[p] - funds'[p]

\* q may discard goods of its own at the same time
Sell(p, q, i) ==
  /\ owner[i] = p /\ owner'[i] = q /\ p # q
  /\ \A j \in Items \ {i} : owner'[j] # owner[j] => owner[j] = q /\ owner'[j] = Nobody
  /\ OthersKeep({p, q}) /\ Secure
  /\ stake'[p] = stake[p] /\ funds'[p] >= funds[p]
  /\ funds'[q] + stake'[q] < Wealth(q)
  /\ funds'[p] - funds[p] <= Wealth(q) - (funds'[q] + stake'[q])

\* fees, and goods that p discards or does not fetch in time
Lose(p) ==
  /\ ItemsMove(p, Nobody) /\ OthersKeep({p}) /\ Secure
  /\ stake'[p] = stake[p] /\ funds'[p] <= funds[p]

Bid == UNCHANGED owner /\ OthersKeep({}) /\ Secure

\* p is charged what a crash would give back
Charge(p) ==
  /\ UNCHANGED <<owner, funds, stake>>
  /\ \A r \in Players \ {p} : refundable'[r] = refundable[r]
  /\ refundable'[p] <= funds[p]

Restart ==
  /\ UNCHANGED <<owner, stake>>
  /\ funds' = [p \in Players |-> funds[p] + refundable[p]]
  /\ refundable' = [p \in Players |-> 0]

Init ==
  /\ owner \in [Items -> Players \cup {Nobody}]
  /\ \A p \in Players : stake[p] = 0 /\ refundable[p] = 0 /\ funds[p] >= 0

Next ==
  \/ Bid \/ Restart
  \/ \E p \in Players : Lose(p) \/ Charge(p)
  \/ \E p, q \in Players : Give(p, q) \/ \E i \in Items : Sell(p, q, i)

Spec == Init /\ [][Next]_vars
=============================================================================
