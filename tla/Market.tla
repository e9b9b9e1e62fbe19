------------------------------- MODULE Market -------------------------------
(***************************************************************************)
(* What the exchange promises, with neither threads nor locks: traders own *)
(* cash and goods, post orders they can honour, withdraw them, and the     *)
(* best bid is matched with the best ask at the price the header fixes     *)
(* (include/exchange.h:31-64).  Exchange implements it.                    *)
(*                                                                         *)
(* What a trader owns includes what its open orders have encumbered, which *)
(* is why a trade is one step here and seven in the matchmaker.            *)
(***************************************************************************)
EXTENDS Integers, Functions

CONSTANTS Traders, OrderIds, Prices, Quantities, Deposits, Escrows

VARIABLES
  cash,   \* funds of each trader, encumbered or not
  goods,  \* units of each trader, encumbered or not
  open,   \* the open orders: their ID, kind, owner, limit and what is left
  last,   \* price of the last trade
  canceled  \* the order that each trader's cancel under way has taken out, or 0

vars == <<cash, goods, open, last, canceled>>

\* What a trader can ask for.
Orders ==
  [id : OrderIds, kind : {"buy", "sell"}, owner : Traders, qty : Quantities, price : Prices]

Kind(k)  == {o \in open : o.kind = k}
Of(t, k) == {o \in Kind(k) : o.owner = t}

BestBids == {b \in Kind("buy")  : \A o \in Kind("buy")  : o.price <= b.price}
BestAsks == {s \in Kind("sell") : \A o \in Kind("sell") : o.price >= s.price}

\* A trader can pay for all it bids for and deliver all it offers.
Solvent(t) ==
  /\ SumFunctionOnSet([o \in Of(t, "buy") |-> o.qty * o.price], Of(t, "buy")) <= cash[t]
  /\ SumFunctionOnSet([o \in Of(t, "sell") |-> o.qty], Of(t, "sell")) <= goods[t]

Init ==
  /\ cash = [t \in Traders |-> 0] /\ goods = [t \in Traders |-> 0]
  /\ open = {}
  /\ last = 0
  /\ canceled = [t \in Traders |-> 0]

-----------------------------------------------------------------------------
\* DEPOSIT, WITHDRAW, ESCROW, RELEASE.
MoveCash ==
  /\ cash' # cash
  /\ UNCHANGED <<goods, last, canceled>>
  /\ \E t \in Traders, n \in Deposits :
       /\ cash' \in {[cash EXCEPT ![t] = @ + n], [cash EXCEPT ![t] = @ - n]}
       /\ Solvent(t)'

MoveGoods ==
  /\ goods' # goods
  /\ UNCHANGED <<cash, last, canceled>>
  /\ \E t \in Traders, n \in Escrows :
       /\ goods' \in {[goods EXCEPT ![t] = @ + n], [goods EXCEPT ![t] = @ - n]}
       /\ Solvent(t)'

\* BUY and SELL, from the moment the order can be matched.
Post ==
  /\ \E o \in open' \ open :
       /\ open' = open \cup {o} /\ \A other \in open : other.id # o.id
       /\ o \in Orders
       /\ Solvent(o.owner)'
  /\ UNCHANGED <<cash, goods, last, canceled>>

\* CANCEL takes out an open order of the trader who asks for it, and of nobody
\* else, one at a time; then it is answered.
Cancel(t, o) ==
  /\ o \in open /\ o.owner = t
  /\ open' = open \ {o}
  /\ canceled[t] = 0 /\ canceled' = [canceled EXCEPT ![t] = o.id]
  /\ UNCHANGED <<cash, goods, last>>

Finish(t) ==
  /\ canceled[t] # 0 /\ canceled' = [canceled EXCEPT ![t] = 0]
  /\ UNCHANGED <<cash, goods, open, last>>

\* The removal of orders with nothing left.
Clear ==
  /\ open' \subseteq open
  /\ \A o \in open \ open' : o.qty = 0
  /\ UNCHANGED <<cash, goods, last, canceled>>

\* The price both accept that is closest to the last one.
Fair(p, b, s) ==
  /\ s.price <= p /\ p <= b.price
  /\ last \in s.price..b.price => p = last
  /\ last > b.price => p = b.price
  /\ last < s.price => p = s.price

Trade(b, s) ==
  LET q == IF b.qty <= s.qty THEN b.qty ELSE s.qty
      p == last'
  IN
  /\ b.kind = "buy" /\ s.kind = "sell" /\ s.price <= b.price
  /\ b \in BestBids /\ s \in BestAsks
  /\ Fair(p, b, s)
  /\ open' = (open \ {b, s}) \cup {[b EXCEPT !.qty = @ - q], [s EXCEPT !.qty = @ - q]}
  /\ cash' = [t \in Traders |-> cash[t] + (IF t = s.owner THEN q * p ELSE 0)
                                        - (IF t = b.owner THEN q * p ELSE 0)]
  /\ goods' = [t \in Traders |-> goods[t] + (IF t = b.owner THEN q ELSE 0)
                                          - (IF t = s.owner THEN q ELSE 0)]
  /\ UNCHANGED canceled

Next ==
  \/ open' = open /\ (MoveCash \/ MoveGoods)
  \/ open' # open /\ (Post \/ Clear)
  \/ \E t \in Traders : Finish(t) \/ \E o \in open : Cancel(t, o)
  \/ \E b, s \in open : Trade(b, s)

Spec == Init /\ [][Next]_vars
=============================================================================
