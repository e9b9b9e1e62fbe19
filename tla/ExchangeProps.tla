--------------------------- MODULE ExchangeProps ----------------------------
(***************************************************************************)
(* What the exchange is required to keep true, what it implements, and what*)
(* the repository says of it that the code does not keep.                  *)
(***************************************************************************)
EXTENDS Exchange

MMLocals == [pc : {"sleep", "woken", "match", "credit", "deliver", "refund", "bought",
                   "sold", "traded", "reapsell", "reapbuy", "exited"},
             buy : Nat, sell : Nat, qty : Word, price : Word]

\* Every variable holds a value of the code's type for it: accounts, orders
\* and prices are 32-bit words, the lists hold order IDs.
TypeOK ==
  /\ balance \in [Traders -> Word] /\ inventory \in [Traders -> Word]
  /\ ref \in [Traders -> Int]
  /\ order \in Seq(Orders)
  /\ buys \in Seq(Nat) /\ sells \in Seq(Nat)
  /\ last \in Word
  /\ mutex \in Traders \cup {Matchmaker, Nobody}
  /\ wakeups \in Nat /\ done \in BOOLEAN /\ undef \in BOOLEAN
  /\ pc \in [Traders -> {"idle", "reserve", "insert", "announce", "readid", "release",
                         "reply", "closed"}]
  /\ cur \in [Traders -> Ids \cup {0}]
  /\ answer \in [Traders -> {"ack", "nack", "garbled"}]
  /\ mm \in MMLocals
  /\ funds \in Word /\ units \in Word
  /\ refused \in [Traders -> Nat]

\* The matchmaker has taken on a trade and not yet removed its orders.
Trading == mm.pc \in {"credit", "deliver", "refund", "bought", "sold", "traded", "reapsell", "reapbuy"}

\* Funds taken off the buy order and not yet paid out, and likewise units.
FundsInFlight ==
  CASE mm.pc = "credit" -> mm.qty * order[mm.buy].price
    [] mm.pc \in {"deliver", "refund"} -> mm.qty * (order[mm.buy].price - mm.price)
    [] OTHER -> 0
UnitsInFlight == IF mm.pc \in {"credit", "deliver"} THEN mm.qty ELSE 0

Pending == {id \in Ids : Alive(id)}

\* What each order encumbers.
CostOf == [id \in Ids |-> Cost(order[id])]
LotOf  == [id \in Ids |-> Lot(order[id])]

\* No funds appear or vanish: balances, what live buy orders encumber and
\* what the matchmaker is paying out add up to what was deposited and not
\* withdrawn, modulo the word.  It covers create_order, free_order and the
\* three payments of execute_trade (exchange.h:51-62), at every interleaving.
FundsConserved ==
  ~undef =>
    Wrap(SumFunction(balance)
         + SumFunctionOnSet(CostOf, Pending)
         + FundsInFlight) = funds

\* No units appear or vanish: likewise for inventories and sell orders.
UnitsConserved ==
  ~undef =>
    Wrap(SumFunction(inventory)
         + SumFunctionOnSet(LotOf, Pending)
         + UnitsInFlight) = units

Ascending(list) == \A i, j \in DOMAIN list : i < j => order[list[i]].price <= order[list[j]].price
Lists(list, kind) ==
  /\ \A i, j \in DOMAIN list : list[i] = list[j] => i = j
  /\ ToSet(list) = {id \in Ids : Booked(id) /\ order[id].kind = kind}

\* The lists hold the posted orders, each once and on its side, by price:
\* the matchmaker and exchange_get_status look only at their ends for the
\* best bid and ask.
BookInOrder ==
  /\ Lists(buys, "buy") /\ Lists(sells, "sell")
  /\ Ascending(buys) /\ Ascending(sells)

\* No wakeup is lost: while orders match the matchmaker is awake or about to
\* be ("activated whenever a change in the pending orders has the potential
\* of having created a pair of matching orders", exchange.h:31-32).  The
\* semaphore is posted only for an order that becomes the best of its side.
NoLostMatch == Crossed /\ ~done => wakeups > 0 \/ mm.pc # "sleep"

\* A trader's reference count is the traders map, the session, one per live
\* order and one per login refused while it had a session, which nobody drops
\* (trader.c:57, 80-82): it never gets to 0, where trader_unref frees the
\* account (trader.c:151-175), and no order or session keeps one it has ended.
RefsExact ==
  ~undef => \A t \in Traders :
    ref[t] = (IF pc[t] = "closed" THEN 1 ELSE 2) + refused[t]
             + Cardinality({id \in Pending : order[id].owner = t})

\* An order is announced as POSTED before it can be traded and so announced
\* as TRADED (exchange.h:75-77).
PostedBeforeTraded ==
  Trading => \A t \in Traders : pc[t] = "announce" => cur[t] \notin {mm.buy, mm.sell}

\* An order whose quantity has been used up leaves the book with the trade
\* that used it up (exchange.h:64), so that no later trade can pick it.  Of
\* runs in which no client asks for a quantity of 0.
SpentOrdersLeave ==
  ~undef => \A id \in Ids : Booked(id) /\ order[id].qty = 0 =>
    Trading /\ id \in {mm.buy, mm.sell} /\ (mm.pc = "reapbuy" => id = mm.buy)

-----------------------------------------------------------------------------
(* The inductive invariant: what it takes to keep BookInOrder, NoLostMatch *)
(* and PostedBeforeTraded through every step.                              *)

Holds(t, states) ==
  cur[t] \in Ids /\ order[cur[t]].owner = t /\ order[cur[t]].state \in states

ThreadInv ==
  \A t \in Traders :
    /\ pc[t] = "reserve"  => Holds(t, {"fresh"})
    /\ pc[t] = "insert"   => Holds(t, {"ready"})
    /\ pc[t] = "announce" => Holds(t, {"booked"})
    /\ pc[t] = "release"  => Holds(t, {"pulled"})
    /\ pc[t] = "readid"   => cur[t] \in Ids

MutexInv ==
  /\ mutex = Matchmaker <=> mm.pc \in {"match", "credit", "deliver", "refund", "reapsell", "reapbuy"}
  /\ \A t \in Traders : mutex = t <=> pc[t] = "announce"

\* The orders of a trade are linked until the matchmaker lets go of the mutex;
\* from then on a cancel can have taken them.
TradeInv ==
  Trading =>
    /\ mm.buy \in Ids /\ order[mm.buy].kind = "buy"
    /\ mm.sell \in Ids /\ order[mm.sell].kind = "sell"
    /\ \A id \in {mm.buy, mm.sell} :
         order[id].state \in (IF mm.pc \in {"credit", "deliver", "refund"}
                              THEN {"booked"} ELSE {"booked", "pulled", "gone"})

\* Every thread's claim on its order, the mutex, the matchmaker's claim on its
\* two orders and the book hold together in every state the server can reach:
\* this is what exchange_post_*, exchange_cancel and the matchmaker rely on
\* when they unlock between two looks at an order.
Inv ==
  /\ TypeOK /\ ThreadInv /\ MutexInv /\ TradeInv
  /\ BookInOrder /\ NoLostMatch /\ PostedBeforeTraded

-----------------------------------------------------------------------------
(* What a trader owns: the account, what its live orders encumber and what *)
(* the matchmaker has yet to pay it.                                       *)

LiveOf(t) == {id \in Pending : order[id].owner = t}

Due(side, t, amount) == IF Trading /\ order[side].owner = t THEN amount ELSE 0

CashDue(t) ==
  (IF mm.pc = "credit" THEN Due(mm.sell, t, mm.qty * mm.price) ELSE 0)
  + (IF mm.pc \in {"credit", "deliver", "refund"} THEN Due(mm.buy, t, Refund) ELSE 0)
GoodsDue(t) == IF mm.pc \in {"credit", "deliver"} THEN Due(mm.buy, t, mm.qty) ELSE 0

Cash(t)  == balance[t]   + SumFunctionOnSet(CostOf, LiveOf(t)) + CashDue(t)
Goods(t) == inventory[t] + SumFunctionOnSet(LotOf, LiveOf(t))  + GoodsDue(t)

\* An order as the market sees it.
Offer(id) == [id |-> id, kind |-> order[id].kind, owner |-> order[id].owner,
              qty |-> order[id].qty, price |-> order[id].price]

CashOf     == [t \in Traders |-> Cash(t)]
GoodsOf    == [t \in Traders |-> Goods(t)]
OpenOrders == {Offer(id) : id \in {i \in Ids : Booked(i)}}
CanceledBy == [t \in Traders |-> IF pc[t] = "release" THEN cur[t] ELSE 0]

\* The exchange implements the market: every trade is between a best bid and
\* a best ask at the price closest to the last one, moves exactly its value
\* between the two owners, and nothing else a thread does changes what a
\* trader owns, or takes an order from the book but the cancel that its owner
\* has under way (exchange.h:146-147) or its quantity reaching 0; no trader
\* ever owes more than it has.
M == INSTANCE Market WITH
  OrderIds <- 1..MaxOrders,
  cash     <- CashOf,
  goods    <- GoodsOf,
  open     <- OpenOrders,
  canceled <- CanceledBy

\* Nothing wraps around: the cost of every order fits a word, and what any
\* trader owns leaves room for a deposit.
NothingWraps ==
  /\ \A q \in Quantities, p \in Prices : q * p < Modulus
  /\ \A t \in Traders :
       /\ \A n \in Deposits \cup {0} : Cash(t) + n < Modulus
       /\ \A n \in Escrows \cup {0} : Goods(t) + n < Modulus

Market == M!Spec

-----------------------------------------------------------------------------
(* What the repository says of the program and the code does not do.       *)

\* A NACK answers a failed request (protocol.h:58): an order that was posted
\* is not answered with one.  Violated: the order ID is read from the order
\* after the mutex is released, when a trade may have freed it.
NackMeansRefused ==
  \A t \in Traders : pc[t] = "reply" /\ answer[t] = "nack" /\ cur[t] # 0 =>
    order[cur[t]].state = "refused"

\* The matchmaker unlinks and frees an order that a cancel has taken out.
FreesAgain == (ReapSell /\ ClearedTwice(mm.sell)) \/ (ReapBuy /\ ClearedTwice(mm.buy))

\* An order ends by its cancellation or by its removal by a trade, in which
\* case "cancellation might fail" (exchange.h:154-155), never by both.
\* Violated: execute_trade lets go of the mutex between using up an order and
\* removing it, and a cancel in between succeeds.
CanceledOrRemoved == [][~FreesAgain]_vars

\* The funds of an order's maximum possible cost are taken off the account
\* when it is posted (exchange.h:105-106), so that traders together never have
\* more funds than were deposited.  Of runs in which the deposits themselves
\* do not wrap around.  Violated: the cost is quantity * price modulo 2^32,
\* and a trade of part of an order that cost next to nothing pays the seller.
FundsAreDeposited == SumFunction(balance) <= funds
=============================================================================
