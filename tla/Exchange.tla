------------------------------ MODULE Exchange ------------------------------
(***************************************************************************)
(* The exchange of the Bourse server: the order book, the traders' accounts*)
(* it settles, the service threads that post and cancel orders, and the    *)
(* matchmaker thread that carries out trades.                              *)
(*                                                                         *)
(* The exchange itself is delivered as object code (exchange.o in          *)
(* lib/bourse.a); include/exchange.h documents it, src/server.c drives it  *)
(* and src/trader.c keeps the accounts.  Offsets such as +0x8b9 below are  *)
(* those of exchange.o's .text.                                            *)
(*                                                                         *)
(* One action is one critical section of the exchange mutex or of a        *)
(* trader's mutex, or a step between them that touches freed memory.       *)
(* Sends complete here and a trader's mutex is held only inside a step;    *)
(* Server adds the packets and those mutexes.                              *)
(***************************************************************************)
EXTENDS Integers, FiniteSets, Sequences, SequencesExt

CONSTANTS
  Traders,     \* the traders; each is also the service thread of its session
  Matchmaker,  \* the thread started by exchange_init
  Nobody,      \* owner of a free mutex
  Modulus,     \* funds_t and quantity_t are uint32_t: 2^32, smaller in runs
  Prices,      \* limit prices that clients ask for
  Quantities,  \* quantities that clients ask for
  Deposits,    \* amounts of a DEPOSIT or WITHDRAW
  Escrows,     \* amounts of an ESCROW or RELEASE
  MaxOrders,   \* bound on the order IDs handed out
  DepositCap,  \* bound: no DEPOSIT takes a balance above it
  EscrowCap,   \* bound: no ESCROW takes an inventory above it
  MaxRefused   \* bound on the logins refused to each name

ASSUME ThreadsAssumption ==
  /\ Matchmaker \notin Traders
  /\ Nobody \notin Traders \cup {Matchmaker}
  /\ IsFiniteSet(Traders)

ASSUME WordAssumption ==
  /\ Modulus \in Nat \ {0}
  /\ Prices \cup Quantities \cup Deposits \cup Escrows \subseteq 0..(Modulus - 1)
  /\ MaxOrders \in Nat
  /\ DepositCap \in Nat
  /\ EscrowCap \in Nat
  /\ MaxRefused \in Nat

VARIABLES
  balance,     \* TRADER.balance
  inventory,   \* TRADER.inventory
  ref,         \* TRADER.ref
  order,       \* every order ever created, indexed by its ID
  buys,        \* the linked list of buy orders, lowest price first
  sells,       \* the linked list of sell orders, lowest price first
  last,        \* last trade price
  mutex,       \* owner of the exchange mutex
  wakeups,     \* value of the semaphore the matchmaker sleeps on
  done,        \* set by exchange_fini
  pc,          \* where each service thread is
  cur,         \* the order ID its request is about, 0 if none
  answer,      \* what it will answer
  mm,          \* the matchmaker's program counter and locals
  undef,       \* the process has acted on freed memory
  funds,       \* history: funds deposited minus withdrawn, mod Modulus
  units,       \* history: units escrowed minus released, mod Modulus
  refused      \* history: logins refused because the name had a session

accounts == <<balance, inventory, ref>>
book     == <<order, buys, sells>>
threads  == <<pc, cur, answer>>
history  == <<funds, units, refused>>
vars     == <<accounts, book, last, mutex, wakeups, done, threads, mm, undef, history>>

Word    == 0..(Modulus - 1)
Wrap(n) == n % Modulus
Ids     == 1..Len(order)

-----------------------------------------------------------------------------
(* Orders.                                                                 *)

OrderStates ==
  {"fresh",    \* has an ID; nothing is encumbered for it yet
   "refused",  \* the account could not cover it; freed
   "ready",    \* encumbered, holds a reference, not in the book
   "booked",   \* linked in buys or sells
   "pulled",   \* unlinked by exchange_cancel, not yet freed
   "gone"}     \* freed

Orders == [kind : {"buy", "sell"}, owner : Traders, qty : Word, price : Word,
           state : OrderStates]

\* What an order encumbers: the funds of a buy, the units of a sell.
Cost(o) == IF o.kind = "buy" THEN Wrap(o.qty * o.price) ELSE 0
Lot(o)  == IF o.kind = "sell" THEN o.qty ELSE 0

\* Slips: the test of the other list, and an off-by-one.
FirstBuy(i) == i = 1
LateBuy(i)  == i = Len(buys)

\* Does an order linked at slot i become the best of its side?
BestBuy(i)  == i = Len(buys) + 1
BestSell(i) == i = 1

\* An order holds a reference on its trader until free_order drops it.
Alive(id)  == order[id].state \in {"ready", "booked", "pulled"}
Booked(id) == order[id].state = "booked"

\* Slip: buys are kept highest first.
DescendingSlot(list, price) ==
  CHOOSE i \in 1..(Len(list) + 1) :
    /\ \A j \in 1..(i - 1) : order[list[j]].price >= price
    /\ i <= Len(list) => order[list[i]].price < price

\* Both lists are scanned from the lowest price and an order goes in before
\* the first one with a higher price: after all its equals.
Slot(list, price) ==
  CHOOSE i \in 1..(Len(list) + 1) :
    /\ \A j \in 1..(i - 1) : order[list[j]].price <= price
    /\ i <= Len(list) => order[list[i]].price > price

\* Slip: the reference stays.
UnrefSkipped(t) == ref

\* trader_unref.
Unref(t) == [ref EXCEPT ![t] = @ - 1]

Unlink(list, id) ==
  IF id \in ToSet(list)
  THEN RemoveAt(list, CHOOSE i \in DOMAIN list : list[i] = id)
  ELSE list

\* The best bid is the last buy, the best ask the first sell.
Crossed ==
  /\ buys # <<>> /\ sells # <<>>
  /\ order[sells[1]].price <= order[buys[Len(buys)]].price

\* Slip: nothing comes back.
NoRefund == 0

\* What the buyer encumbered for this trade above its price.
Refund == mm.qty * (order[mm.buy].price - mm.price)

\* Slip: a last price below the range gives the wrong end of it.
FarTradePrice(ask, bid) ==
  IF last > bid THEN bid ELSE IF last < ask THEN bid ELSE last

\* The price in [ask, bid] that is closest to the last trade price.
TradePrice(ask, bid) ==
  IF last > bid THEN bid ELSE IF last < ask THEN ask ELSE last

-----------------------------------------------------------------------------
Init ==
  /\ balance = [t \in Traders |-> 0]
  /\ inventory = [t \in Traders |-> 0]
  /\ ref = [t \in Traders |-> 2]       \* the traders map and the session
  /\ order = <<>> /\ buys = <<>> /\ sells = <<>>
  /\ last = 0
  /\ mutex = Nobody
  /\ wakeups = 0
  /\ done = FALSE
  /\ pc = [t \in Traders |-> "idle"]
  /\ cur = [t \in Traders |-> 0]
  /\ answer = [t \in Traders |-> "ack"]
  /\ mm = [pc |-> "sleep", buy |-> 0, sell |-> 0, qty |-> 0, price |-> 0]
  /\ undef = FALSE
  /\ funds = 0 /\ units = 0 /\ refused = [t \in Traders |-> 0]

GoTo(t, label)       == pc' = [pc EXCEPT ![t] = label]
Answer(t, a)         == answer' = [answer EXCEPT ![t] = a]
SetState(id, s)      == order' = [order EXCEPT ![id].state = s]

-----------------------------------------------------------------------------
(* Requests on the trader's own account, each under the trader's mutex.    *)

Deposit(t, amount) ==
  /\ pc[t] = "idle" /\ GoTo(t, "reply") /\ Answer(t, "ack")
  /\ balance[t] + amount <= DepositCap
  /\ balance' = [balance EXCEPT ![t] = Wrap(@ + amount)]
  /\ funds' = Wrap(funds + amount)
  /\ UNCHANGED <<inventory, ref, book, last, mutex, wakeups, done, cur, mm, undef, units, refused>>

Withdraw(t, amount) ==
  /\ pc[t] = "idle" /\ GoTo(t, "reply")
  /\ IF balance[t] >= amount
     THEN /\ balance' = [balance EXCEPT ![t] = @ - amount]
          /\ funds' = Wrap(funds - amount)
          /\ Answer(t, "ack")
     ELSE Answer(t, "nack") /\ UNCHANGED <<balance, funds>>
  /\ UNCHANGED <<inventory, ref, book, last, mutex, wakeups, done, cur, mm, undef, units, refused>>

Escrow(t, quantity) ==
  /\ pc[t] = "idle" /\ GoTo(t, "reply") /\ Answer(t, "ack")
  /\ inventory[t] + quantity <= EscrowCap
  /\ inventory' = [inventory EXCEPT ![t] = Wrap(@ + quantity)]
  /\ units' = Wrap(units + quantity)
  /\ UNCHANGED <<balance, ref, book, last, mutex, wakeups, done, cur, mm, undef, funds, refused>>

Release(t, quantity) ==
  /\ pc[t] = "idle" /\ GoTo(t, "reply")
  /\ IF inventory[t] >= quantity
     THEN /\ inventory' = [inventory EXCEPT ![t] = @ - quantity]
          /\ units' = Wrap(units - quantity)
          /\ Answer(t, "ack")
     ELSE Answer(t, "nack") /\ UNCHANGED <<inventory, units>>
  /\ UNCHANGED <<balance, ref, book, last, mutex, wakeups, done, cur, mm, undef, funds, refused>>

-----------------------------------------------------------------------------
(* exchange_post_buy and exchange_post_sell.                               *)

\* create_order, first half (+0xb0c): take the next ID under the mutex.
NewOrder(t, kind, qty, price) ==
  /\ pc[t] = "idle" /\ GoTo(t, "reserve")
  /\ mutex = Nobody
  /\ Len(order) < MaxOrders
  /\ order' = Append(order, [kind |-> kind, owner |-> t, qty |-> qty,
                             price |-> price, state |-> "fresh"])
  /\ cur' = [cur EXCEPT ![t] = Len(order) + 1]
  /\ UNCHANGED <<accounts, buys, sells, last, mutex, wakeups, done, answer, mm, undef, history>>

\* Slip: a buy is covered by the price of one unit.
CoversOneUnit(t, o) == (o.kind = "buy" => balance[t] >= o.price) /\ inventory[t] >= Lot(o)

\* trader_decrease_balance or trader_decrease_inventory succeeds.
Covers(t, o) == balance[t] >= Cost(o) /\ inventory[t] >= Lot(o)

\* create_order, second half: encumber, then take the order's reference.
Reserve(t) ==
  LET id == cur[t]
      o  == order[id]
  IN
  /\ pc[t] = "reserve"
  /\ \/ /\ Covers(t, o)
        /\ balance' = [balance EXCEPT ![t] = @ - Cost(o)]
        /\ inventory' = [inventory EXCEPT ![t] = @ - Lot(o)]
        /\ ref' = [ref EXCEPT ![t] = @ + 1]
        /\ SetState(id, "ready")
        /\ GoTo(t, "insert")
        /\ UNCHANGED answer
     \/ /\ ~Covers(t, o)
        /\ SetState(id, "refused")
        /\ GoTo(t, "reply") /\ Answer(t, "nack")
        /\ UNCHANGED accounts
  /\ UNCHANGED <<buys, sells, last, mutex, wakeups, done, cur, mm, undef, history>>

\* Link the order and wake the matchmaker if it is the best on its side
\* (+0x278, +0x40f).  The mutex stays held for the POSTED broadcast.
InsertBuy(t) ==
  LET id == cur[t]
      i  == Slot(buys, order[id].price)
  IN
  /\ pc[t] = "insert" /\ order[id].kind = "buy"
  /\ mutex = Nobody /\ mutex' = t
  /\ buys' = InsertAt(buys, i, id)
  /\ wakeups' = IF BestBuy(i) THEN wakeups + 1 ELSE wakeups
  /\ SetState(id, "booked")
  /\ GoTo(t, "announce")
  /\ UNCHANGED <<accounts, sells, last, done, cur, answer, mm, undef, history>>

InsertSell(t) ==
  LET id == cur[t]
      i  == Slot(sells, order[id].price)
  IN
  /\ pc[t] = "insert" /\ order[id].kind = "sell"
  /\ mutex = Nobody /\ mutex' = t
  /\ sells' = InsertAt(sells, i, id)
  /\ wakeups' = IF BestSell(i) THEN wakeups + 1 ELSE wakeups
  /\ SetState(id, "booked")
  /\ GoTo(t, "announce")
  /\ UNCHANGED <<accounts, buys, last, done, cur, answer, mm, undef, history>>

\* Slip: the mutex stays locked.
AnnounceHeld(t) ==
  /\ pc[t] = "announce" /\ GoTo(t, "readid")
  /\ UNCHANGED <<accounts, book, last, mutex, wakeups, done, cur, answer, mm, undef, history>>

\* Broadcast POSTED, then unlock.
Announce(t) ==
  /\ pc[t] = "announce" /\ GoTo(t, "readid")
  /\ mutex' = Nobody
  /\ UNCHANGED <<accounts, book, last, wakeups, done, cur, answer, mm, undef, history>>

\* The return value is order->id, read after the unlock (+0x39a, +0x53d).  If
\* the matchmaker has already filled and freed the order the allocator has
\* overwritten that word: with zero, which the server takes for a failure,
\* or with something else.
ReadId(t) ==
  /\ pc[t] = "readid" /\ GoTo(t, "reply")
  /\ \E a \in IF order[cur[t]].state = "gone" THEN {"nack", "garbled"} ELSE {"ack"} :
       Answer(t, a)
  /\ UNCHANGED <<accounts, book, last, mutex, wakeups, done, cur, mm, undef, history>>

-----------------------------------------------------------------------------
(* exchange_cancel (+0x55a).                                               *)

Unlinked(id) ==
  /\ buys' = Unlink(buys, id)
  /\ sells' = Unlink(sells, id)

\* Slip: whoever asks can cancel the order.
CancelAnyones(t, id) ==
  /\ pc[t] = "idle" /\ GoTo(t, "release")
  /\ mutex = Nobody
  /\ id \in Ids /\ Booked(id)
  /\ Unlinked(id) /\ SetState(id, "pulled")
  /\ cur' = [cur EXCEPT ![t] = id]
  /\ UNCHANGED <<accounts, last, mutex, wakeups, done, answer, mm, undef, history>>

\* Found in a list and posted by this trader: unlink it, all under the mutex.
Cancel(t, id) ==
  /\ pc[t] = "idle" /\ GoTo(t, "release")
  /\ mutex = Nobody
  /\ id \in Ids /\ Booked(id) /\ order[id].owner = t
  /\ Unlinked(id) /\ SetState(id, "pulled")
  /\ cur' = [cur EXCEPT ![t] = id]
  /\ UNCHANGED <<accounts, last, mutex, wakeups, done, answer, mm, undef, history>>

CancelRefused(t, id) ==
  /\ pc[t] = "idle" /\ GoTo(t, "reply") /\ Answer(t, "nack")
  /\ mutex = Nobody
  /\ ~(id \in Ids /\ Booked(id) /\ order[id].owner = t)
  /\ UNCHANGED <<accounts, book, last, mutex, wakeups, done, cur, mm, undef, history>>

\* free_order (+0xc4a), outside the mutex: give back what is still
\* encumbered, drop the reference, free; then broadcast CANCELED.
FreeCanceled(t) ==
  LET o == order[cur[t]] IN
  /\ pc[t] = "release" /\ GoTo(t, "reply") /\ Answer(t, "ack")
  /\ balance' = [balance EXCEPT ![t] = Wrap(@ + Cost(o))]
  /\ inventory' = [inventory EXCEPT ![t] = Wrap(@ + Lot(o))]
  /\ ref' = Unref(t)
  /\ SetState(cur[t], "gone")
  /\ cur' = [cur EXCEPT ![t] = 0]
  /\ UNCHANGED <<buys, sells, last, mutex, wakeups, done, mm, undef, history>>

-----------------------------------------------------------------------------
(* The end of every request: exchange_get_status under the mutex, then the *)
(* ACK or NACK.  A STATUS request is that alone.                           *)

Status(t) ==
  /\ pc[t] = "idle" /\ GoTo(t, "reply") /\ Answer(t, "ack")
  /\ UNCHANGED <<accounts, book, last, mutex, wakeups, done, cur, mm, undef, history>>

Reply(t) ==
  /\ pc[t] = "reply" /\ GoTo(t, "idle")
  /\ mutex = Nobody
  /\ cur' = [cur EXCEPT ![t] = 0]    \* dead from here on
  /\ Answer(t, "ack")
  /\ UNCHANGED <<accounts, book, last, mutex, wakeups, done, mm, undef, history>>

-----------------------------------------------------------------------------
(* The matchmaker thread (+0x751) and execute_trade (+0x8b9).              *)

MMStep(from, to) == mm.pc = from /\ mm' = [mm EXCEPT !.pc = to]

SemWait ==
  /\ MMStep("sleep", "woken")
  /\ wakeups > 0 /\ wakeups' = wakeups - 1
  /\ UNCHANGED <<accounts, book, last, mutex, done, threads, undef, history>>

\* Slips: the mutex is not taken, done is not looked at.
WakeUnlocked ==
  /\ mutex' = Matchmaker
  /\ ~done
  /\ MMStep("woken", "match")
  /\ UNCHANGED <<accounts, book, last, wakeups, done, threads, undef, history>>

WakeHeedless ==
  /\ mutex = Nobody /\ mutex' = Matchmaker
  /\ MMStep("woken", "match")
  /\ UNCHANGED <<accounts, book, last, wakeups, done, threads, undef, history>>

Wake ==
  /\ mutex = Nobody /\ mutex' = Matchmaker
  /\ ~done
  /\ MMStep("woken", "match")
  /\ UNCHANGED <<accounts, book, last, wakeups, done, threads, undef, history>>

Exit ==
  /\ mutex = Nobody
  /\ done
  /\ MMStep("woken", "exited")
  /\ UNCHANGED <<accounts, book, last, mutex, wakeups, done, threads, undef, history>>

\* The best bid meets the best ask.
StartTrade ==
  LET b == buys[Len(buys)]
      s == sells[1]
      qty == IF order[b].qty <= order[s].qty THEN order[b].qty ELSE order[s].qty
      price == TradePrice(order[s].price, order[b].price)
  IN
  /\ mm.pc = "match" /\ Crossed
  /\ mm' = [pc |-> "credit", buy |-> b, sell |-> s, qty |-> qty, price |-> price]
  /\ last' = price
  /\ order' = [order EXCEPT ![b].qty = @ - qty, ![s].qty = @ - qty]
  /\ UNCHANGED <<accounts, buys, sells, mutex, wakeups, done, threads, undef, history>>

\* The three payments, each under the trader's mutex.
CreditSeller ==
  /\ MMStep("credit", "deliver")
  /\ balance' = [balance EXCEPT ![order[mm.sell].owner] = Wrap(@ + mm.qty * mm.price)]
  /\ UNCHANGED <<inventory, ref, book, last, mutex, wakeups, done, threads, undef, history>>

\* Slip: the buyer gets what is left of the order, not what was traded.
DeliverRest ==
  /\ MMStep("deliver", "refund")
  /\ inventory' = [inventory EXCEPT ![order[mm.buy].owner] = Wrap(@ + order[mm.buy].qty)]
  /\ UNCHANGED <<balance, ref, book, last, mutex, wakeups, done, threads, undef, history>>

DeliverUnits ==
  /\ MMStep("deliver", "refund")
  /\ inventory' = [inventory EXCEPT ![order[mm.buy].owner] = Wrap(@ + mm.qty)]
  /\ UNCHANGED <<balance, ref, book, last, mutex, wakeups, done, threads, undef, history>>

\* What the buyer had encumbered above the trade price goes back; then the
\* mutex is released to send BOUGHT, SOLD and TRADED.
RefundBuyer ==
  /\ MMStep("refund", "bought")
  /\ balance' = [balance EXCEPT ![order[mm.buy].owner] =
                   Wrap(@ + Refund)]
  /\ mutex' = Nobody
  /\ UNCHANGED <<inventory, ref, book, last, wakeups, done, threads, undef, history>>

\* BOUGHT goes to the buy order's trader and SOLD to the sell order's (+0xa70,
\* +0xaa1).  The mutex is free by then: an order canceled in the meantime has
\* no trader to read.
SendTo(id) ==
  /\ undef' = (order[id].state = "gone")
  /\ UNCHANGED <<accounts, book, last, mutex, wakeups, done, threads, history>>

SendBought == MMStep("bought", "sold") /\ SendTo(mm.buy)
SendSold   == MMStep("sold", "traded") /\ SendTo(mm.sell)

\* TRADED is broadcast; then the mutex is taken again (+0xaf1).
Relock ==
  /\ MMStep("traded", "reapsell")
  /\ mutex = Nobody /\ mutex' = Matchmaker
  /\ UNCHANGED <<accounts, book, last, wakeups, done, threads, undef, history>>

\* An order of the trade whose quantity reads as zero is unlinked and freed.
Cleared(id) ==
  /\ Booked(id) /\ order[id].qty = 0
  /\ Unlinked(id) /\ SetState(id, "gone")
  /\ ref' = Unref(order[id].owner)
  /\ UNCHANGED undef

\* Of an order freed in the meantime the quantity reads as anything.
Kept(id) ==
  /\ order[id].state = "gone" \/ order[id].qty # 0
  /\ UNCHANGED <<book, ref, undef>>

\* One that is no longer linked is unlinked and freed a second time.
ClearedTwice(id) ==
  /\ order[id].state = "gone" \/ (~Booked(id) /\ order[id].qty = 0)
  /\ undef' = TRUE
  /\ UNCHANGED <<book, ref>>

Reap(id) ==
  /\ Cleared(id) \/ Kept(id) \/ ClearedTwice(id)
  /\ UNCHANGED <<balance, inventory, last, mutex, wakeups, done, threads, history>>

NoTrade == [pc |-> "match", buy |-> 0, sell |-> 0, qty |-> 0, price |-> 0]

\* Slip: at most one of the two orders is removed.
ReapOne ==
  /\ mm.pc = "reapsell" /\ Reap(mm.sell)
  /\ mm' = IF order[mm.sell].qty = 0 THEN NoTrade ELSE [mm EXCEPT !.pc = "reapbuy"]

\* The sell order first (+0x7db), then the buy order (+0x81a).
ReapSell == MMStep("reapsell", "reapbuy") /\ Reap(mm.sell)
ReapBuy  == mm.pc = "reapbuy" /\ mm' = NoTrade /\ Reap(mm.buy)

Sleep ==
  /\ MMStep("match", "sleep")
  /\ ~Crossed
  /\ mutex' = Nobody
  /\ UNCHANGED <<accounts, book, last, wakeups, done, threads, undef, history>>

-----------------------------------------------------------------------------
(* Sessions, and the end.                                                  *)

\* trader_logout: its orders stay in the book.
Logout(t) ==
  /\ pc[t] = "idle" /\ GoTo(t, "closed")
  /\ ref' = Unref(t)
  /\ UNCHANGED <<balance, inventory, book, last, mutex, wakeups, done, cur, answer, mm, undef, history>>

\* checkOldTraderAndLogin finds the name and takes a reference on its trader.
Relogin(t) == ref' = [ref EXCEPT ![t] = @ + 1]

\* trader_login of a name that has logged out: the reference is the session's.
Login(t) ==
  /\ pc[t] = "closed" /\ GoTo(t, "idle")
  /\ ~done
  /\ Relogin(t)
  /\ UNCHANGED <<balance, inventory, book, last, mutex, wakeups, done, cur, answer, mm, undef, history>>

\* From another connection, while the name has a session: refused, and nobody
\* drops the reference.
LoginRefused(t) ==
  /\ pc[t] # "closed"
  /\ refused[t] < MaxRefused
  /\ Relogin(t)
  /\ refused' = [refused EXCEPT ![t] = @ + 1]
  /\ UNCHANGED <<balance, inventory, book, last, mutex, wakeups, done, threads, mm, undef,
                 funds, units>>

\* exchange_fini (+0xcf), called by main once every service thread has logged
\* its trader out and gone.
Fini ==
  /\ ~done /\ done' = TRUE
  /\ \A t \in Traders : pc[t] = "closed"
  /\ mutex = Nobody
  /\ wakeups' = wakeups + 1
  /\ UNCHANGED <<accounts, book, last, mutex, threads, mm, undef, history>>

-----------------------------------------------------------------------------
Request(t) ==
  \/ Status(t)
  \/ \E n \in Deposits : Deposit(t, n) \/ Withdraw(t, n)
  \/ \E n \in Escrows : Escrow(t, n) \/ Release(t, n)
  \/ \E kind \in {"buy", "sell"}, q \in Quantities, p \in Prices : NewOrder(t, kind, q, p)
  \/ \E id \in 1..MaxOrders : Cancel(t, id) \/ CancelRefused(t, id)

Serve(t) ==
  \/ Reserve(t) \/ InsertBuy(t) \/ InsertSell(t) \/ Announce(t) \/ ReadId(t)
  \/ FreeCanceled(t) \/ Reply(t)

Match ==
  \/ SemWait \/ Wake \/ Exit \/ StartTrade \/ CreditSeller \/ DeliverUnits
  \/ RefundBuyer \/ SendBought \/ SendSold \/ Relock \/ ReapSell \/ ReapBuy \/ Sleep

Session(t) == Logout(t) \/ Login(t) \/ LoginRefused(t)

\* Nothing is known of a process that has used freed memory: it stops here.
Step ==
  /\ ~undef
  /\ \/ \E t \in Traders : Request(t) \/ Serve(t) \/ Session(t)
     \/ Match
     \/ Fini

Stopped ==
  /\ undef \/ mm.pc = "exited"
  /\ UNCHANGED vars

Next == Step \/ Stopped

Spec == Init /\ [][Next]_vars
=============================================================================
