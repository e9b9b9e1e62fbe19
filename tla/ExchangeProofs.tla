--------------------------- MODULE ExchangeProofs ---------------------------
(***************************************************************************)
(* Proofs that the exchange keeps the book in order, loses no match and    *)
(* announces orders before their trades, for any traders, prices, orders   *)
(* and word size.                                                          *)
(***************************************************************************)
EXTENDS ExchangeProps, ListLemmas, FiniteSetTheorems

-----------------------------------------------------------------------------
(* Words.                                                                  *)

\* uint32_t arithmetic stays within the word.
LEMMA WrapWord ==
  ASSUME NEW n \in Int
  PROVE  Wrap(n) \in Word
BY WordAssumption DEF Wrap, Word

\* What an order encumbers is a word.
LEMMA CostWord ==
  ASSUME NEW o \in Orders
  PROVE  Cost(o) \in Word /\ Lot(o) \in Word
<1>1. o.qty \in Int /\ o.price \in Int /\ o.qty * o.price \in Int /\ o.qty \in Word /\ 0 \in Word
  BY WordAssumption DEF Orders, Word
<1> QED
  BY <1>1, WrapWord DEF Cost, Lot

\* Sums and differences of words wrap into words.
LEMMA WrapSum ==
  ASSUME NEW m \in Word, NEW n \in Word
  PROVE  Wrap(m + n) \in Word /\ Wrap(m - n) \in Word
<1>1. m + n \in Int /\ m - n \in Int
  BY WordAssumption DEF Word
<1> QED
  BY <1>1, WrapWord

\* The fields of an order.
LEMMA OrderFields ==
  ASSUME NEW o \in Orders
  PROVE  /\ o.kind \in {"buy", "sell"} /\ o.owner \in Traders
         /\ o.qty \in Word /\ o.price \in Word
         /\ o.state \in OrderStates
BY DEF Orders

\* A word is an integer.
LEMMA WordInt ==
  /\ Word \subseteq Int
  /\ 0 \in Word
  /\ \A m, n \in Word : m >= n => m - n \in Word
BY WordAssumption DEF Word

\* Clients ask for words.
LEMMA RequestWords ==
  /\ \A n \in Deposits \cup Escrows : n \in Word
  /\ \A q \in Quantities : q \in Word
  /\ \A p \in Prices : p \in Word
BY WordAssumption DEF Word

-----------------------------------------------------------------------------
(* Types.                                                                  *)

\* An order with another state, or another quantity, is an order.
LEMMA OrderExcept ==
  ASSUME NEW o \in Orders, NEW s \in OrderStates, NEW q \in Word
  PROVE  /\ [o EXCEPT !.state = s] \in Orders
         /\ [o EXCEPT !.state = s].state = s
         /\ [o EXCEPT !.state = s].kind = o.kind
         /\ [o EXCEPT !.state = s].price = o.price
         /\ [o EXCEPT !.state = s].owner = o.owner
         /\ [o EXCEPT !.state = s].qty = o.qty
         /\ [o EXCEPT !.qty = q] \in Orders
         /\ [o EXCEPT !.qty = q].qty = q
         /\ [o EXCEPT !.qty = q].kind = o.kind
         /\ [o EXCEPT !.qty = q].price = o.price
         /\ [o EXCEPT !.qty = q].owner = o.owner
         /\ [o EXCEPT !.qty = q].state = o.state
<1>1. PICK k \in {"buy", "sell"}, t \in Traders, n \in Word, r \in Word, z \in OrderStates :
        o = [kind |-> k, owner |-> t, qty |-> n, price |-> r, state |-> z]
  BY DEF Orders
<1>2. [o EXCEPT !.state = s] = [kind |-> k, owner |-> t, qty |-> n, price |-> r, state |-> s]
  BY <1>1
<1>3. [o EXCEPT !.qty = q] = [kind |-> k, owner |-> t, qty |-> q, price |-> r, state |-> z]
  BY <1>1
<1> QED
  BY <1>1, <1>2, <1>3 DEF Orders

\* Changing the state of one order keeps the orders well typed and leaves
\* the others alone.
LEMMA SetStateFacts ==
  ASSUME TypeOK, NEW id \in Ids, NEW s \in OrderStates, SetState(id, s)
  PROVE  /\ order' \in Seq(Orders)
         /\ Len(order') = Len(order)
         /\ \A i \in Ids : /\ order'[i].kind = order[i].kind
                           /\ order'[i].price = order[i].price
                           /\ order'[i].owner = order[i].owner
                           /\ order'[i].qty = order[i].qty
                           /\ order'[i].state = IF i = id THEN s ELSE order[i].state
<1>1. order \in Seq(Orders) /\ \A i \in Ids : order[i] \in Orders
  BY ElementOfSeq DEF TypeOK, Ids
<1> DEFINE o == [order[id] EXCEPT !.state = s]
<1>2. order' = [order EXCEPT ![id] = o]
  BY DEF SetState
<1>3. 0 \in Word
  BY WordAssumption DEF Word
<1>4. o \in Orders /\ o.kind = order[id].kind /\ o.price = order[id].price
      /\ o.owner = order[id].owner /\ o.qty = order[id].qty /\ o.state = s
  BY <1>1, <1>3, OrderExcept
<1> HIDE DEF o
<1>5. /\ order' \in Seq(Orders) /\ Len(order') = Len(order)
      /\ \A i \in Ids : order'[i] = IF i = id THEN o ELSE order[i]
  BY <1>1, <1>2, <1>4, ExceptSeq DEF Ids
<1> QED
  BY <1>4, <1>5

\* An order goes in at the first place where the next price is higher: there
\* is one, whatever the list.
LEMMA SlotFacts ==
  ASSUME TypeOK, NEW list \in Seq(Nat), ToSet(list) \subseteq Ids, NEW price \in Int
  PROVE  /\ list \in Seq(Ids)
         /\ Slot(list, price) \in 1..(Len(list) + 1)
         /\ \A j \in 1..(Slot(list, price) - 1) : order[list[j]].price <= price
         /\ Slot(list, price) <= Len(list) => order[list[Slot(list, price)]].price > price
<1>1. list \in Seq(Ids)
  <2>1. Len(list) \in Nat /\ DOMAIN list = 1..Len(list) /\ list \in [1..Len(list) -> Nat]
    BY LenProperties
  <2>2. \A k \in 1..Len(list) : list[k] \in Ids
    BY <2>1 DEF ToSet
  <2>3. list \in [1..Len(list) -> Ids]
    BY <2>1, <2>2
  <2> QED
    BY <2>1, <2>3, SeqDef
<1> DEFINE p == [id \in Ids |-> order[id].price]
<1>2. p \in [Ids -> Int]
  <2>1. \A id \in Ids : order[id].price \in Int
    BY ElementOfSeq, OrderFields, WordInt DEF TypeOK, Ids
  <2> QED
    BY <2>1
<1>3. \A k \in 1..Len(list) : list[k] \in Ids
  BY <1>1, ElementOfSeq
<1>4. Len(list) \in Nat
  BY LenProperties
<1>5. \A k \in 1..Len(list) : p[list[k]] = order[list[k]].price
  BY <1>3
<1> HIDE DEF p
<1>6. PICK i \in 1..(Len(list) + 1) :
           /\ \A j \in 1..(i - 1) : p[list[j]] <= price
           /\ i <= Len(list) => p[list[i]] > price
  BY <1>1, <1>2, PlaceExists
<1>7. /\ \A j \in 1..(i - 1) : order[list[j]].price <= price
      /\ i <= Len(list) => order[list[i]].price > price
  BY <1>4, <1>5, <1>6
<1> DEFINE good(k) == /\ \A j \in 1..(k - 1) : order[list[j]].price <= price
                      /\ k <= Len(list) => order[list[k]].price > price
<1>8. \E k \in 1..(Len(list) + 1) : good(k)
  BY <1>7
<1>9. Slot(list, price) = CHOOSE k \in 1..(Len(list) + 1) : good(k)
  BY DEF Slot
<1> HIDE DEF good
<1>10. Slot(list, price) \in 1..(Len(list) + 1) /\ good(Slot(list, price))
  BY <1>8, <1>9
<1> QED
  BY <1>1, <1>10 DEF good

\* Unlinking leaves a list of order IDs.
LEMMA UnlinkType ==
  ASSUME NEW list \in Seq(Nat), NEW id
  PROVE  Unlink(list, id) \in Seq(Nat)
<1>1. CASE id \in ToSet(list)
  <2>1. DOMAIN list = 1..Len(list)
    BY LenProperties
  <2>2. \E i \in DOMAIN list : list[i] = id
    BY <1>1 DEF ToSet
  <2>3. (CHOOSE i \in DOMAIN list : list[i] = id) \in 1..Len(list)
    BY <2>1, <2>2
  <2> QED
    BY <1>1, <2>3, RemoveAtFacts DEF Unlink
<1>2. CASE id \notin ToSet(list)
  BY <1>2 DEF Unlink
<1> QED
  BY <1>1, <1>2

\* The initial state is well typed.
LEMMA TypeInit == Init => TypeOK
<1>1. 0 \in Word
  BY WordAssumption DEF Word
<1>2. Len(<<>>) = 0 /\ <<>> \in Seq(Orders) /\ <<>> \in Seq(Nat)
  BY EmptySeq
<1> SUFFICES ASSUME Init
             PROVE  TypeOK
  OBVIOUS
<1>3. order \in Seq(Orders) /\ buys \in Seq(Nat) /\ sells \in Seq(Nat)
  BY <1>2 DEF Init
<1>4. mm \in MMLocals /\ last \in Word /\ funds \in Word /\ units \in Word
  BY <1>1 DEF Init, MMLocals
<1>5. cur \in [Traders -> Ids \cup {0}] /\ balance \in [Traders -> Word]
      /\ inventory \in [Traders -> Word] /\ ref \in [Traders -> Int]
  BY <1>1 DEF Init
<1> QED
  BY <1>3, <1>4, <1>5 DEF Init, TypeOK

\* The ends of the two lists that the matchmaker looks at are posted orders,
\* a buy and a sell.
LEMMA EndsOfBook ==
  ASSUME TypeOK, BookInOrder, Crossed
  PROVE  /\ buys[Len(buys)] \in Ids /\ Booked(buys[Len(buys)])
         /\ order[buys[Len(buys)]].kind = "buy"
         /\ sells[1] \in Ids /\ Booked(sells[1])
         /\ order[sells[1]].kind = "sell"
<1>1. buys \in Seq(Nat) /\ buys # <<>> /\ sells \in Seq(Nat) /\ sells # <<>>
  BY DEF TypeOK, Crossed
<1>2. /\ Len(buys) \in DOMAIN buys /\ 1 \in DOMAIN sells
  BY <1>1, EmptySeq, LenProperties
<1>3. buys[Len(buys)] \in ToSet(buys) /\ sells[1] \in ToSet(sells)
  BY <1>2 DEF ToSet
<1> QED
  BY <1>3 DEF BookInOrder, Lists

\* Starting a trade takes its quantity off the two orders and changes nothing
\* else of any order.
LEMMA TradeFacts ==
  ASSUME TypeOK, BookInOrder, StartTrade
  PROVE  /\ order' \in Seq(Orders) /\ Len(order') = Len(order)
         /\ \A i \in Ids : /\ order'[i].kind = order[i].kind
                           /\ order'[i].price = order[i].price
                           /\ order'[i].owner = order[i].owner
                           /\ order'[i].state = order[i].state
                           /\ order'[i].qty = IF i \in {mm'.buy, mm'.sell}
                                              THEN order[i].qty - mm'.qty ELSE order[i].qty
         /\ mm' \in MMLocals /\ last' \in Word
         /\ mm'.pc = "credit" /\ mm'.buy = buys[Len(buys)] /\ mm'.sell = sells[1]
         /\ mm'.price = TradePrice(order[mm'.sell].price, order[mm'.buy].price)
<1> DEFINE b   == buys[Len(buys)]
           s   == sells[1]
           qty == IF order[b].qty <= order[s].qty THEN order[b].qty ELSE order[s].qty
           price == TradePrice(order[s].price, order[b].price)
<1>1. b \in Ids /\ s \in Ids /\ b # s
  BY EndsOfBook DEF StartTrade
<1>2. /\ \A i \in Ids : order[i] \in Orders
      /\ order[b].qty \in Word /\ order[s].qty \in Word
      /\ order[b].price \in Word /\ order[s].price \in Word /\ last \in Word
  <2>1. \A i \in Ids : order[i] \in Orders
    BY ElementOfSeq DEF TypeOK, Ids
  <2>2. last \in Word
    BY DEF TypeOK
  <2> QED
    BY <1>1, <2>1, <2>2, OrderFields
<1>3. /\ mm' = [pc |-> "credit", buy |-> b, sell |-> s, qty |-> qty, price |-> price]
      /\ last' = price
      /\ order' = [order EXCEPT ![b].qty = @ - qty, ![s].qty = @ - qty]
  BY DEF StartTrade
<1>4. qty \in Word /\ price \in Word
      /\ order[b].qty - qty \in Word /\ order[s].qty - qty \in Word
  <2>1. price \in Word
    BY <1>2 DEF TradePrice
  <2>2. qty \in Word /\ order[b].qty >= qty /\ order[s].qty >= qty
    <3>1. order[b].qty \in Int /\ order[s].qty \in Int
      BY <1>2, WordInt
    <3>2. CASE order[b].qty <= order[s].qty
      BY <1>2, <3>1, <3>2
    <3>3. CASE ~ (order[b].qty <= order[s].qty)
      BY <1>2, <3>1, <3>3
    <3> QED
      BY <3>2, <3>3
  <2> HIDE DEF qty
  <2> QED
    BY <1>2, <2>1, <2>2, WordInt
<1> HIDE DEF b, s, qty, price
<1> DEFINE ob == [order[b] EXCEPT !.qty = order[b].qty - qty]
           os == [order[s] EXCEPT !.qty = order[s].qty - qty]
           step == [order EXCEPT ![b] = ob]
<1>5. order' = [step EXCEPT ![s] = os]
  BY <1>1, <1>3
<1>6. /\ ob \in Orders /\ ob.kind = order[b].kind /\ ob.price = order[b].price
      /\ ob.owner = order[b].owner /\ ob.state = order[b].state
      /\ ob.qty = order[b].qty - qty
      /\ os \in Orders /\ os.kind = order[s].kind /\ os.price = order[s].price
      /\ os.owner = order[s].owner /\ os.state = order[s].state
      /\ os.qty = order[s].qty - qty
  <2>1. "gone" \in OrderStates
    BY DEF OrderStates
  <2>2. /\ order[b] \in Orders /\ order[b].qty - qty \in Word
        /\ order[s] \in Orders /\ order[s].qty - qty \in Word
    BY <1>1, <1>2, <1>4
  <2>3. \A o \in Orders, q \in Word :
          LET part == [o EXCEPT !.qty = q] IN
          /\ part \in Orders /\ part.kind = o.kind /\ part.price = o.price
          /\ part.owner = o.owner /\ part.state = o.state /\ part.qty = q
    BY <2>1, OrderExcept
  <2>4. /\ ob \in Orders /\ ob.kind = order[b].kind /\ ob.price = order[b].price
        /\ ob.owner = order[b].owner /\ ob.state = order[b].state
        /\ ob.qty = order[b].qty - qty
    BY ONLY <2>2, <2>3
  <2>5. /\ os \in Orders /\ os.kind = order[s].kind /\ os.price = order[s].price
        /\ os.owner = order[s].owner /\ os.state = order[s].state
        /\ os.qty = order[s].qty - qty
    BY ONLY <2>2, <2>3
  <2> HIDE DEF ob, os
  <2> QED
    BY <2>4, <2>5
<1> HIDE DEF ob, os
<1>7. /\ step \in Seq(Orders) /\ Len(step) = Len(order)
      /\ \A i \in Ids : step[i] = IF i = b THEN ob ELSE order[i]
  BY <1>1, <1>6, ExceptSeq DEF TypeOK, Ids
<1> HIDE DEF step
<1>8. /\ order' \in Seq(Orders) /\ Len(order') = Len(order)
      /\ \A i \in Ids : order'[i] = IF i = s THEN os ELSE step[i]
  BY <1>1, <1>5, <1>6, <1>7, ExceptSeq DEF Ids
<1>9. b \in Nat /\ s \in Nat
  BY <1>1, LenProperties DEF Ids, TypeOK
<1>10. mm' \in MMLocals
  BY <1>3, <1>4, <1>9 DEF MMLocals
<1>11. mm'.buy = b /\ mm'.sell = s /\ mm'.qty = qty /\ mm'.price = price /\ mm'.pc = "credit"
  BY <1>3
<1>12. price = TradePrice(order[s].price, order[b].price)
  BY DEF price
<1>13. \A i \in Ids :
         /\ order'[i].kind = order[i].kind /\ order'[i].price = order[i].price
         /\ order'[i].owner = order[i].owner /\ order'[i].state = order[i].state
         /\ order'[i].qty = IF i \in {b, s} THEN order[i].qty - qty ELSE order[i].qty
  BY ONLY <1>1, <1>6, <1>7, <1>8
<1>14. last' \in Word
  BY <1>3, <1>4
<1> QED
  BY <1>8, <1>10, <1>11, <1>12, <1>13, <1>14 DEF b, s

\* A count less one is a count.
LEMMA UnrefType ==
  ASSUME TypeOK, NEW t \in Traders
  PROVE  Unref(t) \in [Traders -> Int]
<1>1. ref \in [Traders -> Int] /\ ref[t] - 1 \in Int
  BY DEF TypeOK
<1> QED
  BY <1>1 DEF Unref

\* Looking at an order of a trade once it is over frees it, if it is linked,
\* and changes no other.
LEMMA ReapFacts ==
  ASSUME TypeOK, NEW id \in Ids, Reap(id)
  PROVE  /\ order' \in Seq(Orders) /\ Len(order') = Len(order)
         /\ buys' \in Seq(Nat) /\ sells' \in Seq(Nat)
         /\ ref' \in [Traders -> Int] /\ undef' \in BOOLEAN
         /\ \A i \in Ids : /\ order'[i].kind = order[i].kind
                           /\ order'[i].price = order[i].price
                           /\ order'[i].owner = order[i].owner
                           /\ order'[i].qty = order[i].qty
                           /\ \/ order'[i].state = order[i].state
                              \/ order[i].state = "booked" /\ order'[i].state = "gone"
<1>1. CASE Cleared(id)
  <2>1. /\ Booked(id) /\ Unlinked(id) /\ SetState(id, "gone") /\ "gone" \in OrderStates
        /\ ref' = Unref(order[id].owner) /\ UNCHANGED undef
    BY <1>1 DEF Cleared, OrderStates
  <2>2. buys' \in Seq(Nat) /\ sells' \in Seq(Nat)
    BY <2>1, UnlinkType DEF Unlinked, TypeOK
  <2>3. ref' \in [Traders -> Int] /\ undef' \in BOOLEAN
    <3>1. order[id].owner \in Traders
      BY ElementOfSeq, OrderFields DEF TypeOK, Ids
    <3> QED
      BY <2>1, <3>1, UnrefType DEF TypeOK
  <2> QED
    BY <2>1, <2>2, <2>3, SetStateFacts DEF Booked
<1>2. CASE Kept(id) \/ ClearedTwice(id)
  <2>1. UNCHANGED <<order, buys, sells, ref>> /\ undef' \in BOOLEAN
    BY <1>2 DEF Kept, ClearedTwice, book, TypeOK
  <2> QED
    BY <2>1 DEF TypeOK
<1> QED
  BY <1>1, <1>2 DEF Reap

\* Every step of the server keeps its variables well typed.
LEMMA TypeStep == TypeOK /\ ThreadInv /\ TradeInv /\ BookInOrder /\ Next => TypeOK'
<1> SUFFICES ASSUME TypeOK, ThreadInv, TradeInv, BookInOrder, Next
             PROVE  TypeOK'
  OBVIOUS
<1>0. /\ Word \subseteq Int /\ Len(order) \in Nat /\ 0 \in Word
      /\ \A t \in Traders : balance[t] \in Word /\ inventory[t] \in Word
      /\ funds \in Word /\ units \in Word /\ last \in Word
      /\ \A i \in Ids : order[i] \in Orders
      /\ \A i \in Ids : Cost(order[i]) \in Word /\ Lot(order[i]) \in Word
                        /\ order[i].owner \in Traders /\ order[i].qty \in Word
                        /\ order[i].price \in Word
  <2>1. \A i \in Ids : order[i] \in Orders
    BY ElementOfSeq DEF TypeOK, Ids
  <2>2. Len(order) \in Nat
    BY LenProperties DEF TypeOK
  <2>3. /\ \A t \in Traders : balance[t] \in Word /\ inventory[t] \in Word
        /\ funds \in Word /\ units \in Word /\ last \in Word
    BY DEF TypeOK
  <2> QED
    BY <2>1, <2>2, <2>3, CostWord, OrderFields, WordInt
<1>1. ASSUME NEW t \in Traders, NEW n \in Deposits, Deposit(t, n)
      PROVE  TypeOK'
  <2>1. Wrap(balance[t] + n) \in Word /\ Wrap(funds + n) \in Word
    BY <1>0, RequestWords, WrapSum
  <2> QED
    BY <1>1, <2>1 DEF Deposit, GoTo, Answer, TypeOK, Ids, book
<1>2. ASSUME NEW t \in Traders, NEW n \in Deposits, Withdraw(t, n)
      PROVE  TypeOK'
  <2>1. Wrap(funds - n) \in Word /\ (balance[t] >= n => balance[t] - n \in Word)
    BY <1>0, RequestWords, WrapSum, WordInt
  <2> QED
    BY <1>2, <2>1 DEF Withdraw, GoTo, Answer, TypeOK, Ids, book
<1>3. ASSUME NEW t \in Traders, NEW n \in Escrows, Escrow(t, n)
      PROVE  TypeOK'
  <2>1. Wrap(inventory[t] + n) \in Word /\ Wrap(units + n) \in Word
    BY <1>0, RequestWords, WrapSum
  <2> QED
    BY <1>3, <2>1 DEF Escrow, GoTo, Answer, TypeOK, Ids, book
<1>4. ASSUME NEW t \in Traders, NEW n \in Escrows, Release(t, n)
      PROVE  TypeOK'
  <2>1. Wrap(units - n) \in Word /\ (inventory[t] >= n => inventory[t] - n \in Word)
    BY <1>0, RequestWords, WrapSum, WordInt
  <2> QED
    BY <1>4, <2>1 DEF Release, GoTo, Answer, TypeOK, Ids, book
<1>5. ASSUME NEW t \in Traders, Status(t) \/ (\E id \in 1..MaxOrders : CancelRefused(t, id))
                                \/ Announce(t) \/ ReadId(t) \/ Reply(t)
      PROVE  TypeOK'
  BY <1>5 DEF Status, CancelRefused, Announce, ReadId, Reply, GoTo, Answer, TypeOK, Ids, book,
              accounts, history
<1>6. ASSUME NEW t \in Traders, NEW kind \in {"buy", "sell"}, NEW q \in Quantities, NEW p \in Prices,
             NewOrder(t, kind, q, p)
      PROVE  TypeOK'
  <2>1. [kind |-> kind, owner |-> t, qty |-> q, price |-> p, state |-> "fresh"] \in Orders
    BY RequestWords DEF Orders, OrderStates
  <2>2. order' \in Seq(Orders) /\ Len(order') = Len(order) + 1
    BY <1>6, <2>1, AppendProperties DEF NewOrder, TypeOK
  <2>3. cur' \in [Traders -> Ids' \cup {0}]
    BY <1>0, <1>6, <2>2 DEF NewOrder, TypeOK, Ids
  <2> QED
    BY <1>6, <2>2, <2>3 DEF NewOrder, GoTo, TypeOK, accounts, history
<1>7. ASSUME NEW t \in Traders, Reserve(t)
      PROVE  TypeOK'
  <2>1. pc[t] = "reserve" /\ cur[t] \in Ids
    BY <1>7 DEF Reserve, ThreadInv, Holds
  <2>2. PICK s \in OrderStates : SetState(cur[t], s)
    BY <1>7 DEF Reserve, OrderStates
  <2>3. order' \in Seq(Orders) /\ Ids' = Ids
    BY <2>1, <2>2, SetStateFacts DEF Ids
  <2>4. balance' \in [Traders -> Word] /\ inventory' \in [Traders -> Word] /\ ref' \in [Traders -> Int]
    <3>1. CASE UNCHANGED accounts
      BY <3>1 DEF accounts, TypeOK
    <3>2. CASE ~ UNCHANGED accounts
      <4>1. /\ balance[t] >= Cost(order[cur[t]]) /\ inventory[t] >= Lot(order[cur[t]])
            /\ balance' = [balance EXCEPT ![t] = @ - Cost(order[cur[t]])]
            /\ inventory' = [inventory EXCEPT ![t] = @ - Lot(order[cur[t]])]
            /\ ref' = [ref EXCEPT ![t] = @ + 1]
        BY <1>7, <3>2 DEF Reserve, Covers
      <4>2. balance[t] - Cost(order[cur[t]]) \in Word /\ inventory[t] - Lot(order[cur[t]]) \in Word
        BY <1>0, <2>1, <4>1, WordInt
      <4> QED
        BY <4>1, <4>2 DEF TypeOK
    <3> QED
      BY <3>1, <3>2
  <2>5. pc' \in [Traders -> {"idle", "reserve", "insert", "announce", "readid", "release",
                             "reply", "closed"}]
        /\ answer' \in [Traders -> {"ack", "nack", "garbled"}]
    BY <1>7 DEF Reserve, GoTo, Answer, TypeOK
  <2> QED
    BY <1>7, <2>3, <2>4, <2>5 DEF Reserve, TypeOK, history
<1>8. ASSUME NEW t \in Traders, InsertBuy(t)
      PROVE  TypeOK'
  <2>1. cur[t] \in Ids
    BY <1>8 DEF InsertBuy, ThreadInv, Holds
  <2>2. order' \in Seq(Orders) /\ Ids' = Ids
    BY <1>8, <2>1, SetStateFacts DEF Ids, InsertBuy, OrderStates
  <2>3. Slot(buys, order[cur[t]].price) \in 1..(Len(buys) + 1)
    BY <1>0, <2>1, SlotFacts DEF BookInOrder, Lists, TypeOK
  <2>4. buys' \in Seq(Nat)
    <3>1. buys \in Seq(Nat) /\ cur[t] \in Nat
      BY <1>0, <2>1 DEF TypeOK, Ids
    <3>2. InsertAt(buys, Slot(buys, order[cur[t]].price), cur[t]) \in Seq(Nat)
      BY <2>3, <3>1, InsertAtFacts
    <3> QED
      BY <1>8, <3>2 DEF InsertBuy
  <2> QED
    BY <1>8, <2>2, <2>4 DEF InsertBuy, GoTo, TypeOK, accounts, history
<1>9. ASSUME NEW t \in Traders, InsertSell(t)
      PROVE  TypeOK'
  <2>1. cur[t] \in Ids
    BY <1>9 DEF InsertSell, ThreadInv, Holds
  <2>2. order' \in Seq(Orders) /\ Ids' = Ids
    BY <1>9, <2>1, SetStateFacts DEF Ids, InsertSell, OrderStates
  <2>3. Slot(sells, order[cur[t]].price) \in 1..(Len(sells) + 1)
    BY <1>0, <2>1, SlotFacts DEF BookInOrder, Lists, TypeOK
  <2>4. sells' \in Seq(Nat)
    <3>1. sells \in Seq(Nat) /\ cur[t] \in Nat
      BY <1>0, <2>1 DEF TypeOK, Ids
    <3>2. InsertAt(sells, Slot(sells, order[cur[t]].price), cur[t]) \in Seq(Nat)
      BY <2>3, <3>1, InsertAtFacts
    <3> QED
      BY <1>9, <3>2 DEF InsertSell
  <2> QED
    BY <1>9, <2>2, <2>4 DEF InsertSell, GoTo, TypeOK, accounts, history
<1>10. ASSUME NEW t \in Traders, NEW id \in 1..MaxOrders, Cancel(t, id)
       PROVE  TypeOK'
  <2>1. id \in Ids /\ order' \in Seq(Orders) /\ Ids' = Ids
    BY <1>10, SetStateFacts DEF Ids, Cancel, OrderStates
  <2>2. buys' \in Seq(Nat) /\ sells' \in Seq(Nat)
    BY <1>10, UnlinkType DEF Cancel, Unlinked, TypeOK
  <2> QED
    BY <1>10, <2>1, <2>2 DEF Cancel, GoTo, TypeOK, accounts, history
<1>11. ASSUME NEW t \in Traders, FreeCanceled(t)
       PROVE  TypeOK'
  <2>1. cur[t] \in Ids
    BY <1>11 DEF FreeCanceled, ThreadInv, Holds
  <2>2. order' \in Seq(Orders) /\ Ids' = Ids /\ ref' \in [Traders -> Int]
    BY <1>11, <2>1, SetStateFacts, UnrefType DEF Ids, FreeCanceled, OrderStates
  <2>3. /\ Wrap(balance[t] + Cost(order[cur[t]])) \in Word
        /\ Wrap(inventory[t] + Lot(order[cur[t]])) \in Word
    BY <1>0, <2>1, WrapSum
  <2> QED
    BY <1>11, <2>2, <2>3 DEF FreeCanceled, GoTo, Answer, TypeOK, history
<1>12. ASSUME SemWait \/ Wake \/ Exit \/ SendBought \/ SendSold \/ Relock \/ Sleep
       PROVE  TypeOK'
  <2>1. wakeups' \in Nat
    BY <1>12 DEF SemWait, Wake, Exit, SendBought, SendSold, SendTo, Relock, Sleep, TypeOK
  <2>2. mm' \in MMLocals
    BY <1>12 DEF SemWait, Wake, Exit, SendBought, SendSold, Relock, Sleep, MMStep, TypeOK, MMLocals
  <2> QED
    BY <1>12, <2>1, <2>2 DEF SemWait, Wake, Exit, SendBought, SendSold, SendTo, Relock, Sleep,
                             TypeOK, Ids, accounts, book, threads, history
<1>13. ASSUME StartTrade
       PROVE  TypeOK'
  <2>1. order' \in Seq(Orders) /\ Ids' = Ids /\ mm' \in MMLocals /\ last' \in Word
    BY <1>13, TradeFacts DEF Ids
  <2> QED
    BY <1>13, <2>1 DEF StartTrade, TypeOK, accounts, threads, history
<1>14. ASSUME CreditSeller \/ RefundBuyer
       PROVE  TypeOK'
  <2>1. mm' \in MMLocals /\ mm.qty \in Word /\ mm.price \in Word /\ Trading
    BY <1>14 DEF CreditSeller, RefundBuyer, MMStep, TypeOK, MMLocals, Trading
  <2>2. /\ mm.buy \in Ids /\ mm.sell \in Ids
        /\ order[mm.buy].owner \in Traders /\ order[mm.sell].owner \in Traders
        /\ order[mm.buy].price \in Word
    BY <1>0, <2>1 DEF TradeInv
  <2>3. mm.qty * mm.price \in Int /\ Refund \in Int
    <3>1. \A m, n \in Int : m * n \in Int /\ m - n \in Int
      OBVIOUS
    <3>2. mm.qty \in Int /\ mm.price \in Int /\ order[mm.buy].price \in Int
      BY <1>0, <2>1, <2>2
    <3> QED
      BY <3>1, <3>2 DEF Refund
  <2>4. \A t \in Traders : Wrap(balance[t] + mm.qty * mm.price) \in Word
                           /\ Wrap(balance[t] + Refund) \in Word
    <3>1. \A m, n \in Int : Wrap(m + n) \in Word
      BY WrapWord
    <3> QED
      BY <1>0, <2>3, <3>1
  <2>5. balance' \in [Traders -> Word]
    BY <1>14, <2>2, <2>4 DEF CreditSeller, RefundBuyer, TypeOK
  <2> QED
    BY <1>14, <2>1, <2>5 DEF CreditSeller, RefundBuyer, TypeOK, Ids, book, threads, history
<1>15. ASSUME DeliverUnits
       PROVE  TypeOK'
  <2>1. mm' \in MMLocals /\ mm.qty \in Word /\ Trading
    BY <1>15 DEF DeliverUnits, MMStep, TypeOK, MMLocals, Trading
  <2>2. order[mm.buy].owner \in Traders
    BY <1>0, <2>1 DEF TradeInv
  <2>3. \A t \in Traders : Wrap(inventory[t] + mm.qty) \in Word
    BY <1>0, <2>1, WrapSum
  <2>4. inventory' \in [Traders -> Word]
    BY <1>15, <2>2, <2>3 DEF DeliverUnits, TypeOK
  <2> QED
    BY <1>15, <2>1, <2>4 DEF DeliverUnits, TypeOK, Ids, book, threads, history
<1>16. ASSUME ReapSell \/ ReapBuy
       PROVE  TypeOK'
  <2>1. mm' \in MMLocals
    <3>1. CASE ReapSell
      BY <3>1 DEF ReapSell, MMStep, TypeOK, MMLocals
    <3>2. CASE ReapBuy
      BY <1>0, <3>2 DEF ReapBuy, NoTrade, MMLocals
    <3> QED
      BY <1>16, <3>1, <3>2
  <2>2. PICK id \in {mm.buy, mm.sell} : Reap(id)
    BY <1>16 DEF ReapSell, ReapBuy
  <2>3. id \in Ids
    BY <1>16, <2>2 DEF ReapSell, ReapBuy, MMStep, TradeInv, Trading
  <2>4. /\ order' \in Seq(Orders) /\ Ids' = Ids
        /\ buys' \in Seq(Nat) /\ sells' \in Seq(Nat)
        /\ ref' \in [Traders -> Int] /\ undef' \in BOOLEAN
    BY <2>2, <2>3, ReapFacts DEF Ids
  <2> QED
    BY <2>1, <2>2, <2>4 DEF Reap, TypeOK, threads, history
<1>17. ASSUME Fini \/ (\E t \in Traders : Session(t))
       PROVE  TypeOK'
  <2>1. CASE Fini
    BY <2>1 DEF Fini, TypeOK, Ids, accounts, book, threads, history
  <2>2. ASSUME NEW t \in Traders, Session(t)
        PROVE  TypeOK'
    <3>1. ref' \in [Traders -> Int]
      BY <2>2, UnrefType DEF Session, Logout, Login, LoginRefused, Relogin, TypeOK
    <3>2. pc' \in [Traders -> {"idle", "reserve", "insert", "announce", "readid", "release",
                               "reply", "closed"}]
      BY <2>2 DEF Session, Logout, Login, LoginRefused, GoTo, threads, TypeOK
    <3>3. refused' \in [Traders -> Nat]
      BY <2>2 DEF Session, Logout, Login, LoginRefused, history, TypeOK
    <3> QED
      BY <2>2, <3>1, <3>2, <3>3 DEF Session, Logout, Login, LoginRefused, TypeOK, Ids, book, threads,
         history
  <2> QED
    BY <1>17, <2>1, <2>2
<1>18. ASSUME UNCHANGED vars
       PROVE  TypeOK'
  BY <1>18 DEF vars, accounts, book, threads, history, TypeOK, Ids
<1> QED
  BY <1>1, <1>2, <1>3, <1>4, <1>5, <1>6, <1>7, <1>8, <1>9, <1>10, <1>11, <1>12, <1>13,
     <1>14, <1>15, <1>16, <1>17, <1>18
     DEF Next, Step, Stopped, Request, Serve, Session, Match

-----------------------------------------------------------------------------
(* Threads, the mutex and the trade in hand.                               *)

\* A step of the matchmaker moves its program counter alone.
LEMMA MMStepFacts ==
  ASSUME TypeOK, NEW from, NEW to, MMStep(from, to)
  PROVE  mm.pc = from /\ mm'.pc = to /\ mm'.buy = mm.buy /\ mm'.sell = mm.sell
BY DEF MMStep, TypeOK, MMLocals

\* A step of a service thread moves the program counter of that thread alone.
LEMMA GoToFacts ==
  ASSUME TypeOK, NEW t \in Traders, NEW label, GoTo(t, label)
  PROVE  \A u \in Traders : pc'[u] = IF u = t THEN label ELSE pc[u]
BY DEF GoTo, TypeOK

Control == ThreadInv /\ MutexInv /\ TradeInv /\ PostedBeforeTraded

\* In the initial state no thread holds or claims anything.
LEMMA ControlInit == Init => Control
BY ThreadsAssumption
   DEF Init, Control, ThreadInv, MutexInv, TradeInv, PostedBeforeTraded, Trading

\* A request that touches accounts alone, or is refused, disturbs no claim.
LEMMA AccountStep ==
  ASSUME TypeOK, Control, NEW t \in Traders,
         pc[t] = "idle", GoTo(t, "reply"), UNCHANGED <<order, cur, mutex, mm>>
  PROVE  Control'
<1>1. \A u \in Traders : pc'[u] = IF u = t THEN "reply" ELSE pc[u]
  BY GoToFacts
<1>2. ThreadInv'
  BY <1>1 DEF Control, ThreadInv, Holds, Ids
<1>3. MutexInv'
  BY <1>1 DEF Control, MutexInv
<1>4. TradeInv' /\ PostedBeforeTraded'
  BY <1>1 DEF Control, TradeInv, PostedBeforeTraded, Trading, Ids
<1> QED
  BY <1>2, <1>3, <1>4 DEF Control

\* The matchmaker's steps other than those that take on a trade and end it
\* leave the threads' claims alone.
LEMMA MatchStep ==
  ASSUME TypeOK, Control, UNCHANGED <<order, cur, pc>>,
         NEW from, NEW to, MMStep(from, to),
         \/ from = "sleep" /\ to = "woken" /\ UNCHANGED mutex
         \/ from = "woken" /\ to = "match" /\ mutex = Nobody /\ mutex' = Matchmaker
         \/ from = "woken" /\ to = "exited" /\ UNCHANGED mutex
         \/ from = "credit" /\ to = "deliver" /\ UNCHANGED mutex
         \/ from = "deliver" /\ to = "refund" /\ UNCHANGED mutex
         \/ from = "refund" /\ to = "bought" /\ mutex' = Nobody
         \/ from = "bought" /\ to = "sold" /\ UNCHANGED mutex
         \/ from = "sold" /\ to = "traded" /\ UNCHANGED mutex
         \/ from = "traded" /\ to = "reapsell" /\ mutex = Nobody /\ mutex' = Matchmaker
         \/ from = "match" /\ to = "sleep" /\ mutex' = Nobody
  PROVE  Control'
<1>1. mm.pc = from /\ mm'.pc = to /\ mm'.buy = mm.buy /\ mm'.sell = mm.sell
  BY MMStepFacts
<1>2. ThreadInv'
  BY DEF Control, ThreadInv, Holds, Ids
<1>3. MutexInv'
  BY <1>1, ThreadsAssumption DEF Control, MutexInv
<1>4. Trading' => Trading
  BY <1>1 DEF Trading
<1>5. TradeInv'
  BY <1>1, <1>4 DEF Control, TradeInv, Ids
<1>6. PostedBeforeTraded'
  BY <1>1, <1>4 DEF Control, PostedBeforeTraded
<1> QED
  BY <1>2, <1>3, <1>5, <1>6 DEF Control

\* Every step keeps each thread's claim on its order, the mutex in one hand,
\* the matchmaker's claim on its two orders, and a new order announced before
\* it is traded.
LEMMA ControlStep == TypeOK /\ Control /\ BookInOrder /\ Next => Control'
<1> SUFFICES ASSUME TypeOK, Control, BookInOrder, Next
             PROVE  Control'
  OBVIOUS
<1>1. ASSUME NEW t \in Traders,
             \/ Status(t)
             \/ \E n \in Deposits : Deposit(t, n) \/ Withdraw(t, n)
             \/ \E n \in Escrows : Escrow(t, n) \/ Release(t, n)
             \/ \E id \in 1..MaxOrders : CancelRefused(t, id)
      PROVE  Control'
  BY <1>1, AccountStep DEF Status, Deposit, Withdraw, Escrow, Release, CancelRefused, book
<1>2. ASSUME NEW t \in Traders, Announce(t) \/ ReadId(t) \/ Reply(t)
      PROVE  Control'
  <2>1. PICK label \in {"readid", "reply", "idle"} : GoTo(t, label)
    BY <1>2 DEF Announce, ReadId, Reply
  <2>2. \A u \in Traders : pc'[u] = IF u = t THEN label ELSE pc[u]
    BY <2>1, GoToFacts
  <2>3. /\ UNCHANGED <<order, mm>>
        /\ \A u \in Traders : u # t => cur'[u] = cur[u]
        /\ label = "readid" => cur'[t] = cur[t] /\ pc[t] = "announce" /\ mutex' = Nobody
        /\ label # "readid" => pc[t] # "announce" /\ UNCHANGED mutex
    BY <1>2, <2>1, <2>2 DEF Announce, ReadId, Reply, GoTo, book, TypeOK
  <2>4. ThreadInv'
    BY <2>2, <2>3 DEF Control, ThreadInv, Holds, Ids
  <2>5. MutexInv'
    BY <2>2, <2>3, ThreadsAssumption DEF Control, MutexInv
  <2>6. TradeInv'
    BY <2>3, ThreadsAssumption DEF Control, TradeInv, MutexInv, Trading, Ids
  <2>7. PostedBeforeTraded'
    BY <2>2, <2>3 DEF Control, PostedBeforeTraded, Trading
  <2> QED
    BY <2>4, <2>5, <2>6, <2>7 DEF Control
<1>3. ASSUME SemWait \/ Wake \/ Exit \/ CreditSeller \/ DeliverUnits \/ RefundBuyer
             \/ SendBought \/ SendSold \/ Relock \/ Sleep
      PROVE  Control'
  BY <1>3, MatchStep
     DEF SemWait, Wake, Exit, CreditSeller, DeliverUnits, RefundBuyer, SendBought, SendSold,
         SendTo, Relock, Sleep, book, threads
<1>4. ASSUME NEW t \in Traders, NEW kind \in {"buy", "sell"}, NEW q \in Quantities, NEW p \in Prices,
             NewOrder(t, kind, q, p)
      PROVE  Control'
  <2> DEFINE o == [kind |-> kind, owner |-> t, qty |-> q, price |-> p, state |-> "fresh"]
             n == Len(order)
  <2>1. /\ \A u \in Traders : pc'[u] = IF u = t THEN "reserve" ELSE pc[u]
        /\ \A u \in Traders : cur'[u] = IF u = t THEN n + 1 ELSE cur[u]
        /\ pc[t] = "idle" /\ mutex = Nobody /\ UNCHANGED <<mutex, mm>>
    BY <1>4, GoToFacts DEF NewOrder, TypeOK
  <2>2. o \in Orders /\ o.owner = t /\ o.state = "fresh"
    BY RequestWords DEF Orders, OrderStates
  <2>3. order' = Append(order, o)
    BY <1>4 DEF NewOrder
  <2> HIDE DEF o
  <2>4. n \in Nat /\ Len(order') = n + 1 /\ order'[n + 1] = o
        /\ \A id \in Ids : order'[id] = order[id]
    BY <2>2, <2>3, AppendProperties, LenProperties DEF TypeOK, Ids
  <2>5. Ids \subseteq Ids' /\ n + 1 \in Ids' /\ n + 1 \notin Ids
    BY <2>4 DEF Ids
  <2> HIDE DEF n
  <2>6. ThreadInv'
    <3> SUFFICES ASSUME NEW u \in Traders
                 PROVE  /\ pc'[u] = "reserve"  => Holds(u, {"fresh"})'
                        /\ pc'[u] = "insert"   => Holds(u, {"ready"})'
                        /\ pc'[u] = "announce" => Holds(u, {"booked"})'
                        /\ pc'[u] = "release"  => Holds(u, {"pulled"})'
                        /\ pc'[u] = "readid"   => cur'[u] \in Ids'
      BY DEF ThreadInv
    <3>1. CASE u = t
      BY <2>1, <2>2, <2>4, <2>5, <3>1 DEF Holds
    <3>2. CASE u # t
      BY <2>1, <2>4, <2>5, <3>2 DEF Control, ThreadInv, Holds
    <3> QED
      BY <3>1, <3>2
  <2>7. MutexInv'
    BY <2>1 DEF Control, MutexInv
  <2>8. TradeInv' /\ PostedBeforeTraded'
    BY <2>1, <2>4, <2>5 DEF Control, TradeInv, PostedBeforeTraded, Trading
  <2> QED
    BY <2>6, <2>7, <2>8 DEF Control
<1>5. ASSUME NEW t \in Traders, NEW s \in OrderStates, NEW label, NEW from, NEW before, SetState(cur[t], s),
             pc[t] = from, GoTo(t, label), UNCHANGED <<cur, mm>>,
             \/ from = "reserve" /\ before = "fresh" /\ label = "insert" /\ s = "ready" /\ UNCHANGED mutex
             \/ from = "reserve" /\ before = "fresh" /\ label = "reply" /\ s = "refused" /\ UNCHANGED mutex
             \/ from = "insert" /\ before = "ready" /\ label = "announce" /\ s = "booked"
                /\ mutex = Nobody /\ mutex' = t
      PROVE  Control'
  <2>1. \A u \in Traders : pc'[u] = IF u = t THEN label ELSE pc[u]
    BY <1>5, GoToFacts
  <2>2. Holds(t, {before})
    BY <1>5 DEF Control, ThreadInv
  <2>3. /\ Ids' = Ids
        /\ \A i \in Ids : /\ order'[i].kind = order[i].kind
                          /\ order'[i].owner = order[i].owner
                          /\ order'[i].state = IF i = cur[t] THEN s ELSE order[i].state
    BY <1>5, <2>2, SetStateFacts DEF Ids, Holds
  <2>4. \A u \in Traders \ {t} : cur[u] \in Ids /\ order[cur[u]].owner = u => cur[u] # cur[t]
    BY <2>2 DEF Holds
  <2>5. ThreadInv'
    <3> SUFFICES ASSUME NEW u \in Traders
                 PROVE  /\ pc'[u] = "reserve"  => Holds(u, {"fresh"})'
                        /\ pc'[u] = "insert"   => Holds(u, {"ready"})'
                        /\ pc'[u] = "announce" => Holds(u, {"booked"})'
                        /\ pc'[u] = "release"  => Holds(u, {"pulled"})'
                        /\ pc'[u] = "readid"   => cur'[u] \in Ids'
      BY DEF ThreadInv
    <3>1. CASE u = t
      BY <1>5, <2>1, <2>2, <2>3, <3>1 DEF Holds
    <3>2. CASE u # t
      BY <1>5, <2>1, <2>3, <2>4, <3>2 DEF Control, ThreadInv, Holds
    <3> QED
      BY <3>1, <3>2
  <2>6. MutexInv'
    BY <1>5, <2>1, ThreadsAssumption DEF Control, MutexInv
  <2>7. TradeInv' /\ PostedBeforeTraded'
    <3> SUFFICES ASSUME Trading
                 PROVE  TradeInv' /\ PostedBeforeTraded'
      BY <1>5 DEF TradeInv, PostedBeforeTraded, Trading
    <3>1. /\ mm.buy \in Ids /\ order[mm.buy].kind = "buy"
          /\ mm.sell \in Ids /\ order[mm.sell].kind = "sell"
          /\ cur[t] \notin {mm.buy, mm.sell}
          /\ \A id \in {mm.buy, mm.sell} : order[id].state \in {"booked", "pulled", "gone"}
          /\ mm.pc \in {"credit", "deliver", "refund"} =>
               \A id \in {mm.buy, mm.sell} : order[id].state = "booked"
      BY <1>5, <2>2 DEF Control, TradeInv, Holds
    <3>2. TradeInv'
      BY <1>5, <2>3, <3>1 DEF TradeInv
    <3>3. PostedBeforeTraded'
      BY <1>5, <2>1, <3>1 DEF Control, PostedBeforeTraded, Trading
    <3> QED
      BY <3>2, <3>3
  <2> QED
    BY <2>5, <2>6, <2>7 DEF Control
<1>6. ASSUME NEW t \in Traders, Reserve(t) \/ InsertBuy(t) \/ InsertSell(t)
      PROVE  Control'
  <2>1. CASE Reserve(t)
    BY <1>5, <2>1 DEF Reserve, OrderStates
  <2>2. CASE InsertBuy(t) \/ InsertSell(t)
    BY <1>5, <2>2 DEF InsertBuy, InsertSell, OrderStates
  <2> QED
    BY <1>6, <2>1, <2>2
<1>7. ASSUME NEW t \in Traders, NEW id \in 1..MaxOrders, Cancel(t, id)
      PROVE  Control'
  <2>1. \A u \in Traders : pc'[u] = IF u = t THEN "release" ELSE pc[u]
    BY <1>7, GoToFacts DEF Cancel
  <2>2. /\ pc[t] = "idle" /\ mutex = Nobody /\ UNCHANGED <<mutex, mm>>
        /\ id \in Ids /\ order[id].state = "booked" /\ order[id].owner = t
        /\ \A u \in Traders : cur'[u] = IF u = t THEN id ELSE cur[u]
    BY <1>7 DEF Cancel, Booked, TypeOK
  <2>3. /\ Ids' = Ids
        /\ \A i \in Ids : /\ order'[i].kind = order[i].kind
                          /\ order'[i].owner = order[i].owner
                          /\ order'[i].state = IF i = id THEN "pulled" ELSE order[i].state
    BY <1>7, <2>2, SetStateFacts DEF Cancel, Ids, OrderStates
  <2>4. \A u \in Traders : pc[u] # "announce"
    BY <2>2, ThreadsAssumption DEF Control, MutexInv
  <2>5. ThreadInv'
    <3> SUFFICES ASSUME NEW u \in Traders
                 PROVE  /\ pc'[u] = "reserve"  => Holds(u, {"fresh"})'
                        /\ pc'[u] = "insert"   => Holds(u, {"ready"})'
                        /\ pc'[u] = "announce" => Holds(u, {"booked"})'
                        /\ pc'[u] = "release"  => Holds(u, {"pulled"})'
                        /\ pc'[u] = "readid"   => cur'[u] \in Ids'
      BY DEF ThreadInv
    <3>1. CASE u = t
      BY <2>1, <2>2, <2>3, <3>1 DEF Holds
    <3>2. CASE u # t
      <4>1. cur'[u] = cur[u] /\ pc'[u] = pc[u] /\ pc[u] # "announce"
        BY <2>1, <2>2, <2>4, <3>2
      <4>2. cur[u] \in Ids /\ order[cur[u]].owner = u =>
              order'[cur[u]].owner = u /\ order'[cur[u]].state = order[cur[u]].state
        BY <2>2, <2>3, <3>2
      <4> QED
        BY <2>3, <4>1, <4>2 DEF Control, ThreadInv, Holds
    <3> QED
      BY <3>1, <3>2
  <2>6. MutexInv'
    BY <2>1, <2>2 DEF Control, MutexInv
  <2>7. TradeInv'
    <3> SUFFICES ASSUME Trading'
                 PROVE  TradeInv'
      BY DEF TradeInv
    <3>1. Trading /\ mm' = mm /\ mm.pc \notin {"credit", "deliver", "refund"}
      BY <2>2, ThreadsAssumption DEF Trading, Control, MutexInv
    <3>2. /\ mm.buy \in Ids /\ order[mm.buy].kind = "buy"
          /\ mm.sell \in Ids /\ order[mm.sell].kind = "sell"
          /\ \A k \in {mm.buy, mm.sell} : order[k].state \in {"booked", "pulled", "gone"}
      BY <3>1 DEF Control, TradeInv
    <3>3. \A k \in {mm.buy, mm.sell} : order'[k].state \in {"booked", "pulled", "gone"}
      BY <2>3, <3>2
    <3> QED
      BY <2>3, <3>1, <3>2, <3>3 DEF TradeInv
  <2>8. PostedBeforeTraded'
    BY <2>1, <2>4 DEF PostedBeforeTraded
  <2> QED
    BY <2>5, <2>6, <2>7, <2>8 DEF Control
<1>8. ASSUME NEW t \in Traders, FreeCanceled(t)
      PROVE  Control'
  <2> DEFINE id == cur[t]
  <2>1. \A u \in Traders : pc'[u] = IF u = t THEN "reply" ELSE pc[u]
    BY <1>8, GoToFacts DEF FreeCanceled
  <2>2. Holds(t, {"pulled"})
    BY <1>8 DEF FreeCanceled, Control, ThreadInv
  <2>3. /\ pc[t] = "release" /\ UNCHANGED <<mutex, mm>>
        /\ id \in Ids /\ order[id].state = "pulled" /\ order[id].owner = t
        /\ \A u \in Traders : u # t => cur'[u] = cur[u]
    BY <1>8, <2>2 DEF FreeCanceled, Holds, TypeOK
  <2>4. /\ Ids' = Ids
        /\ \A i \in Ids : /\ order'[i].kind = order[i].kind
                          /\ order'[i].owner = order[i].owner
                          /\ order'[i].state = IF i = id THEN "gone" ELSE order[i].state
    BY <1>8, <2>3, SetStateFacts DEF FreeCanceled, Ids, OrderStates
  <2> HIDE DEF id
  <2>5. ThreadInv'
    <3> SUFFICES ASSUME NEW u \in Traders
                 PROVE  /\ pc'[u] = "reserve"  => Holds(u, {"fresh"})'
                        /\ pc'[u] = "insert"   => Holds(u, {"ready"})'
                        /\ pc'[u] = "announce" => Holds(u, {"booked"})'
                        /\ pc'[u] = "release"  => Holds(u, {"pulled"})'
                        /\ pc'[u] = "readid"   => cur'[u] \in Ids'
      BY DEF ThreadInv
    <3>1. CASE u = t
      BY <2>1, <3>1
    <3>2. CASE u # t
      BY <2>1, <2>3, <2>4, <3>2 DEF Control, ThreadInv, Holds
    <3> QED
      BY <3>1, <3>2
  <2>6. MutexInv'
    BY <2>1, <2>3 DEF Control, MutexInv
  <2>7. TradeInv'
    BY <2>3, <2>4 DEF Control, TradeInv, Trading
  <2>8. PostedBeforeTraded'
    BY <2>1, <2>3 DEF Control, PostedBeforeTraded, Trading
  <2> QED
    BY <2>5, <2>6, <2>7, <2>8 DEF Control
<1>9. ASSUME StartTrade
      PROVE  Control'
  <2>1. /\ Ids' = Ids
        /\ \A i \in Ids : /\ order'[i].kind = order[i].kind
                          /\ order'[i].owner = order[i].owner
                          /\ order'[i].state = order[i].state
        /\ mm'.pc = "credit" /\ mm'.buy = buys[Len(buys)] /\ mm'.sell = sells[1]
    BY <1>9, TradeFacts DEF Ids
  <2>2. /\ buys[Len(buys)] \in Ids /\ order[buys[Len(buys)]].state = "booked"
        /\ order[buys[Len(buys)]].kind = "buy"
        /\ sells[1] \in Ids /\ order[sells[1]].state = "booked" /\ order[sells[1]].kind = "sell"
    BY <1>9, EndsOfBook DEF StartTrade, Booked
  <2>3. mm.pc = "match" /\ mutex = Matchmaker /\ UNCHANGED <<mutex, pc, cur>>
    BY <1>9 DEF StartTrade, Control, MutexInv, threads
  <2>4. ThreadInv'
    BY <2>1, <2>3 DEF Control, ThreadInv, Holds
  <2>5. MutexInv'
    BY <2>1, <2>3 DEF Control, MutexInv
  <2>6. TradeInv'
    BY <2>1, <2>2, <2>3 DEF TradeInv
  <2>7. PostedBeforeTraded'
    BY <2>3, ThreadsAssumption DEF Control, MutexInv, PostedBeforeTraded
  <2> QED
    BY <2>4, <2>5, <2>6, <2>7 DEF Control
<1>10. ASSUME ReapSell \/ ReapBuy
       PROVE  Control'
  <2>1. PICK id \in {mm.buy, mm.sell} : Reap(id)
    BY <1>10 DEF ReapSell, ReapBuy
  <2>2. /\ mm.pc \in {"reapsell", "reapbuy"} /\ Trading
        /\ \/ mm'.pc = "match"
           \/ mm'.pc = "reapbuy" /\ mm'.buy = mm.buy /\ mm'.sell = mm.sell
        /\ UNCHANGED <<pc, cur, mutex>>
    BY <1>10, <2>1, MMStepFacts DEF ReapSell, ReapBuy, NoTrade, Reap, threads, Trading
  <2>3. mutex = Matchmaker /\ \A u \in Traders : pc[u] # "announce"
    BY <2>2, ThreadsAssumption DEF Control, MutexInv
  <2>4. /\ mm.buy \in Ids /\ order[mm.buy].kind = "buy"
        /\ mm.sell \in Ids /\ order[mm.sell].kind = "sell"
        /\ \A k \in {mm.buy, mm.sell} : order[k].state \in {"booked", "pulled", "gone"}
    BY <2>2 DEF Control, TradeInv
  <2>5. /\ Ids' = Ids
        /\ \A i \in Ids : /\ order'[i].kind = order[i].kind
                          /\ order'[i].owner = order[i].owner
                          /\ \/ order'[i].state = order[i].state
                             \/ order[i].state = "booked" /\ order'[i].state = "gone"
    BY <2>1, <2>4, ReapFacts DEF Ids
  <2>6. ThreadInv'
    BY <2>2, <2>3, <2>5 DEF Control, ThreadInv, Holds
  <2>7. MutexInv'
    BY <2>2, <2>3 DEF Control, MutexInv
  <2>8. TradeInv' /\ PostedBeforeTraded'
    BY <2>2, <2>3, <2>4, <2>5 DEF TradeInv, PostedBeforeTraded, Trading
  <2> QED
    BY <2>6, <2>7, <2>8 DEF Control
<1>11. ASSUME Fini \/ (\E t \in Traders : Session(t))
       PROVE  Control'
  <2>1. UNCHANGED <<order, cur, mutex, mm>>
    BY <1>11 DEF Fini, Session, Logout, Login, LoginRefused, book, threads
  <2>2. \A u \in Traders : pc'[u] \notin {"idle", "closed"} => pc'[u] = pc[u]
    <3>1. CASE Fini
      BY <3>1 DEF Fini, threads
    <3>2. ASSUME NEW t \in Traders, NEW label \in {"idle", "closed"}, GoTo(t, label)
          PROVE  \A u \in Traders : pc'[u] \notin {"idle", "closed"} => pc'[u] = pc[u]
      BY <3>2, GoToFacts
    <3> QED
      BY <1>11, <3>1, <3>2 DEF Session, Logout, Login, LoginRefused, threads
  <2>3. \A u \in Traders : pc[u] = "announce" <=> pc'[u] = "announce"
    <3>1. CASE Fini
      BY <3>1 DEF Fini, threads
    <3>2. ASSUME NEW t \in Traders, Session(t)
          PROVE  \A u \in Traders : pc[u] = "announce" <=> pc'[u] = "announce"
      BY <3>2, GoToFacts DEF Session, Logout, Login, LoginRefused, threads
    <3> QED
      BY <1>11, <3>1, <3>2
  <2>4. ThreadInv' /\ PostedBeforeTraded'
    BY <2>1, <2>2 DEF Control, ThreadInv, Holds, PostedBeforeTraded, Trading, Ids
  <2>5. MutexInv' /\ TradeInv'
    BY <2>1, <2>3 DEF Control, MutexInv, TradeInv, Trading, Ids
  <2> QED
    BY <2>4, <2>5 DEF Control
<1>12. ASSUME UNCHANGED vars
       PROVE  Control'
  BY <1>12 DEF vars, book, threads, Control, ThreadInv, Holds, MutexInv, TradeInv,
               PostedBeforeTraded, Trading, Ids
<1> QED
  BY <1>1, <1>2, <1>3, <1>4, <1>6, <1>7, <1>8, <1>9, <1>10, <1>11, <1>12
     DEF Next, Step, Stopped, Request, Serve, Session, Match

-----------------------------------------------------------------------------
(* The book.                                                               *)

PriceOf == [id \in Ids |-> order[id].price]

\* The lists, in the terms of the facts about lists.
LEMMA BookNow ==
  ASSUME TypeOK, BookInOrder
  PROVE  /\ PriceOf \in [Ids -> Int]
         /\ buys \in Seq(Ids) /\ Distinct(buys) /\ OrderedBy(buys, PriceOf)
         /\ sells \in Seq(Ids) /\ Distinct(sells) /\ OrderedBy(sells, PriceOf)
         /\ ToSet(buys) = {id \in Ids : Booked(id) /\ order[id].kind = "buy"}
         /\ ToSet(sells) = {id \in Ids : Booked(id) /\ order[id].kind = "sell"}
<1>1. PriceOf \in [Ids -> Int]
  <2>1. \A id \in Ids : order[id].price \in Int
    BY ElementOfSeq, OrderFields, WordInt DEF TypeOK, Ids
  <2> QED
    BY <2>1 DEF PriceOf
<1>2. /\ ToSet(buys) = {id \in Ids : Booked(id) /\ order[id].kind = "buy"}
      /\ ToSet(sells) = {id \in Ids : Booked(id) /\ order[id].kind = "sell"}
      /\ Distinct(buys) /\ Distinct(sells)
  BY DEF BookInOrder, Lists, Distinct
<1>3. buys \in Seq(Ids) /\ sells \in Seq(Ids)
  <2>1. ToSet(buys) \subseteq Ids /\ ToSet(sells) \subseteq Ids /\ 0 \in Int
    BY <1>2
  <2> QED
    BY <2>1, SlotFacts DEF TypeOK
<1>4. /\ \A k \in DOMAIN buys : PriceOf[buys[k]] = order[buys[k]].price
      /\ \A k \in DOMAIN sells : PriceOf[sells[k]] = order[sells[k]].price
  BY <1>3, LenProperties, ElementOfSeq DEF PriceOf
<1>5. OrderedBy(buys, PriceOf) /\ OrderedBy(sells, PriceOf)
  BY <1>4 DEF BookInOrder, Ascending, OrderedBy
<1> QED
  BY <1>1, <1>2, <1>3, <1>5

\* A step that keeps the prices and sides of orders and ends with lists in
\* order that hold the posted orders ends with the book in order.
LEMMA BookNext ==
  ASSUME TypeOK, Ids \subseteq Ids',
         \A id \in Ids : order'[id].kind = order[id].kind /\ order'[id].price = order[id].price,
         \A id \in Ids' : order'[id].state = "booked" => id \in Ids,
         Distinct(buys'), Distinct(sells'),
         OrderedBy(buys', PriceOf), OrderedBy(sells', PriceOf),
         ToSet(buys') = {id \in Ids : order'[id].state = "booked" /\ order[id].kind = "buy"},
         ToSet(sells') = {id \in Ids : order'[id].state = "booked" /\ order[id].kind = "sell"}
  PROVE  BookInOrder'
<1>1. /\ \A k \in DOMAIN buys' : buys'[k] \in Ids
      /\ \A k \in DOMAIN sells' : sells'[k] \in Ids
  <2>1. /\ \A k \in DOMAIN buys' : buys'[k] \in ToSet(buys')
        /\ \A k \in DOMAIN sells' : sells'[k] \in ToSet(sells')
    BY DEF ToSet
  <2> QED
    BY <2>1
<1>2. Ascending(buys)' /\ Ascending(sells)'
  BY <1>1 DEF OrderedBy, Ascending, PriceOf
<1>3. /\ ToSet(buys') = {id \in Ids' : order'[id].state = "booked" /\ order'[id].kind = "buy"}
      /\ ToSet(sells') = {id \in Ids' : order'[id].state = "booked" /\ order'[id].kind = "sell"}
  OBVIOUS
<1>4. Lists(buys, "buy")' /\ Lists(sells, "sell")'
  BY <1>3 DEF Lists, Distinct, Booked
<1> QED
  BY <1>2, <1>4 DEF BookInOrder

\* Unlinking takes that order, if it is there, and no other.
LEMMA UnlinkFacts ==
  ASSUME NEW S, NEW p \in [S -> Int], NEW list \in Seq(S), NEW id,
         Distinct(list), OrderedBy(list, p)
  PROVE  /\ Distinct(Unlink(list, id)) /\ OrderedBy(Unlink(list, id), p)
         /\ ToSet(Unlink(list, id)) = ToSet(list) \ {id}
<1>1. CASE id \in ToSet(list)
  <2> DEFINE k == CHOOSE i \in DOMAIN list : list[i] = id
  <2>1. DOMAIN list = 1..Len(list)
    BY LenProperties
  <2>2. \E i \in DOMAIN list : list[i] = id
    BY <1>1 DEF ToSet
  <2>3. k \in 1..Len(list) /\ list[k] = id
    BY <2>1, <2>2
  <2>4. Unlink(list, id) = RemoveAt(list, k)
    BY <1>1 DEF Unlink
  <2> HIDE DEF k
  <2> QED
    BY <2>3, <2>4, RemoveInPlace
<1>2. CASE id \notin ToSet(list)
  BY <1>2 DEF Unlink
<1> QED
  BY <1>1, <1>2

\* A step that leaves the lists alone and posts or withdraws no order leaves
\* the book in order.
LEMMA BookFrame ==
  ASSUME TypeOK, BookInOrder, UNCHANGED <<buys, sells>>, Ids \subseteq Ids',
         \A id \in Ids : /\ order'[id].kind = order[id].kind
                         /\ order'[id].price = order[id].price
                         /\ order'[id].state = "booked" <=> order[id].state = "booked",
         \A id \in Ids' : order'[id].state = "booked" => id \in Ids
  PROVE  BookInOrder'
BY BookNow, BookNext DEF Booked

\* A new buy goes into the buys, in order.
LEMMA BuyLinked ==
  ASSUME TypeOK, ThreadInv, BookInOrder, NEW t \in Traders, InsertBuy(t)
  PROVE  BookInOrder'
<1> DEFINE id == cur[t]
           i  == Slot(buys, order[id].price)
<1>1. id \in Ids /\ order[id].state = "ready" /\ order[id].kind = "buy"
  BY DEF InsertBuy, ThreadInv, Holds
<1>2. /\ Ids' = Ids
      /\ \A k \in Ids : /\ order'[k].kind = order[k].kind
                        /\ order'[k].price = order[k].price
                        /\ order'[k].state = IF k = id THEN "booked" ELSE order[k].state
  BY <1>1, SetStateFacts DEF InsertBuy, OrderStates, Ids
<1>3. buys' = InsertAt(buys, i, id) /\ sells' = sells
  BY DEF InsertBuy
<1>4. order[id].price \in Int /\ id \notin ToSet(buys) /\ PriceOf[id] = order[id].price
  BY <1>1, BookNow DEF PriceOf, Booked
<1>5. buys \in Seq(Nat) /\ ToSet(buys) \subseteq Ids
  BY BookNow DEF TypeOK
<1>6. /\ i \in 1..(Len(buys) + 1)
      /\ \A j \in 1..(i - 1) : order[buys[j]].price <= order[id].price
      /\ i <= Len(buys) => order[buys[i]].price > order[id].price
  BY <1>4, <1>5, SlotFacts
<1> HIDE DEF id, i
<1>7. /\ \A j \in 1..(i - 1) : PriceOf[buys[j]] <= PriceOf[id]
      /\ i <= Len(buys) => PriceOf[buys[i]] > PriceOf[id]
  <2>1. \A j \in 1..Len(buys) : PriceOf[buys[j]] = order[buys[j]].price
    BY BookNow, ElementOfSeq DEF PriceOf
  <2>2. Len(buys) \in Nat
    BY <1>5, LenProperties
  <2> QED
    BY <1>4, <1>6, <2>1, <2>2
<1>8. /\ Distinct(buys') /\ OrderedBy(buys', PriceOf) /\ ToSet(buys') = ToSet(buys) \cup {id}
  <2>1. buys \in Seq(Ids) /\ PriceOf \in [Ids -> Int] /\ Distinct(buys) /\ OrderedBy(buys, PriceOf)
    BY BookNow
  <2>2. id \in Ids /\ id \notin ToSet(buys) /\ i \in 1..(Len(buys) + 1)
    BY <1>1, <1>4, <1>6
  <2>3. /\ Distinct(InsertAt(buys, i, id)) /\ OrderedBy(InsertAt(buys, i, id), PriceOf)
        /\ ToSet(InsertAt(buys, i, id)) = ToSet(buys) \cup {id}
    BY <1>7, <2>1, <2>2, InsertInPlace
  <2> QED
    BY <1>3, <2>3
<1>9. /\ ToSet(buys') = {k \in Ids : order'[k].state = "booked" /\ order[k].kind = "buy"}
      /\ ToSet(sells') = {k \in Ids : order'[k].state = "booked" /\ order[k].kind = "sell"}
  <2>1. /\ ToSet(buys) = {k \in Ids : order[k].state = "booked" /\ order[k].kind = "buy"}
        /\ ToSet(sells) = {k \in Ids : order[k].state = "booked" /\ order[k].kind = "sell"}
    BY BookNow DEF Booked
  <2>2. ToSet(buys') = {k \in Ids : order'[k].state = "booked" /\ order[k].kind = "buy"}
    BY <1>1, <1>2, <1>8, <2>1
  <2>3. ToSet(sells') = {k \in Ids : order'[k].state = "booked" /\ order[k].kind = "sell"}
    BY <1>1, <1>2, <1>3, <2>1
  <2> QED
    BY <2>2, <2>3
<1> QED
  BY <1>2, <1>3, <1>8, <1>9, BookNow, BookNext

\* A new sell goes into the sells, in order.
LEMMA SellLinked ==
  ASSUME TypeOK, ThreadInv, BookInOrder, NEW t \in Traders, InsertSell(t)
  PROVE  BookInOrder'
<1> DEFINE id == cur[t]
           i  == Slot(sells, order[id].price)
<1>1. id \in Ids /\ order[id].state = "ready" /\ order[id].kind = "sell"
  BY DEF InsertSell, ThreadInv, Holds
<1>2. /\ Ids' = Ids
      /\ \A k \in Ids : /\ order'[k].kind = order[k].kind
                        /\ order'[k].price = order[k].price
                        /\ order'[k].state = IF k = id THEN "booked" ELSE order[k].state
  BY <1>1, SetStateFacts DEF InsertSell, OrderStates, Ids
<1>3. sells' = InsertAt(sells, i, id) /\ buys' = buys
  BY DEF InsertSell
<1>4. order[id].price \in Int /\ id \notin ToSet(sells) /\ PriceOf[id] = order[id].price
  BY <1>1, BookNow DEF PriceOf, Booked
<1>5. sells \in Seq(Nat) /\ ToSet(sells) \subseteq Ids
  BY BookNow DEF TypeOK
<1>6. /\ i \in 1..(Len(sells) + 1)
      /\ \A j \in 1..(i - 1) : order[sells[j]].price <= order[id].price
      /\ i <= Len(sells) => order[sells[i]].price > order[id].price
  BY <1>4, <1>5, SlotFacts
<1> HIDE DEF id, i
<1>7. /\ \A j \in 1..(i - 1) : PriceOf[sells[j]] <= PriceOf[id]
      /\ i <= Len(sells) => PriceOf[sells[i]] > PriceOf[id]
  <2>1. \A j \in 1..Len(sells) : PriceOf[sells[j]] = order[sells[j]].price
    BY BookNow, ElementOfSeq DEF PriceOf
  <2>2. Len(sells) \in Nat
    BY <1>5, LenProperties
  <2> QED
    BY <1>4, <1>6, <2>1, <2>2
<1>8. /\ Distinct(sells') /\ OrderedBy(sells', PriceOf) /\ ToSet(sells') = ToSet(sells) \cup {id}
  <2>1. sells \in Seq(Ids) /\ PriceOf \in [Ids -> Int] /\ Distinct(sells) /\ OrderedBy(sells, PriceOf)
    BY BookNow
  <2>2. id \in Ids /\ id \notin ToSet(sells) /\ i \in 1..(Len(sells) + 1)
    BY <1>1, <1>4, <1>6
  <2>3. /\ Distinct(InsertAt(sells, i, id)) /\ OrderedBy(InsertAt(sells, i, id), PriceOf)
        /\ ToSet(InsertAt(sells, i, id)) = ToSet(sells) \cup {id}
    BY <1>7, <2>1, <2>2, InsertInPlace
  <2> QED
    BY <1>3, <2>3
<1>9. /\ ToSet(sells') = {k \in Ids : order'[k].state = "booked" /\ order[k].kind = "sell"}
      /\ ToSet(buys') = {k \in Ids : order'[k].state = "booked" /\ order[k].kind = "buy"}
  BY <1>1, <1>2, <1>3, <1>8, BookNow DEF Booked
<1> QED
  BY <1>2, <1>3, <1>8, <1>9, BookNow, BookNext

\* Canceling or removing an order takes it, and no other, out of its list.
LEMMA BuySellUnlinked ==
  ASSUME TypeOK, BookInOrder, NEW id \in Ids, Booked(id), Unlinked(id),
         NEW s \in {"pulled", "gone"}, SetState(id, s)
  PROVE  /\ BookInOrder'
         /\ ToSet(buys') \subseteq ToSet(buys) /\ ToSet(sells') \subseteq ToSet(sells)
<1>1. /\ Ids' = Ids
      /\ \A k \in Ids : /\ order'[k].kind = order[k].kind
                        /\ order'[k].price = order[k].price
                        /\ order'[k].state = IF k = id THEN s ELSE order[k].state
  BY SetStateFacts DEF OrderStates, Ids
<1>2. /\ Distinct(buys') /\ OrderedBy(buys', PriceOf) /\ ToSet(buys') = ToSet(buys) \ {id}
      /\ Distinct(sells') /\ OrderedBy(sells', PriceOf) /\ ToSet(sells') = ToSet(sells) \ {id}
  <2>1. /\ PriceOf \in [Ids -> Int]
        /\ buys \in Seq(Ids) /\ Distinct(buys) /\ OrderedBy(buys, PriceOf)
        /\ sells \in Seq(Ids) /\ Distinct(sells) /\ OrderedBy(sells, PriceOf)
    BY BookNow
  <2> QED
    BY <2>1, UnlinkFacts DEF Unlinked
<1>3. /\ ToSet(buys') = {k \in Ids : order'[k].state = "booked" /\ order[k].kind = "buy"}
      /\ ToSet(sells') = {k \in Ids : order'[k].state = "booked" /\ order[k].kind = "sell"}
  <2>1. /\ ToSet(buys) = {k \in Ids : order[k].state = "booked" /\ order[k].kind = "buy"}
        /\ ToSet(sells) = {k \in Ids : order[k].state = "booked" /\ order[k].kind = "sell"}
    BY BookNow DEF Booked
  <2>2. \A k \in Ids : order'[k].state = "booked" <=> k # id /\ order[k].state = "booked"
    BY <1>1
  <2>3. ToSet(buys') = {k \in Ids : order'[k].state = "booked" /\ order[k].kind = "buy"}
    BY <1>2, <2>1, <2>2
  <2>4. ToSet(sells') = {k \in Ids : order'[k].state = "booked" /\ order[k].kind = "sell"}
    BY <1>2, <2>1, <2>2
  <2> QED
    BY <2>3, <2>4
<1>4. BookInOrder'
  BY <1>1, <1>2, <1>3, BookNext
<1> QED
  BY <1>2, <1>4

\* An order removed after its trade leaves the book in order.
LEMMA SpentUnlinked ==
  ASSUME TypeOK, BookInOrder, NEW id \in Ids, Reap(id)
  PROVE  /\ BookInOrder'
         /\ ToSet(buys') \subseteq ToSet(buys) /\ ToSet(sells') \subseteq ToSet(sells)
<1>1. CASE Cleared(id)
  BY <1>1, BuySellUnlinked DEF Cleared
<1>2. CASE Kept(id) \/ ClearedTwice(id)
  <2>1. UNCHANGED <<order, buys, sells>>
    BY <1>2 DEF Kept, ClearedTwice, book
  <2> QED
    BY <2>1, BookFrame DEF Ids
<1> QED
  BY <1>1, <1>2 DEF Reap

\* The matchmaker removes orders of its trade.
LEMMA ReapsTraded ==
  ASSUME TradeInv, ReapSell \/ ReapBuy
  PROVE  \E id \in Ids : Reap(id)
BY DEF ReapSell, ReapBuy, MMStep, TradeInv, Trading

\* Every step keeps the book in order.
LEMMA BookStep == TypeOK /\ Control /\ BookInOrder /\ Next => BookInOrder'
<1> SUFFICES ASSUME TypeOK, Control, BookInOrder, Next
             PROVE  BookInOrder'
  OBVIOUS
<1>1. CASE UNCHANGED <<order, buys, sells>>
  BY <1>1, BookFrame DEF Ids
<1>2. ASSUME NEW t \in Traders, NEW kind \in {"buy", "sell"}, NEW q \in Quantities, NEW p \in Prices,
             NewOrder(t, kind, q, p)
      PROVE  BookInOrder'
  <2> DEFINE o == [kind |-> kind, owner |-> t, qty |-> q, price |-> p, state |-> "fresh"]
  <2>1. o \in Orders /\ o.state = "fresh" /\ order' = Append(order, o)
    BY <1>2, RequestWords DEF NewOrder, Orders, OrderStates
  <2> HIDE DEF o
  <2>2. /\ Len(order) \in Nat /\ Len(order') = Len(order) + 1 /\ order'[Len(order) + 1] = o
        /\ \A id \in Ids : order'[id] = order[id]
    BY <2>1, AppendProperties, LenProperties DEF TypeOK, Ids
  <2>3. /\ Ids \subseteq Ids'
        /\ \A id \in Ids' : order'[id].state = "booked" => id \in Ids
    BY <2>1, <2>2 DEF Ids
  <2> QED
    BY <1>2, <2>2, <2>3, BookFrame DEF NewOrder
<1>3. ASSUME NEW t \in Traders, Reserve(t) \/ FreeCanceled(t)
      PROVE  BookInOrder'
  <2>1. /\ cur[t] \in Ids /\ order[cur[t]].state # "booked"
        /\ \E s \in OrderStates \ {"booked"} : SetState(cur[t], s)
        /\ UNCHANGED <<buys, sells>>
    BY <1>3 DEF Reserve, FreeCanceled, Control, ThreadInv, Holds, OrderStates
  <2>2. /\ Ids' = Ids
        /\ \A i \in Ids : /\ order'[i].kind = order[i].kind
                          /\ order'[i].price = order[i].price
                          /\ order'[i].state = "booked" <=> order[i].state = "booked"
    BY <2>1, SetStateFacts DEF Ids
  <2> QED
    BY <2>1, <2>2, BookFrame
<1>4. ASSUME NEW t \in Traders, InsertBuy(t) \/ InsertSell(t)
      PROVE  BookInOrder'
  BY <1>4, BuyLinked, SellLinked DEF Control
<1>5. ASSUME NEW t \in Traders, NEW id \in 1..MaxOrders, Cancel(t, id)
      PROVE  BookInOrder'
  BY <1>5, BuySellUnlinked DEF Cancel
<1>6. ASSUME StartTrade
      PROVE  BookInOrder'
  <2>1. /\ Ids' = Ids
        /\ \A i \in Ids : /\ order'[i].kind = order[i].kind
                          /\ order'[i].price = order[i].price
                          /\ order'[i].state = order[i].state
    BY <1>6, TradeFacts DEF Ids
  <2> QED
    BY <1>6, <2>1, BookFrame DEF StartTrade
<1>7. ASSUME ReapSell \/ ReapBuy
      PROVE  BookInOrder'
  BY <1>7, ReapsTraded, SpentUnlinked DEF Control
<1>8. ASSUME NEW t \in Traders,
             \/ Status(t) \/ Announce(t) \/ ReadId(t) \/ Reply(t)
             \/ \E n \in Deposits : Deposit(t, n) \/ Withdraw(t, n)
             \/ \E n \in Escrows : Escrow(t, n) \/ Release(t, n)
             \/ \E id \in 1..MaxOrders : CancelRefused(t, id)
             \/ Session(t)
      PROVE  UNCHANGED <<order, buys, sells>>
  BY <1>8 DEF Session, Logout, Login, LoginRefused, Status, Announce, ReadId, Reply, Deposit, Withdraw, Escrow, Release,
              CancelRefused, book
<1>9. ASSUME \/ SemWait \/ Wake \/ Exit \/ CreditSeller \/ DeliverUnits \/ RefundBuyer
             \/ SendBought \/ SendSold \/ Relock \/ Sleep \/ Fini \/ UNCHANGED vars
      PROVE  UNCHANGED <<order, buys, sells>>
  BY <1>9 DEF SemWait, Wake, Exit, CreditSeller, DeliverUnits, RefundBuyer, SendBought,
              SendSold, SendTo, Relock, Sleep, Fini, book, vars
<1> QED
  BY <1>1, <1>2, <1>3, <1>4, <1>5, <1>6, <1>7, <1>8, <1>9
     DEF Next, Step, Stopped, Request, Serve, Session, Match

-----------------------------------------------------------------------------
(* No match is lost.                                                       *)

\* Taking orders out of the book creates no match: the best bid and ask of
\* what is left are no better.
LEMMA RemovalNoMatch ==
  ASSUME TypeOK, TypeOK', BookInOrder, \A id \in Ids : order'[id].price = order[id].price,
         ToSet(buys') \subseteq ToSet(buys), ToSet(sells') \subseteq ToSet(sells), Crossed'
  PROVE  Crossed
<1>1. /\ Len(buys) \in Nat /\ DOMAIN buys = 1..Len(buys)
      /\ Len(sells) \in Nat /\ DOMAIN sells = 1..Len(sells)
  BY LenProperties DEF TypeOK
<1>2. /\ Len(buys') \in DOMAIN buys' /\ 1 \in DOMAIN sells'
      /\ order'[sells'[1]].price <= order'[buys'[Len(buys')]].price
  BY EmptySeq, LenProperties DEF TypeOK, Crossed
<1>3. PICK k \in 1..Len(buys) : buys[k] = buys'[Len(buys')]
  BY <1>1, <1>2 DEF ToSet
<1>4. PICK m \in 1..Len(sells) : sells[m] = sells'[1]
  BY <1>1, <1>2 DEF ToSet
<1>5. /\ \A j \in 1..Len(buys) : buys[j] \in Ids /\ order[buys[j]].price \in Int
      /\ \A j \in 1..Len(sells) : sells[j] \in Ids /\ order[sells[j]].price \in Int
  <2>1. \A id \in Ids : order[id].price \in Int
    BY ElementOfSeq, OrderFields, WordInt DEF TypeOK, Ids
  <2>2. /\ \A j \in 1..Len(buys) : buys[j] \in Ids
        /\ \A j \in 1..Len(sells) : sells[j] \in Ids
    BY BookNow, ElementOfSeq
  <2> QED
    BY <2>1, <2>2
<1>6. order[buys[k]].price <= order[buys[Len(buys)]].price
  BY <1>1, <1>5 DEF BookInOrder, Ascending
<1>7. order[sells[1]].price <= order[sells[m]].price
  BY <1>1, <1>5 DEF BookInOrder, Ascending
<1>8. order[sells[m]].price <= order[buys[k]].price
  BY <1>2, <1>3, <1>4, <1>5
<1>9. buys # <<>> /\ sells # <<>>
  BY <1>1, <1>3, <1>4, EmptySeq
<1> QED
  BY <1>1, <1>5, <1>6, <1>7, <1>8, <1>9 DEF Crossed

\* A buy linked below the top of the buys leaves the best bid as it is.
LEMMA LowBuyNoMatch ==
  ASSUME TypeOK, ThreadInv, BookInOrder, NEW t \in Traders, InsertBuy(t),
         ~ BestBuy(Slot(buys, order[cur[t]].price)), Crossed'
  PROVE  Crossed
<1> DEFINE id == cur[t]
           i  == Slot(buys, order[id].price)
<1>1. id \in Ids
  BY DEF InsertBuy, ThreadInv, Holds
<1>2. \A k \in Ids : order'[k].price = order[k].price
  BY <1>1, SetStateFacts DEF InsertBuy, OrderStates, TypeOK
<1>3. buys' = InsertAt(buys, i, id) /\ sells' = sells
  BY DEF InsertBuy
<1>4. buys \in Seq(Nat) /\ ToSet(buys) \subseteq Ids /\ Len(buys) \in Nat /\ order[id].price \in Int
  BY <1>1, BookNow, LenProperties, ElementOfSeq, OrderFields, WordInt DEF TypeOK, Ids
<1>5. i \in 1..(Len(buys) + 1)
  BY <1>4, SlotFacts
<1>6. i \in 1..Len(buys)
  BY <1>4, <1>5 DEF BestBuy
<1> HIDE DEF id, i
<1>7. Len(buys') = Len(buys) + 1 /\ buys'[Len(buys) + 1] = buys[Len(buys)]
  <2>1. /\ InsertAt(buys, i, id) \in Seq(Ids)
        /\ Len(InsertAt(buys, i, id)) = Len(buys) + 1
        /\ \A j \in 1..(Len(buys) + 1) :
             InsertAt(buys, i, id)[j] = IF j < i THEN buys[j] ELSE IF j = i THEN id ELSE buys[j - 1]
    <3>1. buys \in Seq(Ids) /\ id \in Ids /\ i \in 1..(Len(buys) + 1)
      BY <1>1, <1>5, BookNow
    <3> QED
      BY <3>1, InsertAtFacts
  <2>2. Len(buys) + 1 \in 1..(Len(buys) + 1) /\ Len(buys) + 1 > i
        /\ (Len(buys) + 1) - 1 = Len(buys)
    BY <1>4, <1>6
  <2> QED
    BY <1>3, <1>6, <2>1, <2>2
<1>8. buys # <<>>
  BY <1>4, <1>6, EmptySeq
<1>9. sells # <<>> /\ sells[1] \in Ids /\ buys[Len(buys)] \in Ids
  <2>1. sells # <<>>
    BY <1>3 DEF Crossed
  <2>2. Len(sells) \in Nat \ {0} /\ Len(buys) \in Nat \ {0}
    BY <1>8, <2>1, EmptySeq DEF TypeOK
  <2> QED
    BY <2>1, <2>2, BookNow, ElementOfSeq
<1> QED
  BY <1>2, <1>3, <1>7, <1>8, <1>9 DEF Crossed

\* A sell linked above the bottom of the sells leaves the best ask as it is.
LEMMA HighSellNoMatch ==
  ASSUME TypeOK, ThreadInv, BookInOrder, NEW t \in Traders, InsertSell(t),
         ~ BestSell(Slot(sells, order[cur[t]].price)), Crossed'
  PROVE  Crossed
<1> DEFINE id == cur[t]
           i  == Slot(sells, order[id].price)
<1>1. id \in Ids
  BY DEF InsertSell, ThreadInv, Holds
<1>2. \A k \in Ids : order'[k].price = order[k].price
  BY <1>1, SetStateFacts DEF InsertSell, OrderStates, TypeOK
<1>3. sells' = InsertAt(sells, i, id) /\ buys' = buys
  BY DEF InsertSell
<1>4. sells \in Seq(Nat) /\ ToSet(sells) \subseteq Ids /\ Len(sells) \in Nat /\ order[id].price \in Int
  BY <1>1, BookNow, LenProperties, ElementOfSeq, OrderFields, WordInt DEF TypeOK, Ids
<1>5. i \in 1..(Len(sells) + 1)
  BY <1>4, SlotFacts
<1>6. i \in 2..(Len(sells) + 1)
  BY <1>4, <1>5 DEF BestSell
<1> HIDE DEF id, i
<1>7. sells'[1] = sells[1]
  <2>1. /\ InsertAt(sells, i, id) \in Seq(Ids)
        /\ Len(InsertAt(sells, i, id)) = Len(sells) + 1
        /\ \A j \in 1..(Len(sells) + 1) :
             InsertAt(sells, i, id)[j] = IF j < i THEN sells[j] ELSE IF j = i THEN id ELSE sells[j - 1]
    <3>1. sells \in Seq(Ids) /\ id \in Ids /\ i \in 1..(Len(sells) + 1)
      BY <1>1, <1>5, BookNow
    <3> QED
      BY <3>1, InsertAtFacts
  <2>2. 1 \in 1..(Len(sells) + 1) /\ 1 < i
    BY <1>4, <1>6
  <2> QED
    BY <1>3, <2>1, <2>2
<1>8. sells # <<>>
  BY <1>4, <1>6, EmptySeq
<1>9. buys # <<>> /\ sells[1] \in Ids /\ buys[Len(buys)] \in Ids
  <2>1. buys # <<>>
    BY <1>3 DEF Crossed
  <2>2. Len(sells) \in Nat \ {0} /\ Len(buys) \in Nat \ {0}
    BY <1>8, <2>1, EmptySeq DEF TypeOK
  <2> QED
    BY <2>1, <2>2, BookNow, ElementOfSeq
<1> QED
  BY <1>2, <1>3, <1>7, <1>8, <1>9 DEF Crossed

\* A step that creates no match and does not put the matchmaker to sleep
\* loses none.
LEMMA NoNewMatch ==
  ASSUME NoLostMatch, TypeOK, Crossed' => Crossed, done => done',
         wakeups' \in Nat, wakeups' >= wakeups,
         mm'.pc = mm.pc \/ mm'.pc # "sleep"
  PROVE  NoLostMatch'
BY DEF NoLostMatch, TypeOK

\* No step loses a match.
LEMMA LostMatchStep == Inv /\ TypeOK' /\ Next => NoLostMatch'
<1> SUFFICES ASSUME Inv, TypeOK', Next
             PROVE  NoLostMatch'
  OBVIOUS
<1>1. TypeOK /\ Control /\ BookInOrder /\ NoLostMatch /\ wakeups \in Nat /\ wakeups' \in Nat
  BY DEF Inv, Control, TypeOK
<1>2. ASSUME \A id \in Ids : order'[id].price = order[id].price,
             ToSet(buys') \subseteq ToSet(buys), ToSet(sells') \subseteq ToSet(sells)
      PROVE  Crossed' => Crossed
  BY <1>1, <1>2, RemovalNoMatch
<1>3. ASSUME UNCHANGED book
      PROVE  Crossed' => Crossed
  BY <1>3 DEF book, Crossed
<1>4. ASSUME NEW t \in Traders,
             \/ Status(t) \/ Announce(t) \/ ReadId(t) \/ Reply(t)
             \/ \E n \in Deposits : Deposit(t, n) \/ Withdraw(t, n)
             \/ \E n \in Escrows : Escrow(t, n) \/ Release(t, n)
             \/ \E id \in 1..MaxOrders : CancelRefused(t, id)
             \/ Session(t)
      PROVE  NoLostMatch'
  <2>1. UNCHANGED <<book, wakeups, done, mm>>
    BY <1>4 DEF Session, Logout, Login, LoginRefused, Status, Announce, ReadId, Reply, Deposit, Withdraw, Escrow, Release,
                CancelRefused, book
  <2> QED
    BY <1>1, <1>3, <2>1, NoNewMatch
<1>5. ASSUME NEW t \in Traders, NEW kind \in {"buy", "sell"}, NEW q \in Quantities, NEW p \in Prices,
             NewOrder(t, kind, q, p)
      PROVE  NoLostMatch'
  <2> DEFINE o == [kind |-> kind, owner |-> t, qty |-> q, price |-> p, state |-> "fresh"]
  <2>1. o \in Orders /\ order' = Append(order, o)
    BY <1>5, RequestWords DEF NewOrder, Orders, OrderStates
  <2> HIDE DEF o
  <2>2. \A id \in Ids : order'[id] = order[id]
    BY <1>1, <2>1, AppendProperties, LenProperties DEF TypeOK, Ids
  <2>3. UNCHANGED <<buys, sells, wakeups, done, mm>>
    BY <1>5 DEF NewOrder
  <2> QED
    BY <1>1, <1>2, <2>2, <2>3, NoNewMatch
<1>6. ASSUME NEW t \in Traders, Reserve(t) \/ FreeCanceled(t)
      PROVE  NoLostMatch'
  <2>1. /\ cur[t] \in Ids /\ (\E s \in OrderStates : SetState(cur[t], s))
        /\ UNCHANGED <<buys, sells, wakeups, done, mm>>
    BY <1>1, <1>6 DEF Reserve, FreeCanceled, Control, ThreadInv, Holds, OrderStates
  <2>2. \A i \in Ids : order'[i].price = order[i].price
    BY <1>1, <2>1, SetStateFacts
  <2> QED
    BY <1>1, <1>2, <2>1, <2>2, NoNewMatch
<1>7. ASSUME NEW t \in Traders, InsertBuy(t)
      PROVE  NoLostMatch'
  <2> DEFINE best == BestBuy(Slot(buys, order[cur[t]].price))
  <2>1. wakeups' = (IF best THEN wakeups + 1 ELSE wakeups) /\ UNCHANGED <<done, mm>>
    BY <1>7 DEF InsertBuy
  <2>2. CASE best
    BY <1>1, <2>1, <2>2 DEF NoLostMatch
  <2>3. CASE ~ best
    BY <1>1, <1>7, <2>1, <2>3, LowBuyNoMatch, NoNewMatch DEF Control
  <2> QED
    BY <2>2, <2>3
<1>8. ASSUME NEW t \in Traders, InsertSell(t)
      PROVE  NoLostMatch'
  <2> DEFINE best == BestSell(Slot(sells, order[cur[t]].price))
  <2>1. wakeups' = (IF best THEN wakeups + 1 ELSE wakeups) /\ UNCHANGED <<done, mm>>
    BY <1>8 DEF InsertSell
  <2>2. CASE best
    BY <1>1, <2>1, <2>2 DEF NoLostMatch
  <2>3. CASE ~ best
    BY <1>1, <1>8, <2>1, <2>3, HighSellNoMatch, NoNewMatch DEF Control
  <2> QED
    BY <2>2, <2>3
<1>9. ASSUME NEW t \in Traders, NEW id \in 1..MaxOrders, Cancel(t, id)
      PROVE  NoLostMatch'
  <2>1. /\ id \in Ids /\ Booked(id) /\ Unlinked(id) /\ SetState(id, "pulled")
        /\ UNCHANGED <<wakeups, done, mm>>
    BY <1>9 DEF Cancel
  <2>2. ToSet(buys') \subseteq ToSet(buys) /\ ToSet(sells') \subseteq ToSet(sells)
    BY <1>1, <2>1, BuySellUnlinked
  <2>3. \A i \in Ids : order'[i].price = order[i].price
    BY <1>1, <2>1, SetStateFacts DEF OrderStates
  <2> QED
    BY <1>1, <1>2, <2>1, <2>2, <2>3, NoNewMatch
<1>10. ASSUME SemWait \/ Wake \/ Exit \/ StartTrade \/ CreditSeller \/ DeliverUnits
              \/ RefundBuyer \/ SendBought \/ SendSold \/ Relock \/ ReapSell \/ ReapBuy
       PROVE  NoLostMatch'
  <2>1. mm'.pc # "sleep"
    BY <1>1, <1>10, MMStepFacts, TradeFacts
       DEF SemWait, Wake, Exit, CreditSeller, DeliverUnits, RefundBuyer, SendBought, SendSold,
           Relock, ReapSell, ReapBuy, NoTrade
  <2> QED
    BY <2>1 DEF NoLostMatch
<1>11. ASSUME Sleep
       PROVE  NoLostMatch'
  BY <1>3, <1>11 DEF Sleep, NoLostMatch
<1>12. ASSUME Fini
       PROVE  NoLostMatch'
  BY <1>12 DEF Fini, NoLostMatch
<1>13. ASSUME UNCHANGED vars
       PROVE  NoLostMatch'
  BY <1>1, <1>3, <1>13, NoNewMatch DEF vars
<1> QED
  BY <1>4, <1>5, <1>6, <1>7, <1>8, <1>9, <1>10, <1>11, <1>12, <1>13
     DEF Next, Step, Stopped, Request, Serve, Session, Match

-----------------------------------------------------------------------------
(* The invariant and what it says.                                         *)

\* Initially the book is empty and every thread at rest.
LEMMA InvInit == Init => Inv
<1> SUFFICES ASSUME Init
             PROVE  Inv
  OBVIOUS
<1>1. TypeOK /\ Control
  BY TypeInit, ControlInit
<1>2. order = <<>> /\ buys = <<>> /\ sells = <<>>
  BY DEF Init
<1>3. DOMAIN buys = {} /\ DOMAIN sells = {} /\ Ids = {}
  BY <1>2 DEF Ids
<1>4. BookInOrder
  BY <1>3 DEF BookInOrder, Lists, Ascending, ToSet
<1>5. NoLostMatch
  BY <1>2 DEF NoLostMatch, Crossed
<1> QED
  BY <1>1, <1>4, <1>5 DEF Inv, Control

\* Every step of the server, and every step that changes nothing, keeps the
\* invariant.
LEMMA InvStep == Inv /\ [Next]_vars => Inv'
<1> SUFFICES ASSUME Inv, Next \/ UNCHANGED vars
             PROVE  Inv'
  OBVIOUS
<1>1. CASE Next
  <2>1. TypeOK'
    BY <1>1, TypeStep DEF Inv
  <2>2. Control' /\ BookInOrder'
    BY <1>1, ControlStep, BookStep DEF Inv, Control
  <2>3. NoLostMatch'
    BY <1>1, <2>1, LostMatchStep
  <2> QED
    BY <2>1, <2>2, <2>3 DEF Inv, Control
<1>2. CASE UNCHANGED vars
  BY <1>2 DEF vars, accounts, book, threads, history, Inv, TypeOK, ThreadInv, Holds, MutexInv,
              TradeInv, Trading, BookInOrder, Lists, Ascending, Booked, NoLostMatch, Crossed,
              PostedBeforeTraded, Ids
<1> QED
  BY <1>1, <1>2

\* In every state the server can reach, each service thread holds the order
\* it works on, the exchange mutex has one owner, the matchmaker's two orders
\* are a buy and a sell it has, and the book is in order: what the exchange
\* relies on whenever it lets go of its mutex between two looks at an order.
THEOREM InvHolds == Spec => []Inv
<1>1. Init => Inv
  BY InvInit
<1>2. Inv /\ [Next]_vars => Inv'
  BY InvStep
<1> QED
  BY <1>1, <1>2, PTL DEF Spec

\* Balances, inventories, quantities and prices are always 32-bit words and
\* the lists always hold order IDs, whatever clients ask for.
THEOREM TypesHold == Spec => []TypeOK
<1>1. Inv => TypeOK
  BY DEF Inv
<1> QED
  BY <1>1, InvHolds, PTL

\* The two lists of exchange.o hold exactly the posted orders, each once and
\* on its side, by ascending price: their ends are the best bid and ask.
THEOREM BookHolds == Spec => []BookInOrder
<1>1. Inv => BookInOrder
  BY DEF Inv
<1> QED
  BY <1>1, InvHolds, PTL

\* The matchmaker never sleeps on a match with no wakeup pending, although
\* it is woken only for an order that becomes the best of its side.
THEOREM MatchHolds == Spec => []NoLostMatch
<1>1. Inv => NoLostMatch
  BY DEF Inv
<1> QED
  BY <1>1, InvHolds, PTL

\* No order is traded before the thread that posted it has announced it.
THEOREM AnnouncedFirst == Spec => []PostedBeforeTraded
<1>1. Inv => PostedBeforeTraded
  BY DEF Inv
<1> QED
  BY <1>1, InvHolds, PTL

=============================================================================
