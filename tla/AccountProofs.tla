---------------------------- MODULE AccountProofs ----------------------------
(***************************************************************************)
(* The life of an order, and what the accounts keep of it: the references  *)
(* that free a trader's account at 0, the funds and the units; and, of all *)
(* of it, that the exchange implements the market.                         *)
(***************************************************************************)
EXTENDS ExchangeProofs, SumLemmas

\* The life of an order.
Follows(s, r) ==
  \/ r = s
  \/ s = "fresh"  /\ r \in {"ready", "refused"}
  \/ s = "ready"  /\ r = "booked"
  \/ s = "booked" /\ r \in {"pulled", "gone"}
  \/ s = "pulled" /\ r = "gone"

Terms(o) == <<o.kind, o.owner, o.price>>

\* An order keeps its kind, its owner and its price, its state moves forward
\* and its quantity changes by a trade it is part of; a new order is a request.
Progress ==
  /\ Ids \subseteq Ids'
  /\ \A i \in Ids :
       /\ Terms(order'[i]) = Terms(order[i]) /\ Follows(order[i].state, order'[i].state)
       /\ order'[i].qty # order[i].qty =>
            /\ mm.pc = "match" /\ mm'.pc = "credit" /\ i \in {mm'.buy, mm'.sell}
            /\ order[i].state = "booked" /\ order'[i].qty <= order[i].qty
  /\ \A i \in Ids' \ Ids : order'[i].state = "fresh" /\ order'[i].qty \in Quantities
                           /\ order'[i].price \in Prices /\ i \in 1..MaxOrders

\* A new order is the next one and leaves the others alone.
LEMMA NewOrderFacts ==
  ASSUME TypeOK, NEW t \in Traders, NEW kind \in {"buy", "sell"}, NEW q \in Quantities,
         NEW p \in Prices, NewOrder(t, kind, q, p)
  PROVE  LET n == Len(order) + 1 IN
         /\ Len(order) \in Nat /\ Len(order') = n
         /\ Ids' = Ids \cup {n} /\ n \notin Ids
         /\ order'[n] = [kind |-> kind, owner |-> t, qty |-> q, price |-> p, state |-> "fresh"]
         /\ \A i \in Ids : order'[i] = order[i]
<1> DEFINE o == [kind |-> kind, owner |-> t, qty |-> q, price |-> p, state |-> "fresh"]
<1>1. o \in Orders
  BY RequestWords DEF Orders, OrderStates
<1>2. order' = Append(order, o)
  BY DEF NewOrder
<1> HIDE DEF o
<1>3. /\ Len(order) \in Nat /\ Len(order') = Len(order) + 1 /\ order'[Len(order) + 1] = o
      /\ \A i \in Ids : order'[i] = order[i]
  BY <1>1, <1>2, AppendProperties, LenProperties DEF TypeOK, Ids
<1>4. Ids' = Ids \cup {Len(order) + 1} /\ Len(order) + 1 \notin Ids
  BY <1>3 DEF Ids
<1> QED
  BY <1>3, <1>4 DEF o

LEMMA OrdersProgress ==
  ASSUME Inv, Next
  PROVE  Progress
<1>1. TypeOK /\ ThreadInv /\ TradeInv /\ BookInOrder
  BY DEF Inv
<1>2. CASE UNCHANGED order
  BY <1>2 DEF Ids, Progress, Follows
<1>3. ASSUME NEW t \in Traders, NEW kind \in {"buy", "sell"}, NEW q \in Quantities, NEW p \in Prices,
             NewOrder(t, kind, q, p)
      PROVE  Progress
  <2> DEFINE n == Len(order) + 1
             o == [kind |-> kind, owner |-> t, qty |-> q, price |-> p, state |-> "fresh"]
  <2>1. Ids' = Ids \cup {n} /\ order'[n] = o /\ \A i \in Ids : order'[i] = order[i]
    BY <1>1, <1>3, NewOrderFacts
  <2>2. o.state = "fresh" /\ o.qty \in Quantities /\ o.price \in Prices
    OBVIOUS
  <2>3. n \in 1..MaxOrders
    BY <1>1, <1>3, LenProperties, WordAssumption DEF NewOrder, TypeOK
  <2> HIDE DEF n, o
  <2> QED
    BY <2>1, <2>2, <2>3 DEF Progress, Follows
<1>4. ASSUME NEW id \in Ids, NEW s \in OrderStates, SetState(id, s), Follows(order[id].state, s)
      PROVE  Progress
  BY <1>1, <1>4, SetStateFacts DEF Progress, Follows, Terms, Ids
<1>5. ASSUME NEW t \in Traders, Reserve(t) \/ InsertBuy(t) \/ InsertSell(t) \/ FreeCanceled(t)
      PROVE  Progress
  <2>1. PICK s \in {"ready", "refused", "booked", "gone"} :
             /\ SetState(cur[t], s)
             /\ \/ pc[t] = "reserve" /\ s \in {"ready", "refused"}
                \/ pc[t] = "insert" /\ s = "booked"
                \/ pc[t] = "release" /\ s = "gone"
    BY <1>5 DEF Reserve, InsertBuy, InsertSell, FreeCanceled
  <2>2. cur[t] \in Ids /\ Follows(order[cur[t]].state, s) /\ s \in OrderStates
    BY <1>1, <2>1 DEF ThreadInv, Holds, Follows, OrderStates
  <2> QED
    BY <1>4, <2>1, <2>2
<1>6. ASSUME NEW t \in Traders, NEW id \in 1..MaxOrders, Cancel(t, id)
      PROVE  Progress
  BY <1>4, <1>6 DEF Cancel, Booked, Follows, OrderStates
<1>7. CASE StartTrade
  <2>1. \A i \in {mm'.buy, mm'.sell} : i \in Ids /\ Booked(i)
    BY <1>1, <1>7, TradeFacts, EndsOfBook DEF StartTrade
  <2>2. mm'.qty \in Nat
    BY <1>1, <1>7, TradeFacts DEF MMLocals, Word
  <2>3. \A i \in Ids : order[i].qty \in Int
    BY <1>1, ElementOfSeq, OrderFields, WordInt DEF TypeOK, Ids
  <2>4. \A i \in {mm'.buy, mm'.sell} : order'[i].qty <= order[i].qty
    BY <1>1, <1>7, <2>1, <2>2, <2>3, TradeFacts
  <2>5. mm.pc = "match"
    BY <1>7 DEF StartTrade
  <2> QED
    BY <1>1, <1>7, <2>1, <2>4, <2>5, TradeFacts DEF Progress, Follows, Terms, Ids, Booked
<1>8. CASE ReapSell \/ ReapBuy
  <2>1. PICK id \in Ids : Reap(id)
    BY <1>1, <1>8 DEF ReapSell, ReapBuy, MMStep, TradeInv, Trading
  <2> QED
    BY <1>1, <2>1, ReapFacts DEF Progress, Follows, Terms, Ids
<1>9. CASE Stopped \/ Fini
  BY <1>2, <1>9 DEF Stopped, Fini, vars, book
<1>10. CASE SemWait \/ Wake \/ Exit \/ CreditSeller \/ DeliverUnits \/ RefundBuyer \/ SendBought
            \/ SendSold \/ Relock \/ Sleep
  BY <1>2, <1>10 DEF SemWait, Wake, Exit, CreditSeller, DeliverUnits, RefundBuyer, SendBought,
     SendSold, SendTo, Relock, Sleep, book
<1>11. ASSUME NEW t \in Traders, Announce(t) \/ ReadId(t) \/ Reply(t) \/ Session(t) \/ Status(t)
       PROVE  Progress
  BY <1>2, <1>11 DEF Announce, ReadId, Reply, Session, Logout, Login, LoginRefused, Status, book
<1>12. ASSUME NEW t \in Traders,
              \/ \E n \in Deposits : Deposit(t, n) \/ Withdraw(t, n)
              \/ \E n \in Escrows : Escrow(t, n) \/ Release(t, n)
              \/ \E id \in 1..MaxOrders : CancelRefused(t, id)
       PROVE  Progress
  BY <1>2, <1>12 DEF Deposit, Withdraw, Escrow, Release, CancelRefused, book
<1>13. ASSUME NEW t \in Traders, Request(t)
       PROVE  Progress
  BY <1>3, <1>6, <1>11, <1>12, <1>13 DEF Request
<1>14. ASSUME NEW t \in Traders, Serve(t)
       PROVE  Progress
  BY <1>5, <1>11, <1>14 DEF Serve
<1>15. CASE Match
  BY <1>7, <1>8, <1>10, <1>15 DEF Match
<1> QED
  BY <1>9, <1>11, <1>13, <1>14, <1>15 DEF Next, Step

-----------------------------------------------------------------------------
(* trader_ref and trader_unref.                                            *)

\* The live orders of a trader are finitely many.
LEMMA LiveFinite ==
  ASSUME TypeOK, NEW t \in Traders
  PROVE  IsFiniteSet(LiveOf(t)) /\ Cardinality(LiveOf(t)) \in Nat
<1>1. IsFiniteSet(Ids)
  BY LenProperties, FS_Interval DEF TypeOK, Ids
<1>2. LiveOf(t) \in SUBSET Ids
  BY DEF LiveOf, Pending
<1>3. IsFiniteSet(LiveOf(t))
  BY <1>1, <1>2, FS_Subset
<1> QED
  BY <1>3, FS_CardinalityType

\* A step that changes the state of one order adds it to its owner's live
\* orders or removes it from them.
LEMMA LiveMoves ==
  ASSUME TypeOK, NEW id \in Ids, NEW s \in OrderStates, SetState(id, s), NEW t \in Traders
  PROVE  LiveOf(t)' = IF order[id].owner = t /\ s \in {"ready", "booked", "pulled"}
                      THEN LiveOf(t) \cup {id} ELSE LiveOf(t) \ {id}
BY SetStateFacts DEF LiveOf, Pending, Alive, Ids

\* A step that changes no order's state, or only adds a new order, does not.
LEMMA LiveStays ==
  ASSUME Ids \subseteq Ids', NEW t \in Traders,
         \A i \in Ids : order'[i].owner = order[i].owner /\ order'[i].state = order[i].state,
         \A i \in Ids' \ Ids : order'[i].state = "fresh"
  PROVE  LiveOf(t)' = LiveOf(t)
BY DEF LiveOf, Pending, Alive

\* What a trader's count should be.
Sessions(t) == (IF pc[t] = "closed" THEN 1 ELSE 2) + refused[t]
RefsOf(t)   == Sessions(t) + Cardinality(LiveOf(t))

\* A service thread leaves its session only by a logout.
LEMMA SessionStays ==
  ASSUME TypeOK, NEW t \in Traders, NEW label, label # "closed", pc[t] # "closed", GoTo(t, label),
         UNCHANGED refused
  PROVE  \A u \in Traders : Sessions(u)' = Sessions(u)
BY GoToFacts DEF Sessions

LEMMA RefsFrame ==
  ASSUME RefsExact, ~undef, UNCHANGED ref,
         \A u \in Traders : Sessions(u)' = Sessions(u) /\ LiveOf(u)' = LiveOf(u)
  PROVE  RefsExact'
BY DEF RefsExact, Sessions, LiveOf

\* One more live order, or one less, is one more reference, or one less.
LEMMA RefsMove ==
  ASSUME TypeOK, RefsExact, ~undef, NEW t \in Traders, NEW id \in Ids, order[id].owner = t,
         NEW s \in OrderStates, SetState(id, s),
         \A u \in Traders : Sessions(u)' = Sessions(u),
         \/ ~Alive(id) /\ s = "ready" /\ ref' = [ref EXCEPT ![t] = @ + 1]
         \/ Alive(id) /\ s = "gone" /\ ref' = Unref(t)
  PROVE  RefsExact'
<1>1. SUFFICES ASSUME NEW u \in Traders
               PROVE  ref'[u] = Sessions(u)' + Cardinality(LiveOf(u)')
  BY DEF RefsExact, Sessions, LiveOf
<1>2. ref \in [Traders -> Int] /\ ref[u] = Sessions(u) + Cardinality(LiveOf(u))
  BY DEF TypeOK, RefsExact, Sessions, LiveOf
<1>3. IsFiniteSet(LiveOf(u)) /\ Cardinality(LiveOf(u)) \in Nat /\ Sessions(u) \in Int
  BY LiveFinite DEF Sessions, TypeOK
<1>4. CASE u = t /\ s = "ready" /\ ~Alive(id) /\ ref' = [ref EXCEPT ![t] = @ + 1]
  <2>1. LiveOf(u)' = LiveOf(u) \cup {id} /\ id \notin LiveOf(u)
    BY <1>4, LiveMoves DEF LiveOf, Pending
  <2>2. Cardinality(LiveOf(u)') = Cardinality(LiveOf(u)) + 1
    BY <1>3, <2>1, FS_AddElement
  <2> QED
    BY <1>2, <1>3, <1>4, <2>2
<1>5. CASE u = t /\ s = "gone" /\ Alive(id) /\ ref' = Unref(t)
  <2>1. LiveOf(u)' = LiveOf(u) \ {id} /\ id \in LiveOf(u)
    BY <1>5, LiveMoves DEF LiveOf, Pending
  <2>2. Cardinality(LiveOf(u)') = Cardinality(LiveOf(u)) - 1
    BY <1>3, <2>1, FS_RemoveElement
  <2> QED
    BY <1>2, <1>3, <1>5, <2>2 DEF Unref
<1>6. CASE u # t
  <2>1. LiveOf(u)' = LiveOf(u)
    BY <1>6, LiveMoves DEF LiveOf
  <2>2. ref'[u] = ref[u]
    BY <1>2, <1>6 DEF Unref
  <2> QED
    BY <1>2, <2>1, <2>2
<1> QED
  BY <1>4, <1>5, <1>6

LEMMA RefsStep ==
  ASSUME Inv, RefsExact, Next
  PROVE  RefsExact'
<1>1. TypeOK /\ ThreadInv /\ TradeInv /\ BookInOrder
  BY DEF Inv
<1>2. CASE Stopped
  BY <1>2 DEF Stopped, vars, accounts, book, threads, history, RefsExact, Pending, Alive, Ids
<1>3. SUFFICES ASSUME ~undef, Step
               PROVE  RefsExact'
  BY <1>2 DEF Next, Step
<1>4. ASSUME UNCHANGED order
      PROVE  \A u \in Traders : LiveOf(u)' = LiveOf(u)
  BY <1>4, LiveStays DEF Ids
<1>5. ASSUME NEW t \in Traders, NEW label, label # "closed", pc[t] # "closed", GoTo(t, label),
             UNCHANGED <<ref, order, refused>>
      PROVE  RefsExact'
  BY <1>1, <1>3, <1>4, <1>5, SessionStays, RefsFrame
<1>6. ASSUME UNCHANGED <<ref, order, pc, refused>>
      PROVE  RefsExact'
  BY <1>3, <1>4, <1>6, RefsFrame DEF Sessions
<1>7. ASSUME NEW t \in Traders, Request(t)
      PROVE  RefsExact'
  <2>1. CASE \/ Status(t)
             \/ \E n \in Deposits : Deposit(t, n) \/ Withdraw(t, n)
             \/ \E n \in Escrows : Escrow(t, n) \/ Release(t, n)
             \/ \E id \in 1..MaxOrders : CancelRefused(t, id)
    <3>1. pc[t] = "idle" /\ GoTo(t, "reply") /\ UNCHANGED <<ref, order, refused>>
      BY <2>1 DEF Status, Deposit, Withdraw, Escrow, Release, CancelRefused, accounts, book, history
    <3> QED
      BY <1>5, <3>1
  <2>2. ASSUME NEW kind \in {"buy", "sell"}, NEW q \in Quantities, NEW p \in Prices,
               NewOrder(t, kind, q, p)
        PROVE  RefsExact'
    <3>1. \A u \in Traders : LiveOf(u)' = LiveOf(u)
      <4>1. Progress /\ \A i \in Ids : order'[i] = order[i]
        BY <1>1, <1>3, <1>7, <2>2, NewOrderFacts, OrdersProgress DEF Next, Step
      <4> QED
        BY <4>1, LiveStays DEF Progress
    <3>2. UNCHANGED ref /\ \A u \in Traders : Sessions(u)' = Sessions(u)
      BY <1>1, <2>2, SessionStays DEF NewOrder, accounts, history
    <3> QED
      BY <1>3, <3>1, <3>2, RefsFrame
  <2>3. ASSUME NEW id \in 1..MaxOrders, Cancel(t, id)
        PROVE  RefsExact'
    <3>1. id \in Ids /\ Booked(id) /\ order[id].owner = t /\ SetState(id, "pulled")
          /\ "pulled" \in OrderStates
      BY <2>3 DEF Cancel, OrderStates
    <3>2. \A u \in Traders : LiveOf(u)' = LiveOf(u)
      BY <1>1, <3>1, LiveMoves DEF LiveOf, Pending, Alive, Booked
    <3>3. UNCHANGED ref /\ \A u \in Traders : Sessions(u)' = Sessions(u)
      BY <1>1, <2>3, SessionStays DEF Cancel, accounts, history
    <3> QED
      BY <1>3, <3>2, <3>3, RefsFrame
  <2> QED
    BY <1>7, <2>1, <2>2, <2>3 DEF Request
<1>8. ASSUME NEW t \in Traders, Serve(t)
      PROVE  RefsExact'
  <2>1. CASE Announce(t) \/ ReadId(t) \/ Reply(t)
    BY <1>5, <2>1 DEF Announce, ReadId, Reply, accounts, book, history
  <2>2. CASE Reserve(t)
    <3>1. cur[t] \in Ids /\ order[cur[t]].owner = t /\ order[cur[t]].state = "fresh"
      BY <1>1, <2>2 DEF Reserve, ThreadInv, Holds
    <3>2. \A u \in Traders : Sessions(u)' = Sessions(u)
      BY <1>1, <2>2, SessionStays DEF Reserve, history
    <3>3. CASE SetState(cur[t], "ready") /\ ref' = [ref EXCEPT ![t] = @ + 1]
      BY <1>1, <1>3, <3>1, <3>2, <3>3, RefsMove DEF OrderStates, Alive
    <3>4. CASE SetState(cur[t], "refused") /\ UNCHANGED ref
      <4>1. \A u \in Traders : LiveOf(u)' = LiveOf(u)
        BY <1>1, <3>1, <3>4, LiveMoves DEF LiveOf, Pending, Alive, OrderStates
      <4> QED
        BY <1>3, <3>2, <3>4, <4>1, RefsFrame
    <3> QED
      BY <2>2, <3>3, <3>4 DEF Reserve, accounts
  <2>3. CASE InsertBuy(t) \/ InsertSell(t)
    <3>1. pc[t] = "insert" /\ GoTo(t, "announce") /\ SetState(cur[t], "booked") /\ UNCHANGED <<ref, refused>>
      BY <2>3 DEF InsertBuy, InsertSell, accounts, history
    <3>2. cur[t] \in Ids /\ order[cur[t]].owner = t /\ order[cur[t]].state = "ready"
      BY <1>1, <3>1 DEF ThreadInv, Holds
    <3>3. \A u \in Traders : LiveOf(u)' = LiveOf(u)
      BY <1>1, <3>1, <3>2, LiveMoves DEF LiveOf, Pending, Alive, OrderStates
    <3> QED
      BY <1>1, <1>3, <3>1, <3>3, SessionStays, RefsFrame
  <2>4. CASE FreeCanceled(t)
    <3>1. cur[t] \in Ids /\ order[cur[t]].owner = t /\ order[cur[t]].state = "pulled"
      BY <1>1, <2>4 DEF FreeCanceled, ThreadInv, Holds
    <3>2. /\ \A u \in Traders : Sessions(u)' = Sessions(u)
          /\ SetState(cur[t], "gone") /\ ref' = Unref(t)
      BY <1>1, <2>4, SessionStays DEF FreeCanceled, history
    <3> QED
      BY <1>1, <1>3, <3>1, <3>2, RefsMove DEF OrderStates, Alive
  <2> QED
    BY <1>8, <2>1, <2>2, <2>3, <2>4 DEF Serve
<1>9. ASSUME NEW t \in Traders, Session(t)
      PROVE  RefsExact'
  <2>1. /\ UNCHANGED order
        /\ \/ /\ pc[t] = "idle" /\ GoTo(t, "closed") /\ ref' = [ref EXCEPT ![t] = @ - 1]
              /\ UNCHANGED refused
           \/ /\ pc[t] = "closed" /\ GoTo(t, "idle") /\ ref' = [ref EXCEPT ![t] = @ + 1]
              /\ UNCHANGED refused
           \/ /\ refused' = [refused EXCEPT ![t] = @ + 1] /\ ref' = [ref EXCEPT ![t] = @ + 1]
              /\ UNCHANGED pc
    BY <1>9 DEF Session, Logout, Login, LoginRefused, Relogin, Unref, book, threads, history
  <2>2. \A u \in Traders : LiveOf(u)' = LiveOf(u) /\ Cardinality(LiveOf(u)) \in Nat
    BY <1>1, <1>4, <2>1, LiveFinite
  <2>3. \A u \in Traders : ref[u] = Sessions(u) + Cardinality(LiveOf(u)) /\ ref[u] \in Int
    BY <1>1, <1>3 DEF RefsExact, Sessions, LiveOf, TypeOK
  <2>4. \A u \in Traders : ref'[u] = Sessions(u)' + Cardinality(LiveOf(u)')
    <3>1. ref \in [Traders -> Int] /\ refused \in [Traders -> Nat]
      BY <1>1 DEF TypeOK
    <3>2. CASE /\ pc[t] = "idle" /\ GoTo(t, "closed") /\ ref' = [ref EXCEPT ![t] = @ - 1]
               /\ UNCHANGED refused
      <4>1. \A u \in Traders : Sessions(u)' = IF u = t THEN Sessions(u) - 1 ELSE Sessions(u)
        BY <1>1, <3>1, <3>2, GoToFacts DEF Sessions
      <4> QED
        BY <2>2, <2>3, <3>1, <3>2, <4>1 DEF Sessions
    <3>3. CASE /\ pc[t] = "closed" /\ GoTo(t, "idle") /\ ref' = [ref EXCEPT ![t] = @ + 1]
               /\ UNCHANGED refused
      <4>1. \A u \in Traders : Sessions(u)' = IF u = t THEN Sessions(u) + 1 ELSE Sessions(u)
        BY <1>1, <3>1, <3>3, GoToFacts DEF Sessions
      <4> QED
        BY <2>2, <2>3, <3>1, <3>3, <4>1 DEF Sessions
    <3>4. CASE /\ refused' = [refused EXCEPT ![t] = @ + 1] /\ ref' = [ref EXCEPT ![t] = @ + 1]
               /\ UNCHANGED pc
      <4>1. \A u \in Traders : Sessions(u)' = IF u = t THEN Sessions(u) + 1 ELSE Sessions(u)
        BY <3>1, <3>4 DEF Sessions
      <4> QED
        BY <2>2, <2>3, <3>1, <3>4, <4>1 DEF Sessions
    <3> QED
      BY <2>1, <3>2, <3>3, <3>4
  <2> QED
    BY <2>4 DEF RefsExact, Sessions, LiveOf
<1>10. CASE Fini
  BY <1>6, <1>10 DEF Fini, accounts, book, threads, history
<1>11. CASE Match
  <2>1. CASE SemWait \/ Wake \/ Exit \/ CreditSeller \/ DeliverUnits \/ RefundBuyer \/ SendBought
             \/ SendSold \/ Relock \/ Sleep
    BY <1>6, <2>1 DEF SemWait, Wake, Exit, CreditSeller, DeliverUnits, RefundBuyer, SendBought,
       SendSold, SendTo, Relock, Sleep, accounts, book, threads, history
  <2>2. CASE StartTrade
    <3>1. \A u \in Traders : LiveOf(u)' = LiveOf(u)
      BY <1>1, <2>2, TradeFacts, LiveStays DEF Ids
    <3> QED
      BY <1>3, <2>2, <3>1, RefsFrame DEF StartTrade, accounts, threads, history, Sessions
  <2>3. CASE ReapSell \/ ReapBuy
    <3>1. PICK id \in Ids : Reap(id)
      BY <1>1, <2>3 DEF ReapSell, ReapBuy, MMStep, TradeInv, Trading
    <3>2. UNCHANGED <<pc, refused>>
      BY <3>1 DEF Reap, threads, history
    <3>3. CASE Cleared(id)
      <4>1. order[id].owner \in Traders
        BY <1>1, ElementOfSeq, OrderFields DEF TypeOK, Ids
      <4>2. /\ SetState(id, "gone") /\ "gone" \in OrderStates /\ Alive(id)
            /\ ref' = Unref(order[id].owner)
            /\ \A u \in Traders : Sessions(u)' = Sessions(u)
        BY <3>2, <3>3 DEF Cleared, OrderStates, Booked, Alive, Sessions
      <4> QED
        BY <1>1, <1>3, <4>1, <4>2, RefsMove
    <3>4. CASE Kept(id)
      BY <1>6, <3>2, <3>4 DEF Kept, book
    <3>5. CASE ClearedTwice(id)
      BY <3>5 DEF ClearedTwice, RefsExact
    <3> QED
      BY <3>1, <3>3, <3>4, <3>5 DEF Reap
  <2> QED
    BY <1>11, <2>1, <2>2, <2>3 DEF Match
<1> QED
  BY <1>3, <1>7, <1>8, <1>9, <1>10, <1>11 DEF Step

\* A trader's reference count is the map, its session, its live orders and
\* the logins refused to its name, whose references nobody drops, however
\* posts, cancels, trades, logouts and logins interleave: no order is left
\* with a trader that has been freed, and no freed order keeps one.
THEOREM RefsHold == Spec => []RefsExact
<1>1. Init => RefsExact
  <2> SUFFICES ASSUME Init, NEW t \in Traders
               PROVE  /\ ref[t] = 2 /\ {id \in Pending : order[id].owner = t} = {}
                      /\ pc[t] = "idle" /\ refused[t] = 0
    BY FS_EmptySet DEF RefsExact
  <2>1. Len(order) = 0
    BY EmptySeq DEF Init
  <2> QED
    BY <2>1 DEF Init, Pending, Ids
<1>2. Inv /\ RefsExact /\ [Next]_vars => RefsExact'
  <2>1. ASSUME RefsExact, UNCHANGED vars
        PROVE  RefsExact'
    BY <2>1 DEF vars, accounts, book, threads, history, RefsExact, Pending, Alive, Ids
  <2> QED
    BY <2>1, RefsStep
<1> QED
  BY <1>1, <1>2, InvHolds, PTL DEF Spec

-----------------------------------------------------------------------------
(* Orders used up by a trade.                                              *)

\* SpentOrdersLeave, with the orders that are on their way to the book: none
\* of them comes there with a quantity of 0.
SpentInv ==
  /\ SpentOrdersLeave
  /\ \A id \in Ids : order[id].state \in {"fresh", "ready"} => order[id].qty # 0

\* A step that leaves the matchmaker at the same trade, before it removes the
\* sell order, or removes none.
LEMMA SpentFrame ==
  ASSUME SpentInv, Progress, 0 \notin Quantities, ~undef,
         ~ (mm.pc = "match" /\ mm'.pc = "credit"),
         Trading => Trading' /\ mm'.buy = mm.buy /\ mm'.sell = mm.sell,
         mm'.pc = "reapbuy" => mm.pc = "reapbuy"
  PROVE  SpentInv'
<1>1. ASSUME NEW id \in Ids', order'[id].state \in {"fresh", "ready"}
      PROVE  order'[id].qty # 0
  BY <1>1 DEF Progress, Follows, SpentInv
<1>2. ASSUME NEW id \in Ids', Booked(id)', order'[id].qty = 0
      PROVE  Trading' /\ id \in {mm'.buy, mm'.sell} /\ (mm'.pc = "reapbuy" => id = mm'.buy)
  <2>1. id \in Ids /\ order[id].qty = 0 /\ order[id].state \in {"booked", "ready"}
    BY <1>2 DEF Progress, Follows, Booked
  <2>2. Booked(id)
    BY <2>1 DEF SpentInv, Booked
  <2> QED
    BY <2>1, <2>2 DEF SpentInv, SpentOrdersLeave
<1> QED
  BY <1>1, <1>2 DEF SpentInv, SpentOrdersLeave

\* The matchmaker unlinks an order of its trade that is used up.
LEMMA ReapRemoves ==
  ASSUME TypeOK, NEW id \in Ids, Reap(id), ~undef'
  PROVE  ~ (order'[id].state = "booked" /\ order'[id].qty = 0)
<1>1. CASE Cleared(id)
  BY <1>1, SetStateFacts DEF Cleared, OrderStates
<1>2. CASE Kept(id)
  BY <1>2 DEF Kept, book
<1> QED
  BY <1>1, <1>2 DEF Reap, ClearedTwice

LEMMA SpentStep ==
  ASSUME Inv, SpentInv, 0 \notin Quantities, Next
  PROVE  SpentInv'
<1>1. TypeOK /\ ThreadInv /\ TradeInv /\ BookInOrder
  BY DEF Inv
<1>2. CASE Stopped
  BY <1>2 DEF Stopped, vars, book, SpentInv, SpentOrdersLeave, Booked, Trading, Ids
<1>3. SUFFICES ASSUME ~undef, Step
               PROVE  SpentInv'
  BY <1>2 DEF Next, Step
<1>4. Progress
  BY <1>3, OrdersProgress DEF Next
<1>5. CASE UNCHANGED mm
  BY <1>3, <1>4, <1>5, SpentFrame DEF Trading
<1>6. ASSUME NEW from, NEW to, MMStep(from, to),
             <<from, to>> \in {<<"sleep", "woken">>, <<"woken", "match">>, <<"woken", "exited">>,
                               <<"credit", "deliver">>, <<"deliver", "refund">>, <<"refund", "bought">>,
                               <<"bought", "sold">>, <<"sold", "traded">>, <<"traded", "reapsell">>,
                               <<"match", "sleep">>}
      PROVE  SpentInv'
  BY <1>1, <1>3, <1>4, <1>6, SpentFrame, MMStepFacts DEF Trading
<1>7. CASE StartTrade
  <2>1. mm.pc = "match" /\ mm'.pc = "credit"
    BY <1>1, <1>7, TradeFacts DEF StartTrade
  <2>2. ASSUME NEW id \in Ids', Booked(id)', order'[id].qty = 0
        PROVE  Trading' /\ id \in {mm'.buy, mm'.sell} /\ (mm'.pc = "reapbuy" => id = mm'.buy)
    <3>1. id \in Ids /\ order[id].qty # 0
      BY <1>1, <1>3, <1>7, <2>1, <2>2, TradeFacts
         DEF SpentInv, SpentOrdersLeave, Booked, Trading, Ids
    <3> QED
      BY <1>1, <1>7, <2>1, <2>2, <3>1, TradeFacts DEF Trading
  <2>3. ASSUME NEW id \in Ids', order'[id].state \in {"fresh", "ready"}
        PROVE  order'[id].qty # 0
    <3>1. id \in Ids /\ order'[id].state = order[id].state
      BY <1>1, <1>7, TradeFacts DEF Ids
    <3>2. id \notin {mm'.buy, mm'.sell}
      BY <1>1, <1>7, <2>3, <3>1, TradeFacts, EndsOfBook DEF Booked, StartTrade
    <3> QED
      BY <1>1, <1>7, <2>3, <3>1, <3>2, TradeFacts DEF SpentInv
  <2> QED
    BY <2>2, <2>3 DEF SpentInv, SpentOrdersLeave
<1>8. CASE ReapSell \/ ReapBuy
  <2>1. PICK id \in {mm.buy, mm.sell} :
          /\ id \in Ids /\ Reap(id)
          /\ \/ id = mm.sell /\ mm.pc = "reapsell" /\ mm'.pc = "reapbuy" /\ mm'.buy = mm.buy
             \/ id = mm.buy /\ mm.pc = "reapbuy" /\ mm'.pc = "match"
    BY <1>1, <1>8, MMStepFacts DEF ReapSell, ReapBuy, NoTrade, MMStep, TradeInv, Trading
  <2>2. /\ Ids' = Ids
        /\ \A i \in Ids : /\ order'[i].qty = order[i].qty
                          /\ \/ order'[i].state = order[i].state
                             \/ order[i].state = "booked" /\ order'[i].state = "gone"
    BY <1>1, <2>1, ReapFacts DEF Ids
  <2>3. ASSUME NEW i \in Ids', ~undef', Booked(i)', order'[i].qty = 0
        PROVE  mm'.pc = "reapbuy" /\ i = mm'.buy
    <3>1. i # id
      BY <1>1, <2>1, <2>3, ReapRemoves DEF Booked
    <3>2. Booked(i) /\ order[i].qty = 0 /\ i \in Ids
      BY <2>2, <2>3 DEF Booked
    <3> QED
      BY <1>3, <2>1, <3>1, <3>2 DEF SpentInv, SpentOrdersLeave
  <2> QED
    BY <2>2, <2>3 DEF SpentInv, SpentOrdersLeave, Trading
<1>9. CASE Match
  BY <1>6, <1>7, <1>8, <1>9 DEF Match, SemWait, Wake, Exit, CreditSeller, DeliverUnits, RefundBuyer,
     SendBought, SendSold, Relock, Sleep
<1>10. ASSUME NEW t \in Traders, Request(t) \/ Serve(t) \/ Session(t)
       PROVE  UNCHANGED mm
  BY <1>10 DEF Request, Status, Deposit, Withdraw, Escrow, Release, NewOrder, Cancel, CancelRefused,
     Serve, Reserve, InsertBuy, InsertSell, Announce, ReadId, FreeCanceled, Reply, Session, Logout, Login, LoginRefused
<1>11. CASE Fini
  BY <1>5, <1>11 DEF Fini
<1> QED
  BY <1>3, <1>5, <1>9, <1>10, <1>11 DEF Step

\* An order used up by a trade leaves the book with that trade, as long as
\* clients ask for something: the trade that follows never picks it.
THEOREM SpentLeave ==
  ASSUME 0 \notin Quantities
  PROVE  Spec => []SpentOrdersLeave
<1>1. Init => SpentInv
  <2> SUFFICES ASSUME Init
               PROVE  Ids = {}
    BY DEF SpentInv, SpentOrdersLeave
  <2> QED
    BY EmptySeq DEF Init, Ids
<1>2. Inv /\ SpentInv /\ [Next]_vars => SpentInv'
  <2>1. ASSUME SpentInv, UNCHANGED vars
        PROVE  SpentInv'
    BY <2>1 DEF vars, book, SpentInv, SpentOrdersLeave, Booked, Trading, Ids
  <2> QED
    BY <2>1, SpentStep
<1>3. SpentInv => SpentOrdersLeave
  BY DEF SpentInv
<1> QED
  BY <1>1, <1>2, <1>3, InvHolds, PTL DEF Spec

-----------------------------------------------------------------------------
(* Conservation: words.                                                    *)

\* A word is what is left of a number once whole multiples of the modulus are
\* taken off.
LEMMA WrapMultiple ==
  ASSUME NEW n \in Int
  PROVE  \E k \in Int : Wrap(n) = n + k * Modulus
<1>1. Modulus \in Int /\ Modulus > 0
  BY WordAssumption
<1>2. n = Modulus * (n \div Modulus) + (n % Modulus) /\ n \div Modulus \in Int
  BY <1>1
<1>3. Wrap(n) = n + (-(n \div Modulus)) * Modulus /\ -(n \div Modulus) \in Int
  BY <1>1, <1>2 DEF Wrap
<1> QED
  BY <1>3

\* Whole multiples of the modulus do not show in a word.
LEMMA WrapCongruent ==
  ASSUME NEW n \in Int, NEW k \in Int
  PROVE  Wrap(n + k * Modulus) = Wrap(n)
<1>1. Modulus \in Int /\ Modulus > 0
  BY WordAssumption
<1>2. ASSUME NEW m \in Int
      PROVE  \E q, r \in Int : m = Modulus * q + r /\ r = Wrap(m) /\ 0 <= r /\ r < Modulus
  <2>1. /\ m = Modulus * (m \div Modulus) + (m % Modulus) /\ m \div Modulus \in Int
        /\ m % Modulus \in Int /\ 0 <= m % Modulus /\ m % Modulus < Modulus
    BY <1>1
  <2> QED
    BY <2>1 DEF Wrap
<1>3. PICK q, r \in Int : n = Modulus * q + r /\ r = Wrap(n) /\ 0 <= r /\ r < Modulus
  BY <1>2
<1>4. n + k * Modulus \in Int
  BY <1>1
<1>5. PICK p, s \in Int : n + k * Modulus = Modulus * p + s /\ s = Wrap(n + k * Modulus)
                        /\ 0 <= s /\ s < Modulus
  BY <1>2, <1>4
<1> DEFINE j == p - q - k
<1>6. j \in Int /\ r - s = j * Modulus
  <2>1. Modulus * p \in Int /\ Modulus * q \in Int /\ k * Modulus \in Int
    BY <1>1
  <2>2. r - s = Modulus * p - Modulus * q - k * Modulus
    BY <1>3, <1>5, <2>1
  <2>3. (p - q - k) * Modulus = Modulus * p - Modulus * q - k * Modulus
    BY <1>1
  <2> QED
    BY <2>2, <2>3
<1> HIDE DEF j
<1>7. j >= 1 => j * Modulus >= Modulus
  BY <1>1, <1>6
<1>8. j <= -1 => j * Modulus <= -Modulus
  BY <1>1, <1>6
<1>9. j = 0
  <2>1. r - s < Modulus /\ r - s > -Modulus
    BY <1>1, <1>3, <1>5
  <2>2. ~ (j >= 1) /\ ~ (j <= -1)
    BY <1>1, <1>3, <1>5, <1>6, <1>7, <1>8, <2>1
  <2> QED
    BY <1>6, <2>2
<1>10. r = s
  <2>1. j * Modulus = 0
    BY <1>1, <1>9
  <2> QED
    BY <1>6, <2>1
<1> QED
  BY <1>3, <1>5, <1>10

\* Changing one account changes the sum of the accounts as much.
LEMMA AccountChange ==
  ASSUME NEW f \in [Traders -> Int], NEW g \in [Traders -> Int], NEW t \in Traders,
         \A u \in Traders \ {t} : f[u] = g[u]
  PROVE  SumFunction(g) = SumFunction(f) + (g[t] - f[t])
<1>1. IsFiniteSet(Traders) /\ Traders \in SUBSET Traders
  BY ThreadsAssumption
<1>2. SumFunctionOnSet(g, Traders) = SumFunctionOnSet(f, Traders) - f[t] + g[t]
  BY <1>1, SumChange
<1>3. SumFunctionOnSet(f, Traders) \in Int
  BY <1>1, SumInt
<1>4. SumFunction(f) = SumFunctionOnSet(f, Traders) /\ SumFunction(g) = SumFunctionOnSet(g, Traders)
  BY DEF SumFunction
<1>5. f[t] \in Int /\ g[t] \in Int
  OBVIOUS
<1> QED
  BY <1>2, <1>3, <1>4, <1>5

\* Crediting or debiting one account moves the sum of the accounts as much,
\* up to multiples of the word.
LEMMA AccountMoves ==
  ASSUME NEW f \in [Traders -> Word], NEW t \in Traders, NEW d \in Int
  PROVE  \E k \in Int : SumFunction([f EXCEPT ![t] = Wrap(@ + d)]) = SumFunction(f) + d + k * Modulus
<1> DEFINE g == [f EXCEPT ![t] = Wrap(@ + d)]
<1>1. f[t] \in Word
  OBVIOUS
<1>2. f[t] \in Int /\ f[t] + d \in Int
  <2>1. f[t] \in Int
    BY <1>1, WordInt, Zenon
  <2> QED
    BY <2>1
<1>3. Wrap(f[t] + d) \in Word
  BY <1>2, WrapWord
<1>4. PICK k \in Int : Wrap(f[t] + d) = f[t] + d + k * Modulus
  BY <1>2, WrapMultiple
<1>5. f \in [Traders -> Int]
  <2>1. \A u \in Traders : f[u] \in Int
    BY WordInt
  <2> QED
    BY <2>1
<1>6. g \in [Traders -> Word] /\ g[t] = Wrap(f[t] + d) /\ \A u \in Traders \ {t} : f[u] = g[u]
  BY <1>3
<1> HIDE DEF g
<1>7. g \in [Traders -> Int]
  BY <1>6, WordInt
<1>8. SumFunction(g) = SumFunction(f) + (g[t] - f[t])
  BY <1>5, <1>6, <1>7, AccountChange
<1>9. SumFunction(f) \in Int
  <2>1. IsFiniteSet(Traders) /\ Traders \in SUBSET Traders
    BY ThreadsAssumption
  <2> QED
    BY <1>5, <2>1, SumInt DEF SumFunction
<1>10. k * Modulus \in Int
  BY WordAssumption
<1>11. SumFunction(g) = SumFunction(f) + d + k * Modulus
  BY <1>2, <1>4, <1>6, <1>8, <1>9, <1>10
<1> QED
  BY <1>11 DEF g

LEMMA AccountsInt ==
  ASSUME NEW f \in [Traders -> Word]
  PROVE  SumFunction(f) \in Int
<1>1. f \in [Traders -> Int] /\ IsFiniteSet(Traders) /\ Traders \in SUBSET Traders
  BY WordInt, ThreadsAssumption
<1> QED
  BY <1>1, SumInt DEF SumFunction

-----------------------------------------------------------------------------
(* What the live orders encumber.                                          *)

Encumbered == SumFunctionOnSet(CostOf, Pending)
Offered    == SumFunctionOnSet(LotOf, Pending)

LEMMA Encumbrances ==
  TypeOK => /\ CostOf \in [Ids -> Int] /\ LotOf \in [Ids -> Int]
            /\ IsFiniteSet(Pending) /\ Pending \in SUBSET Ids
            /\ Encumbered \in Int /\ Offered \in Int
            /\ \A i \in Ids : Cost(order[i]) \in Word /\ Lot(order[i]) \in Word
<1> SUFFICES ASSUME TypeOK
             PROVE  /\ CostOf \in [Ids -> Int] /\ LotOf \in [Ids -> Int]
                    /\ IsFiniteSet(Pending) /\ Pending \in SUBSET Ids
                    /\ Encumbered \in Int /\ Offered \in Int
                    /\ \A i \in Ids : Cost(order[i]) \in Word /\ Lot(order[i]) \in Word
  OBVIOUS
<1>1. \A i \in Ids : Cost(order[i]) \in Word /\ Lot(order[i]) \in Word
  BY CostWord, ElementOfSeq DEF TypeOK, Ids
<1>2. CostOf \in [Ids -> Int] /\ LotOf \in [Ids -> Int]
  BY <1>1, WordInt DEF CostOf, LotOf
<1>3. IsFiniteSet(Ids)
  BY LenProperties, FS_Interval DEF TypeOK, Ids
<1>4. Pending \in SUBSET Ids
  BY DEF Pending
<1>5. IsFiniteSet(Pending)
  BY <1>3, <1>4, FS_Subset
<1>6. Encumbered \in Int /\ Offered \in Int
  BY <1>2, <1>4, <1>5, SumInt DEF Encumbered, Offered
<1> QED
  BY <1>1, <1>2, <1>4, <1>5, <1>6

\* Orders that keep their state or stay alive encumber what they did.
LEMMA EncumbranceStays ==
  ASSUME TypeOK, Ids \subseteq Ids', Pending' = Pending,
         \A i \in Ids : Cost(order'[i]) = Cost(order[i]) /\ Lot(order'[i]) = Lot(order[i])
  PROVE  Encumbered' = Encumbered /\ Offered' = Offered
<1>1. IsFiniteSet(Pending) /\ Pending \in SUBSET Ids
  BY Encumbrances
<1>2. \A i \in Pending : CostOf[i] = CostOf'[i] /\ LotOf[i] = LotOf'[i]
  BY <1>1 DEF CostOf, LotOf
<1>3. SumFunctionOnSet(CostOf, Pending) = SumFunctionOnSet(CostOf', Pending)
  BY <1>1, <1>2, SumSame
<1>4. SumFunctionOnSet(LotOf, Pending) = SumFunctionOnSet(LotOf', Pending)
  BY <1>1, <1>2, SumSame
<1> QED
  BY <1>3, <1>4 DEF Encumbered, Offered

\* A step that moves one order from a state to another.
LEMMA StateCosts ==
  ASSUME TypeOK, NEW id \in Ids, NEW s \in OrderStates, SetState(id, s)
  PROVE  /\ CostOf' = CostOf /\ LotOf' = LotOf
         /\ Pending' = IF s \in {"ready", "booked", "pulled"} THEN Pending \cup {id} ELSE Pending \ {id}
<1>1. /\ Ids' = Ids
      /\ \A i \in Ids : /\ order'[i].kind = order[i].kind /\ order'[i].price = order[i].price
                        /\ order'[i].qty = order[i].qty
                        /\ order'[i].state = IF i = id THEN s ELSE order[i].state
  BY SetStateFacts DEF Ids
<1>2. \A i \in Ids : Cost(order'[i]) = Cost(order[i]) /\ Lot(order'[i]) = Lot(order[i])
  BY <1>1 DEF Cost, Lot
<1>3. CostOf' = CostOf /\ LotOf' = LotOf
  BY <1>1, <1>2 DEF CostOf, LotOf
<1> QED
  BY <1>1, <1>3 DEF Pending, Alive

\* It is encumbered for from its reservation to its removal.
LEMMA EncumbranceAdds ==
  ASSUME TypeOK, NEW id \in Ids, SetState(id, "ready"), ~Alive(id)
  PROVE  /\ Encumbered' = Encumbered + Cost(order[id])
         /\ Offered' = Offered + Lot(order[id])
<1>1. "ready" \in OrderStates
  BY DEF OrderStates
<1>2. CostOf' = CostOf /\ LotOf' = LotOf /\ Pending' = Pending \cup {id}
  BY <1>1, StateCosts
<1>3. /\ CostOf \in [Ids -> Int] /\ LotOf \in [Ids -> Int]
      /\ IsFiniteSet(Pending) /\ Pending \in SUBSET Ids /\ id \notin Pending
      /\ Encumbered \in Int /\ Offered \in Int
  BY Encumbrances DEF Pending
<1>4. CostOf[id] = Cost(order[id]) /\ LotOf[id] = Lot(order[id])
  BY DEF CostOf, LotOf
<1>5. SumFunctionOnSet(CostOf, Pending \cup {id}) = CostOf[id] + SumFunctionOnSet(CostOf, Pending)
  BY <1>3, SumAdd
<1>6. SumFunctionOnSet(LotOf, Pending \cup {id}) = LotOf[id] + SumFunctionOnSet(LotOf, Pending)
  BY <1>3, SumAdd
<1>7. CostOf[id] \in Int /\ LotOf[id] \in Int
  BY <1>3
<1> QED
  BY <1>2, <1>3, <1>4, <1>5, <1>6, <1>7 DEF Encumbered, Offered

LEMMA EncumbranceDrops ==
  ASSUME TypeOK, NEW id \in Ids, SetState(id, "gone"), Alive(id)
  PROVE  /\ Encumbered' = Encumbered - Cost(order[id])
         /\ Offered' = Offered - Lot(order[id])
<1>1. "gone" \in OrderStates
  BY DEF OrderStates
<1>2. CostOf' = CostOf /\ LotOf' = LotOf /\ Pending' = Pending \ {id}
  BY <1>1, StateCosts
<1>3. /\ CostOf \in [Ids -> Int] /\ LotOf \in [Ids -> Int]
      /\ IsFiniteSet(Pending) /\ Pending \in SUBSET Ids /\ id \in Pending
      /\ Encumbered \in Int /\ Offered \in Int
  BY Encumbrances DEF Pending
<1>4. CostOf[id] = Cost(order[id]) /\ LotOf[id] = Lot(order[id])
  BY DEF CostOf, LotOf
<1>5. SumFunctionOnSet(CostOf, Pending) = CostOf[id] + SumFunctionOnSet(CostOf, Pending \ {id})
  BY <1>3, SumRemove
<1>6. SumFunctionOnSet(LotOf, Pending) = LotOf[id] + SumFunctionOnSet(LotOf, Pending \ {id})
  BY <1>3, SumRemove
<1>7. CostOf[id] \in Int /\ LotOf[id] \in Int
  BY <1>3
<1>8. /\ SumFunctionOnSet(CostOf, Pending \ {id}) \in Int
      /\ SumFunctionOnSet(LotOf, Pending \ {id}) \in Int
  <2>1. IsFiniteSet(Pending \ {id}) /\ Pending \ {id} \in SUBSET Ids
    BY <1>3, FS_Subset
  <2> QED
    BY <1>3, <2>1, SumInt
<1> QED
  BY <1>2, <1>3, <1>4, <1>5, <1>6, <1>7, <1>8 DEF Encumbered, Offered

\* An order that stays alive, or stays dead, encumbers what it did.
LEMMA EncumbranceKept ==
  ASSUME TypeOK, NEW id \in Ids, NEW s \in OrderStates, SetState(id, s),
         Alive(id) <=> s \in {"ready", "booked", "pulled"}
  PROVE  Encumbered' = Encumbered /\ Offered' = Offered
<1>1. CostOf' = CostOf /\ LotOf' = LotOf /\ Pending' = Pending
  BY StateCosts DEF Pending
<1> QED
  BY <1>1 DEF Encumbered, Offered

\* A trade takes its value off the buy order, up to multiples of the word, and
\* its quantity off the sell order.
LEMMA TradeCosts ==
  ASSUME TypeOK, BookInOrder, StartTrade
  PROVE  /\ \E k \in Int : Encumbered' = Encumbered - mm'.qty * order[mm'.buy].price + k * Modulus
         /\ Offered' = Offered - mm'.qty
<1> DEFINE b == mm'.buy
           s == mm'.sell
           q == mm'.qty
           p == order[b].price
<1>1. /\ Ids' = Ids
      /\ \A i \in Ids : /\ order'[i].kind = order[i].kind /\ order'[i].price = order[i].price
                        /\ order'[i].state = order[i].state
                        /\ order'[i].qty = IF i \in {b, s} THEN order[i].qty - q ELSE order[i].qty
      /\ order' \in Seq(Orders) /\ q \in Word
      /\ b = buys[Len(buys)] /\ s = sells[1]
  BY TradeFacts DEF Ids, MMLocals
<1>2. /\ b \in Ids /\ s \in Ids /\ b # s /\ Booked(b) /\ Booked(s)
      /\ order[b].kind = "buy" /\ order[s].kind = "sell"
  BY <1>1, EndsOfBook DEF StartTrade
<1> HIDE DEF b, s, q
<1>3. Pending' = Pending /\ b \in Pending /\ s \in Pending
  BY <1>1, <1>2 DEF Pending, Alive, Booked
<1>4. /\ CostOf \in [Ids -> Int] /\ LotOf \in [Ids -> Int]
      /\ IsFiniteSet(Pending) /\ Pending \in SUBSET Ids
      /\ Encumbered \in Int /\ Offered \in Int
  BY Encumbrances
<1>5. \A i \in Ids : Cost(order'[i]) \in Int /\ Lot(order'[i]) \in Int
  <2>1. \A i \in Ids : order'[i] \in Orders
    BY <1>1, ElementOfSeq DEF Ids
  <2> QED
    BY <2>1, CostWord, WordInt
<1>6. CostOf' \in [Ids -> Int] /\ LotOf' \in [Ids -> Int]
  BY <1>1, <1>5 DEF CostOf, LotOf
<1>7. /\ \A i \in Ids \ {b} : CostOf[i] = CostOf'[i]
      /\ \A i \in Ids \ {s} : LotOf[i] = LotOf'[i]
  BY <1>1, <1>2 DEF CostOf, LotOf, Cost, Lot
<1>8. Encumbered' = Encumbered - CostOf[b] + CostOf'[b]
  <2>1. SumFunctionOnSet(CostOf', Pending) = SumFunctionOnSet(CostOf, Pending) - CostOf[b] + CostOf'[b]
    BY <1>3, <1>4, <1>6, <1>7, SumChange
  <2> QED
    BY <1>3, <2>1 DEF Encumbered
<1>9. Offered' = Offered - LotOf[s] + LotOf'[s]
  <2>1. SumFunctionOnSet(LotOf', Pending) = SumFunctionOnSet(LotOf, Pending) - LotOf[s] + LotOf'[s]
    BY <1>3, <1>4, <1>6, <1>7, SumChange
  <2> QED
    BY <1>3, <2>1 DEF Offered
<1>10. order[b].qty \in Int /\ order[s].qty \in Int /\ q \in Int /\ p \in Int
  <2>1. order[b] \in Orders /\ order[s] \in Orders
    BY <1>2, ElementOfSeq DEF TypeOK, Ids
  <2> QED
    BY <1>1, <2>1, OrderFields, WordInt
<1>11. LotOf[s] = order[s].qty /\ LotOf'[s] = order[s].qty - q
  BY <1>1, <1>2 DEF LotOf, Lot
<1>12. CostOf[b] = Wrap(order[b].qty * p) /\ CostOf'[b] = Wrap((order[b].qty - q) * p)
  BY <1>1, <1>2 DEF CostOf, Cost
<1> HIDE DEF p
<1>13. /\ order[b].qty * p \in Int /\ (order[b].qty - q) * p \in Int /\ q * p \in Int
       /\ (order[b].qty - q) * p = order[b].qty * p - q * p
  BY <1>10
<1>14. PICK j \in Int : Wrap(order[b].qty * p) = order[b].qty * p + j * Modulus
  BY <1>13, WrapMultiple
<1>15. PICK k \in Int : Wrap((order[b].qty - q) * p) = (order[b].qty - q) * p + k * Modulus
  BY <1>13, WrapMultiple
<1>16. (k - j) * Modulus = k * Modulus - j * Modulus /\ k * Modulus \in Int /\ j * Modulus \in Int
  BY WordAssumption
<1>17. Encumbered' = Encumbered - q * p + (k - j) * Modulus
  BY <1>4, <1>8, <1>12, <1>13, <1>14, <1>15, <1>16
<1>18. Offered' = Offered - q
  BY <1>4, <1>9, <1>10, <1>11
<1> QED
  BY <1>17, <1>18 DEF b, q, p

-----------------------------------------------------------------------------
(* What there is: accounts, live orders and payments in flight.            *)

FundsTotal == SumFunction(balance) + Encumbered + FundsInFlight
UnitsTotal == SumFunction(inventory) + Offered + UnitsInFlight

LEMMA InFlightInt ==
  TypeOK /\ TradeInv =>
    /\ FundsInFlight \in Int /\ UnitsInFlight \in Int
    /\ mm.qty \in Int /\ mm.price \in Int
    /\ mm.pc \in {"credit", "deliver", "refund"} => mm.buy \in Ids /\ order[mm.buy].price \in Int
<1> SUFFICES ASSUME TypeOK, TradeInv
             PROVE  /\ FundsInFlight \in Int /\ UnitsInFlight \in Int
                    /\ mm.qty \in Int /\ mm.price \in Int
                    /\ mm.pc \in {"credit", "deliver", "refund"} =>
                         mm.buy \in Ids /\ order[mm.buy].price \in Int
  OBVIOUS
<1>1. mm.qty \in Int /\ mm.price \in Int
  BY WordInt DEF TypeOK, MMLocals
<1>2. mm.pc \in {"credit", "deliver", "refund"} => mm.buy \in Ids /\ order[mm.buy].price \in Int
  <2>1. \A i \in Ids : order[i].price \in Int
    BY ElementOfSeq, OrderFields, WordInt DEF TypeOK, Ids
  <2> QED
    BY <2>1 DEF TradeInv, Trading
<1> QED
  BY <1>1, <1>2 DEF FundsInFlight, UnitsInFlight

LEMMA TotalsInt ==
  TypeOK /\ TradeInv => FundsTotal \in Int /\ UnitsTotal \in Int
<1> SUFFICES ASSUME TypeOK, TradeInv
             PROVE  FundsTotal \in Int /\ UnitsTotal \in Int
  OBVIOUS
<1>1. FundsInFlight \in Int /\ UnitsInFlight \in Int /\ Encumbered \in Int /\ Offered \in Int
  BY InFlightInt, Encumbrances
<1>2. balance \in [Traders -> Word] /\ inventory \in [Traders -> Word]
  BY DEF TypeOK
<1>3. SumFunction(balance) \in Int /\ SumFunction(inventory) \in Int
  BY <1>2, AccountsInt
<1> QED
  BY <1>1, <1>3 DEF FundsTotal, UnitsTotal

LEMMA Totals ==
  /\ FundsConserved <=> (~undef => Wrap(FundsTotal) = funds)
  /\ UnitsConserved <=> (~undef => Wrap(UnitsTotal) = units)
BY DEF FundsConserved, UnitsConserved, FundsTotal, UnitsTotal, Encumbered, Offered, CostOf, LotOf

\* A word that follows a total keeps following it.
LEMMA WordFollows ==
  ASSUME NEW total \in Int, NEW d \in Int, NEW k \in Int
  PROVE  Wrap(total + d + k * Modulus) = Wrap(Wrap(total) + d)
<1>1. PICK j \in Int : Wrap(total) = total + j * Modulus
  BY WrapMultiple
<1>2. total + d \in Int /\ j * Modulus \in Int
  BY WordAssumption
<1>3. Wrap(total) + d = (total + d) + j * Modulus
  BY <1>1, <1>2
<1>4. Wrap((total + d) + j * Modulus) = Wrap(total + d) /\ Wrap((total + d) + k * Modulus) = Wrap(total + d)
  BY <1>2, WrapCongruent
<1> QED
  BY <1>3, <1>4

LEMMA FundsBy ==
  ASSUME TypeOK, TradeInv, ~undef, FundsConserved, NEW d \in Int, NEW k \in Int,
         FundsTotal' = FundsTotal + d + k * Modulus, funds' = Wrap(funds + d)
  PROVE  FundsConserved'
<1>1. Wrap(FundsTotal) = funds /\ FundsTotal \in Int
  BY Totals, TotalsInt
<1>2. Wrap(FundsTotal') = funds'
  BY <1>1, WordFollows
<1> QED
  BY <1>2 DEF FundsConserved, FundsTotal, Encumbered, CostOf

LEMMA UnitsBy ==
  ASSUME TypeOK, TradeInv, ~undef, UnitsConserved, NEW d \in Int, NEW k \in Int,
         UnitsTotal' = UnitsTotal + d + k * Modulus, units' = Wrap(units + d)
  PROVE  UnitsConserved'
<1>1. Wrap(UnitsTotal) = units /\ UnitsTotal \in Int
  BY Totals, TotalsInt
<1>2. Wrap(UnitsTotal') = units'
  BY <1>1, WordFollows
<1> QED
  BY <1>2 DEF UnitsConserved, UnitsTotal, Offered, LotOf

\* A step that changes nothing of the three sums.
LEMMA FundsFrame ==
  ASSUME FundsConserved, ~undef, UNCHANGED <<balance, funds>>, Encumbered' = Encumbered,
         FundsInFlight' = FundsInFlight
  PROVE  FundsConserved'
<1>1. Wrap(FundsTotal) = funds
  BY Totals
<1>2. FundsTotal' = FundsTotal
  BY DEF FundsTotal
<1>3. Wrap(FundsTotal') = funds'
  BY <1>1, <1>2
<1> QED
  BY <1>3 DEF FundsConserved, FundsTotal, Encumbered, CostOf

LEMMA UnitsFrame ==
  ASSUME UnitsConserved, ~undef, UNCHANGED <<inventory, units>>, Offered' = Offered,
         UnitsInFlight' = UnitsInFlight
  PROVE  UnitsConserved'
<1>1. Wrap(UnitsTotal) = units
  BY Totals
<1>2. UnitsTotal' = UnitsTotal
  BY DEF UnitsTotal
<1>3. Wrap(UnitsTotal') = units'
  BY <1>1, <1>2
<1> QED
  BY <1>3 DEF UnitsConserved, UnitsTotal, Offered, LotOf

\* Steps that leave the matchmaker where it is leave what it owes.
LEMMA InFlightStays ==
  ASSUME TradeInv, Progress, UNCHANGED mm
  PROVE  FundsInFlight' = FundsInFlight /\ UnitsInFlight' = UnitsInFlight
<1>1. mm.pc \in {"credit", "deliver", "refund"} =>
        mm.buy \in Ids /\ order'[mm.buy].price = order[mm.buy].price
  BY DEF TradeInv, Trading, Progress, Terms
<1> QED
  BY <1>1 DEF FundsInFlight, UnitsInFlight

\* So do its steps outside a trade.
LEMMA NothingInFlight ==
  ASSUME mm.pc \notin {"credit", "deliver", "refund"}, mm'.pc \notin {"credit", "deliver", "refund"}
  PROVE  FundsInFlight' = FundsInFlight /\ UnitsInFlight' = UnitsInFlight
BY DEF FundsInFlight, UnitsInFlight

\* Taking from an account what it has.
LEMMA Debited ==
  ASSUME NEW f \in [Traders -> Word], NEW t \in Traders, NEW n \in Word, f[t] >= n
  PROVE  SumFunction([f EXCEPT ![t] = @ - n]) = SumFunction(f) - n
<1> DEFINE g == [f EXCEPT ![t] = @ - n]
<1>1. f[t] \in Word
  OBVIOUS
<1>2. f[t] \in Int /\ n \in Int
  BY <1>1, WordInt, Zenon
<1>3. f \in [Traders -> Int]
  <2>1. \A u \in Traders : f[u] \in Int
    BY WordInt
  <2> QED
    BY <2>1
<1>4. g \in [Traders -> Int] /\ g[t] = f[t] - n /\ \A u \in Traders \ {t} : f[u] = g[u]
  BY <1>2, <1>3
<1> HIDE DEF g
<1>5. SumFunction(g) = SumFunction(f) + (g[t] - f[t])
  BY <1>3, <1>4, AccountChange
<1>6. SumFunction(f) \in Int
  BY AccountsInt
<1>7. SumFunction(g) = SumFunction(f) - n
  BY <1>2, <1>4, <1>5, <1>6
<1> QED
  BY <1>7 DEF g

-----------------------------------------------------------------------------
(* Steps.                                                                  *)

Conserved == FundsConserved /\ UnitsConserved

\* A step that leaves accounts, orders and matchmaker alone.
LEMMA ConservedFrame ==
  ASSUME Conserved, ~undef, UNCHANGED <<balance, inventory, funds, units>>,
         Encumbered' = Encumbered, Offered' = Offered,
         FundsInFlight' = FundsInFlight, UnitsInFlight' = UnitsInFlight
  PROVE  Conserved'
BY FundsFrame, UnitsFrame DEF Conserved

\* A trader's own requests.
LEMMA OwnAccountConserves ==
  ASSUME Inv, Conserved, ~undef, Progress, NEW t \in Traders, NEW n \in Word,
         Deposit(t, n) \/ Withdraw(t, n) \/ Escrow(t, n) \/ Release(t, n)
  PROVE  Conserved'
<1>1. TypeOK /\ TradeInv
  BY DEF Inv
<1>2. UNCHANGED <<order, mm>>
  BY DEF Deposit, Withdraw, Escrow, Release, book
<1>3. FundsInFlight' = FundsInFlight /\ UnitsInFlight' = UnitsInFlight
  BY <1>1, <1>2, InFlightStays
<1>4. Encumbered' = Encumbered /\ Offered' = Offered
  BY <1>2 DEF Encumbered, Offered, CostOf, LotOf, Pending, Alive, Ids
<1>5. /\ balance \in [Traders -> Word] /\ inventory \in [Traders -> Word]
      /\ FundsTotal \in Int /\ UnitsTotal \in Int
      /\ n \in Int /\ -n \in Int /\ 0 * Modulus = 0
      /\ SumFunction(balance) \in Int /\ SumFunction(inventory) \in Int
      /\ FundsInFlight \in Int /\ UnitsInFlight \in Int /\ Encumbered \in Int /\ Offered \in Int
      /\ funds \in Int /\ units \in Int
  <2>1. balance \in [Traders -> Word] /\ inventory \in [Traders -> Word]
    BY <1>1 DEF TypeOK
  <2>2. n \in Int /\ funds \in Int /\ units \in Int
    BY <1>1, WordInt DEF TypeOK
  <2>3. 0 * Modulus = 0 /\ -n \in Int
    BY <2>2, WordAssumption
  <2> QED
    BY <1>1, <2>1, <2>2, <2>3, TotalsInt, AccountsInt, InFlightInt, Encumbrances
<1>6. CASE Deposit(t, n)
  <2>1. /\ balance' = [balance EXCEPT ![t] = Wrap(@ + n)] /\ funds' = Wrap(funds + n)
        /\ UNCHANGED <<inventory, units>>
    BY <1>6 DEF Deposit
  <2>2. PICK k \in Int : SumFunction(balance') = SumFunction(balance) + n + k * Modulus
    BY <1>5, <2>1, AccountMoves
  <2>3. FundsTotal' = FundsTotal + n + k * Modulus
    <3>1. k * Modulus \in Int
      BY WordAssumption
    <3> QED
      BY <1>3, <1>4, <1>5, <2>2, <3>1 DEF FundsTotal
  <2>4. FundsConserved'
    BY <1>1, <1>5, <2>1, <2>3, FundsBy DEF Conserved
  <2> QED
    BY <1>3, <1>4, <2>1, <2>4, UnitsFrame DEF Conserved
<1>7. CASE Escrow(t, n)
  <2>1. /\ inventory' = [inventory EXCEPT ![t] = Wrap(@ + n)] /\ units' = Wrap(units + n)
        /\ UNCHANGED <<balance, funds>>
    BY <1>7 DEF Escrow
  <2>2. PICK k \in Int : SumFunction(inventory') = SumFunction(inventory) + n + k * Modulus
    BY <1>5, <2>1, AccountMoves
  <2>3. UnitsTotal' = UnitsTotal + n + k * Modulus
    <3>1. k * Modulus \in Int
      BY WordAssumption
    <3> QED
      BY <1>3, <1>4, <1>5, <2>2, <3>1 DEF UnitsTotal
  <2>4. UnitsConserved'
    BY <1>1, <1>5, <2>1, <2>3, UnitsBy DEF Conserved
  <2> QED
    BY <1>3, <1>4, <2>1, <2>4, FundsFrame DEF Conserved
<1>8. ASSUME balance' = [balance EXCEPT ![t] = @ - n], balance[t] >= n, funds' = Wrap(funds - n),
             UNCHANGED <<inventory, units>>
      PROVE  Conserved'
  <2>1. SumFunction(balance') = SumFunction(balance) - n
    BY <1>5, <1>8, Debited
  <2>2. FundsTotal' = FundsTotal + (-n) + 0 * Modulus /\ funds' = Wrap(funds + (-n))
    BY <1>3, <1>4, <1>5, <1>8, <2>1 DEF FundsTotal
  <2>3. FundsConserved'
    BY <1>1, <1>5, <2>2, FundsBy DEF Conserved
  <2> QED
    BY <1>3, <1>4, <1>8, <2>3, UnitsFrame DEF Conserved
<1>9. ASSUME inventory' = [inventory EXCEPT ![t] = @ - n], inventory[t] >= n, units' = Wrap(units - n),
             UNCHANGED <<balance, funds>>
      PROVE  Conserved'
  <2>1. SumFunction(inventory') = SumFunction(inventory) - n
    BY <1>5, <1>9, Debited
  <2>2. UnitsTotal' = UnitsTotal + (-n) + 0 * Modulus /\ units' = Wrap(units + (-n))
    BY <1>3, <1>4, <1>5, <1>9, <2>1 DEF UnitsTotal
  <2>3. UnitsConserved'
    BY <1>1, <1>5, <2>2, UnitsBy DEF Conserved
  <2> QED
    BY <1>3, <1>4, <1>9, <2>3, FundsFrame DEF Conserved
<1>10. CASE UNCHANGED <<balance, inventory, funds, units>>
  BY <1>3, <1>4, <1>10, ConservedFrame
<1>11. CASE Withdraw(t, n)
  BY <1>8, <1>10, <1>11 DEF Withdraw
<1>12. CASE Release(t, n)
  BY <1>9, <1>10, <1>12 DEF Release
<1> QED
  BY <1>6, <1>7, <1>11, <1>12

\* Moves between accounts, orders and payments change no total.
LEMMA FundsWithin ==
  ASSUME TypeOK, TradeInv, ~undef, FundsConserved, NEW k \in Int,
         FundsTotal' = FundsTotal + k * Modulus, UNCHANGED funds
  PROVE  FundsConserved'
<1>1. Wrap(FundsTotal) = funds /\ FundsTotal \in Int
  BY Totals, TotalsInt
<1>2. Wrap(FundsTotal') = funds'
  BY <1>1, WrapCongruent
<1> QED
  BY <1>2 DEF FundsConserved, FundsTotal, Encumbered, CostOf

LEMMA UnitsWithin ==
  ASSUME TypeOK, TradeInv, ~undef, UnitsConserved, NEW k \in Int,
         UnitsTotal' = UnitsTotal + k * Modulus, UNCHANGED units
  PROVE  UnitsConserved'
<1>1. Wrap(UnitsTotal) = units /\ UnitsTotal \in Int
  BY Totals, TotalsInt
<1>2. Wrap(UnitsTotal') = units'
  BY <1>1, WrapCongruent
<1> QED
  BY <1>2 DEF UnitsConserved, UnitsTotal, Offered, LotOf

LEMMA SumsInt ==
  TypeOK /\ TradeInv =>
    /\ SumFunction(balance) \in Int /\ SumFunction(inventory) \in Int
    /\ Encumbered \in Int /\ Offered \in Int
    /\ FundsInFlight \in Int /\ UnitsInFlight \in Int
    /\ 0 * Modulus = 0 /\ \A k \in Int : k * Modulus \in Int
<1> SUFFICES ASSUME TypeOK, TradeInv
             PROVE  /\ SumFunction(balance) \in Int /\ SumFunction(inventory) \in Int
                    /\ Encumbered \in Int /\ Offered \in Int
                    /\ FundsInFlight \in Int /\ UnitsInFlight \in Int
                    /\ 0 * Modulus = 0 /\ \A k \in Int : k * Modulus \in Int
  OBVIOUS
<1>1. balance \in [Traders -> Word] /\ inventory \in [Traders -> Word]
  BY DEF TypeOK
<1>2. 0 * Modulus = 0 /\ \A k \in Int : k * Modulus \in Int
  BY WordAssumption
<1> QED
  BY <1>1, <1>2, AccountsInt, InFlightInt, Encumbrances

\* create_order: what leaves the account is what the order encumbers.
LEMMA ReserveConserves ==
  ASSUME Inv, Conserved, ~undef, Progress, NEW t \in Traders, Reserve(t)
  PROVE  Conserved'
<1>1. TypeOK /\ TradeInv /\ ThreadInv
  BY DEF Inv
<1>2. FundsInFlight' = FundsInFlight /\ UnitsInFlight' = UnitsInFlight
  BY <1>1, InFlightStays DEF Reserve
<1>3. cur[t] \in Ids /\ order[cur[t]].state = "fresh"
  BY <1>1 DEF Reserve, ThreadInv, Holds
<1> DEFINE o == order[cur[t]]
<1>4. UNCHANGED <<funds, units>>
  BY DEF Reserve, history
<1>5. CASE Covers(t, o) /\ balance' = [balance EXCEPT ![t] = @ - Cost(o)]
           /\ inventory' = [inventory EXCEPT ![t] = @ - Lot(o)] /\ SetState(cur[t], "ready")
  <2>1. /\ Cost(o) \in Word /\ Lot(o) \in Word /\ Cost(o) \in Int /\ Lot(o) \in Int
    BY <1>1, <1>3, Encumbrances, WordInt
  <2>2. balance \in [Traders -> Word] /\ inventory \in [Traders -> Word]
    BY <1>1 DEF TypeOK
  <2>3. Encumbered' = Encumbered + Cost(o) /\ Offered' = Offered + Lot(o)
    BY <1>1, <1>3, <1>5, EncumbranceAdds DEF Alive
  <2>4. SumFunction(balance') = SumFunction(balance) - Cost(o)
    BY <1>5, <2>1, <2>2, Debited DEF Covers
  <2>5. SumFunction(inventory') = SumFunction(inventory) - Lot(o)
    BY <1>5, <2>1, <2>2, Debited DEF Covers
  <2> HIDE DEF o
  <2>6. FundsTotal' = FundsTotal + 0 * Modulus /\ UnitsTotal' = UnitsTotal + 0 * Modulus
    BY <1>1, <1>2, <2>1, <2>3, <2>4, <2>5, SumsInt DEF FundsTotal, UnitsTotal
  <2> QED
    BY <1>1, <1>4, <2>6, FundsWithin, UnitsWithin DEF Conserved
<1>6. CASE SetState(cur[t], "refused") /\ UNCHANGED accounts
  <2>1. Encumbered' = Encumbered /\ Offered' = Offered
    BY <1>1, <1>3, <1>6, EncumbranceKept DEF Alive, OrderStates
  <2> QED
    BY <1>2, <1>4, <1>6, <2>1, ConservedFrame DEF accounts
<1> QED
  BY <1>5, <1>6 DEF Reserve

\* free_order: what it still encumbers goes back to the account.
LEMMA FreeConserves ==
  ASSUME Inv, Conserved, ~undef, Progress, NEW t \in Traders, FreeCanceled(t)
  PROVE  Conserved'
<1>1. TypeOK /\ TradeInv /\ ThreadInv
  BY DEF Inv
<1>2. FundsInFlight' = FundsInFlight /\ UnitsInFlight' = UnitsInFlight
  BY <1>1, InFlightStays DEF FreeCanceled
<1>3. cur[t] \in Ids /\ order[cur[t]].state = "pulled"
  BY <1>1 DEF FreeCanceled, ThreadInv, Holds
<1> DEFINE o == order[cur[t]]
<1>4. /\ balance' = [balance EXCEPT ![t] = Wrap(@ + Cost(o))]
      /\ inventory' = [inventory EXCEPT ![t] = Wrap(@ + Lot(o))]
      /\ SetState(cur[t], "gone") /\ UNCHANGED <<funds, units>>
  BY DEF FreeCanceled, history
<1>5. Cost(o) \in Int /\ Lot(o) \in Int
  BY <1>1, <1>3, Encumbrances, WordInt
<1>6. balance \in [Traders -> Word] /\ inventory \in [Traders -> Word]
  BY <1>1 DEF TypeOK
<1>7. Encumbered' = Encumbered - Cost(o) /\ Offered' = Offered - Lot(o)
  BY <1>1, <1>3, <1>4, EncumbranceDrops DEF Alive
<1>8. PICK j \in Int : SumFunction(balance') = SumFunction(balance) + Cost(o) + j * Modulus
  BY <1>4, <1>5, <1>6, AccountMoves
<1>9. PICK k \in Int : SumFunction(inventory') = SumFunction(inventory) + Lot(o) + k * Modulus
  BY <1>4, <1>5, <1>6, AccountMoves
<1> HIDE DEF o
<1>10. j * Modulus \in Int /\ k * Modulus \in Int
  BY WordAssumption
<1>11. FundsTotal' = FundsTotal + j * Modulus /\ UnitsTotal' = UnitsTotal + k * Modulus
  BY <1>1, <1>2, <1>5, <1>7, <1>8, <1>9, <1>10, SumsInt DEF FundsTotal, UnitsTotal
<1> QED
  BY <1>1, <1>4, <1>11, FundsWithin, UnitsWithin DEF Conserved

\* A trade takes its value off the buy order and its units off the sell order.
LEMMA TradeConserves ==
  ASSUME Inv, Conserved, ~undef, StartTrade
  PROVE  Conserved'
<1>1. TypeOK /\ TradeInv /\ BookInOrder
  BY DEF Inv
<1>2. PICK k \in Int : Encumbered' = Encumbered - mm'.qty * order[mm'.buy].price + k * Modulus
  BY <1>1, TradeCosts
<1>3. Offered' = Offered - mm'.qty
  BY <1>1, TradeCosts
<1>4. FundsInFlight = 0 /\ UnitsInFlight = 0
  BY DEF StartTrade, FundsInFlight, UnitsInFlight
<1>5. /\ mm'.pc = "credit" /\ mm'.buy \in Ids /\ order'[mm'.buy].price = order[mm'.buy].price
      /\ mm'.qty \in Int /\ order[mm'.buy].price \in Int
  <2>1. mm'.pc = "credit" /\ mm'.buy = buys[Len(buys)] /\ mm'.qty \in Word
    BY <1>1, TradeFacts DEF MMLocals
  <2>2. mm'.buy \in Ids
    BY <1>1, <2>1, EndsOfBook DEF StartTrade
  <2>3. order[mm'.buy] \in Orders
    BY <1>1, <2>2, ElementOfSeq DEF TypeOK, Ids
  <2>4. order[mm'.buy].price \in Int
    BY <2>3, OrderFields, WordInt
  <2> QED
    BY <1>1, <2>1, <2>2, <2>4, TradeFacts, WordInt
<1>6. FundsInFlight' = mm'.qty * order[mm'.buy].price /\ UnitsInFlight' = mm'.qty
  BY <1>5 DEF FundsInFlight, UnitsInFlight
<1>7. UNCHANGED <<balance, inventory, funds, units>>
  BY DEF StartTrade, accounts, history
<1> DEFINE v == mm'.qty * order[mm'.buy].price
<1>8. v \in Int /\ k * Modulus \in Int
  BY <1>5, WordAssumption
<1>9. FundsTotal' = FundsTotal + k * Modulus
  <2>1. Encumbered' = Encumbered - v + k * Modulus /\ FundsInFlight' = v
    BY <1>2, <1>6
  <2> HIDE DEF v
  <2> QED
    BY <1>1, <1>4, <1>7, <1>8, <2>1, SumsInt DEF FundsTotal
<1>10. UnitsTotal' = UnitsTotal + 0 * Modulus
  BY <1>1, <1>3, <1>4, <1>5, <1>6, <1>7, SumsInt DEF UnitsTotal
<1> QED
  BY <1>1, <1>7, <1>9, <1>10, FundsWithin, UnitsWithin DEF Conserved

\* execute_trade pays the seller the price, gives the buyer the units and
\* refunds what the buyer encumbered above the price.
LEMMA PaymentsConserve ==
  ASSUME Inv, Conserved, ~undef, CreditSeller \/ DeliverUnits \/ RefundBuyer
  PROVE  Conserved'
<1>1. TypeOK /\ TradeInv
  BY DEF Inv
<1> DEFINE q == mm.qty
           p == mm.price
           b == order[mm.buy].price
<1>2. /\ mm.pc \in {"credit", "deliver", "refund"} /\ UNCHANGED <<order, funds, units>>
      /\ mm'.buy = mm.buy /\ mm'.qty = mm.qty /\ mm'.price = mm.price
  <2>1. PICK from \in {"credit", "deliver", "refund"}, to \in {"deliver", "refund", "bought"} :
          mm.pc = from /\ mm' = [mm EXCEPT !.pc = to]
    BY DEF CreditSeller, DeliverUnits, RefundBuyer, MMStep
  <2>2. mm \in MMLocals
    BY <1>1 DEF TypeOK
  <2>3. mm'.buy = mm.buy /\ mm'.qty = mm.qty /\ mm'.price = mm.price
    BY <2>1, <2>2 DEF MMLocals
  <2> QED
    BY <2>1, <2>3 DEF CreditSeller, DeliverUnits, RefundBuyer, book, history
<1>3. q \in Int /\ p \in Int /\ b \in Int
  BY <1>1, <1>2, InFlightInt
<1>4. /\ q * p \in Int /\ q * b \in Int /\ q * (b - p) \in Int /\ q * (b - p) = q * b - q * p
  <2> HIDE DEF q, p, b
  <2> QED
    BY <1>3
<1>5. Encumbered' = Encumbered /\ Offered' = Offered
  BY <1>2 DEF Encumbered, Offered, CostOf, LotOf, Pending, Alive, Ids
<1>6. order[mm.buy].owner \in Traders /\ order[mm.sell].owner \in Traders
  <2>1. mm.buy \in Ids /\ mm.sell \in Ids
    BY <1>1, <1>2 DEF TradeInv, Trading
  <2> QED
    BY <1>1, <2>1, ElementOfSeq, OrderFields DEF TypeOK, Ids
<1>7. balance \in [Traders -> Word] /\ inventory \in [Traders -> Word]
  BY <1>1 DEF TypeOK
<1>8. CASE CreditSeller
  <2>1. /\ balance' = [balance EXCEPT ![order[mm.sell].owner] = Wrap(@ + q * p)]
        /\ mm.pc = "credit" /\ mm'.pc = "deliver" /\ UNCHANGED <<inventory, order>>
    BY <1>1, <1>8, MMStepFacts DEF CreditSeller, MMStep, book
  <2>2. PICK k \in Int : SumFunction(balance') = SumFunction(balance) + q * p + k * Modulus
    BY <1>4, <1>6, <1>7, <2>1, AccountMoves
  <2>3. /\ FundsInFlight = q * b /\ FundsInFlight' = q * (b - p)
        /\ UnitsInFlight = q /\ UnitsInFlight' = q
    BY <1>2, <2>1 DEF FundsInFlight, UnitsInFlight
  <2> HIDE DEF q, p, b
  <2>4. FundsTotal' = FundsTotal + k * Modulus
    BY <1>1, <1>4, <1>5, <2>2, <2>3, SumsInt DEF FundsTotal
  <2>5. FundsConserved'
    BY <1>1, <1>2, <2>4, FundsWithin DEF Conserved
  <2> QED
    BY <1>2, <1>5, <2>1, <2>3, <2>5, UnitsFrame DEF Conserved
<1>9. CASE DeliverUnits
  <2>1. /\ inventory' = [inventory EXCEPT ![order[mm.buy].owner] = Wrap(@ + q)]
        /\ mm.pc = "deliver" /\ mm'.pc = "refund" /\ UNCHANGED <<balance, order>>
    BY <1>1, <1>9, MMStepFacts DEF DeliverUnits, MMStep, book
  <2>2. PICK k \in Int : SumFunction(inventory') = SumFunction(inventory) + q + k * Modulus
    BY <1>3, <1>6, <1>7, <2>1, AccountMoves
  <2>3. /\ FundsInFlight' = FundsInFlight
        /\ UnitsInFlight = q /\ UnitsInFlight' = 0
    BY <1>2, <2>1 DEF FundsInFlight, UnitsInFlight
  <2> HIDE DEF q, p, b
  <2>4. UnitsTotal' = UnitsTotal + k * Modulus
    BY <1>1, <1>3, <1>5, <2>2, <2>3, SumsInt DEF UnitsTotal
  <2>5. UnitsConserved'
    BY <1>1, <1>2, <2>4, UnitsWithin DEF Conserved
  <2> QED
    BY <1>2, <1>5, <2>1, <2>3, <2>5, FundsFrame DEF Conserved
<1>10. CASE RefundBuyer
  <2>1. /\ balance' = [balance EXCEPT ![order[mm.buy].owner] = Wrap(@ + q * (b - p))]
        /\ mm.pc = "refund" /\ mm'.pc = "bought" /\ UNCHANGED <<inventory, order>>
    BY <1>1, <1>10, MMStepFacts DEF RefundBuyer, Refund, MMStep, book
  <2>2. PICK k \in Int : SumFunction(balance') = SumFunction(balance) + q * (b - p) + k * Modulus
    BY <1>4, <1>6, <1>7, <2>1, AccountMoves
  <2>3. /\ FundsInFlight = q * (b - p) /\ FundsInFlight' = 0
        /\ UnitsInFlight' = UnitsInFlight
    BY <1>2, <2>1 DEF FundsInFlight, UnitsInFlight
  <2> HIDE DEF q, p, b
  <2>4. FundsTotal' = FundsTotal + k * Modulus
    BY <1>1, <1>4, <1>5, <2>2, <2>3, SumsInt DEF FundsTotal
  <2>5. FundsConserved'
    BY <1>1, <1>2, <2>4, FundsWithin DEF Conserved
  <2> QED
    BY <1>2, <1>5, <2>1, <2>3, <2>5, UnitsFrame DEF Conserved
<1> QED
  BY <1>8, <1>9, <1>10

\* An order is removed by the matchmaker with nothing left to encumber.
LEMMA ReapConserves ==
  ASSUME Inv, Conserved, ~undef, ReapSell \/ ReapBuy
  PROVE  Conserved'
<1>1. TypeOK /\ TradeInv
  BY DEF Inv
<1>2. FundsInFlight' = FundsInFlight /\ UnitsInFlight' = UnitsInFlight
  <2>1. /\ mm.pc \notin {"credit", "deliver", "refund"}
        /\ mm'.pc \notin {"credit", "deliver", "refund"}
    BY <1>1, MMStepFacts DEF ReapSell, ReapBuy, NoTrade, MMStep
  <2> QED
    BY <2>1, NothingInFlight
<1>3. PICK id \in Ids : Reap(id)
  BY <1>1 DEF ReapSell, ReapBuy, MMStep, TradeInv, Trading
<1>4. UNCHANGED <<balance, inventory, funds, units>>
  BY <1>3 DEF Reap, history
<1>5. CASE Cleared(id)
  <2>1. Alive(id) /\ SetState(id, "gone") /\ order[id].qty = 0
    BY <1>5 DEF Cleared, Alive, Booked
  <2>2. Cost(order[id]) = 0 /\ Lot(order[id]) = 0
    <3>1. order[id].price \in Int
      BY <1>1, ElementOfSeq, OrderFields, WordInt DEF TypeOK, Ids
    <3>2. order[id].qty * order[id].price = 0
      BY <2>1, <3>1
    <3>3. Wrap(0) = 0
      BY WordAssumption DEF Wrap
    <3> QED
      BY <2>1, <3>2, <3>3 DEF Cost, Lot
  <2>3. Encumbered' = Encumbered /\ Offered' = Offered
    BY <1>1, <2>1, <2>2, EncumbranceDrops, SumsInt
  <2> QED
    BY <1>2, <1>4, <2>3, ConservedFrame
<1>6. CASE Kept(id)
  <2>1. Encumbered' = Encumbered /\ Offered' = Offered
    BY <1>6 DEF Kept, book, Encumbered, Offered, CostOf, LotOf, Pending, Alive, Ids
  <2> QED
    BY <1>2, <1>4, <2>1, ConservedFrame
<1>7. CASE ClearedTwice(id)
  BY <1>7 DEF ClearedTwice, Conserved, FundsConserved, UnitsConserved
<1> QED
  BY <1>3, <1>5, <1>6, <1>7 DEF Reap

LEMMA ConservedStep ==
  ASSUME Inv, Conserved, Next
  PROVE  Conserved'
<1>1. TypeOK /\ ThreadInv /\ TradeInv /\ BookInOrder
  BY DEF Inv
<1>2. CASE Stopped
  BY <1>2 DEF Stopped, vars, accounts, book, history, Conserved, FundsConserved, UnitsConserved,
     Pending, Alive, Ids, CostOf, LotOf, FundsInFlight, UnitsInFlight
<1>3. SUFFICES ASSUME ~undef, Step
               PROVE  Conserved'
  BY <1>2 DEF Next, Step
<1>4. Progress
  BY <1>3, OrdersProgress DEF Next
<1>5. ASSUME UNCHANGED order
      PROVE  Encumbered' = Encumbered /\ Offered' = Offered
  BY <1>5 DEF Encumbered, Offered, CostOf, LotOf, Pending, Alive, Ids
<1>6. ASSUME UNCHANGED <<balance, inventory, funds, units, order, mm>>
      PROVE  Conserved'
  <2>1. FundsInFlight' = FundsInFlight /\ UnitsInFlight' = UnitsInFlight
    BY <1>1, <1>4, <1>6, InFlightStays
  <2> QED
    BY <1>3, <1>5, <1>6, <2>1, ConservedFrame
<1>7. ASSUME NEW t \in Traders, NEW id \in Ids, NEW s \in OrderStates, SetState(id, s),
             Alive(id), s \in {"booked", "pulled"}, UNCHANGED <<balance, inventory, funds, units, mm>>
      PROVE  Conserved'
  <2>1. FundsInFlight' = FundsInFlight /\ UnitsInFlight' = UnitsInFlight
    BY <1>1, <1>4, <1>7, InFlightStays
  <2>2. Encumbered' = Encumbered /\ Offered' = Offered
    BY <1>1, <1>7, EncumbranceKept
  <2> QED
    BY <1>3, <1>7, <2>1, <2>2, ConservedFrame
<1>8. ASSUME NEW t \in Traders, Request(t)
      PROVE  Conserved'
  <2>1. CASE Status(t) \/ \E id \in 1..MaxOrders : CancelRefused(t, id)
    BY <1>6, <2>1 DEF Status, CancelRefused, accounts, book, history
  <2>2. CASE \/ \E n \in Deposits : Deposit(t, n) \/ Withdraw(t, n)
             \/ \E n \in Escrows : Escrow(t, n) \/ Release(t, n)
    BY <1>3, <1>4, <2>2, RequestWords, OwnAccountConserves
  <2>3. ASSUME NEW kind \in {"buy", "sell"}, NEW q \in Quantities, NEW p \in Prices,
               NewOrder(t, kind, q, p)
        PROVE  Conserved'
    <3>1. /\ Ids \subseteq Ids' /\ \A i \in Ids : order'[i] = order[i]
          /\ \A i \in Ids' \ Ids : order'[i].state = "fresh"
      BY <1>1, <1>4, <2>3, NewOrderFacts DEF Progress
    <3>2. Pending' = Pending
      BY <3>1 DEF Pending, Alive
    <3>3. Encumbered' = Encumbered /\ Offered' = Offered
      BY <1>1, <3>1, <3>2, EncumbranceStays
    <3>4. FundsInFlight' = FundsInFlight /\ UnitsInFlight' = UnitsInFlight
      BY <1>1, <1>4, <2>3, InFlightStays DEF NewOrder
    <3> QED
      BY <1>3, <2>3, <3>3, <3>4, ConservedFrame DEF NewOrder, accounts, history
  <2>4. ASSUME NEW id \in 1..MaxOrders, Cancel(t, id)
        PROVE  Conserved'
    BY <1>7, <2>4 DEF Cancel, Alive, Booked, OrderStates, accounts, history
  <2> QED
    BY <1>8, <2>1, <2>2, <2>3, <2>4 DEF Request
<1>9. ASSUME NEW t \in Traders, Serve(t)
      PROVE  Conserved'
  <2>1. CASE Announce(t) \/ ReadId(t) \/ Reply(t)
    BY <1>6, <2>1 DEF Announce, ReadId, Reply, accounts, book, history
  <2>2. CASE InsertBuy(t) \/ InsertSell(t)
    <3>1. /\ pc[t] = "insert" /\ SetState(cur[t], "booked")
          /\ UNCHANGED <<balance, inventory, funds, units, mm>>
      BY <2>2 DEF InsertBuy, InsertSell, accounts, history
    <3>2. cur[t] \in Ids /\ Alive(cur[t]) /\ "booked" \in OrderStates
      BY <1>1, <3>1 DEF ThreadInv, Holds, Alive, OrderStates
    <3> QED
      BY <1>7, <3>1, <3>2
  <2> QED
    BY <1>3, <1>4, <1>9, <2>1, <2>2, ReserveConserves, FreeConserves DEF Serve
<1>10. ASSUME NEW t \in Traders, Session(t)
       PROVE  Conserved'
  BY <1>6, <1>10 DEF Session, Logout, Login, LoginRefused, book, history
<1>11. CASE Fini
  BY <1>6, <1>11 DEF Fini, accounts, book, history
<1>12. CASE SemWait \/ Wake \/ Exit \/ SendBought \/ SendSold \/ Relock \/ Sleep
  <2>1. /\ mm.pc \notin {"credit", "deliver", "refund"} /\ mm'.pc \notin {"credit", "deliver", "refund"}
        /\ UNCHANGED <<balance, inventory, funds, units, order>>
    BY <1>1, <1>12, MMStepFacts DEF SemWait, Wake, Exit, SendBought, SendSold, SendTo, Relock, Sleep,
       MMStep, accounts, book, history
  <2> QED
    BY <1>3, <1>5, <2>1, NothingInFlight, ConservedFrame
<1>13. CASE Match
  BY <1>3, <1>12, <1>13, TradeConserves, PaymentsConserve, ReapConserves DEF Match
<1> QED
  BY <1>3, <1>8, <1>9, <1>10, <1>11, <1>13 DEF Step

LEMMA ConservedInit == Init => Conserved
<1> SUFFICES ASSUME Init
             PROVE  Conserved
  OBVIOUS
<1>1. TypeOK /\ Ids = {} /\ mm.pc = "sleep"
  BY TypeInit, EmptySeq DEF Init, Ids
<1>2. Pending = {} /\ FundsInFlight = 0 /\ UnitsInFlight = 0
  BY <1>1 DEF Pending, FundsInFlight, UnitsInFlight
<1>3. Encumbered = 0 /\ Offered = 0
  BY <1>2, SumOfEmpty DEF Encumbered, Offered
<1>4. ASSUME NEW f, f = [t \in Traders |-> 0]
      PROVE  SumFunction(f) = 0
  BY <1>4, SumOfZeros, ThreadsAssumption DEF SumFunction
<1>5. SumFunction(balance) = 0 /\ SumFunction(inventory) = 0
  BY <1>4 DEF Init
<1>6. Wrap(0) = 0
  BY WordAssumption DEF Wrap
<1> QED
  BY <1>2, <1>3, <1>5, <1>6, Totals DEF Conserved, FundsTotal, UnitsTotal, Init

LEMMA ConservedHolds == Spec => []Conserved
<1>1. Inv /\ Conserved /\ [Next]_vars => Conserved'
  <2>1. ASSUME Conserved, UNCHANGED vars
        PROVE  Conserved'
    BY <2>1 DEF vars, accounts, book, history, Conserved, FundsConserved, UnitsConserved,
       Pending, Alive, Ids, CostOf, LotOf, FundsInFlight, UnitsInFlight
  <2> QED
    BY <2>1, ConservedStep
<1> QED
  BY <1>1, ConservedInit, InvHolds, PTL DEF Spec

\* No funds appear or vanish, however the payments of a trade, posts and
\* cancels interleave: for any number of traders and orders, and any word,
\* whether or not its arithmetic wraps around.
THEOREM FundsHold == Spec => []FundsConserved
<1>1. Conserved => FundsConserved
  BY DEF Conserved
<1> QED
  BY <1>1, ConservedHolds, PTL

\* No units appear or vanish, under the same interleavings.
THEOREM UnitsHold == Spec => []UnitsConserved
<1>1. Conserved => UnitsConserved
  BY DEF Conserved
<1> QED
  BY <1>1, ConservedHolds, PTL

-----------------------------------------------------------------------------
(* The market: what each trader owns.                                      *)

\* What the terms of orders and trades keep to: limits are those that clients
\* ask for, a quantity starts as one and only gets less, and no trade costs the
\* buyer more than its limit.
TermsInv ==
  /\ \A id \in Ids :
       /\ id \in 1..MaxOrders /\ order[id].price \in Prices
       /\ \E q \in Quantities : order[id].qty <= q
       /\ order[id].state \in {"fresh", "ready"} => order[id].qty \in Quantities
  /\ mm.pc \in {"credit", "deliver", "refund"} => mm.price <= order[mm.buy].price

\* The matchmaker's locals change between a trade and its payments by its steps.
LEMMA TradeLocals ==
  ASSUME TypeOK, [Next]_vars
  PROVE  \/ UNCHANGED mm
         \/ mm'.pc \notin {"credit", "deliver", "refund"}
         \/ StartTrade
         \/ /\ CreditSeller \/ DeliverUnits
            /\ mm.pc \in {"credit", "deliver"} /\ UNCHANGED order
            /\ mm'.buy = mm.buy /\ mm'.price = mm.price
<1>1. mm \in MMLocals
  BY DEF TypeOK
<1>2. CASE UNCHANGED vars
  BY <1>2 DEF vars
<1>3. CASE Match
  <2>1. CASE CreditSeller \/ DeliverUnits
    BY <1>1, <2>1 DEF CreditSeller, DeliverUnits, MMStep, MMLocals, book
  <2>2. CASE SemWait \/ Wake \/ Exit \/ RefundBuyer \/ SendBought \/ SendSold \/ Relock \/ ReapSell
             \/ ReapBuy \/ Sleep
    BY <1>1, <2>2 DEF SemWait, Wake, Exit, RefundBuyer, SendBought, SendSold, Relock, ReapSell, ReapBuy,
       Sleep, MMStep, NoTrade, MMLocals
  <2> QED
    BY <1>3, <2>1, <2>2 DEF Match
<1>4. ASSUME NEW t \in Traders, Request(t) \/ Serve(t) \/ Session(t)
      PROVE  UNCHANGED mm
  BY <1>4 DEF Request, Status, Deposit, Withdraw, Escrow, Release, NewOrder, Cancel, CancelRefused,
     Serve, Reserve, InsertBuy, InsertSell, Announce, ReadId, FreeCanceled, Reply, Session, Logout, Login, LoginRefused
<1>5. CASE Stopped \/ Fini
  BY <1>5 DEF Stopped, Fini, vars
<1> QED
  BY <1>2, <1>3, <1>4, <1>5 DEF Next, Step

\* A trade's price is within the limits of its two orders.
LEMMA PriceBetween ==
  ASSUME NEW ask \in Int, NEW bid \in Int, ask <= bid, last \in Int
  PROVE  /\ TradePrice(ask, bid) \in Int /\ ask <= TradePrice(ask, bid) /\ TradePrice(ask, bid) <= bid
         /\ last \in ask..bid => TradePrice(ask, bid) = last
         /\ last > bid => TradePrice(ask, bid) = bid
         /\ last < ask => TradePrice(ask, bid) = ask
BY DEF TradePrice

LEMMA TermsInit == Init => TermsInv
BY DEF Init, TermsInv, Ids

LEMMA TermsStep == Inv /\ TermsInv /\ [Next]_vars => TermsInv'
<1> SUFFICES ASSUME Inv, TermsInv, [Next]_vars
             PROVE  TermsInv'
  OBVIOUS
<1>1. TypeOK /\ TradeInv /\ BookInOrder
  BY DEF Inv
<1>2. Progress
  <2>1. CASE UNCHANGED vars
    BY <2>1 DEF vars, book, Ids, Progress, Follows
  <2> QED
    BY <2>1, OrdersProgress
<1>3. \A i \in Ids : order[i].qty \in Int /\ order[i].price \in Int
  BY <1>1, ElementOfSeq, OrderFields, WordInt DEF TypeOK, Ids
<1>4. ASSUME NEW i \in Ids'
      PROVE  /\ i \in 1..MaxOrders /\ order'[i].price \in Prices
             /\ \E q \in Quantities : order'[i].qty <= q
             /\ order'[i].state \in {"fresh", "ready"} => order'[i].qty \in Quantities
  <2>1. CASE i \notin Ids
    <3>1. order'[i].qty \in Quantities /\ order'[i].qty \in Int
      BY <1>2, <1>4, <2>1, RequestWords, WordInt DEF Progress
    <3> QED
      BY <1>2, <1>4, <2>1, <3>1 DEF Progress
  <2>2. CASE i \in Ids
    <3>1. order'[i].price = order[i].price /\ Follows(order[i].state, order'[i].state)
      BY <1>2, <2>2 DEF Progress, Terms
    <3>2. PICK q \in Quantities : order[i].qty <= q
      BY <2>2 DEF TermsInv
    <3>3. CASE order'[i].qty = order[i].qty
      BY <2>2, <3>1, <3>3 DEF TermsInv, Follows
    <3>4. CASE order'[i].qty # order[i].qty
      <4>1. order[i].state = "booked" /\ order'[i].qty <= order[i].qty
        BY <1>2, <2>2, <3>4 DEF Progress
      <4>2. order'[i].qty \in Int /\ q \in Int
        <5>1. TypeOK'
          BY InvStep DEF Inv
        <5>2. order'[i] \in Orders
          BY <1>4, <5>1, ElementOfSeq DEF TypeOK, Ids
        <5> QED
          BY <5>2, OrderFields, RequestWords, WordInt
      <4>3. order'[i].qty <= q
        BY <1>3, <2>2, <3>2, <4>1, <4>2
      <4> QED
        BY <2>2, <3>1, <4>1, <4>3 DEF TermsInv, Follows
    <3> QED
      BY <3>3, <3>4
  <2> QED
    BY <2>1, <2>2
<1>5. mm'.pc \in {"credit", "deliver", "refund"} => mm'.price <= order'[mm'.buy].price
  <2>1. CASE UNCHANGED mm
    BY <1>1, <1>2, <2>1 DEF TermsInv, Progress, Terms, TradeInv, Trading
  <2>2. CASE StartTrade
    <3>1. /\ mm'.price = TradePrice(order[mm'.sell].price, order[mm'.buy].price)
          /\ mm'.buy = buys[Len(buys)] /\ mm'.sell = sells[1]
          /\ mm'.buy \in Ids /\ mm'.sell \in Ids
          /\ order[mm'.sell].price <= order[mm'.buy].price
      BY <1>1, <2>2, TradeFacts, EndsOfBook DEF StartTrade, Crossed
    <3>2. last \in Int
      BY <1>1, WordInt DEF TypeOK
    <3>3. order'[mm'.buy].price = order[mm'.buy].price
      BY <1>1, <2>2, <3>1, TradeFacts
    <3> QED
      BY <1>3, <3>1, <3>2, <3>3, PriceBetween
  <2>3. CASE /\ mm.pc \in {"credit", "deliver"} /\ UNCHANGED order
             /\ mm'.buy = mm.buy /\ mm'.price = mm.price
    BY <2>3 DEF TermsInv
  <2> QED
    BY <1>1, <2>1, <2>2, <2>3, TradeLocals
<1> QED
  BY <1>4, <1>5 DEF TermsInv

-----------------------------------------------------------------------------
(* Words that do not wrap around.                                          *)

LEMMA WrapWithin ==
  ASSUME NEW n \in Nat, n < Modulus
  PROVE  Wrap(n) = n
BY WordAssumption DEF Wrap

LEMMA ProductNat ==
  ASSUME NEW a \in Nat, NEW b \in Nat, NEW c \in Nat, a <= b
  PROVE  a * c \in Nat /\ b * c \in Nat /\ a * c <= b * c
<1> DEFINE d == b - a
<1>1. d \in Nat /\ b = a + d
  OBVIOUS
<1> HIDE DEF d
<1>2. b * c = a * c + d * c /\ d * c \in Nat /\ a * c \in Nat
  BY <1>1
<1> QED
  BY <1>2

LEMMA WordNat == Word \subseteq Nat
BY WordAssumption DEF Word

\* While nothing wraps around an order costs what its quantity and limit say.
LEMMA CostExact ==
  ASSUME TypeOK, TermsInv, NothingWraps, NEW id \in Ids
  PROVE  /\ order[id].qty \in Nat /\ order[id].price \in Nat
         /\ order[id].qty * order[id].price \in Nat
         /\ order[id].qty * order[id].price < Modulus
         /\ order[id].kind = "buy" => Cost(order[id]) = order[id].qty * order[id].price
<1>1. order[id].qty \in Nat /\ order[id].price \in Nat
  BY ElementOfSeq, OrderFields, WordNat DEF TypeOK, Ids
<1>2. PICK q \in Quantities : order[id].qty <= q
  BY DEF TermsInv
<1>3. q \in Nat /\ q * order[id].price < Modulus
  BY <1>2, RequestWords, WordNat DEF TermsInv, NothingWraps
<1>4. order[id].qty * order[id].price \in Nat /\ order[id].qty * order[id].price <= q * order[id].price
      /\ q * order[id].price \in Nat
  BY <1>1, <1>2, <1>3, ProductNat
<1>5. order[id].qty * order[id].price < Modulus
  BY <1>3, <1>4, WordAssumption
<1>6. Wrap(order[id].qty * order[id].price) = order[id].qty * order[id].price
  BY <1>4, <1>5, WrapWithin
<1> QED
  BY <1>1, <1>4, <1>5, <1>6 DEF Cost

-----------------------------------------------------------------------------
(* What a trader owns, by where it is.                                     *)

CostsOf(t) == SumFunctionOnSet(CostOf, LiveOf(t))
LotsOf(t)  == SumFunctionOnSet(LotOf, LiveOf(t))

LEMMA CashIs ==
  ASSUME NEW t \in Traders
  PROVE  /\ Cash(t) = balance[t] + CostsOf(t) + CashDue(t)
         /\ Goods(t) = inventory[t] + LotsOf(t) + GoodsDue(t)
         /\ CashOf[t] = Cash(t) /\ GoodsOf[t] = Goods(t)
BY DEF Cash, Goods, CostsOf, LotsOf, CashOf, GoodsOf

\* What the orders of a set encumber.
LEMMA LiveCosts ==
  ASSUME TypeOK, NEW t \in Traders
  PROVE  /\ CostOf \in [Ids -> Nat] /\ LotOf \in [Ids -> Nat]
         /\ IsFiniteSet(LiveOf(t)) /\ LiveOf(t) \in SUBSET Ids
         /\ CostsOf(t) \in Nat /\ LotsOf(t) \in Nat
<1>1. \A i \in Ids : Cost(order[i]) \in Nat /\ Lot(order[i]) \in Nat
  BY CostWord, ElementOfSeq, WordNat DEF TypeOK, Ids
<1>2. CostOf \in [Ids -> Nat] /\ LotOf \in [Ids -> Nat]
  BY <1>1 DEF CostOf, LotOf
<1>3. IsFiniteSet(LiveOf(t)) /\ LiveOf(t) \in SUBSET Ids
  BY LiveFinite DEF LiveOf, Pending
<1>4. CostsOf(t) \in Nat /\ LotsOf(t) \in Nat
  BY <1>2, <1>3, SumNat DEF CostsOf, LotsOf
<1> QED
  BY <1>2, <1>3, <1>4

\* What the matchmaker owes.
LEMMA DueNat ==
  ASSUME TypeOK, TradeInv, TermsInv
  PROVE  /\ mm.qty \in Nat /\ mm.price \in Nat /\ mm.qty * mm.price \in Nat
         /\ mm.pc \in {"credit", "deliver", "refund"} =>
              /\ mm.buy \in Ids /\ mm.sell \in Ids /\ Refund \in Nat
              /\ order[mm.buy].owner \in Traders /\ order[mm.sell].owner \in Traders
         /\ \A t \in Traders : CashDue(t) \in Nat /\ GoodsDue(t) \in Nat
<1>1. mm.qty \in Nat /\ mm.price \in Nat
  BY WordNat DEF TypeOK, MMLocals
<1>2. mm.qty * mm.price \in Nat
  BY <1>1
<1>3. ASSUME mm.pc \in {"credit", "deliver", "refund"}
      PROVE  /\ mm.buy \in Ids /\ mm.sell \in Ids /\ Refund \in Nat
             /\ order[mm.buy].owner \in Traders /\ order[mm.sell].owner \in Traders
  <2>1. mm.buy \in Ids /\ mm.sell \in Ids
    BY <1>3 DEF TradeInv, Trading
  <2>2. /\ order[mm.buy].price \in Nat
        /\ order[mm.buy].owner \in Traders /\ order[mm.sell].owner \in Traders
    BY <2>1, ElementOfSeq, OrderFields, WordNat DEF TypeOK, Ids
  <2>3. mm.price <= order[mm.buy].price
    BY <1>3 DEF TermsInv
  <2>4. order[mm.buy].price - mm.price \in Nat
    BY <1>1, <2>2, <2>3
  <2> DEFINE d == order[mm.buy].price - mm.price
  <2>5. Refund = mm.qty * d
    BY DEF Refund
  <2> HIDE DEF d
  <2>6. mm.qty * d \in Nat
    BY <1>1, <2>4 DEF d
  <2> QED
    BY <2>1, <2>2, <2>5, <2>6
<1>4. ASSUME NEW t \in Traders
      PROVE  CashDue(t) \in Nat /\ GoodsDue(t) \in Nat
  BY <1>1, <1>2, <1>3 DEF CashDue, GoodsDue, Due
<1> QED
  BY <1>1, <1>2, <1>3, <1>4

LEMMA NothingDue ==
  ASSUME mm.pc \notin {"credit", "deliver", "refund"}, NEW t
  PROVE  CashDue(t) = 0 /\ GoodsDue(t) = 0
BY DEF CashDue, GoodsDue

LEMMA DueStays ==
  ASSUME TradeInv, Progress, UNCHANGED mm, NEW t \in Traders
  PROVE  CashDue(t)' = CashDue(t) /\ GoodsDue(t)' = GoodsDue(t)
<1>1. mm.pc \in {"credit", "deliver", "refund"} =>
        /\ mm.buy \in Ids /\ mm.sell \in Ids
        /\ order'[mm.buy].price = order[mm.buy].price
        /\ order'[mm.buy].owner = order[mm.buy].owner /\ order'[mm.sell].owner = order[mm.sell].owner
  BY DEF TradeInv, Trading, Progress, Terms
<1> QED
  BY <1>1 DEF CashDue, GoodsDue, Due, Refund, Trading

-----------------------------------------------------------------------------
(* What a step does to the orders of each trader and to the market's.      *)

Live(s) == s \in {"ready", "booked", "pulled"}

\* An order that comes to life or dies is added to what its owner's orders
\* encumber, or taken from it.
LEMMA CostsMove ==
  ASSUME TypeOK, NEW id \in Ids, NEW s \in OrderStates, SetState(id, s), NEW t \in Traders
  PROVE  /\ CostsOf(t)' = CostsOf(t)
              + (IF order[id].owner = t /\ Live(s) /\ ~Alive(id) THEN Cost(order[id]) ELSE 0)
              - (IF order[id].owner = t /\ ~Live(s) /\ Alive(id) THEN Cost(order[id]) ELSE 0)
         /\ LotsOf(t)' = LotsOf(t)
              + (IF order[id].owner = t /\ Live(s) /\ ~Alive(id) THEN Lot(order[id]) ELSE 0)
              - (IF order[id].owner = t /\ ~Live(s) /\ Alive(id) THEN Lot(order[id]) ELSE 0)
<1>1. CostOf' = CostOf /\ LotOf' = LotOf
  BY StateCosts
<1>2. LiveOf(t)' = IF order[id].owner = t /\ Live(s) THEN LiveOf(t) \cup {id} ELSE LiveOf(t) \ {id}
  BY LiveMoves DEF Live
<1>3. id \in LiveOf(t) <=> order[id].owner = t /\ Alive(id)
  BY DEF LiveOf, Pending
<1>4. /\ CostOf \in [Ids -> Int] /\ LotOf \in [Ids -> Int]
      /\ IsFiniteSet(LiveOf(t)) /\ LiveOf(t) \in SUBSET Ids
      /\ CostsOf(t) \in Int /\ LotsOf(t) \in Int
  BY LiveCosts
<1>5. CostsOf(t)' = SumFunctionOnSet(CostOf, LiveOf(t)') /\ LotsOf(t)' = SumFunctionOnSet(LotOf, LiveOf(t)')
  BY <1>1 DEF CostsOf, LotsOf
<1>6. CostOf[id] = Cost(order[id]) /\ LotOf[id] = Lot(order[id]) /\ CostOf[id] \in Int /\ LotOf[id] \in Int
  BY <1>4 DEF CostOf, LotOf
<1>7. CASE LiveOf(t)' = LiveOf(t)
  <2>1. ~ (order[id].owner = t /\ Live(s) /\ ~Alive(id)) /\ ~ (order[id].owner = t /\ ~Live(s) /\ Alive(id))
    BY <1>2, <1>3, <1>7
  <2>2. CostsOf(t)' = CostsOf(t) /\ LotsOf(t)' = LotsOf(t)
    BY <1>5, <1>7 DEF CostsOf, LotsOf
  <2> QED
    BY <1>4, <2>1, <2>2
<1>8. CASE LiveOf(t)' = LiveOf(t) \cup {id} /\ id \notin LiveOf(t)
  <2>1. order[id].owner = t /\ Live(s) /\ ~Alive(id)
    BY <1>2, <1>3, <1>8
  <2>2. SumFunctionOnSet(CostOf, LiveOf(t) \cup {id}) = CostOf[id] + SumFunctionOnSet(CostOf, LiveOf(t))
    BY <1>4, <1>8, SumAdd
  <2>3. SumFunctionOnSet(LotOf, LiveOf(t) \cup {id}) = LotOf[id] + SumFunctionOnSet(LotOf, LiveOf(t))
    BY <1>4, <1>8, SumAdd
  <2>4. CostsOf(t)' = CostsOf(t) + CostOf[id] /\ LotsOf(t)' = LotsOf(t) + LotOf[id]
    BY <1>4, <1>5, <1>6, <1>8, <2>2, <2>3 DEF CostsOf, LotsOf
  <2> QED
    BY <1>4, <1>6, <2>1, <2>4
<1>9. CASE LiveOf(t)' = LiveOf(t) \ {id} /\ id \in LiveOf(t)
  <2>1. order[id].owner = t /\ ~Live(s) /\ Alive(id)
    BY <1>2, <1>3, <1>9
  <2>2. SumFunctionOnSet(CostOf, LiveOf(t)) = CostOf[id] + SumFunctionOnSet(CostOf, LiveOf(t) \ {id})
    BY <1>4, <1>9, SumRemove
  <2>3. SumFunctionOnSet(LotOf, LiveOf(t)) = LotOf[id] + SumFunctionOnSet(LotOf, LiveOf(t) \ {id})
    BY <1>4, <1>9, SumRemove
  <2>4. /\ SumFunctionOnSet(CostOf, LiveOf(t) \ {id}) \in Int
        /\ SumFunctionOnSet(LotOf, LiveOf(t) \ {id}) \in Int
    <3>1. LiveOf(t) \ {id} \in SUBSET Ids /\ IsFiniteSet(LiveOf(t) \ {id})
      BY <1>4, FS_Subset
    <3> QED
      BY <1>4, <3>1, SumInt
  <2>5. CostsOf(t)' = CostsOf(t) - CostOf[id] /\ LotsOf(t)' = LotsOf(t) - LotOf[id]
    BY <1>4, <1>5, <1>6, <1>9, <2>2, <2>3, <2>4 DEF CostsOf, LotsOf
  <2> QED
    BY <1>4, <1>6, <2>1, <2>5
<1>10. \/ LiveOf(t)' = LiveOf(t)
       \/ LiveOf(t)' = LiveOf(t) \cup {id} /\ id \notin LiveOf(t)
       \/ LiveOf(t)' = LiveOf(t) \ {id} /\ id \in LiveOf(t)
  BY <1>2
<1> QED
  BY <1>7, <1>8, <1>9, <1>10

\* A step that leaves the orders as they are, or adds one that is not live yet.
LEMMA CostsStay ==
  ASSUME TypeOK, Ids \subseteq Ids', \A i \in Ids : order'[i] = order[i],
         \A i \in Ids' \ Ids : order'[i].state = "fresh", NEW t \in Traders
  PROVE  CostsOf(t)' = CostsOf(t) /\ LotsOf(t)' = LotsOf(t) /\ OpenOrders' = OpenOrders
<1>1. LiveOf(t)' = LiveOf(t)
  BY LiveStays
<1>2. \A i \in LiveOf(t) : CostOf[i] = CostOf'[i] /\ LotOf[i] = LotOf'[i]
  BY LiveCosts DEF CostOf, LotOf
<1>3. SumFunctionOnSet(CostOf, LiveOf(t)) = SumFunctionOnSet(CostOf', LiveOf(t))
  BY <1>2, LiveCosts, SumSame
<1>4. SumFunctionOnSet(LotOf, LiveOf(t)) = SumFunctionOnSet(LotOf', LiveOf(t))
  BY <1>2, LiveCosts, SumSame
<1>5. OpenOrders' = OpenOrders
  BY DEF OpenOrders, Offer, Booked
<1> QED
  BY <1>1, <1>3, <1>4, <1>5 DEF CostsOf, LotsOf

\* An order is on the market while it is booked.
LEMMA OpenMoves ==
  ASSUME TypeOK, NEW id \in Ids, NEW s \in OrderStates, SetState(id, s)
  PROVE  OpenOrders' = IF s = "booked" THEN OpenOrders \cup {Offer(id)} ELSE OpenOrders \ {Offer(id)}
<1>1. /\ Ids' = Ids
      /\ \A i \in Ids : /\ Offer(i)' = Offer(i)
                        /\ order'[i].state = IF i = id THEN s ELSE order[i].state
  BY SetStateFacts DEF Ids, Offer
<1>2. \A i, j \in Ids : Offer(i) = Offer(j) => i = j
  BY DEF Offer
<1>3. OpenOrders' = {Offer(i) : i \in {j \in Ids : order'[j].state = "booked"}}
  BY <1>1 DEF OpenOrders, Booked
<1>4. OpenOrders = {Offer(i) : i \in {j \in Ids : order[j].state = "booked"}}
  BY DEF OpenOrders, Booked
<1> HIDE DEF Offer
<1>5. CASE s = "booked"
  BY <1>1, <1>3, <1>4, <1>5
<1>6. CASE s # "booked"
  BY <1>1, <1>2, <1>3, <1>4, <1>6
<1> QED
  BY <1>5, <1>6

\* One that was not booked and is not booked is none of the market's.
LEMMA OpenStays ==
  ASSUME TypeOK, NEW id \in Ids, NEW s \in OrderStates, SetState(id, s), ~Booked(id), s # "booked"
  PROVE  OpenOrders' = OpenOrders
<1>1. Offer(id) \notin OpenOrders
  BY DEF OpenOrders, Offer
<1> QED
  BY <1>1, OpenMoves

-----------------------------------------------------------------------------
(* A trade.                                                                *)

\* The ends of the lists are the best of the market.
LEMMA BestOfBook ==
  ASSUME TypeOK, BookInOrder, Crossed, NEW i \in Ids, Booked(i)
  PROVE  /\ order[i].kind = "buy"  => order[i].price <= order[buys[Len(buys)]].price
         /\ order[i].kind = "sell" => order[sells[1]].price <= order[i].price
<1>1. \A j \in Ids : order[j].price \in Int
  BY ElementOfSeq, OrderFields, WordInt DEF TypeOK, Ids
<1>2. /\ Len(buys) \in Nat /\ DOMAIN buys = 1..Len(buys) /\ Len(buys) # 0
      /\ Len(sells) \in Nat /\ DOMAIN sells = 1..Len(sells) /\ Len(sells) # 0
  BY LenProperties, EmptySeq DEF TypeOK, Crossed
<1>3. buys[Len(buys)] \in Ids /\ sells[1] \in Ids
  BY EndsOfBook
<1>4. CASE order[i].kind = "buy"
  <2>1. i \in ToSet(buys)
    BY <1>4, BookNow
  <2>2. PICK k \in DOMAIN buys : buys[k] = i
    BY <2>1 DEF ToSet
  <2>3. k = Len(buys) \/ k < Len(buys)
    BY <1>2, <2>2
  <2>4. order[i].price <= order[buys[Len(buys)]].price
    BY <1>1, <1>2, <1>3, <2>2, <2>3 DEF BookInOrder, Ascending
  <2> QED
    BY <1>4, <2>4
<1>5. CASE order[i].kind = "sell"
  <2>1. i \in ToSet(sells)
    BY <1>5, BookNow
  <2>2. PICK k \in DOMAIN sells : sells[k] = i
    BY <2>1 DEF ToSet
  <2>3. k = 1 \/ 1 < k
    BY <1>2, <2>2
  <2>4. order[sells[1]].price <= order[i].price
    BY <1>1, <1>2, <1>3, <2>2, <2>3 DEF BookInOrder, Ascending
  <2> QED
    BY <1>5, <2>4
<1> QED
  BY <1>4, <1>5

\* What the matchmaker notes of the trade it takes on.
LEMMA TradeTerms ==
  ASSUME TypeOK, BookInOrder, StartTrade
  PROVE  /\ mm'.buy \in Ids /\ mm'.sell \in Ids /\ mm'.buy # mm'.sell
         /\ Booked(mm'.buy) /\ order[mm'.buy].kind = "buy"
         /\ Booked(mm'.sell) /\ order[mm'.sell].kind = "sell"
         /\ order[mm'.buy].owner \in Traders /\ order[mm'.sell].owner \in Traders
         /\ mm'.qty = IF order[mm'.buy].qty <= order[mm'.sell].qty
                      THEN order[mm'.buy].qty ELSE order[mm'.sell].qty
         /\ mm'.qty \in Nat /\ mm'.qty <= order[mm'.buy].qty /\ mm'.qty <= order[mm'.sell].qty
         /\ mm'.price \in Nat /\ last' = mm'.price /\ mm'.price <= order[mm'.buy].price
<1>1. /\ mm'.buy = buys[Len(buys)] /\ mm'.sell = sells[1] /\ mm' \in MMLocals
      /\ mm'.price = TradePrice(order[mm'.sell].price, order[mm'.buy].price)
  BY TradeFacts
<1>2. /\ mm'.buy \in Ids /\ mm'.sell \in Ids /\ Booked(mm'.buy) /\ Booked(mm'.sell)
      /\ order[mm'.buy].kind = "buy" /\ order[mm'.sell].kind = "sell"
      /\ order[mm'.sell].price <= order[mm'.buy].price
  BY <1>1, EndsOfBook DEF StartTrade, Crossed
<1>3. \A i \in Ids : /\ order[i].qty \in Nat /\ order[i].price \in Nat /\ order[i].owner \in Traders
  BY ElementOfSeq, OrderFields, WordNat DEF TypeOK, Ids
<1>4. /\ mm'.qty = IF order[mm'.buy].qty <= order[mm'.sell].qty
                   THEN order[mm'.buy].qty ELSE order[mm'.sell].qty
      /\ last' = mm'.price
  <2> DEFINE b == buys[Len(buys)]
             s == sells[1]
             qty == IF order[b].qty <= order[s].qty THEN order[b].qty ELSE order[s].qty
             price == TradePrice(order[s].price, order[b].price)
  <2>1. mm' = [pc |-> "credit", buy |-> b, sell |-> s, qty |-> qty, price |-> price] /\ last' = price
    BY DEF StartTrade
  <2> HIDE DEF price
  <2> QED
    BY <2>1
<1>5. last \in Int
  BY WordInt DEF TypeOK
<1>6. mm'.price <= order[mm'.buy].price
  <2>1. order[mm'.sell].price \in Int /\ order[mm'.buy].price \in Int
    BY <1>2, <1>3
  <2> QED
    BY <1>1, <1>2, <1>5, <2>1, PriceBetween
<1>7. mm'.price \in Nat
  BY <1>1, WordNat DEF MMLocals
<1> QED
  BY <1>2, <1>3, <1>4, <1>6, <1>7

\* A trade takes its cost off the buyer's order and its units off the seller's.
LEMMA TradeMoves ==
  ASSUME TypeOK, TermsInv, BookInOrder, NothingWraps, StartTrade, NEW t \in Traders
  PROVE  /\ CostsOf(t)' = CostsOf(t) -
              (IF order[mm'.buy].owner = t THEN mm'.qty * order[mm'.buy].price ELSE 0)
         /\ LotsOf(t)' = LotsOf(t) - (IF order[mm'.sell].owner = t THEN mm'.qty ELSE 0)
<1> DEFINE b == mm'.buy
           s == mm'.sell
           q == mm'.qty
           p == order[b].price
<1>1. /\ Ids' = Ids /\ order' \in Seq(Orders)
      /\ \A i \in Ids : /\ order'[i].kind = order[i].kind /\ order'[i].price = order[i].price
                        /\ order'[i].owner = order[i].owner /\ order'[i].state = order[i].state
                        /\ order'[i].qty = IF i \in {b, s} THEN order[i].qty - q ELSE order[i].qty
  BY TradeFacts DEF Ids
<1>2. /\ b \in Ids /\ s \in Ids /\ b # s /\ Booked(b) /\ Booked(s)
      /\ order[b].kind = "buy" /\ order[s].kind = "sell"
      /\ q \in Nat /\ q <= order[b].qty /\ q <= order[s].qty
  BY TradeTerms
<1>3. /\ order[b].qty \in Nat /\ p \in Nat /\ order[b].qty * p \in Nat
      /\ order[b].qty * p < Modulus /\ Cost(order[b]) = order[b].qty * p
      /\ order[s].qty \in Nat
  BY <1>2, CostExact
<1> HIDE DEF b, s, q, p
<1>4. LiveOf(t)' = LiveOf(t)
  BY <1>1 DEF LiveOf, Pending, Alive
<1>5. /\ CostOf \in [Ids -> Int] /\ LotOf \in [Ids -> Int]
      /\ IsFiniteSet(LiveOf(t)) /\ LiveOf(t) \in SUBSET Ids
      /\ CostsOf(t) \in Int /\ LotsOf(t) \in Int
  BY LiveCosts
<1>6. CostOf' \in [Ids -> Int] /\ LotOf' \in [Ids -> Int]
  <2>1. \A i \in Ids : order'[i] \in Orders
    BY <1>1, ElementOfSeq DEF Ids
  <2>2. \A i \in Ids : Cost(order'[i]) \in Int /\ Lot(order'[i]) \in Int
    BY <2>1, CostWord, WordInt
  <2> QED
    BY <1>1, <2>2 DEF CostOf, LotOf
<1>7. /\ \A i \in Ids \ {b} : CostOf[i] = CostOf'[i]
      /\ \A i \in Ids \ {s} : LotOf[i] = LotOf'[i]
  BY <1>1, <1>2 DEF CostOf, LotOf, Cost, Lot
<1>8. CostOf[b] = order[b].qty * p /\ CostOf'[b] = (order[b].qty - q) * p
  <2>1. order[b].qty - q \in Nat /\ order[b].qty - q <= order[b].qty
    BY <1>2, <1>3
  <2>2. (order[b].qty - q) * p \in Nat /\ (order[b].qty - q) * p <= order[b].qty * p
    BY <1>3, <2>1, ProductNat
  <2>3. (order[b].qty - q) * p < Modulus
    BY <1>3, <2>2, WordAssumption
  <2>4. Wrap((order[b].qty - q) * p) = (order[b].qty - q) * p
    BY <2>2, <2>3, WrapWithin
  <2>5. Cost(order'[b]) = Wrap((order[b].qty - q) * p)
    BY <1>1, <1>2 DEF Cost, p
  <2> QED
    BY <1>1, <1>2, <1>3, <2>4, <2>5 DEF CostOf
<1>9. LotOf[s] = order[s].qty /\ LotOf'[s] = order[s].qty - q
  BY <1>1, <1>2 DEF LotOf, Lot
<1>10. (order[b].qty - q) * p = order[b].qty * p - q * p /\ q * p \in Int
  BY <1>2, <1>3
<1>11. CostsOf(t)' = CostsOf(t) - (IF order[b].owner = t THEN q * p ELSE 0)
  <2>1. CASE b \in LiveOf(t)
    <3>1. SumFunctionOnSet(CostOf', LiveOf(t)) = SumFunctionOnSet(CostOf, LiveOf(t)) - CostOf[b] + CostOf'[b]
      BY <1>5, <1>6, <1>7, <2>1, SumChange
    <3>2. order[b].owner = t
      BY <2>1 DEF LiveOf
    <3> QED
      BY <1>3, <1>4, <1>5, <1>8, <1>10, <3>1, <3>2 DEF CostsOf
  <2>2. CASE b \notin LiveOf(t)
    <3>1. SumFunctionOnSet(CostOf, LiveOf(t)) = SumFunctionOnSet(CostOf', LiveOf(t))
      BY <1>5, <1>7, <2>2, SumSame
    <3>2. order[b].owner # t
      BY <1>2, <2>2 DEF LiveOf, Pending, Alive, Booked
    <3> QED
      BY <1>4, <1>5, <3>1, <3>2 DEF CostsOf
  <2> QED
    BY <2>1, <2>2
<1>12. LotsOf(t)' = LotsOf(t) - (IF order[s].owner = t THEN q ELSE 0)
  <2>1. CASE s \in LiveOf(t)
    <3>1. SumFunctionOnSet(LotOf', LiveOf(t)) = SumFunctionOnSet(LotOf, LiveOf(t)) - LotOf[s] + LotOf'[s]
      BY <1>5, <1>6, <1>7, <2>1, SumChange
    <3>2. order[s].owner = t
      BY <2>1 DEF LiveOf
    <3> QED
      BY <1>2, <1>3, <1>4, <1>5, <1>9, <3>1, <3>2 DEF LotsOf
  <2>2. CASE s \notin LiveOf(t)
    <3>1. SumFunctionOnSet(LotOf, LiveOf(t)) = SumFunctionOnSet(LotOf', LiveOf(t))
      BY <1>5, <1>7, <2>2, SumSame
    <3>2. order[s].owner # t
      BY <1>2, <2>2 DEF LiveOf, Pending, Alive, Booked
    <3> QED
      BY <1>4, <1>5, <3>1, <3>2 DEF LotsOf
  <2> QED
    BY <2>1, <2>2
<1> QED
  BY <1>11, <1>12 DEF b, s, q, p

\* The orders of a trade are on the market, what is left of them stays there.
LEMMA TradeOpens ==
  ASSUME TypeOK, BookInOrder, StartTrade
  PROVE  OpenOrders' = (OpenOrders \ {Offer(mm'.buy), Offer(mm'.sell)})
                       \cup {[Offer(mm'.buy) EXCEPT !.qty = @ - mm'.qty],
                             [Offer(mm'.sell) EXCEPT !.qty = @ - mm'.qty]}
<1> DEFINE b == mm'.buy
           s == mm'.sell
           q == mm'.qty
           Rest(i) == [Offer(i) EXCEPT !.qty = @ - q]
<1>1. /\ Ids' = Ids
      /\ \A i \in Ids : /\ order'[i].kind = order[i].kind /\ order'[i].price = order[i].price
                        /\ order'[i].owner = order[i].owner /\ order'[i].state = order[i].state
                        /\ order'[i].qty = IF i \in {b, s} THEN order[i].qty - q ELSE order[i].qty
  BY TradeFacts DEF Ids
<1>2. b \in Ids /\ s \in Ids /\ Booked(b) /\ Booked(s)
  BY TradeTerms
<1> HIDE DEF b, s, q
<1>3. \A i \in Ids : Offer(i)' = IF i \in {b, s} THEN Rest(i) ELSE Offer(i)
  BY <1>1 DEF Offer
<1>4. \A i, j \in Ids : Offer(i) = Offer(j) => i = j
  BY DEF Offer
<1>5. /\ OpenOrders = {Offer(i) : i \in {j \in Ids : order[j].state = "booked"}}
      /\ OpenOrders' = {Offer(i)' : i \in {j \in Ids : order[j].state = "booked"}}
  BY <1>1 DEF OpenOrders, Booked
<1>6. order[b].state = "booked" /\ order[s].state = "booked"
  BY <1>2 DEF Booked
<1>7. OpenOrders' = {IF i \in {b, s} THEN Rest(i) ELSE Offer(i) : i \in {j \in Ids : order[j].state = "booked"}}
  BY <1>3, <1>5
<1> HIDE DEF Rest
<1>8. OpenOrders' = (OpenOrders \ {Offer(b), Offer(s)}) \cup {Rest(b), Rest(s)}
  BY <1>2, <1>4, <1>5, <1>6, <1>7
<1> QED
  BY <1>8 DEF b, s, q, Rest

\* The matchmaker's taking on of a trade is a trade of the market.
LEMMA MarketTrades ==
  ASSUME Inv, TermsInv, NothingWraps, StartTrade
  PROVE  \E b, s \in OpenOrders : M!Trade(b, s)
<1> DEFINE b == Offer(mm'.buy)
           s == Offer(mm'.sell)
           q == mm'.qty
           p == mm'.price
           v == q * p
<1>1. TypeOK /\ BookInOrder /\ TradeInv /\ Crossed /\ mm.pc = "match"
  BY DEF Inv, StartTrade
<1>2. /\ mm'.buy \in Ids /\ mm'.sell \in Ids /\ mm'.buy # mm'.sell
      /\ Booked(mm'.buy) /\ order[mm'.buy].kind = "buy"
      /\ Booked(mm'.sell) /\ order[mm'.sell].kind = "sell"
      /\ order[mm'.buy].owner \in Traders /\ order[mm'.sell].owner \in Traders
      /\ mm'.qty = IF order[mm'.buy].qty <= order[mm'.sell].qty
                   THEN order[mm'.buy].qty ELSE order[mm'.sell].qty
      /\ mm'.qty \in Nat /\ mm'.price \in Nat /\ last' = mm'.price
  BY <1>1, TradeTerms
<1>3. /\ mm'.buy = buys[Len(buys)] /\ mm'.sell = sells[1] /\ mm'.pc = "credit"
      /\ mm'.price = TradePrice(order[mm'.sell].price, order[mm'.buy].price)
      /\ order[mm'.sell].price <= order[mm'.buy].price
      /\ order'[mm'.buy].owner = order[mm'.buy].owner
      /\ order'[mm'.sell].owner = order[mm'.sell].owner
      /\ order'[mm'.buy].price = order[mm'.buy].price
  BY <1>1, <1>2, TradeFacts DEF Crossed
<1>4. /\ b.kind = "buy" /\ s.kind = "sell" /\ b.price = order[mm'.buy].price
      /\ s.price = order[mm'.sell].price /\ b.qty = order[mm'.buy].qty /\ s.qty = order[mm'.sell].qty
      /\ b.owner = order[mm'.buy].owner /\ s.owner = order[mm'.sell].owner
      /\ b \in OpenOrders /\ s \in OpenOrders
  BY <1>2 DEF Offer, OpenOrders
<1>5. b \in M!BestBids
  <2>1. \A o \in OpenOrders : o.kind = "buy" => o.price <= b.price
    <3>1. ASSUME NEW i \in Ids, Booked(i), order[i].kind = "buy"
          PROVE  order[i].price <= b.price
      BY <1>1, <1>3, <1>4, <3>1, BestOfBook
    <3> QED
      BY <3>1 DEF OpenOrders, Offer
  <2> HIDE DEF b
  <2> QED
    BY <1>4, <2>1 DEF M!BestBids, M!Kind
<1>6. s \in M!BestAsks
  <2>1. \A o \in OpenOrders : o.kind = "sell" => o.price >= s.price
    <3>1. ASSUME NEW i \in Ids, Booked(i), order[i].kind = "sell"
          PROVE  order[i].price >= s.price
      <4>1. s.price <= order[i].price
        BY <1>1, <1>3, <1>4, <3>1, BestOfBook
      <4>2. s.price \in Int /\ order[i].price \in Int
        BY <1>1, <1>2, <1>4, <3>1, ElementOfSeq, OrderFields, WordInt DEF TypeOK, Ids
      <4> QED
        BY <4>1, <4>2
    <3> QED
      BY <3>1 DEF OpenOrders, Offer
  <2> HIDE DEF s
  <2> QED
    BY <1>4, <2>1 DEF M!BestAsks, M!Kind
<1>7. M!Fair(p, b, s)
  <2>1. last \in Int /\ s.price \in Int /\ b.price \in Int
    BY <1>1, <1>2, <1>4, ElementOfSeq, OrderFields, WordInt DEF TypeOK, Ids
  <2>2. p = TradePrice(s.price, b.price) /\ s.price <= b.price
    BY <1>3, <1>4
  <2> HIDE DEF p, s, b
  <2> QED
    BY <2>1, <2>2, PriceBetween DEF M!Fair
<1>8. OpenOrders' = (OpenOrders \ {b, s}) \cup {[b EXCEPT !.qty = @ - q], [s EXCEPT !.qty = @ - q]}
  BY <1>1, TradeOpens
<1>9. v \in Nat /\ q \in Nat /\ p \in Nat
  <2> HIDE DEF p, q
  <2>1. q \in Nat /\ p \in Nat
    BY <1>2 DEF p, q
  <2> QED
    BY <2>1
<1>10. ASSUME NEW t \in Traders
       PROVE  /\ Cash(t)' = Cash(t) + (IF t = s.owner THEN v ELSE 0) - (IF t = b.owner THEN v ELSE 0)
              /\ Goods(t)' = Goods(t) + (IF t = b.owner THEN q ELSE 0) - (IF t = s.owner THEN q ELSE 0)
  <2> DEFINE pb == order[mm'.buy].price
             u == q * pb
             r == q * (pb - p)
  <2>1. pb \in Nat /\ u \in Nat /\ r \in Int /\ u - r = v
    <3>1. pb \in Nat
      BY <1>1, <1>2, ElementOfSeq, OrderFields, WordNat DEF TypeOK, Ids
    <3> HIDE DEF pb, p, q
    <3>2. u \in Nat /\ r \in Int /\ r = u - v
      BY <1>9, <3>1
    <3> QED
      BY <1>9, <3>1, <3>2
  <2>2. /\ CostsOf(t)' = CostsOf(t) - (IF b.owner = t THEN u ELSE 0)
        /\ LotsOf(t)' = LotsOf(t) - (IF s.owner = t THEN q ELSE 0)
    BY <1>1, <1>4, TradeMoves
  <2>3. /\ CashDue(t)' = (IF s.owner = t THEN v ELSE 0) + (IF b.owner = t THEN r ELSE 0)
        /\ GoodsDue(t)' = (IF b.owner = t THEN q ELSE 0)
    BY <1>3, <1>4 DEF CashDue, GoodsDue, Due, Refund, Trading
  <2>4. CashDue(t) = 0 /\ GoodsDue(t) = 0
    BY <1>1, NothingDue
  <2>5. balance'[t] = balance[t] /\ inventory'[t] = inventory[t]
    BY DEF StartTrade, accounts
  <2>6. /\ balance[t] \in Nat /\ inventory[t] \in Nat /\ CostsOf(t) \in Nat /\ LotsOf(t) \in Nat
    BY <1>1, LiveCosts, WordNat DEF TypeOK
  <2>7. /\ Cash(t) = balance[t] + CostsOf(t) + CashDue(t)
        /\ Goods(t) = inventory[t] + LotsOf(t) + GoodsDue(t)
        /\ Cash(t)' = balance'[t] + CostsOf(t)' + CashDue(t)'
        /\ Goods(t)' = inventory'[t] + LotsOf(t)' + GoodsDue(t)'
    BY DEF Cash, Goods, CostsOf, LotsOf
  <2> HIDE DEF b, s, v, q, p, u, r
  <2>8. Cash(t)' = Cash(t) + (IF t = s.owner THEN v ELSE 0) - (IF t = b.owner THEN v ELSE 0)
    BY <1>9, <2>1, <2>2, <2>3, <2>4, <2>5, <2>6, <2>7
  <2>9. Goods(t)' = Goods(t) + (IF t = b.owner THEN q ELSE 0) - (IF t = s.owner THEN q ELSE 0)
    <3>1. Goods(t) = inventory[t] + LotsOf(t) /\ inventory[t] \in Nat /\ LotsOf(t) \in Nat /\ q \in Nat
      BY <1>9, <2>4, <2>6, <2>7
    <3>2. Goods(t)' = inventory[t] + (LotsOf(t) - (IF s.owner = t THEN q ELSE 0))
                      + (IF b.owner = t THEN q ELSE 0)
      BY <2>2, <2>3, <2>5, <2>7
    <3> QED
      BY <3>1, <3>2
  <2> QED
    BY <2>8, <2>9
<1>11. /\ CashOf' = [t \in Traders |-> CashOf[t] + (IF t = s.owner THEN q * p ELSE 0)
                                                - (IF t = b.owner THEN q * p ELSE 0)]
       /\ GoodsOf' = [t \in Traders |-> GoodsOf[t] + (IF t = b.owner THEN q ELSE 0)
                                                  - (IF t = s.owner THEN q ELSE 0)]
  <2> HIDE DEF b, s, q, p
  <2> QED
    BY <1>10 DEF CashOf, GoodsOf
<1>12. q = IF b.qty <= s.qty THEN b.qty ELSE s.qty
  BY <1>2, <1>4
<1>13. last' = p
  BY <1>2
<1>14. s.price <= b.price
  BY <1>3, <1>4
<1> HIDE DEF b, s, q, p
<1>15. CanceledBy' = CanceledBy
  BY DEF StartTrade, threads, CanceledBy
<1>16. M!Trade(b, s)
  BY <1>4, <1>5, <1>6, <1>7, <1>8, <1>11, <1>12, <1>13, <1>14, <1>15 DEF M!Trade
<1> QED
  BY <1>4, <1>16

-----------------------------------------------------------------------------
(* Every trader can pay for what it bids for and deliver what it offers.   *)

\* The booked orders of a trader, by side.
Stands(t, kind) == {i \in Ids : Booked(i) /\ order[i].kind = kind /\ order[i].owner = t}

LEMMA StandsLive ==
  ASSUME TypeOK, NEW t \in Traders, NEW kind
  PROVE  /\ Stands(t, kind) \in SUBSET LiveOf(t) /\ IsFiniteSet(Stands(t, kind))
         /\ M!Of(t, kind) = {Offer(i) : i \in Stands(t, kind)}
<1>1. Stands(t, kind) \in SUBSET LiveOf(t)
  BY DEF Stands, LiveOf, Pending, Alive, Booked
<1>2. IsFiniteSet(Stands(t, kind))
  BY <1>1, LiveFinite, FS_Subset
<1>3. M!Of(t, kind) = {Offer(i) : i \in Stands(t, kind)}
  BY DEF M!Of, M!Kind, OpenOrders, Offer, Stands
<1> QED
  BY <1>1, <1>2, <1>3

\* A sum over a trader's orders on the market is one over its booked orders.
LEMMA SumOfOffers ==
  ASSUME TypeOK, NEW t \in Traders, NEW kind, NEW h \in [M!Of(t, kind) -> Int],
         NEW g \in [Ids -> Nat], \A i \in Stands(t, kind) : h[Offer(i)] = g[i]
  PROVE  /\ SumFunctionOnSet(h, M!Of(t, kind)) \in Nat
         /\ SumFunctionOnSet(h, M!Of(t, kind)) <= SumFunctionOnSet(g, LiveOf(t))
<1> DEFINE S == Stands(t, kind)
           r == [i \in S |-> Offer(i)]
           k == [i \in S |-> g[i]]
           E == M!Of(t, kind)
<1>1. /\ S \in SUBSET LiveOf(t) /\ IsFiniteSet(S) /\ E = {Offer(i) : i \in S}
      /\ LiveOf(t) \in SUBSET Ids /\ IsFiniteSet(LiveOf(t))
  BY StandsLive, LiveCosts
<1> HIDE DEF S, E
<1>2. \A x, y \in S : r[x] = r[y] => x = y
  BY DEF Offer
<1>3. (\A x \in S : r[x] \in E) /\ E = {r[x] : x \in S}
  BY <1>1
<1>4. k \in [S -> Int] /\ \A x \in S : k[x] = h[r[x]]
  BY <1>1 DEF S
<1> HIDE DEF r
<1>5. SumFunctionOnSet(h, E) = SumFunctionOnSet(k, S)
  <2>1. h \in [E -> Int]
    BY DEF E
  <2> HIDE DEF k
  <2>2. /\ IsFiniteSet(S) /\ (\A x, y \in S : r[x] = r[y] => x = y) /\ (\A x \in S : r[x] \in E)
        /\ k \in [S -> Int] /\ \A x \in S : k[x] = h[r[x]]
    BY <1>1, <1>2, <1>3, <1>4
  <2>3. SumFunctionOnSet(h, {r[x] : x \in S}) = SumFunctionOnSet(k, S)
    BY <2>1, <2>2, SumOfImages
  <2> QED
    BY <1>3, <2>3
<1>6. SumFunctionOnSet(k, S) = SumFunctionOnSet(g, S)
  <2>1. \A x \in S : k[x] = g[x]
    OBVIOUS
  <2> HIDE DEF k
  <2> QED
    BY <1>1, <2>1, SumSame
<1>7. SumFunctionOnSet(g, S) <= SumFunctionOnSet(g, LiveOf(t))
  BY <1>1, SumWithin
<1>8. SumFunctionOnSet(g, S) \in Nat
  BY <1>1, SumNat
<1> QED
  BY <1>5, <1>6, <1>7, <1>8 DEF E

\* The market's sums are those of the accounts.
LEMMA SameSums ==
  ASSUME NEW f, NEW S
  PROVE  M!SumFunctionOnSet(f, S) = SumFunctionOnSet(f, S)
BY DEF M!SumFunctionOnSet, SumFunctionOnSet, M!FoldFunctionOnSet, FoldFunctionOnSet,
       M!MapThenFoldSet, MapThenFoldSet

Sound == TypeOK /\ TradeInv /\ TermsInv /\ NothingWraps

LEMMA Solvency == Sound => \A t \in Traders : M!Solvent(t)
<1> SUFFICES ASSUME Sound, NEW t \in Traders
             PROVE  M!Solvent(t)
  OBVIOUS
<1>1. TypeOK /\ TradeInv /\ TermsInv /\ NothingWraps
  BY DEF Sound
<1> DEFINE Bids == M!Of(t, "buy")
           Asks == M!Of(t, "sell")
           hb   == [o \in Bids |-> o.qty * o.price]
           hs   == [o \in Asks |-> o.qty]
<1>2. SumFunctionOnSet(hb, Bids) \in Nat /\ SumFunctionOnSet(hb, Bids) <= CostsOf(t)
  <2>1. ASSUME NEW i \in Stands(t, "buy")
        PROVE  /\ Offer(i) \in Bids /\ Offer(i).qty * Offer(i).price = CostOf[i]
               /\ CostOf[i] \in Int
    <3>1. i \in Ids /\ order[i].kind = "buy"
      BY DEF Stands
    <3>2. Cost(order[i]) = order[i].qty * order[i].price /\ order[i].qty * order[i].price \in Nat
      BY <1>1, <3>1, CostExact
    <3>3. Offer(i) \in Bids
      BY <1>1, <2>1, StandsLive
    <3> QED
      BY <3>1, <3>2, <3>3 DEF Offer, CostOf
  <2>2. Bids = {Offer(i) : i \in Stands(t, "buy")}
    BY <1>1, StandsLive
  <2>3. hb \in [Bids -> Int]
    BY <2>1, <2>2
  <2>4. \A i \in Stands(t, "buy") : hb[Offer(i)] = CostOf[i]
    BY <2>1
  <2>5. CostOf \in [Ids -> Nat]
    BY <1>1, LiveCosts
  <2> HIDE DEF hb
  <2> QED
    BY <1>1, <2>3, <2>4, <2>5, SumOfOffers DEF CostsOf
<1>3. SumFunctionOnSet(hs, Asks) \in Nat /\ SumFunctionOnSet(hs, Asks) <= LotsOf(t)
  <2>1. ASSUME NEW i \in Stands(t, "sell")
        PROVE  /\ Offer(i) \in Asks /\ Offer(i).qty = LotOf[i]
               /\ LotOf[i] \in Int
    <3>1. i \in Ids /\ order[i].kind = "sell"
      BY DEF Stands
    <3>2. Lot(order[i]) = order[i].qty /\ order[i].qty \in Nat
      BY <1>1, <3>1, CostExact DEF Lot
    <3>3. Offer(i) \in Asks
      BY <1>1, <2>1, StandsLive
    <3> QED
      BY <3>1, <3>2, <3>3 DEF Offer, LotOf
  <2>2. Asks = {Offer(i) : i \in Stands(t, "sell")}
    BY <1>1, StandsLive
  <2>3. hs \in [Asks -> Int]
    BY <2>1, <2>2
  <2>4. \A i \in Stands(t, "sell") : hs[Offer(i)] = LotOf[i]
    BY <2>1
  <2>5. LotOf \in [Ids -> Nat]
    BY <1>1, LiveCosts
  <2> HIDE DEF hs
  <2> QED
    BY <1>1, <2>3, <2>4, <2>5, SumOfOffers DEF LotsOf
<1>4. /\ CashOf[t] = balance[t] + CostsOf(t) + CashDue(t)
      /\ GoodsOf[t] = inventory[t] + LotsOf(t) + GoodsDue(t)
  BY CashIs
<1>5. /\ balance[t] \in Nat /\ inventory[t] \in Nat /\ CostsOf(t) \in Nat /\ LotsOf(t) \in Nat
      /\ CashDue(t) \in Nat /\ GoodsDue(t) \in Nat
  BY <1>1, LiveCosts, DueNat, WordNat DEF TypeOK
<1> HIDE DEF hb, hs
<1>6. SumFunctionOnSet(hb, Bids) <= CashOf[t] /\ SumFunctionOnSet(hs, Asks) <= GoodsOf[t]
  BY <1>2, <1>3, <1>4, <1>5
<1>7. M!SumFunctionOnSet(hb, Bids) <= CashOf[t] /\ M!SumFunctionOnSet(hs, Asks) <= GoodsOf[t]
  BY <1>6, SameSums
<1> QED
  BY <1>7 DEF M!Solvent, hb, hs

LEMMA SolvencyNext == Sound' => \A t \in Traders : M!Solvent(t)'
<1>1. Sound' => (\A t \in Traders : M!Solvent(t))'
  BY Solvency, PTL
<1> QED
  BY <1>1

-----------------------------------------------------------------------------
(* The steps of the threads, as steps of the market.                       *)

Owned == <<CashOf, GoodsOf, OpenOrders, last>>

\* Only a cancel and its end change what cancels are under way.
LEMMA CancelStays ==
  ASSUME TypeOK, NEW t \in Traders, NEW label, label # "release", pc[t] # "release", GoTo(t, label),
         \A u \in Traders : u # t => cur'[u] = cur[u]
  PROVE  CanceledBy' = CanceledBy
<1>1. \A u \in Traders : pc'[u] = IF u = t THEN label ELSE pc[u]
  BY GoToFacts
<1> QED
  BY <1>1 DEF CanceledBy

LEMMA CancelsStay ==
  ASSUME TypeOK, NEW t \in Traders,
         \/ Status(t) \/ Reserve(t) \/ InsertBuy(t) \/ InsertSell(t) \/ Announce(t) \/ ReadId(t)
         \/ Reply(t) \/ Session(t)
         \/ \E n \in Deposits : Deposit(t, n) \/ Withdraw(t, n)
         \/ \E n \in Escrows : Escrow(t, n) \/ Release(t, n)
         \/ \E kind \in {"buy", "sell"}, q \in Quantities, p \in Prices : NewOrder(t, kind, q, p)
         \/ \E id \in 1..MaxOrders : CancelRefused(t, id)
  PROVE  CanceledBy' = CanceledBy
<1>1. CASE LoginRefused(t)
  BY <1>1 DEF LoginRefused, threads, CanceledBy
<1>2. CASE ~LoginRefused(t)
  <2>1. \/ pc[t] = "idle" /\ (GoTo(t, "reply") \/ GoTo(t, "reserve") \/ GoTo(t, "closed"))
        \/ pc[t] = "reserve" /\ (GoTo(t, "insert") \/ GoTo(t, "reply"))
        \/ pc[t] = "insert" /\ GoTo(t, "announce")
        \/ pc[t] = "announce" /\ GoTo(t, "readid")
        \/ pc[t] = "readid" /\ GoTo(t, "reply")
        \/ pc[t] \in {"reply", "closed"} /\ GoTo(t, "idle")
    BY <1>2 DEF Status, Reserve, InsertBuy, InsertSell, Announce, ReadId, Reply, Session, Logout, Login,
       Deposit, Withdraw, Escrow, Release, NewOrder, CancelRefused
  <2>2. \A u \in Traders : u # t => cur'[u] = cur[u]
    BY <1>2 DEF TypeOK, Status, Reserve, InsertBuy, InsertSell, Announce, ReadId, Reply, Session, Logout,
       Login, Deposit, Withdraw, Escrow, Release, NewOrder, CancelRefused
  <2> QED
    BY <2>1, <2>2, CancelStays
<1> QED
  BY <1>1, <1>2

\* A step that moves what a trader owns from one place to another leaves all
\* that the traders own, the market's orders and the price alone.
LEMMA MarketStill ==
  ASSUME \A t \in Traders : Cash(t)' = Cash(t) /\ Goods(t)' = Goods(t),
         OpenOrders' = OpenOrders, last' = last
  PROVE  UNCHANGED Owned
BY DEF Owned, CashOf, GoodsOf

\* So does one that changes no account, no order there is and no trade.
LEMMA MarketIdle ==
  ASSUME TypeOK, TradeInv, Progress, UNCHANGED <<balance, inventory, last>>,
         \A i \in Ids : order'[i] = order[i],
         \/ UNCHANGED mm
         \/ /\ mm.pc \notin {"credit", "deliver", "refund"}
            /\ mm'.pc \notin {"credit", "deliver", "refund"}
  PROVE  UNCHANGED Owned
<1>1. Ids \subseteq Ids' /\ \A i \in Ids' \ Ids : order'[i].state = "fresh"
  BY DEF Progress
<1>2. OpenOrders' = OpenOrders
  BY <1>1 DEF OpenOrders, Offer, Booked
<1>3. ASSUME NEW t \in Traders
      PROVE  Cash(t)' = Cash(t) /\ Goods(t)' = Goods(t)
  <2>1. CostsOf(t)' = CostsOf(t) /\ LotsOf(t)' = LotsOf(t)
    BY <1>1, CostsStay
  <2>2. CASE UNCHANGED mm
    <3>1. CashDue(t)' = CashDue(t) /\ GoodsDue(t)' = GoodsDue(t)
      BY <2>2, DueStays
    <3> QED
      BY <2>1, <3>1 DEF Cash, Goods, CostsOf, LotsOf
  <2>3. CASE /\ mm.pc \notin {"credit", "deliver", "refund"}
             /\ mm'.pc \notin {"credit", "deliver", "refund"}
    <3>1. CashDue(t)' = CashDue(t) /\ GoodsDue(t)' = GoodsDue(t)
      BY <2>3 DEF CashDue, GoodsDue
    <3> QED
      BY <2>1, <3>1 DEF Cash, Goods, CostsOf, LotsOf
  <2> QED
    BY <2>2, <2>3
<1> QED
  BY <1>2, <1>3, MarketStill

\* What a trader owns is what it has in its account, orders and dues.
LEMMA Owns ==
  ASSUME TypeOK, TradeInv, TermsInv, NEW t \in Traders
  PROVE  /\ balance[t] \in Nat /\ inventory[t] \in Nat /\ CostsOf(t) \in Nat /\ LotsOf(t) \in Nat
         /\ CashDue(t) \in Nat /\ GoodsDue(t) \in Nat
         /\ Cash(t) = balance[t] + CostsOf(t) + CashDue(t)
         /\ Goods(t) = inventory[t] + LotsOf(t) + GoodsDue(t)
         /\ Cash(t)' = balance'[t] + CostsOf(t)' + CashDue(t)'
         /\ Goods(t)' = inventory'[t] + LotsOf(t)' + GoodsDue(t)'
<1>1. balance[t] \in Nat /\ inventory[t] \in Nat
  BY WordNat DEF TypeOK
<1>2. CostsOf(t) \in Nat /\ LotsOf(t) \in Nat
  BY LiveCosts
<1>3. CashDue(t) \in Nat /\ GoodsDue(t) \in Nat
  BY DueNat
<1> QED
  BY <1>1, <1>2, <1>3 DEF Cash, Goods, CostsOf, LotsOf

\* DEPOSIT, WITHDRAW, ESCROW and RELEASE.
LEMMA MarketAccounts ==
  ASSUME Inv, TermsInv, NothingWraps, Sound', Progress, NEW t \in Traders,
         \/ \E n \in Deposits : Deposit(t, n) \/ Withdraw(t, n)
         \/ \E n \in Escrows : Escrow(t, n) \/ Release(t, n)
  PROVE  M!Next \/ UNCHANGED M!vars
<1>1. TypeOK /\ TradeInv
  BY DEF Inv
<1>2. UNCHANGED <<order, mm, last>>
  BY DEF Deposit, Withdraw, Escrow, Release, book
<1>3. OpenOrders' = OpenOrders
  BY <1>2 DEF OpenOrders, Offer, Booked, Ids
<1>4. \A u \in Traders :
        /\ CostsOf(u)' = CostsOf(u) /\ LotsOf(u)' = LotsOf(u)
        /\ CashDue(u)' = CashDue(u) /\ GoodsDue(u)' = GoodsDue(u)
  BY <1>1, <1>2, CostsStay, DueStays DEF Ids
<1>5. \A u \in Traders :
        /\ balance[u] \in Nat /\ inventory[u] \in Nat
        /\ CostsOf(u) \in Nat /\ LotsOf(u) \in Nat /\ CashDue(u) \in Nat /\ GoodsDue(u) \in Nat
        /\ Cash(u) = balance[u] + CostsOf(u) + CashDue(u)
        /\ Goods(u) = inventory[u] + LotsOf(u) + GoodsDue(u)
        /\ Cash(u)' = balance'[u] + CostsOf(u)' + CashDue(u)'
        /\ Goods(u)' = inventory'[u] + LotsOf(u)' + GoodsDue(u)'
  BY <1>1, Owns
<1>6. /\ balance \in [Traders -> Word] /\ inventory \in [Traders -> Word]
      /\ CanceledBy' = CanceledBy
  BY <1>1, CancelsStay DEF TypeOK
<1>7. ASSUME NEW n \in Deposits, NEW d \in {n, -n}, UNCHANGED inventory,
             \A u \in Traders : balance'[u] = balance[u] + (IF u = t THEN d ELSE 0)
      PROVE  M!Next \/ UNCHANGED M!vars
  <2>1. n \in Nat /\ d \in Int
    <3>1. n \in Nat
      BY RequestWords, WordNat
    <3>2. -n \in Int /\ n \in Int
      BY <3>1
    <3> QED
      BY <3>1, <3>2
  <2>2. \A u \in Traders : Goods(u)' = Goods(u) /\ Cash(u)' = Cash(u) + (IF u = t THEN d ELSE 0)
    BY <1>4, <1>5, <1>7, <2>1
  <2>3. GoodsOf' = GoodsOf /\ CashOf' = [CashOf EXCEPT ![t] = @ + d]
    <3>1. GoodsOf' = GoodsOf
      BY <2>2 DEF GoodsOf
    <3>2. \A u \in Traders : CashOf[u] = Cash(u) /\ CashOf'[u] = Cash(u)' /\ Cash(u) \in Int
      BY <1>5, CashIs DEF CashOf
    <3>3. DOMAIN CashOf = Traders /\ CashOf' = [u \in Traders |-> CashOf'[u]]
          /\ CashOf = [u \in Traders |-> CashOf[u]]
      BY DEF CashOf
    <3>4. \A u \in Traders : CashOf'[u] = IF u = t THEN CashOf[u] + d ELSE CashOf[u]
      BY <2>1, <2>2, <3>2
    <3> HIDE DEF CashOf
    <3> QED
      BY <3>1, <3>3, <3>4
  <2>4. CASE CashOf' = CashOf
    BY <1>2, <1>3, <1>6, <2>3, <2>4 DEF M!vars
  <2>5. CASE CashOf' # CashOf
    <3>1. CashOf' \in {[CashOf EXCEPT ![t] = @ + n], [CashOf EXCEPT ![t] = @ - n]}
      <4>1. CashOf[t] \in Int /\ (d = n \/ d = -n)
        BY <1>5, CashIs
      <4>2. CashOf[t] + (-n) = CashOf[t] - n
        BY <2>1, <4>1
      <4> QED
        BY <2>3, <4>1, <4>2
    <3>2. M!Solvent(t)'
      BY SolvencyNext
    <3>3. M!MoveCash
      BY <1>2, <1>6, <2>3, <2>5, <3>1, <3>2 DEF M!MoveCash
    <3> QED
      BY <1>3, <3>3 DEF M!Next
  <2> QED
    BY <2>4, <2>5
<1>8. ASSUME NEW n \in Escrows, NEW d \in {n, -n}, UNCHANGED balance,
             \A u \in Traders : inventory'[u] = inventory[u] + (IF u = t THEN d ELSE 0)
      PROVE  M!Next \/ UNCHANGED M!vars
  <2>1. n \in Nat /\ d \in Int
    <3>1. n \in Nat
      BY RequestWords, WordNat
    <3>2. -n \in Int /\ n \in Int
      BY <3>1
    <3> QED
      BY <3>1, <3>2
  <2>2. \A u \in Traders : Cash(u)' = Cash(u) /\ Goods(u)' = Goods(u) + (IF u = t THEN d ELSE 0)
    BY <1>4, <1>5, <1>8, <2>1
  <2>3. CashOf' = CashOf /\ GoodsOf' = [GoodsOf EXCEPT ![t] = @ + d]
    <3>1. CashOf' = CashOf
      BY <2>2 DEF CashOf
    <3>2. \A u \in Traders : GoodsOf[u] = Goods(u) /\ GoodsOf'[u] = Goods(u)' /\ Goods(u) \in Int
      BY <1>5, CashIs DEF GoodsOf
    <3>3. DOMAIN GoodsOf = Traders /\ GoodsOf' = [u \in Traders |-> GoodsOf'[u]]
          /\ GoodsOf = [u \in Traders |-> GoodsOf[u]]
      BY DEF GoodsOf
    <3>4. \A u \in Traders : GoodsOf'[u] = IF u = t THEN GoodsOf[u] + d ELSE GoodsOf[u]
      BY <2>1, <2>2, <3>2
    <3> HIDE DEF GoodsOf
    <3> QED
      BY <3>1, <3>3, <3>4
  <2>4. CASE GoodsOf' = GoodsOf
    BY <1>2, <1>3, <1>6, <2>3, <2>4 DEF M!vars
  <2>5. CASE GoodsOf' # GoodsOf
    <3>1. GoodsOf' \in {[GoodsOf EXCEPT ![t] = @ + n], [GoodsOf EXCEPT ![t] = @ - n]}
      <4>1. GoodsOf[t] \in Int /\ (d = n \/ d = -n)
        BY <1>5, CashIs
      <4>2. GoodsOf[t] + (-n) = GoodsOf[t] - n
        BY <2>1, <4>1
      <4> QED
        BY <2>3, <4>1, <4>2
    <3>2. M!Solvent(t)'
      BY SolvencyNext
    <3>3. M!MoveGoods
      BY <1>2, <1>6, <2>3, <2>5, <3>1, <3>2 DEF M!MoveGoods
    <3> QED
      BY <1>3, <3>3 DEF M!Next
  <2> QED
    BY <2>4, <2>5
<1>9. CASE UNCHANGED <<balance, inventory>>
  BY <1>1, <1>2, <1>6, <1>9, MarketIdle DEF Owned, M!vars
<1>10. ASSUME NEW n \in Deposits, Deposit(t, n)
       PROVE  M!Next \/ UNCHANGED M!vars
  <2>1. n \in Nat /\ balance[t] + n < Modulus
    <3>1. n \in Nat /\ Cash(t) + n < Modulus
      BY RequestWords, WordNat DEF NothingWraps
    <3>2. balance[t] \in Nat /\ Cash(t) \in Nat /\ balance[t] <= Cash(t)
      BY <1>5
    <3> QED
      BY <3>1, <3>2, WordAssumption
  <2>2. Wrap(balance[t] + n) = balance[t] + n
    BY <1>5, <2>1, WrapWithin
  <2>3. balance' = [balance EXCEPT ![t] = Wrap(@ + n)] /\ UNCHANGED inventory
    BY <1>10 DEF Deposit
  <2>4. \A u \in Traders : balance'[u] = balance[u] + (IF u = t THEN n ELSE 0)
    BY <1>5, <1>6, <2>2, <2>3
  <2> QED
    BY <1>7, <2>3, <2>4
<1>11. ASSUME NEW n \in Escrows, Escrow(t, n)
       PROVE  M!Next \/ UNCHANGED M!vars
  <2>1. n \in Nat /\ inventory[t] + n < Modulus
    <3>1. n \in Nat /\ Goods(t) + n < Modulus
      BY RequestWords, WordNat DEF NothingWraps
    <3>2. inventory[t] \in Nat /\ Goods(t) \in Nat /\ inventory[t] <= Goods(t)
      BY <1>5
    <3> QED
      BY <3>1, <3>2, WordAssumption
  <2>2. Wrap(inventory[t] + n) = inventory[t] + n
    BY <1>5, <2>1, WrapWithin
  <2>3. inventory' = [inventory EXCEPT ![t] = Wrap(@ + n)] /\ UNCHANGED balance
    BY <1>11 DEF Escrow
  <2>4. \A u \in Traders : inventory'[u] = inventory[u] + (IF u = t THEN n ELSE 0)
    BY <1>5, <1>6, <2>2, <2>3
  <2> QED
    BY <1>8, <2>3, <2>4
<1>12. ASSUME NEW n \in Deposits, Withdraw(t, n)
       PROVE  M!Next \/ UNCHANGED M!vars
  <2>1. CASE balance' = [balance EXCEPT ![t] = @ - n] /\ UNCHANGED inventory
    <3>1. n \in Nat
      BY RequestWords, WordNat
    <3>2. \A u \in Traders : balance'[u] = balance[u] + (IF u = t THEN -n ELSE 0)
      BY <1>5, <1>6, <2>1, <3>1
    <3> QED
      BY <1>7, <2>1, <3>2
  <2> QED
    BY <1>9, <1>12, <2>1 DEF Withdraw
<1>13. ASSUME NEW n \in Escrows, Release(t, n)
       PROVE  M!Next \/ UNCHANGED M!vars
  <2>1. CASE inventory' = [inventory EXCEPT ![t] = @ - n] /\ UNCHANGED balance
    <3>1. n \in Nat
      BY RequestWords, WordNat
    <3>2. \A u \in Traders : inventory'[u] = inventory[u] + (IF u = t THEN -n ELSE 0)
      BY <1>5, <1>6, <2>1, <3>1
    <3> QED
      BY <1>8, <2>1, <3>2
  <2> QED
    BY <1>9, <1>13, <2>1 DEF Release
<1> QED
  BY <1>10, <1>11, <1>12, <1>13

-----------------------------------------------------------------------------
(* The service threads.                                                    *)

\* What an order encumbers is part of what its owner's orders do.
LEMMA CostWithin ==
  ASSUME TypeOK, NEW t \in Traders, NEW id \in LiveOf(t)
  PROVE  Cost(order[id]) <= CostsOf(t) /\ Lot(order[id]) <= LotsOf(t)
<1>1. /\ CostOf \in [Ids -> Nat] /\ LotOf \in [Ids -> Nat]
      /\ IsFiniteSet(LiveOf(t)) /\ LiveOf(t) \in SUBSET Ids
      /\ CostsOf(t) \in Nat /\ LotsOf(t) \in Nat
  BY LiveCosts
<1>2. CostOf \in [Ids -> Int] /\ LotOf \in [Ids -> Int]
  BY <1>1
<1>3. LiveOf(t) \ {id} \in SUBSET Ids /\ IsFiniteSet(LiveOf(t) \ {id})
  BY <1>1, FS_Subset
<1>4. /\ CostsOf(t) = CostOf[id] + SumFunctionOnSet(CostOf, LiveOf(t) \ {id})
      /\ LotsOf(t) = LotOf[id] + SumFunctionOnSet(LotOf, LiveOf(t) \ {id})
  BY <1>1, <1>2, SumRemove DEF CostsOf, LotsOf
<1>5. /\ SumFunctionOnSet(CostOf, LiveOf(t) \ {id}) \in Nat
      /\ SumFunctionOnSet(LotOf, LiveOf(t) \ {id}) \in Nat
  BY <1>1, <1>3, SumNat
<1>6. /\ CostOf[id] = Cost(order[id]) /\ LotOf[id] = Lot(order[id])
      /\ CostOf[id] \in Nat /\ LotOf[id] \in Nat
  BY <1>1 DEF CostOf, LotOf
<1> QED
  BY <1>1, <1>4, <1>5, <1>6

\* What an order comes to encumber leaves its owner's account, and what it no
\* longer encumbers comes back: the owner's sum stays.
LEMMA OwnMove ==
  ASSUME TypeOK, TradeInv, TermsInv, Progress, UNCHANGED <<mm, last>>,
         NEW id \in Ids, NEW s \in OrderStates, SetState(id, s), ~Booked(id), s # "booked",
         NEW c \in Int, NEW l \in Int,
         \/ Live(s) /\ ~Alive(id) /\ c = Cost(order[id]) /\ l = Lot(order[id])
         \/ ~Live(s) /\ Alive(id) /\ c = -Cost(order[id]) /\ l = -Lot(order[id])
         \/ ~Live(s) /\ ~Alive(id) /\ c = 0 /\ l = 0,
         \A u \in Traders :
           /\ balance'[u] = balance[u] - (IF u = order[id].owner THEN c ELSE 0)
           /\ inventory'[u] = inventory[u] - (IF u = order[id].owner THEN l ELSE 0)
  PROVE  UNCHANGED Owned
<1>1. OpenOrders' = OpenOrders
  BY OpenStays
<1>2. ASSUME NEW u \in Traders
      PROVE  Cash(u)' = Cash(u) /\ Goods(u)' = Goods(u)
  <2> DEFINE own == u = order[id].owner
  <2>1. /\ CostsOf(u)' = CostsOf(u) + (IF own THEN c ELSE 0)
        /\ LotsOf(u)' = LotsOf(u) + (IF own THEN l ELSE 0)
    <3>1. CostsOf(u) \in Nat /\ LotsOf(u) \in Nat
      BY LiveCosts
    <3>2. Cost(order[id]) \in Nat /\ Lot(order[id]) \in Nat
      BY CostWord, ElementOfSeq, WordNat DEF TypeOK, Ids
    <3>3. /\ CostsOf(u)' = CostsOf(u)
              + (IF order[id].owner = u /\ Live(s) /\ ~Alive(id) THEN Cost(order[id]) ELSE 0)
              - (IF order[id].owner = u /\ ~Live(s) /\ Alive(id) THEN Cost(order[id]) ELSE 0)
          /\ LotsOf(u)' = LotsOf(u)
              + (IF order[id].owner = u /\ Live(s) /\ ~Alive(id) THEN Lot(order[id]) ELSE 0)
              - (IF order[id].owner = u /\ ~Live(s) /\ Alive(id) THEN Lot(order[id]) ELSE 0)
      BY CostsMove
    <3> QED
      BY <3>1, <3>2, <3>3
  <2>2. CashDue(u)' = CashDue(u) /\ GoodsDue(u)' = GoodsDue(u)
    BY DueStays
  <2>3. /\ balance'[u] = balance[u] - (IF own THEN c ELSE 0)
        /\ inventory'[u] = inventory[u] - (IF own THEN l ELSE 0)
    OBVIOUS
  <2>4. /\ balance[u] \in Nat /\ inventory[u] \in Nat /\ CostsOf(u) \in Nat /\ LotsOf(u) \in Nat
        /\ CashDue(u) \in Nat /\ GoodsDue(u) \in Nat
        /\ Cash(u) = balance[u] + CostsOf(u) + CashDue(u)
        /\ Goods(u) = inventory[u] + LotsOf(u) + GoodsDue(u)
        /\ Cash(u)' = balance'[u] + CostsOf(u)' + CashDue(u)'
        /\ Goods(u)' = inventory'[u] + LotsOf(u)' + GoodsDue(u)'
    BY Owns
  <2> HIDE DEF own
  <2> QED
    BY <2>1, <2>2, <2>3, <2>4
<1> QED
  BY <1>1, <1>2, MarketStill

\* create_order encumbers what the order will cost.
LEMMA MarketReserves ==
  ASSUME Inv, TermsInv, Progress, NEW t \in Traders, Reserve(t)
  PROVE  UNCHANGED Owned
<1> DEFINE id == cur[t]
           o  == order[id]
<1>1. TypeOK /\ TradeInv
  BY DEF Inv
<1>2. id \in Ids /\ o.owner = t /\ o.state = "fresh"
  BY DEF Inv, ThreadInv, Holds, Reserve
<1>3. Cost(o) \in Int /\ Lot(o) \in Int
  BY <1>1, <1>2, CostWord, ElementOfSeq, WordInt DEF TypeOK, Ids
<1>4. balance \in [Traders -> Word] /\ inventory \in [Traders -> Word]
  BY <1>1 DEF TypeOK
<1>5. \A u \in Traders : balance[u] \in Int /\ inventory[u] \in Int
  BY <1>4, WordInt
<1>6. UNCHANGED <<mm, last>> /\ ~Booked(id) /\ ~Alive(id)
  BY <1>2 DEF Reserve, Booked, Alive
<1>7. CASE /\ balance' = [balance EXCEPT ![t] = @ - Cost(o)]
           /\ inventory' = [inventory EXCEPT ![t] = @ - Lot(o)]
           /\ SetState(id, "ready")
  <2>1. \A u \in Traders :
          /\ balance'[u] = balance[u] - (IF u = o.owner THEN Cost(o) ELSE 0)
          /\ inventory'[u] = inventory[u] - (IF u = o.owner THEN Lot(o) ELSE 0)
    BY <1>2, <1>3, <1>4, <1>5, <1>7
  <2>2. Live("ready") /\ "ready" \in OrderStates /\ "ready" # "booked"
    BY DEF Live, OrderStates
  <2>3. SetState(id, "ready")
    BY <1>7
  <2> HIDE DEF id
  <2> QED
    BY <1>1, <1>2, <1>3, <1>6, <2>1, <2>2, <2>3, OwnMove
<1>8. CASE UNCHANGED <<balance, inventory>> /\ SetState(id, "refused")
  <2>1. \A u \in Traders :
          /\ balance'[u] = balance[u] - (IF u = o.owner THEN 0 ELSE 0)
          /\ inventory'[u] = inventory[u] - (IF u = o.owner THEN 0 ELSE 0)
    BY <1>5, <1>8
  <2>2. ~Live("refused") /\ "refused" \in OrderStates /\ "refused" # "booked"
    BY DEF Live, OrderStates
  <2>3. SetState(id, "refused") /\ 0 \in Int
    BY <1>8
  <2> HIDE DEF id
  <2> QED
    BY <1>1, <1>2, <1>6, <2>1, <2>2, <2>3, OwnMove
<1> QED
  BY <1>7, <1>8 DEF Reserve, accounts

\* free_order gives back what the order still encumbers.
LEMMA MarketFrees ==
  ASSUME Inv, TermsInv, NothingWraps, Progress, NEW t \in Traders, FreeCanceled(t)
  PROVE  UNCHANGED Owned
<1> DEFINE id == cur[t]
           o  == order[id]
<1>1. TypeOK /\ TradeInv
  BY DEF Inv
<1>2. id \in Ids /\ o.owner = t /\ o.state = "pulled"
  BY DEF Inv, ThreadInv, Holds, FreeCanceled
<1>3. Cost(o) \in Nat /\ Lot(o) \in Nat
  BY <1>1, <1>2, CostWord, ElementOfSeq, WordNat DEF TypeOK, Ids
<1>4. balance \in [Traders -> Word] /\ inventory \in [Traders -> Word]
  BY <1>1 DEF TypeOK
<1>5. \A u \in Traders : balance[u] \in Nat /\ inventory[u] \in Nat
  BY <1>4, WordNat
<1>6. UNCHANGED <<mm, last>> /\ ~Booked(id) /\ Alive(id) /\ SetState(id, "gone")
  BY <1>2 DEF FreeCanceled, Booked, Alive
<1>7. Cost(o) <= CostsOf(t) /\ Lot(o) <= LotsOf(t)
  <2>1. id \in LiveOf(t)
    BY <1>2, <1>6 DEF LiveOf, Pending
  <2> HIDE DEF id
  <2> QED
    BY <1>1, <2>1, CostWithin
<1>8. balance[t] + Cost(o) < Modulus /\ inventory[t] + Lot(o) < Modulus
  <2>1. Cash(t) + 0 < Modulus /\ Goods(t) + 0 < Modulus
    BY DEF NothingWraps
  <2>2. /\ balance[t] \in Nat /\ inventory[t] \in Nat /\ CostsOf(t) \in Nat /\ LotsOf(t) \in Nat
        /\ CashDue(t) \in Nat /\ GoodsDue(t) \in Nat
        /\ Cash(t) = balance[t] + CostsOf(t) + CashDue(t)
        /\ Goods(t) = inventory[t] + LotsOf(t) + GoodsDue(t)
    BY <1>1, Owns
  <2> HIDE DEF o
  <2> QED
    BY <1>3, <1>7, <2>1, <2>2, WordAssumption
<1>9. Wrap(balance[t] + Cost(o)) = balance[t] + Cost(o) /\ Wrap(inventory[t] + Lot(o)) = inventory[t] + Lot(o)
  <2>1. balance[t] + Cost(o) \in Nat /\ inventory[t] + Lot(o) \in Nat
    BY <1>3, <1>5
  <2> QED
    BY <1>8, <2>1, WrapWithin
<1>10. /\ balance' = [balance EXCEPT ![t] = Wrap(@ + Cost(o))]
       /\ inventory' = [inventory EXCEPT ![t] = Wrap(@ + Lot(o))]
  BY DEF FreeCanceled
<1>11. \A u \in Traders :
         /\ balance'[u] = balance[u] - (IF u = o.owner THEN -Cost(o) ELSE 0)
         /\ inventory'[u] = inventory[u] - (IF u = o.owner THEN -Lot(o) ELSE 0)
  <2>1. \A u \in Traders : /\ balance'[u] = IF u = t THEN balance[u] + Cost(o) ELSE balance[u]
                           /\ inventory'[u] = IF u = t THEN inventory[u] + Lot(o) ELSE inventory[u]
    BY <1>4, <1>9, <1>10
  <2> HIDE DEF o
  <2> QED
    BY <1>2, <1>3, <1>5, <2>1
<1>12. ~Live("gone") /\ "gone" \in OrderStates /\ "gone" # "booked" /\ -Cost(o) \in Int /\ -Lot(o) \in Int
  BY <1>3 DEF Live, OrderStates
<1> HIDE DEF id
<1> QED
  BY <1>1, <1>2, <1>6, <1>11, <1>12, OwnMove

\* And it ends the cancel.
LEMMA MarketFinishes ==
  ASSUME Inv, TermsInv, NothingWraps, Progress, NEW t \in Traders, FreeCanceled(t)
  PROVE  M!Next
<1>1. TypeOK
  BY DEF Inv
<1>2. /\ pc[t] = "release" /\ GoTo(t, "reply") /\ cur' = [cur EXCEPT ![t] = 0]
      /\ cur[t] \in Ids /\ cur[t] # 0
  BY DEF Inv, ThreadInv, Holds, FreeCanceled, Ids
<1>3. CanceledBy[t] # 0 /\ CanceledBy' = [CanceledBy EXCEPT ![t] = 0]
  <2>1. \A u \in Traders : pc'[u] = IF u = t THEN "reply" ELSE pc[u]
    BY <1>1, <1>2, GoToFacts
  <2>2. \A u \in Traders : u # t => cur'[u] = cur[u]
    BY <1>1, <1>2 DEF TypeOK
  <2> QED
    BY <1>2, <2>1, <2>2 DEF CanceledBy
<1>4. M!Finish(t)
  BY <1>3, MarketFrees DEF Owned, M!Finish
<1> QED
  BY <1>4 DEF M!Next

\* What each trader owns stays when an order that is live goes on being so.
LEMMA LiveStill ==
  ASSUME TypeOK, TradeInv, TermsInv, Progress, UNCHANGED <<balance, inventory, mm>>,
         NEW id \in Ids, NEW s \in OrderStates, SetState(id, s), Alive(id), Live(s)
  PROVE  CashOf' = CashOf /\ GoodsOf' = GoodsOf
<1>1. ASSUME NEW u \in Traders
      PROVE  Cash(u)' = Cash(u) /\ Goods(u)' = Goods(u)
  <2>1. CostsOf(u) \in Int /\ LotsOf(u) \in Int
    BY LiveCosts
  <2>2. CostsOf(u)' = CostsOf(u) + 0 - 0 /\ LotsOf(u)' = LotsOf(u) + 0 - 0
    BY CostsMove
  <2>3. CostsOf(u)' = CostsOf(u) /\ LotsOf(u)' = LotsOf(u)
    BY <2>1, <2>2
  <2>4. CashDue(u)' = CashDue(u) /\ GoodsDue(u)' = GoodsDue(u)
    BY DueStays
  <2> QED
    BY <2>3, <2>4, Owns
<1> QED
  BY <1>1 DEF CashOf, GoodsOf

\* Linking an order into its list posts it.
LEMMA MarketPosts ==
  ASSUME Inv, TermsInv, Sound', Progress, NEW t \in Traders, InsertBuy(t) \/ InsertSell(t)
  PROVE  M!Next
<1> DEFINE id == cur[t]
           o  == Offer(id)
<1>1. TypeOK /\ TradeInv
  BY DEF Inv
<1>2. /\ id \in Ids /\ order[id].owner = t /\ order[id].state = "ready"
      /\ SetState(id, "booked") /\ UNCHANGED <<balance, inventory, mm, last>>
  BY DEF Inv, ThreadInv, Holds, InsertBuy, InsertSell, accounts
<1>3. Live("booked") /\ "booked" \in OrderStates /\ Alive(id) /\ ~Booked(id)
  BY <1>2 DEF Live, OrderStates, Alive, Booked
<1>4. o \in M!Orders
  <2>1. /\ id \in 1..MaxOrders /\ order[id].price \in Prices /\ order[id].qty \in Quantities
    BY <1>2 DEF TermsInv
  <2>2. order[id].kind \in {"buy", "sell"}
    BY <1>1, <1>2, ElementOfSeq, OrderFields DEF TypeOK, Ids
  <2> HIDE DEF id
  <2> QED
    BY <1>2, <2>1, <2>2 DEF M!Orders, Offer
<1>5. o.owner = t
  BY <1>2 DEF Offer
<1> HIDE DEF id
<1>6. CashOf' = CashOf /\ GoodsOf' = GoodsOf
  BY <1>1, <1>2, <1>3, LiveStill
<1>7. OpenOrders' = OpenOrders \cup {o}
  BY <1>1, <1>2, <1>3, OpenMoves
<1>8. \A other \in OpenOrders : other.id # o.id
  BY <1>2, <1>3 DEF OpenOrders, Offer
<1>9. M!Solvent(t)'
  BY SolvencyNext
<1>10. o \in OpenOrders' \ OpenOrders
  BY <1>7, <1>8
<1> HIDE DEF o
<1>11. CanceledBy' = CanceledBy
  BY <1>1, CancelsStay
<1>12. M!Post
  BY <1>2, <1>4, <1>5, <1>6, <1>7, <1>8, <1>9, <1>10, <1>11 DEF M!Post
<1> QED
  BY <1>10, <1>12 DEF M!Next

\* Unlinking an order under the mutex is its owner's cancel.
LEMMA MarketCancels ==
  ASSUME Inv, TermsInv, Progress, NEW t \in Traders, NEW id, Cancel(t, id)
  PROVE  M!Next
<1>1. TypeOK /\ TradeInv
  BY DEF Inv
<1>2. /\ id \in Ids /\ Booked(id) /\ SetState(id, "pulled") /\ UNCHANGED <<balance, inventory, mm, last>>
      /\ order[id].owner = t /\ pc[t] = "idle" /\ GoTo(t, "release")
      /\ cur' = [cur EXCEPT ![t] = id]
  BY DEF Cancel, accounts
<1>3. Live("pulled") /\ "pulled" \in OrderStates /\ Alive(id) /\ "pulled" # "booked"
  BY <1>2 DEF Live, OrderStates, Alive, Booked
<1>4. CashOf' = CashOf /\ GoodsOf' = GoodsOf
  BY <1>1, <1>2, <1>3, LiveStill
<1>5. OpenOrders' = OpenOrders \ {Offer(id)}
  BY <1>1, <1>2, <1>3, OpenMoves
<1>6. Offer(id) \in OpenOrders /\ Offer(id).owner = t /\ Offer(id).id = id
  BY <1>2 DEF OpenOrders, Offer
<1>7. CanceledBy[t] = 0 /\ CanceledBy' = [CanceledBy EXCEPT ![t] = id]
  <2>1. \A u \in Traders : pc'[u] = IF u = t THEN "release" ELSE pc[u]
    BY <1>1, <1>2, GoToFacts
  <2>2. \A u \in Traders : cur'[u] = IF u = t THEN id ELSE cur[u]
    BY <1>1, <1>2 DEF TypeOK
  <2>3. CanceledBy[t] = 0 /\ \A u \in Traders : CanceledBy'[u] = IF u = t THEN id ELSE CanceledBy[u]
    BY <1>2, <2>1, <2>2 DEF CanceledBy
  <2>4. CanceledBy' = [u \in Traders |-> CanceledBy'[u]] /\ CanceledBy = [u \in Traders |-> CanceledBy[u]]
    BY DEF CanceledBy
  <2> HIDE DEF CanceledBy
  <2> QED
    BY <2>3, <2>4
<1>8. M!Cancel(t, Offer(id))
  BY <1>2, <1>4, <1>5, <1>6, <1>7 DEF M!Cancel
<1> QED
  BY <1>6, <1>8 DEF M!Next

-----------------------------------------------------------------------------
(* The matchmaker.                                                         *)

\* A payment takes from a trader's due what it adds to its account.
LEMMA Pays ==
  ASSUME TypeOK, TradeInv, TermsInv, NothingWraps, UNCHANGED <<order, last>>,
         NEW t \in Traders, NEW c \in Nat, NEW l \in Nat,
         c <= CashDue(t), l <= GoodsDue(t),
         balance' = [balance EXCEPT ![t] = Wrap(@ + c)],
         inventory' = [inventory EXCEPT ![t] = Wrap(@ + l)],
         \A u \in Traders : /\ CashDue(u)' = CashDue(u) - (IF u = t THEN c ELSE 0)
                            /\ GoodsDue(u)' = GoodsDue(u) - (IF u = t THEN l ELSE 0)
  PROVE  UNCHANGED Owned
<1>1. Ids' = Ids /\ \A i \in Ids : order'[i] = order[i]
  BY DEF Ids
<1>2. OpenOrders' = OpenOrders /\ \A u \in Traders : CostsOf(u)' = CostsOf(u) /\ LotsOf(u)' = LotsOf(u)
  <2>1. OpenOrders' = OpenOrders
    BY <1>1 DEF OpenOrders, Offer, Booked
  <2> QED
    BY <1>1, <2>1, CostsStay
<1>3. \A u \in Traders : balance[u] \in Nat /\ inventory[u] \in Nat
  BY Owns
<1>4. Wrap(balance[t] + c) = balance[t] + c /\ Wrap(inventory[t] + l) = inventory[t] + l
  <2>1. Cash(t) + 0 < Modulus /\ Goods(t) + 0 < Modulus
    BY DEF NothingWraps
  <2>2. /\ balance[t] \in Nat /\ inventory[t] \in Nat /\ CostsOf(t) \in Nat /\ LotsOf(t) \in Nat
        /\ CashDue(t) \in Nat /\ GoodsDue(t) \in Nat
        /\ Cash(t) = balance[t] + CostsOf(t) + CashDue(t)
        /\ Goods(t) = inventory[t] + LotsOf(t) + GoodsDue(t)
    BY Owns
  <2>3. balance[t] + c \in Nat /\ inventory[t] + l \in Nat
    BY <2>2
  <2>4. balance[t] + c < Modulus /\ inventory[t] + l < Modulus
    BY <2>1, <2>2, WordAssumption
  <2> QED
    BY <2>3, <2>4, WrapWithin
<1>5. balance \in [Traders -> Word] /\ inventory \in [Traders -> Word]
  BY DEF TypeOK
<1>6. \A u \in Traders : /\ balance'[u] = IF u = t THEN balance[u] + c ELSE balance[u]
                         /\ inventory'[u] = IF u = t THEN inventory[u] + l ELSE inventory[u]
  BY <1>4, <1>5
<1>7. ASSUME NEW u \in Traders
      PROVE  Cash(u)' = Cash(u) /\ Goods(u)' = Goods(u)
  <2>1. /\ balance[u] \in Nat /\ inventory[u] \in Nat /\ CostsOf(u) \in Nat /\ LotsOf(u) \in Nat
        /\ CashDue(u) \in Nat /\ GoodsDue(u) \in Nat
        /\ Cash(u) = balance[u] + CostsOf(u) + CashDue(u)
        /\ Goods(u) = inventory[u] + LotsOf(u) + GoodsDue(u)
        /\ Cash(u)' = balance'[u] + CostsOf(u)' + CashDue(u)'
        /\ Goods(u)' = inventory'[u] + LotsOf(u)' + GoodsDue(u)'
    BY Owns
  <2>2. /\ CashDue(u)' = CashDue(u) - (IF u = t THEN c ELSE 0)
        /\ GoodsDue(u)' = GoodsDue(u) - (IF u = t THEN l ELSE 0)
    OBVIOUS
  <2> QED
    BY <1>2, <1>6, <2>1, <2>2
<1> QED
  BY <1>2, <1>7, MarketStill

\* The three payments of execute_trade.
LEMMA MarketPays ==
  ASSUME Inv, TermsInv, NothingWraps, CreditSeller \/ DeliverUnits \/ RefundBuyer
  PROVE  UNCHANGED Owned
<1> DEFINE v == mm.qty * mm.price
           b == order[mm.buy].owner
           s == order[mm.sell].owner
<1>1. TypeOK /\ TradeInv
  BY DEF Inv
<1>2. /\ mm.pc \in {"credit", "deliver", "refund"} /\ UNCHANGED <<order, last>>
      /\ mm'.buy = mm.buy /\ mm'.sell = mm.sell /\ mm'.qty = mm.qty /\ mm'.price = mm.price
  BY <1>1 DEF TypeOK, MMLocals, CreditSeller, DeliverUnits, RefundBuyer, MMStep, book
<1>3. /\ v \in Nat /\ mm.qty \in Nat /\ Refund \in Nat /\ b \in Traders /\ s \in Traders
  BY <1>1, <1>2, DueNat
<1>4. \A u \in Traders :
        /\ balance[u] \in Nat /\ inventory[u] \in Nat /\ CashDue(u) \in Nat /\ GoodsDue(u) \in Nat
  BY <1>1, Owns
<1>5. balance \in [Traders -> Word] /\ inventory \in [Traders -> Word]
  BY <1>1 DEF TypeOK
<1>6. \A f : \A t \in Traders : f \in [Traders -> Word] => f = [f EXCEPT ![t] = Wrap(@ + 0)]
  <2>1. \A w \in Word : Wrap(w + 0) = w
    BY WordAssumption, WrapWithin DEF Word
  <2> QED
    BY <2>1
<1>7. CASE CreditSeller
  <2>1. mm.pc = "credit" /\ mm'.pc = "deliver"
    BY <1>1, <1>7 DEF CreditSeller, MMStep, TypeOK, MMLocals
  <2>2. \A u \in Traders :
          /\ CashDue(u) = (IF s = u THEN v ELSE 0) + (IF b = u THEN Refund ELSE 0)
          /\ CashDue(u)' = 0 + (IF b = u THEN Refund ELSE 0)
          /\ GoodsDue(u)' = GoodsDue(u)
    BY <1>2, <2>1 DEF CashDue, GoodsDue, Due, Trading, Refund
  <2>3. balance' = [balance EXCEPT ![s] = Wrap(@ + v)] /\ inventory' = [inventory EXCEPT ![s] = Wrap(@ + 0)]
    BY <1>3, <1>5, <1>6, <1>7 DEF CreditSeller
  <2> HIDE DEF v, b, s
  <2>4. v <= CashDue(s) /\ 0 <= GoodsDue(s)
    BY <1>3, <1>4, <2>2
  <2>5. \A u \in Traders : /\ CashDue(u)' = CashDue(u) - (IF u = s THEN v ELSE 0)
                           /\ GoodsDue(u)' = GoodsDue(u) - (IF u = s THEN 0 ELSE 0)
    BY <1>3, <1>4, <2>2
  <2> QED
    BY <1>1, <1>2, <1>3, <2>3, <2>4, <2>5, Pays
<1>8. CASE DeliverUnits
  <2>1. mm.pc = "deliver" /\ mm'.pc = "refund"
    BY <1>1, <1>8 DEF DeliverUnits, MMStep, TypeOK, MMLocals
  <2>2. \A u \in Traders :
          /\ GoodsDue(u) = (IF b = u THEN mm.qty ELSE 0)
          /\ GoodsDue(u)' = 0
          /\ CashDue(u)' = CashDue(u)
    BY <1>2, <2>1 DEF CashDue, GoodsDue, Due, Trading, Refund
  <2>3. balance' = [balance EXCEPT ![b] = Wrap(@ + 0)] /\ inventory' = [inventory EXCEPT ![b] = Wrap(@ + mm.qty)]
    BY <1>3, <1>5, <1>6, <1>8 DEF DeliverUnits
  <2> HIDE DEF v, b, s
  <2>4. 0 <= CashDue(b) /\ mm.qty <= GoodsDue(b)
    BY <1>3, <1>4, <2>2
  <2>5. \A u \in Traders : /\ CashDue(u)' = CashDue(u) - (IF u = b THEN 0 ELSE 0)
                           /\ GoodsDue(u)' = GoodsDue(u) - (IF u = b THEN mm.qty ELSE 0)
    BY <1>3, <1>4, <2>2
  <2>6. b \in Traders /\ 0 \in Nat /\ mm.qty \in Nat /\ UNCHANGED <<order, last>>
    BY <1>2, <1>3
  <2> QED
    BY <1>1, <2>3, <2>4, <2>5, <2>6, Pays
<1>9. CASE RefundBuyer
  <2>1. mm.pc = "refund" /\ mm'.pc = "bought"
    BY <1>1, <1>9 DEF RefundBuyer, MMStep, TypeOK, MMLocals
  <2>2. \A u \in Traders :
          /\ CashDue(u) = 0 + (IF b = u THEN Refund ELSE 0)
          /\ CashDue(u)' = 0 + 0
          /\ GoodsDue(u) = 0 /\ GoodsDue(u)' = 0
    BY <1>2, <2>1 DEF CashDue, GoodsDue, Due, Trading
  <2>3. balance' = [balance EXCEPT ![b] = Wrap(@ + Refund)] /\ inventory' = [inventory EXCEPT ![b] = Wrap(@ + 0)]
    BY <1>3, <1>5, <1>6, <1>9 DEF RefundBuyer
  <2> HIDE DEF v, b, s
  <2>4. Refund <= CashDue(b) /\ 0 <= GoodsDue(b)
    BY <1>3, <1>4, <2>2
  <2>5. \A u \in Traders : /\ CashDue(u)' = CashDue(u) - (IF u = b THEN Refund ELSE 0)
                           /\ GoodsDue(u)' = GoodsDue(u) - (IF u = b THEN 0 ELSE 0)
    BY <1>3, <1>4, <2>2
  <2> QED
    BY <1>1, <1>2, <1>3, <2>3, <2>4, <2>5, Pays
<1> QED
  BY <1>7, <1>8, <1>9

\* Removing an order of the trade clears it, if it is still on the market.
LEMMA MarketReaps ==
  ASSUME Inv, TermsInv, NothingWraps, Progress, ReapSell \/ ReapBuy
  PROVE  M!Next \/ UNCHANGED M!vars
<1>1. TypeOK /\ TradeInv
  BY DEF Inv
<1>2. /\ mm.pc \in {"reapsell", "reapbuy"} /\ mm'.pc \in {"reapbuy", "match"}
      /\ UNCHANGED <<balance, inventory, last>> /\ CanceledBy' = CanceledBy
  BY <1>1 DEF ReapSell, ReapBuy, MMStep, NoTrade, Reap, TypeOK, MMLocals, threads, CanceledBy
<1>3. PICK id \in {mm.sell, mm.buy} : Reap(id)
  BY DEF ReapSell, ReapBuy
<1>4. id \in Ids
  BY <1>1, <1>2, <1>3 DEF TradeInv, Trading
<1>5. CASE Cleared(id)
  <2>1. Booked(id) /\ order[id].qty = 0 /\ SetState(id, "gone")
    BY <1>5 DEF Cleared
  <2>2. ~Live("gone") /\ "gone" \in OrderStates /\ "gone" # "booked"
    BY DEF Live, OrderStates
  <2>3. OpenOrders' = OpenOrders \ {Offer(id)} /\ Offer(id) \in OpenOrders /\ Offer(id).qty = 0
    <3>1. OpenOrders' = OpenOrders \ {Offer(id)}
      BY <1>1, <1>4, <2>1, <2>2, OpenMoves
    <3>2. Offer(id) \in OpenOrders
      BY <1>4, <2>1 DEF OpenOrders
    <3>3. Offer(id).qty = 0
      BY <2>1 DEF Offer
    <3> QED
      BY <3>1, <3>2, <3>3
  <2>4. Cost(order[id]) = 0 /\ Lot(order[id]) = 0
    <3>1. Wrap(0) = 0
      BY WordAssumption, WrapWithin
    <3>2. order[id].price \in Nat
      BY <1>1, <1>4, CostExact
    <3>3. order[id].qty * order[id].price = 0
      BY <2>1, <3>2
    <3> QED
      BY <2>1, <3>1, <3>3 DEF Cost, Lot
  <2>5. ASSUME NEW u \in Traders
        PROVE  Cash(u)' = Cash(u) /\ Goods(u)' = Goods(u)
    <3>1. CostsOf(u) \in Int /\ LotsOf(u) \in Int
      BY <1>1, LiveCosts
    <3>2. CostsOf(u)' = CostsOf(u) + 0 - 0 /\ LotsOf(u)' = LotsOf(u) + 0 - 0
      BY <1>1, <1>4, <2>1, <2>2, <2>4, CostsMove
    <3>3. CashDue(u)' = CashDue(u) /\ GoodsDue(u)' = GoodsDue(u)
      BY <1>2 DEF CashDue, GoodsDue
    <3> QED
      BY <1>1, <1>2, <3>1, <3>2, <3>3, Owns
  <2>6. CashOf' = CashOf /\ GoodsOf' = GoodsOf
    BY <2>5 DEF CashOf, GoodsOf
  <2>7. M!Clear
    BY <1>2, <2>3, <2>6 DEF M!Clear
  <2> QED
    BY <2>3, <2>7 DEF M!Next
<1>6. CASE Kept(id) \/ ClearedTwice(id)
  <2>1. UNCHANGED order
    BY <1>6 DEF Kept, ClearedTwice, book
  <2> QED
    BY <1>1, <1>2, <2>1, MarketIdle DEF Owned, M!vars
<1> QED
  BY <1>3, <1>5, <1>6 DEF Reap

-----------------------------------------------------------------------------
(* The refinement.                                                         *)

LEMMA MarketInit == Init => M!Init
<1> SUFFICES ASSUME Init
             PROVE  M!Init
  OBVIOUS
<1>1. Ids = {}
  BY DEF Init, Ids
<1>2. OpenOrders = {}
  BY <1>1 DEF OpenOrders
<1>3. ASSUME NEW t \in Traders
      PROVE  Cash(t) = 0 /\ Goods(t) = 0
  <2>1. LiveOf(t) = {}
    BY <1>1 DEF LiveOf, Pending
  <2>2. CashDue(t) = 0 /\ GoodsDue(t) = 0
    BY DEF Init, CashDue, GoodsDue
  <2>3. balance[t] = 0 /\ inventory[t] = 0
    BY DEF Init
  <2>4. SumFunctionOnSet(CostOf, {}) = 0 /\ SumFunctionOnSet(LotOf, {}) = 0
    BY SumOfEmpty
  <2> QED
    BY <2>1, <2>2, <2>3, <2>4 DEF Cash, Goods
<1>4. CashOf = [t \in Traders |-> 0] /\ GoodsOf = [t \in Traders |-> 0]
  BY <1>3 DEF CashOf, GoodsOf
<1>5. CanceledBy = [t \in Traders |-> 0]
  BY DEF Init, CanceledBy
<1> QED
  BY <1>2, <1>4, <1>5 DEF Init, M!Init

\* Every step of a thread is a step of the market or none.
LEMMA MarketStep ==
  ASSUME Inv, TermsInv, NothingWraps, NothingWraps', [Next]_vars
  PROVE  M!Next \/ UNCHANGED M!vars
<1>1. TypeOK /\ TradeInv
  BY DEF Inv
<1>2. Sound'
  <2>1. Inv' /\ TermsInv'
    BY InvStep, TermsStep
  <2> QED
    BY <2>1 DEF Inv, Sound
<1>3. CASE UNCHANGED vars
  BY <1>3 DEF vars, accounts, book, M!vars, CashOf, GoodsOf, Cash, Goods, CostOf, LotOf, LiveOf, Pending,
     Alive, Ids, CashDue, GoodsDue, Due, Refund, Trading, OpenOrders, Offer, Booked, threads, CanceledBy
<1>4. ASSUME Next
      PROVE  M!Next \/ UNCHANGED M!vars
  <2>1. Progress
    BY <1>4, OrdersProgress
  <2>2. ASSUME UNCHANGED <<balance, inventory, last>>, \A i \in Ids : order'[i] = order[i], UNCHANGED mm
        PROVE  UNCHANGED Owned
    BY <1>1, <2>1, <2>2, MarketIdle
  <2>3. UNCHANGED Owned /\ CanceledBy' = CanceledBy => UNCHANGED M!vars
    BY DEF Owned, M!vars
  <2>4. ASSUME NEW t \in Traders, Request(t)
        PROVE  M!Next \/ UNCHANGED M!vars
    <3>1. CASE \/ \E n \in Deposits : Deposit(t, n) \/ Withdraw(t, n)
               \/ \E n \in Escrows : Escrow(t, n) \/ Release(t, n)
      BY <1>2, <2>1, <3>1, MarketAccounts
    <3>2. ASSUME NEW kind \in {"buy", "sell"}, NEW q \in Quantities, NEW p \in Prices,
                 NewOrder(t, kind, q, p)
          PROVE  UNCHANGED Owned
      <4>1. \A i \in Ids : order'[i] = order[i]
        BY <1>1, <3>2, NewOrderFacts DEF NewOrder
      <4> QED
        BY <2>2, <3>2, <4>1 DEF NewOrder, accounts
    <3>3. ASSUME NEW id \in 1..MaxOrders, Cancel(t, id)
          PROVE  M!Next
      BY <2>1, <3>3, MarketCancels
    <3>4. CASE Status(t) \/ \E id \in 1..MaxOrders : CancelRefused(t, id)
      <4>1. UNCHANGED Owned
        BY <2>2, <3>4 DEF Status, CancelRefused, accounts, book
      <4> QED
        BY <1>1, <2>3, <3>4, <4>1, CancelsStay
    <3> QED
      BY <1>1, <2>3, <2>4, <3>1, <3>2, <3>3, <3>4, CancelsStay DEF Request
  <2>5. ASSUME NEW t \in Traders, Serve(t) \/ Session(t)
        PROVE  M!Next \/ UNCHANGED M!vars
    <3>1. CASE Reserve(t)
      BY <1>1, <2>1, <2>3, <3>1, MarketReserves, CancelsStay
    <3>2. CASE InsertBuy(t) \/ InsertSell(t)
      BY <1>2, <2>1, <3>2, MarketPosts
    <3>3. CASE FreeCanceled(t)
      BY <2>1, <3>3, MarketFinishes
    <3>4. CASE Announce(t) \/ ReadId(t) \/ Reply(t) \/ Session(t)
      <4>1. UNCHANGED Owned
        BY <2>2, <3>4 DEF Announce, ReadId, Reply, Session, Login, Logout, LoginRefused, accounts, book
      <4> QED
        BY <1>1, <2>3, <3>4, <4>1, CancelsStay
    <3> QED
      BY <2>5, <3>1, <3>2, <3>3, <3>4 DEF Serve
  <2>6. CASE Match
    <3>1. CASE StartTrade
      <4>1. \E b, s \in OpenOrders : M!Trade(b, s)
        BY <3>1, MarketTrades
      <4> QED
        BY <4>1 DEF M!Next
    <3>2. CASE CreditSeller \/ DeliverUnits \/ RefundBuyer
      <4>1. CanceledBy' = CanceledBy
        BY <3>2 DEF CreditSeller, DeliverUnits, RefundBuyer, threads, CanceledBy
      <4> QED
        BY <2>3, <3>2, <4>1, MarketPays
    <3>3. CASE ReapSell \/ ReapBuy
      BY <2>1, <3>3, MarketReaps
    <3>4. CASE SemWait \/ Wake \/ Exit \/ SendBought \/ SendSold \/ Relock \/ Sleep
      <4>1. /\ UNCHANGED <<balance, inventory, last>> /\ \A i \in Ids : order'[i] = order[i]
        BY <3>4 DEF SemWait, Wake, Exit, SendBought, SendSold, SendTo, Relock, Sleep, accounts, book
      <4>2. /\ mm.pc \notin {"credit", "deliver", "refund"}
            /\ mm'.pc \notin {"credit", "deliver", "refund"}
        BY <1>1, <3>4 DEF SemWait, Wake, Exit, SendBought, SendSold, Relock, Sleep, MMStep, TypeOK, MMLocals
      <4>3. CanceledBy' = CanceledBy
        BY <3>4 DEF SemWait, Wake, Exit, SendBought, SendSold, SendTo, Relock, Sleep, threads, CanceledBy
      <4> QED
        BY <1>1, <2>1, <2>3, <4>1, <4>2, <4>3, MarketIdle
    <3> QED
      BY <2>6, <3>1, <3>2, <3>3, <3>4 DEF Match
  <2>7. CASE Fini \/ Stopped
    <3>1. UNCHANGED Owned /\ CanceledBy' = CanceledBy
      BY <2>2, <2>7 DEF Fini, Stopped, vars, accounts, book, threads, CanceledBy
    <3> QED
      BY <2>3, <3>1
  <2> QED
    BY <1>4, <2>4, <2>5, <2>6, <2>7 DEF Next, Step
<1> QED
  BY <1>3, <1>4

\* The exchange implements the market, as long as nothing wraps around: seen
\* as what each trader owns and which orders are open, every critical section
\* of a service thread or of the matchmaker is a trade between a best bid and
\* a best ask at the price exchange.h:31-64 prescribes, a deposit, withdrawal,
\* escrow or release that its trader can honour, a posting, its owner's cancel,
\* the removal of an order with nothing left, or nothing at all.
THEOREM MarketImplemented == Spec /\ []NothingWraps => Market
<1>1. Spec => []Inv
  BY InvHolds
<1>2. Spec => []TermsInv
  <2>1. Init => TermsInv
    BY TermsInit
  <2>2. Inv /\ TermsInv /\ [Next]_vars => TermsInv'
    BY TermsStep
  <2> QED
    BY <1>1, <2>1, <2>2, PTL DEF Spec
<1>3. Init => M!Init
  BY MarketInit
<1>4. Inv /\ TermsInv /\ NothingWraps /\ NothingWraps' /\ [Next]_vars => [M!Next]_(M!vars)
  BY MarketStep
<1> QED
  BY <1>1, <1>2, <1>3, <1>4, PTL DEF Spec, Market, M!Spec
=============================================================================
