---------------------------- MODULE ServerProofs ----------------------------
(***************************************************************************)
(* The server, with its packets and the traders' mutexes, implements the   *)
(* exchange: sends, their order and the waits they cause show the order    *)
(* book no step that the exchange does not allow, so what is proved of the *)
(* exchange is true of the server; and what is proved of its packets.      *)
(***************************************************************************)
EXTENDS ServerProps, AccountProofs

\* A thread that sends a packet leaves the exchange alone.
LEMMA TransmitStutters ==
  ASSUME NEW x, Transmit(x)
  PROVE  UNCHANGED vars
BY DEF Transmit, SendLock, Sent, SendFails, Done

\* What a service thread does of the exchange is a request or a step of one.
LEMMA ServiceStep ==
  ASSUME NEW t \in Traders
  PROVE  /\ ClientRequest(t) => Request(t)
         /\ ServeClient(t) => Serve(t)
         /\ EndSession(t) \/ StartSession(t) \/ RefuseLogin(t) => Session(t)
         /\ Reset(t) => UNCHANGED vars
<1>1. ClientRequest(t) => Request(t)
  BY DEF ClientRequest, OnAccount, OnExchange, Request
<1>2. ServeClient(t) => Serve(t)
  BY DEF ServeClient, Encumber, PostOrder, Posted, CancelOrder, AnswerClient, Serve
<1>3. EndSession(t) \/ StartSession(t) \/ RefuseLogin(t) => Session(t)
  BY DEF EndSession, StartSession, RefuseLogin, Session
<1>4. Reset(t) => UNCHANGED vars
  BY DEF Reset
<1> QED
  BY <1>1, <1>2, <1>3, <1>4

\* The matchmaker's steps are those of the exchange's.
LEMMA MatchmakerStep == MatchOrders => Match
BY DEF MatchOrders, FindMatch, Pay, TellTraders, FreeTraded, Match

\* Every step of the server is one of the exchange, or none.
LEMMA ServerSimulates == ServerNext => [Next]_vars
<1> SUFFICES ASSUME ServerNext
             PROVE  Next \/ UNCHANGED vars
  OBVIOUS
<1>1. CASE ServerStopped
  BY <1>1 DEF ServerStopped, serverVars
<1>2. CASE ServerStep
  <2>1. ~undef
    BY <1>2 DEF ServerStep
  <2>2. ASSUME NEW t \in Traders,
               \/ ClientRequest(t) \/ ServeClient(t)
               \/ Reset(t) \/ EndSession(t) \/ StartSession(t) \/ RefuseLogin(t)
        PROVE  Next \/ UNCHANGED vars
    BY <2>1, <2>2, ServiceStep DEF Next, Step
  <2>3. ASSUME MatchOrders \/ StopServer
        PROVE  Next
    BY <2>1, <2>3, MatchmakerStep DEF StopServer, Next, Step
  <2> QED
    BY <1>2, <2>2, <2>3, TransmitStutters DEF ServerStep
<1> QED
  BY <1>1, <1>2 DEF ServerNext

\* The server implements the exchange: whatever packets its threads have yet
\* to send, whichever mutexes failed sends have left locked and whenever
\* connections break, the accounts and the book take the exchange's steps.
THEOREM ServerImplements == ServerSpec => Spec
<1>1. ServerInit => Init
  BY DEF ServerInit
<1>2. [ServerNext]_serverVars => [Next]_vars
  BY ServerSimulates DEF serverVars
<1> QED
  BY <1>1, <1>2, PTL DEF ServerSpec, Spec

\* The server keeps the exchange's invariant: the book is in order, no match
\* is lost, every thread's claim on its order holds and an order is announced
\* before it is traded, with packets under way and mutexes left locked.
THEOREM ServerKeepsInv == ServerSpec => []Inv
BY ServerImplements, InvHolds, PTL

-----------------------------------------------------------------------------
(* The packets of a broadcast.                                             *)

\* The traders map is walked in some order.
LEMMA MapOrder == SetToSeq(Traders) \in Seq(Traders)
<1>1. Cardinality(Traders) \in Nat /\ ExistsBijection(1..Cardinality(Traders), Traders)
  BY ThreadsAssumption, FS_CardinalityType
<1>2. \E f \in [1..Cardinality(Traders) -> Traders] : IsInjective(f)
  BY <1>1 DEF ExistsBijection, Bijection, Injection
<1>3. SetToSeq(Traders) \in [1..Cardinality(Traders) -> Traders]
  BY <1>2 DEF SetToSeq
<1> QED
  BY <1>1, <1>3, SeqDef

Kinds == {"posted", "canceled", "bought", "sold", "traded", "answer"}

LEMMA BroadcastFacts ==
  ASSUME NEW kind \in Kinds, NEW ids \in SUBSET Ids
  PROVE  /\ Broadcast(kind, ids) \in Seq(Packets)
         /\ \A i \in DOMAIN Broadcast(kind, ids) :
              Broadcast(kind, ids)[i].kind = kind /\ Broadcast(kind, ids)[i].ids = ids
<1> DEFINE map == SetToSeq(Traders)
<1>1. map \in Seq(Traders) /\ Len(map) \in Nat /\ DOMAIN map = 1..Len(map)
  BY MapOrder, LenProperties
<1>2. \A i \in 1..Len(map) : map[i] \in Traders
  BY <1>1, ElementOfSeq
<1>3. Broadcast(kind, ids) = [i \in 1..Len(map) |-> Packet(kind, map[i], ids)]
  BY <1>1 DEF Broadcast
<1> HIDE DEF map
<1>4. \A i \in 1..Len(map) : /\ Packet(kind, map[i], ids) \in Packets
                             /\ Packet(kind, map[i], ids).kind = kind
                             /\ Packet(kind, map[i], ids).ids = ids
  BY <1>2 DEF Packet, Packets, Kinds
<1> HIDE DEF Packet
<1>5. Broadcast(kind, ids) \in [1..Len(map) -> Packets]
  BY <1>3, <1>4
<1>6. Broadcast(kind, ids) \in Seq(Packets)
  BY <1>1, <1>5, SeqDef
<1> QED
  BY <1>3, <1>4, <1>6

LEMMA PacketFacts ==
  ASSUME NEW kind \in Kinds, NEW t \in Traders, NEW ids \in SUBSET Ids
  PROVE  /\ <<Packet(kind, t, ids)>> \in Seq(Packets)
         /\ DOMAIN <<Packet(kind, t, ids)>> = {1}
         /\ <<Packet(kind, t, ids)>>[1].kind = kind /\ <<Packet(kind, t, ids)>>[1].ids = ids
<1>1. Packet(kind, t, ids) \in Packets
  BY DEF Packet, Packets, Kinds
<1>2. Packet(kind, t, ids).kind = kind /\ Packet(kind, t, ids).ids = ids
  BY DEF Packet
<1> QED
  BY <1>1, <1>2, SingletonSeq

-----------------------------------------------------------------------------
(* Boxes that a step leaves alone.                                         *)

LEMMA PacketsGrow ==
  ASSUME Progress
  PROVE  Packets \subseteq Packets'
BY DEF Progress, Packets

LEMMA BoxNotReady ==
  ASSUME WireInv, NEW x \in Threads, ~Ready(x)
  PROVE  /\ outbox[x] \in Seq(Packets) /\ Len(outbox[x]) \in Nat \ {0}
         /\ 1 \in DOMAIN outbox[x] /\ DOMAIN outbox[x] = 1..Len(outbox[x])
         /\ Head(outbox[x]) = outbox[x][1] /\ Head(outbox[x]) \in Packets
<1>1. outbox[x] \in Seq(Packets) /\ outbox[x] # <<>>
  BY DEF WireInv, WireOK, Ready
<1>2. Len(outbox[x]) \in Nat \ {0} /\ DOMAIN outbox[x] = 1..Len(outbox[x])
  BY <1>1, EmptySeq, LenProperties
<1>3. Head(outbox[x]) = outbox[x][1] /\ Head(outbox[x]) \in Packets
  BY <1>1, HeadTailProperties
<1> QED
  BY <1>1, <1>2, <1>3

\* The matchmaker has packets left between its trades and their removal alone.
LEMMA MatchmakerReady ==
  ASSUME WireInv, mm.pc \notin {"sold", "traded"}
  PROVE  Ready(Matchmaker)
<1>1. ASSUME ~Ready(Matchmaker)
      PROVE  FALSE
  BY <1>1, BoxNotReady DEF WireInv, TradeBox, Threads
<1> QED
  BY <1>1

LEMMA ServiceBoxKept ==
  ASSUME WireInv, Progress, NEW t \in Traders, outbox'[t] = outbox[t],
         ~Ready(t) => pc'[t] = pc[t] /\ cur'[t] = cur[t]
  PROVE  ServiceBox(t)'
<1>1. ServiceBox(t)
  BY DEF WireInv
<1>2. CASE Ready(t)
  BY <1>2 DEF ServiceBox, Ready
<1>3. CASE ~Ready(t)
  <2>1. \A i \in DOMAIN outbox[t] : outbox[t][i].ids \in SUBSET Ids
    <3>1. outbox[t] \in Seq(Packets)
      BY DEF WireInv, WireOK, Threads
    <3>2. \A i \in DOMAIN outbox[t] : outbox[t][i] \in Packets
      BY <3>1, LenProperties, ElementOfSeq
    <3> QED
      BY <3>2 DEF Packets
  <2>2. \A id \in Ids : order[id].state = "gone" => order'[id].state = "gone"
    BY DEF Progress, Follows
  <2>3. pc[t] \notin {"reserve", "insert", "release", "closed"}
    BY <1>1, <1>3 DEF ServiceBox
  <2> QED
    BY <1>1, <1>3, <2>1, <2>2, <2>3 DEF ServiceBox
<1> QED
  BY <1>2, <1>3

LEMMA TradeBoxKept ==
  ASSUME WireInv, outbox'[Matchmaker] = outbox[Matchmaker], ~Ready(Matchmaker) => UNCHANGED mm
  PROVE  TradeBox'
<1>1. CASE Ready(Matchmaker)
  BY <1>1 DEF TradeBox, Ready
<1>2. CASE ~Ready(Matchmaker)
  BY <1>2 DEF WireInv, TradeBox
<1> QED
  BY <1>1, <1>2

\* A step that sends nothing.
LEMMA WireFrame ==
  ASSUME WireInv, Progress, UNCHANGED wire, ~Ready(Matchmaker) => UNCHANGED mm,
         \A t \in Traders : ~Ready(t) => pc'[t] = pc[t] /\ cur'[t] = cur[t]
  PROVE  WireInv'
<1>1. WireOK'
  <2>1. outbox' \in [Threads -> Seq(Packets')]
    <3>1. Packets \subseteq Packets'
      BY PacketsGrow
    <3>2. \A x \in Threads : outbox[x] \in Seq(Packets')
      BY <3>1 DEF WireInv, WireOK
    <3> QED
      BY <3>2 DEF WireInv, WireOK, wire
  <2> QED
    BY <2>1 DEF WireInv, WireOK, wire, Ready
<1>2. \A t \in Traders : ServiceBox(t)'
  BY ServiceBoxKept DEF wire
<1>3. TradeBox'
  BY TradeBoxKept DEF wire
<1> QED
  BY <1>1, <1>2, <1>3 DEF WireInv

\* A thread with nothing left to send takes on packets.
LEMMA SendsFacts ==
  ASSUME WireInv, Progress, NEW x \in Threads, Ready(x), NEW packets \in Seq(Packets'),
         Sends(x, packets)
  PROVE  /\ WireOK' /\ outbox'[x] = packets
         /\ \A y \in Threads \ {x} : outbox'[y] = outbox[y]
<1>1. outbox \in [Threads -> Seq(Packets)] /\ Packets \subseteq Packets'
  BY PacketsGrow DEF WireInv, WireOK
<1>2. \A y \in Threads : outbox[y] \in Seq(Packets')
  BY <1>1
<1>3. outbox' = [outbox EXCEPT ![x] = packets] /\ UNCHANGED <<owner, kept, down, writing>>
  BY DEF Sends
<1>4. outbox' \in [Threads -> Seq(Packets')] /\ outbox'[x] = packets
      /\ \A y \in Threads \ {x} : outbox'[y] = outbox[y]
  BY <1>1, <1>2, <1>3
<1>5. x \notin writing
  BY DEF WireInv, WireOK, Ready
<1>6. writing' \subseteq {y \in Threads : ~Ready(y)'}
  BY <1>3, <1>4, <1>5 DEF WireInv, WireOK, Ready
<1>7. \A t \in Traders : owner'[t] # Nobody /\ t \notin kept' =>
        owner'[t] \in writing' /\ Head(outbox'[owner'[t]]).to = t
  BY <1>3, <1>4, <1>5 DEF WireInv, WireOK
<1> QED
  BY <1>3, <1>4, <1>6, <1>7 DEF WireInv, WireOK

-----------------------------------------------------------------------------
(* Steps.                                                                  *)

\* A service thread's step leaves the matchmaker and the other threads where
\* they are, and the matchmaker's leaves the service threads.
LEMMA OwnStep ==
  ASSUME TypeOK, NEW t \in Traders, Request(t) \/ Serve(t) \/ Session(t)
  PROVE  UNCHANGED mm /\ \A u \in Traders \ {t} : pc'[u] = pc[u] /\ cur'[u] = cur[u]
<1>1. UNCHANGED mm
  BY DEF Request, Status, Deposit, Withdraw, Escrow, Release, NewOrder, Cancel, CancelRefused,
     Serve, Reserve, InsertBuy, InsertSell, Announce, ReadId, FreeCanceled, Reply, Session, Logout, Login, LoginRefused
<1>2. UNCHANGED pc \/ \E label : GoTo(t, label)
  BY DEF Request, Status, Deposit, Withdraw, Escrow, Release, NewOrder, Cancel, CancelRefused,
     Serve, Reserve, InsertBuy, InsertSell, Announce, ReadId, FreeCanceled, Reply, Session, Logout, Login, LoginRefused,
     threads
<1>3. \A u \in Traders \ {t} : pc'[u] = pc[u]
  BY <1>2, GoToFacts
<1>4. cur' = cur \/ \E id : cur' = [cur EXCEPT ![t] = id]
  BY DEF Request, Status, Deposit, Withdraw, Escrow, Release, NewOrder, Cancel, CancelRefused,
     Serve, Reserve, InsertBuy, InsertSell, Announce, ReadId, FreeCanceled, Reply, Session, Logout, Login, LoginRefused,
     threads
<1>5. \A u \in Traders \ {t} : cur'[u] = cur[u]
  BY <1>4 DEF TypeOK
<1> QED
  BY <1>1, <1>3, <1>5

LEMMA MatchThreads ==
  ASSUME Match
  PROVE  UNCHANGED threads
BY DEF Match, SemWait, Wake, Exit, StartTrade, CreditSeller, DeliverUnits, RefundBuyer, SendBought,
   SendSold, SendTo, Relock, ReapSell, ReapBuy, Reap, Sleep

\* A packet is written, or its send fails.
LEMMA TransmitKeeps ==
  ASSUME Inv, WireInv, NEW x \in Threads, Transmit(x)
  PROVE  WireInv'
<1>1. UNCHANGED vars
  BY TransmitStutters
<1>2. /\ Packets' = Packets /\ Ids' = Ids
      /\ outbox \in [Threads -> Seq(Packets)]
      /\ owner \in [Traders -> Threads \cup {Nobody, Ended}]
      /\ kept \subseteq Traders
  BY <1>1 DEF Packets, Ids, vars, book, WireInv, WireOK
<1>3. ~Ready(x)
  BY DEF Transmit, SendLock, Sent, SendFails, WireInv, WireOK
<1> DEFINE t == Head(outbox[x]).to
<1>4. t \in Traders /\ Tail(outbox[x]) \in Seq(Packets)
      /\ Len(Tail(outbox[x])) = Len(outbox[x]) - 1
      /\ \A i \in 1..Len(Tail(outbox[x])) : Tail(outbox[x])[i] = outbox[x][i + 1]
  <2>1. outbox[x] \in Seq(Packets) /\ outbox[x] # <<>>
    BY <1>2, <1>3 DEF Ready
  <2>2. Head(outbox[x]) \in Packets
    BY <2>1, HeadTailProperties
  <2> QED
    BY <2>1, <2>2, HeadTailProperties DEF Packets
<1>5. CASE SendLock(x)
  <2>1. /\ x \notin writing /\ CanLock(x, t) /\ owner' = [owner EXCEPT ![t] = x]
        /\ writing' = writing \cup {x} /\ UNCHANGED <<kept, down, outbox>>
    BY <1>5 DEF SendLock
  <2>2. WireOK'
    BY <1>2, <1>3, <1>4, <2>1 DEF WireInv, WireOK, Ready
  <2>3. (\A u \in Traders : ServiceBox(u)') /\ TradeBox'
    BY <1>1, <2>1 DEF WireInv, ServiceBox, TradeBox, Ready, vars, threads, book
  <2> QED
    BY <2>2, <2>3 DEF WireInv
<1>6. CASE Sent(x) \/ SendFails(x)
  <2>1. /\ x \in writing /\ writing' = writing \ {x}
        /\ outbox' = [outbox EXCEPT ![x] = Tail(@)] /\ UNCHANGED down
    BY <1>6 DEF Sent, SendFails, Done
  <2>2. /\ outbox' \in [Threads -> Seq(Packets)] /\ outbox'[x] = Tail(outbox[x])
        /\ \A y \in Threads \ {x} : outbox'[y] = outbox[y]
    BY <1>2, <1>4, <2>1
  <2>3. /\ owner' \in [Traders -> Threads \cup {Nobody, Ended}]
        /\ kept' \subseteq Traders /\ kept \subseteq kept'
        /\ owner'[t] = Nobody \/ t \in kept'
        /\ \A u \in Traders \ {t} : owner'[u] = owner[u]
    BY <1>2, <1>4, <1>6 DEF Sent, SendFails
  <2>4. \A u \in Traders : owner'[u] # Nobody /\ u \notin kept' =>
          owner'[u] \in writing' /\ Head(outbox'[owner'[u]]).to = u
    <3> SUFFICES ASSUME NEW u \in Traders, owner'[u] # Nobody, u \notin kept'
                 PROVE  owner'[u] \in writing' /\ Head(outbox'[owner'[u]]).to = u
      OBVIOUS
    <3>1. u # t /\ owner'[u] = owner[u]
      BY <2>3
    <3>2. owner[u] \in writing /\ Head(outbox[owner[u]]).to = u
      BY <2>3, <3>1 DEF WireInv, WireOK
    <3>3. owner[u] # x /\ owner[u] \in Threads
      BY <3>1, <3>2 DEF WireInv, WireOK
    <3> QED
      BY <2>1, <2>2, <3>1, <3>2, <3>3
  <2>5. WireOK'
    BY <1>2, <2>1, <2>2, <2>3, <2>4 DEF WireInv, WireOK, Ready
  <2>6. \A y \in Threads : /\ Ready(y) => Ready(y)'
                           /\ \A i \in DOMAIN outbox'[y] : \E j \in DOMAIN outbox[y] : outbox'[y][i] = outbox[y][j]
    <3> SUFFICES ASSUME NEW y \in Threads
                 PROVE  /\ Ready(y) => Ready(y)'
                        /\ \A i \in DOMAIN outbox'[y] : \E j \in DOMAIN outbox[y] : outbox'[y][i] = outbox[y][j]
      OBVIOUS
    <3>1. CASE y # x
      BY <2>2, <3>1 DEF Ready
    <3>2. CASE y = x
      <4>1. /\ DOMAIN outbox[x] = 1..Len(outbox[x]) /\ Len(outbox[x]) \in Nat
            /\ DOMAIN Tail(outbox[x]) = 1..Len(Tail(outbox[x])) /\ Len(Tail(outbox[x])) \in Nat
        BY <1>2, <1>4, LenProperties
      <4>2. \A i \in DOMAIN Tail(outbox[x]) : i + 1 \in DOMAIN outbox[x] /\ Tail(outbox[x])[i] = outbox[x][i + 1]
        BY <1>4, <4>1
      <4> QED
        BY <1>3, <2>2, <3>2, <4>2
    <3> QED
      BY <3>1, <3>2
  <2>7. \A u \in Traders : ServiceBox(u)'
    BY <1>1, <2>6 DEF WireInv, ServiceBox, Threads, vars, threads, book
  <2>8. TradeBox'
    BY <1>1, <2>6 DEF WireInv, TradeBox, Threads, vars
  <2> QED
    BY <2>5, <2>7, <2>8 DEF WireInv
<1> QED
  BY <1>5, <1>6 DEF Transmit

\* A service thread that takes on packets.
LEMMA ServiceSends ==
  ASSUME WireInv, TypeOK, Progress, NEW t \in Traders, Request(t) \/ Serve(t) \/ Session(t), Ready(t),
         pc'[t] \notin {"reserve", "insert", "release", "closed"},
         NEW packets \in Seq(Packets'), Sends(t, packets),
         \A i \in DOMAIN packets :
           \/ packets[i].kind = "answer" /\ packets[i].ids = {}
           \/ packets[i].kind = "posted" /\ pc'[t] = "announce" /\ packets[i].ids = {cur'[t]}
           \/ packets[i].kind = "canceled" /\ \A id \in packets[i].ids : order'[id].state = "gone"
  PROVE  WireInv'
<1>1. UNCHANGED mm /\ \A u \in Traders \ {t} : pc'[u] = pc[u] /\ cur'[u] = cur[u]
  BY OwnStep
<1>2. t \in Threads /\ t # Matchmaker
  BY ThreadsAssumption DEF Threads
<1>3. WireOK' /\ outbox'[t] = packets /\ \A y \in Threads \ {t} : outbox'[y] = outbox[y]
  BY <1>2, SendsFacts
<1>4. ServiceBox(t)'
  BY <1>3 DEF ServiceBox
<1>5. \A u \in Traders \ {t} : ServiceBox(u)'
  BY <1>1, <1>3, ServiceBoxKept DEF Threads
<1>6. TradeBox'
  BY <1>1, <1>2, <1>3, TradeBoxKept DEF Threads
<1> QED
  BY <1>3, <1>4, <1>5, <1>6 DEF WireInv

\* A service thread that does not.
LEMMA ServiceSilent ==
  ASSUME WireInv, TypeOK, Progress, NEW t \in Traders, Request(t) \/ Serve(t) \/ Session(t), Ready(t),
         UNCHANGED wire
  PROVE  WireInv'
<1>1. UNCHANGED mm /\ \A u \in Traders \ {t} : pc'[u] = pc[u] /\ cur'[u] = cur[u]
  BY OwnStep
<1> QED
  BY <1>1, WireFrame

LEMMA ServiceKeeps ==
  ASSUME Inv, WireInv, Progress, NEW t \in Traders,
         ClientRequest(t) \/ ServeClient(t) \/ StartSession(t)
  PROVE  WireInv'
<1>1. TypeOK /\ ThreadInv /\ \A label : GoTo(t, label) => pc'[t] = label
  BY GoToFacts DEF Inv
<1>2. Request(t) \/ Serve(t) \/ Session(t)
  BY ServiceStep
<1>3. pc[t] \in {"reserve", "insert", "release", "closed"} => Ready(t)
  BY DEF WireInv, ServiceBox
<1>4. Ids \subseteq Ids' /\ Packets \subseteq Packets'
  BY PacketsGrow DEF Progress
<1>5. CASE ClientRequest(t)
  BY <1>1, <1>2, <1>5, ServiceSilent DEF ClientRequest
<1>6. CASE Encumber(t)
  BY <1>1, <1>2, <1>3, <1>6, ServiceSilent DEF Encumber, Reserve
<1>7. CASE Posted(t)
  BY <1>1, <1>2, <1>7, ServiceSilent DEF Posted
<1>8. CASE PostOrder(t)
  <2> DEFINE packets == Broadcast("posted", {cur[t]})
  <2>1. pc[t] = "insert" /\ pc'[t] = "announce" /\ UNCHANGED cur /\ Sends(t, packets)
    BY <1>1, <1>8 DEF PostOrder, InsertBuy, InsertSell
  <2>2. cur[t] \in Ids
    BY <1>1, <2>1 DEF ThreadInv, Holds
  <2>3. packets \in Seq(Packets) /\ \A i \in DOMAIN packets : packets[i].kind = "posted" /\ packets[i].ids = {cur[t]}
    <3>1. "posted" \in Kinds /\ {cur[t]} \in SUBSET Ids
      BY <2>2 DEF Kinds
    <3> QED
      BY <3>1, BroadcastFacts
  <2> HIDE DEF packets
  <2>4. packets \in Seq(Packets')
    BY <1>4, <2>3
  <2> QED
    BY <1>1, <1>2, <1>3, <2>1, <2>3, <2>4, ServiceSends
<1>9. CASE CancelOrder(t)
  <2> DEFINE packets == Broadcast("canceled", {cur[t]})
  <2>1. pc[t] = "release" /\ pc'[t] = "reply" /\ Sends(t, packets) /\ SetState(cur[t], "gone")
    BY <1>1, <1>9 DEF CancelOrder, FreeCanceled
  <2>2. cur[t] \in Ids /\ order'[cur[t]].state = "gone"
    <3>1. cur[t] \in Ids /\ "gone" \in OrderStates
      BY <1>1, <2>1 DEF ThreadInv, Holds, OrderStates
    <3> QED
      BY <1>1, <2>1, <3>1, SetStateFacts
  <2>3. packets \in Seq(Packets) /\ \A i \in DOMAIN packets : packets[i].kind = "canceled" /\ packets[i].ids = {cur[t]}
    <3>1. "canceled" \in Kinds /\ {cur[t]} \in SUBSET Ids
      BY <2>2 DEF Kinds
    <3> QED
      BY <3>1, BroadcastFacts
  <2> HIDE DEF packets
  <2>4. packets \in Seq(Packets')
    BY <1>4, <2>3
  <2> QED
    BY <1>1, <1>2, <1>3, <2>1, <2>2, <2>3, <2>4, ServiceSends
<1>10. CASE AnswerClient(t) \/ StartSession(t)
  <2> DEFINE packets == <<Packet("answer", t, {})>>
  <2>1. Ready(t) /\ pc'[t] = "idle" /\ Sends(t, packets)
    BY <1>1, <1>3, <1>10 DEF AnswerClient, StartSession, Reply, Login
  <2>2. packets \in Seq(Packets) /\ \A i \in DOMAIN packets : packets[i].kind = "answer" /\ packets[i].ids = {}
    BY PacketFacts DEF Kinds
  <2> HIDE DEF packets
  <2>3. packets \in Seq(Packets')
    BY <1>4, <2>2
  <2> QED
    BY <1>1, <1>2, <2>1, <2>2, <2>3, ServiceSends
<1> QED
  BY <1>5, <1>6, <1>7, <1>8, <1>9, <1>10 DEF ServeClient

\* The end of a session: the mutexes the thread still has are those that a
\* failed send has left locked.
LEMMA EndSessionKeeps ==
  ASSUME Inv, WireInv, Progress, NEW t \in Traders, EndSession(t)
  PROVE  WireInv'
<1>1. TypeOK /\ Session(t) /\ Ready(t)
  BY ServiceStep DEF Inv, EndSession
<1>2. UNCHANGED mm /\ \A u \in Traders \ {t} : pc'[u] = pc[u] /\ cur'[u] = cur[u]
  BY <1>1, OwnStep
<1>3. /\ owner' = [u \in Traders |-> IF owner[u] = t THEN Ended ELSE owner[u]]
      /\ down' = down \ {t} /\ UNCHANGED <<kept, outbox, writing>>
  BY DEF EndSession
<1>4. t \notin writing
  BY <1>1 DEF WireInv, WireOK
<1>5. outbox' \in [Threads -> Seq(Packets')]
  <2>1. Packets \subseteq Packets'
    BY PacketsGrow
  <2>2. \A x \in Threads : outbox[x] \in Seq(Packets')
    BY <2>1 DEF WireInv, WireOK
  <2> QED
    BY <1>3, <2>2 DEF WireInv, WireOK
<1>6. WireOK'
  <2>1. \A u \in Traders : owner'[u] # Nobody /\ u \notin kept =>
          owner'[u] \in writing /\ Head(outbox[owner'[u]]).to = u
    BY <1>3, <1>4, ThreadsAssumption DEF WireInv, WireOK
  <2>2. owner' \in [Traders -> Threads \cup {Nobody, Ended}]
    BY <1>3 DEF WireInv, WireOK
  <2>3. kept' \subseteq Traders /\ down' \subseteq Unreliable /\ writing' \subseteq {x \in Threads : ~Ready(x)'}
    BY <1>3 DEF WireInv, WireOK, Ready
  <2> QED
    BY <1>3, <1>5, <2>1, <2>2, <2>3 DEF WireOK
<1>7. \A u \in Traders : ServiceBox(u)'
  BY <1>1, <1>2, <1>3, ServiceBoxKept
<1>8. TradeBox'
  BY <1>2, <1>3, TradeBoxKept
<1> QED
  BY <1>6, <1>7, <1>8 DEF WireInv

\* The matchmaker's steps: it sends once its last packets are out.
LEMMA MatchKeeps ==
  ASSUME Inv, WireInv, Progress, MatchOrders
  PROVE  WireInv'
<1>1. TypeOK /\ TradeInv /\ UNCHANGED threads
  BY MatchmakerStep, MatchThreads DEF Inv
<1>2. \A t \in Traders : pc'[t] = pc[t] /\ cur'[t] = cur[t]
  BY <1>1 DEF threads
<1>3. CASE FindMatch \/ Pay \/ FreeTraded
  <2>1. Ready(Matchmaker)
    <3>1. CASE Ready(Matchmaker)
      BY <3>1
    <3>2. CASE mm.pc \notin {"sold", "traded"}
      BY <3>2, MatchmakerReady
    <3> QED
      BY <1>3, <3>1, <3>2 DEF FindMatch, SemWait, Wake, Exit, StartTrade, Sleep, Pay, CreditSeller,
         DeliverUnits, RefundBuyer, FreeTraded, ReapSell, ReapBuy, MMStep
  <2>2. UNCHANGED wire
    BY <1>3 DEF FindMatch, Pay, FreeTraded
  <2> QED
    BY <1>2, <2>1, <2>2, WireFrame
<1>4. ASSUME NEW packets \in Seq(Packets), Ready(Matchmaker), Sends(Matchmaker, packets),
             mm'.pc \in {"sold", "traded"},
             \A i \in DOMAIN packets : /\ packets[i].kind \in {"bought", "sold", "traded"}
                                       /\ packets[i].ids = {mm'.buy, mm'.sell}
      PROVE  WireInv'
  <2>1. Matchmaker \in Threads /\ Traders \subseteq Threads /\ Matchmaker \notin Traders
    BY ThreadsAssumption DEF Threads
  <2>2. packets \in Seq(Packets')
    <3>1. Packets \subseteq Packets'
      BY PacketsGrow
    <3> QED
      BY <1>4, <3>1
  <2>3. /\ WireOK' /\ outbox'[Matchmaker] = packets
        /\ \A y \in Threads \ {Matchmaker} : outbox'[y] = outbox[y]
    BY <1>4, <2>1, <2>2, SendsFacts
  <2>4. \A t \in Traders : ServiceBox(t)'
    BY <1>2, <2>1, <2>3, ServiceBoxKept
  <2>5. TradeBox'
    BY <1>4, <2>3 DEF TradeBox
  <2> QED
    BY <2>3, <2>4, <2>5 DEF WireInv
<1>5. CASE TellTraders
  <2> DEFINE ids == {mm.buy, mm.sell}
  <2>1. /\ Ready(Matchmaker) /\ Trading
        /\ mm'.pc \in {"sold", "traded"} /\ mm'.buy = mm.buy /\ mm'.sell = mm.sell
    BY <1>1, <1>5, MMStepFacts DEF TellTraders, SendBought, SendSold, MMStep, Trading
  <2>2. /\ ids \in SUBSET Ids
        /\ order[mm.buy].owner \in Traders /\ order[mm.sell].owner \in Traders
    <3>1. mm.buy \in Ids /\ mm.sell \in Ids
      BY <1>1, <2>1 DEF TradeInv
    <3> QED
      BY <1>1, <3>1, ElementOfSeq, OrderFields DEF TypeOK, Ids
  <2> HIDE DEF ids
  <2>3. {"bought", "sold", "traded"} \subseteq Kinds
    BY DEF Kinds
  <2>4. CASE Sends(Matchmaker, <<Packet("bought", order[mm.buy].owner, ids)>>)
    <3> DEFINE packets == <<Packet("bought", order[mm.buy].owner, ids)>>
    <3>1. packets \in Seq(Packets) /\ \A i \in DOMAIN packets : packets[i].kind = "bought" /\ packets[i].ids = ids
      BY <2>2, <2>3, PacketFacts
    <3> HIDE DEF packets
    <3>2. ids = {mm'.buy, mm'.sell}
      BY <2>1 DEF ids
    <3>3. Sends(Matchmaker, packets)
      BY <2>4 DEF packets
    <3> QED
      BY <1>4, <2>1, <3>1, <3>2, <3>3
  <2>5. CASE Sends(Matchmaker, <<Packet("sold", order[mm.sell].owner, ids)>> \o Broadcast("traded", ids))
    <3> DEFINE first   == <<Packet("sold", order[mm.sell].owner, ids)>>
               second  == Broadcast("traded", ids)
               packets == first \o second
    <3>1. /\ first \in Seq(Packets) /\ \A i \in DOMAIN first : first[i].kind = "sold" /\ first[i].ids = ids
      BY <2>2, <2>3, PacketFacts
    <3>2. /\ second \in Seq(Packets) /\ \A i \in DOMAIN second : second[i].kind = "traded" /\ second[i].ids = ids
      BY <2>2, <2>3, BroadcastFacts
    <3> HIDE DEF first, second
    <3>3. packets \in Seq(Packets)
      BY <3>1, <3>2, ConcatProperties
    <3>4. \A i \in DOMAIN packets : packets[i].kind \in {"sold", "traded"} /\ packets[i].ids = ids
      <4>1. /\ Len(first) \in Nat /\ DOMAIN first = 1..Len(first)
            /\ Len(second) \in Nat /\ DOMAIN second = 1..Len(second)
            /\ DOMAIN packets = 1..(Len(first) + Len(second))
            /\ \A i \in 1..(Len(first) + Len(second)) :
                 packets[i] = IF i <= Len(first) THEN first[i] ELSE second[i - Len(first)]
        BY <3>1, <3>2, ConcatProperties, LenProperties
      <4> HIDE DEF packets
      <4>2. \A i \in DOMAIN packets : \/ i \in DOMAIN first /\ packets[i] = first[i]
                                      \/ i - Len(first) \in DOMAIN second /\ packets[i] = second[i - Len(first)]
        BY <4>1
      <4> QED
        BY <3>1, <3>2, <4>2
    <3> HIDE DEF packets
    <3>5. ids = {mm'.buy, mm'.sell}
      BY <2>1 DEF ids
    <3>6. Sends(Matchmaker, packets)
      BY <2>5 DEF packets, first, second
    <3> QED
      BY <1>4, <2>1, <3>3, <3>4, <3>5, <3>6
  <2> QED
    BY <1>5, <2>4, <2>5 DEF TellTraders, ids
<1> QED
  BY <1>3, <1>5 DEF MatchOrders

LEMMA WireInit == ServerInit => WireInv
<1> SUFFICES ASSUME ServerInit
             PROVE  WireInv
  OBVIOUS
<1>1. outbox = [x \in Threads |-> <<>>] /\ owner = [t \in Traders |-> Nobody] /\ kept = {}
      /\ down = {} /\ writing = {}
  BY DEF ServerInit
<1>2. \A x \in Threads : Ready(x) /\ outbox[x] \in Seq(Packets) /\ DOMAIN outbox[x] = {}
  BY <1>1 DEF Ready
<1> QED
  BY <1>1, <1>2 DEF WireInv, WireOK, ServiceBox, TradeBox, Threads

LEMMA WireStep ==
  ASSUME Inv, WireInv, ServerNext
  PROVE  WireInv'
<1>1. Progress
  <2>1. CASE UNCHANGED vars
    BY <2>1 DEF vars, book, Ids, Progress, Follows
  <2> QED
    BY <2>1, ServerSimulates, OrdersProgress
<1>2. CASE ServerStopped
  BY <1>1, <1>2, WireFrame DEF ServerStopped, serverVars, vars, threads
<1>3. CASE StopServer
  BY <1>1, <1>3, WireFrame DEF StopServer, Fini, threads
<1>4. ASSUME NEW t \in Traders, Reset(t)
      PROVE  WireInv'
  <2>1. UNCHANGED <<vars, owner, kept, outbox, writing>> /\ down' = down \cup {t} /\ t \in Unreliable
    BY <1>4 DEF Reset
  <2>2. Packets' = Packets
    BY <2>1 DEF Packets, Ids, vars, book
  <2>3. WireOK'
    BY <2>1, <2>2 DEF WireInv, WireOK, Ready
  <2>4. (\A u \in Traders : ServiceBox(u)') /\ TradeBox'
    BY <2>1 DEF WireInv, ServiceBox, TradeBox, Ready, vars, threads, book
  <2> QED
    BY <2>3, <2>4 DEF WireInv
<1>5. ASSUME NEW t \in Traders, RefuseLogin(t)
      PROVE  WireInv'
  BY <1>1, <1>5, WireFrame DEF RefuseLogin, LoginRefused, threads
<1> QED
  BY <1>1, <1>2, <1>3, <1>4, <1>5, ServiceKeeps, EndSessionKeeps, MatchKeeps, TransmitKeeps
     DEF ServerNext, ServerStep

\* The packets under way, the traders' mutexes and the exchange fit together
\* in every state the server can reach: however broadcasts, trades, failed
\* sends, resets and logins interleave.
THEOREM WireInvHolds == ServerSpec => []WireInv
<1>1. Inv /\ WireInv /\ [ServerNext]_serverVars => WireInv'
  <2>1. ASSUME WireInv, UNCHANGED serverVars
        PROVE  WireInv'
    <3>1. Progress
      BY <2>1 DEF serverVars, vars, book, Ids, Progress, Follows
    <3> QED
      BY <2>1, <3>1, WireFrame DEF serverVars, vars, threads
  <2> QED
    BY <2>1, WireStep
<1> QED
  BY <1>1, WireInit, ServerKeepsInv, PTL DEF ServerSpec

\* A trader's mutex that no failed send has left locked is held by a thread
\* that is writing to that trader: nobody waits for a mutex that is not let go.
THEOREM WireHolds == ServerSpec => []WireOK
<1>1. WireInv => WireOK
  BY DEF WireInv
<1> QED
  BY <1>1, WireInvHolds, PTL

\* POSTED goes out before any other packet about its order, from any thread.
LEMMA PostedAlone == Inv /\ WireInv => PostedComesFirst
<1> SUFFICES ASSUME Inv, WireInv, NEW x \in Threads, NEW y \in Threads,
                    NEW i \in DOMAIN outbox[x], NEW j \in DOMAIN outbox[y],
                    outbox[x][i].kind = "posted", outbox[y][j].kind # "posted"
             PROVE  outbox[x][i].ids \cap outbox[y][j].ids = {}
  BY DEF PostedComesFirst
<1>1. x \in Traders /\ pc[x] = "announce" /\ outbox[x][i].ids = {cur[x]}
  BY DEF WireInv, ServiceBox, TradeBox, Threads
<1>2. order[cur[x]].state = "booked"
  BY <1>1 DEF Inv, ThreadInv, Holds
<1>3. CASE y = Matchmaker
  <2>1. outbox[y][j].ids = {mm.buy, mm.sell} /\ Trading
    BY <1>3 DEF WireInv, TradeBox, Trading
  <2> QED
    BY <1>1, <2>1 DEF Inv, PostedBeforeTraded
<1>4. CASE y \in Traders
  <2>1. \/ outbox[y][j].ids = {}
        \/ \A id \in outbox[y][j].ids : order[id].state = "gone"
    BY <1>4 DEF WireInv, ServiceBox
  <2> QED
    BY <1>1, <1>2, <2>1
<1> QED
  BY <1>3, <1>4 DEF Threads

\* POSTED reaches a trader before BOUGHT, SOLD, TRADED or CANCELED of the same
\* order, though other threads send those.
THEOREM PostedFirst == ServerSpec => []PostedComesFirst
BY PostedAlone, ServerKeepsInv, WireInvHolds, PTL
=============================================================================
