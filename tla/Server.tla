------------------------------- MODULE Server -------------------------------
(***************************************************************************)
(* The exchange, its service threads and its matchmaker (Exchange) with the*)
(* packets they send and the traders' mutexes they take (src/trader.c).    *)
(*                                                                         *)
(* Every action is one of Exchange and what it waits for, or a step of     *)
(* trader_send_packet.  A thread that has packets to send sends them before*)
(* its next step.  A trader's mutex is held while a packet is written, and *)
(* a send that fails leaves it locked: to a trader who has logged out, as a*)
(* broadcast does, or whose connection has been reset.                     *)
(***************************************************************************)
EXTENDS Exchange

CONSTANTS
  Unreliable,  \* the traders whose connection can be reset
  Ended        \* owner of a mutex that a thread had when it ended

ASSUME ServerAssumption ==
  /\ Unreliable \subseteq Traders
  /\ Ended \notin Traders \cup {Matchmaker, Nobody}

VARIABLES
  owner,    \* who has each trader's mutex
  kept,     \* the traders whose mutex a failed send has left locked
  down,     \* the sessions whose connection has been reset
  outbox,   \* the packets that each thread has yet to send
  writing   \* the threads that are writing the first of them

wire       == <<owner, kept, down, outbox, writing>>
serverVars == <<vars, wire>>

Threads == Traders \cup {Matchmaker}

\* The mutexes are recursive.
CanLock(x, t) == owner[t] \in {Nobody, x}

Ready(x) == outbox[x] = <<>>

Packet(kind, t, ids) == [kind |-> kind, to |-> t, ids |-> ids]

\* trader_broadcast_packet: to every trader of the map, logged in or not, in
\* the order of the map.
Broadcast(kind, ids) ==
  LET map == SetToSeq(Traders) IN [i \in DOMAIN map |-> Packet(kind, map[i], ids)]

Sends(x, packets) ==
  /\ outbox' = [outbox EXCEPT ![x] = packets]
  /\ UNCHANGED <<owner, kept, down, writing>>

ServerInit ==
  /\ Init
  /\ owner = [t \in Traders |-> Nobody] /\ kept = {} /\ down = {}
  /\ outbox = [x \in Threads |-> <<>>] /\ writing = {}

-----------------------------------------------------------------------------
(* trader_send_packet.                                                     *)

SendLock(x) ==
  LET t == Head(outbox[x]).to IN
  /\ ~Ready(x) /\ x \notin writing
  /\ CanLock(x, t)
  /\ owner' = [owner EXCEPT ![t] = x]
  /\ writing' = writing \cup {x}
  /\ UNCHANGED <<vars, kept, down, outbox>>

Done(x) ==
  /\ writing' = writing \ {x}
  /\ outbox' = [outbox EXCEPT ![x] = Tail(@)]
  /\ UNCHANGED <<vars, down>>

Reachable(t) == pc[t] # "closed" /\ t \notin down

\* Slip: no unlock.
SentHeld(x) ==
  /\ x \in writing /\ Reachable(Head(outbox[x]).to)
  /\ Done(x)
  /\ UNCHANGED <<owner, kept>>

\* The unlock frees the mutex unless a send of this thread has failed before.
Sent(x) ==
  LET t == Head(outbox[x]).to IN
  /\ x \in writing /\ Reachable(t)
  /\ owner' = [owner EXCEPT ![t] = IF t \in kept THEN x ELSE Nobody]
  /\ Done(x)
  /\ UNCHANGED kept

SendFails(x) ==
  LET t == Head(outbox[x]).to IN
  /\ x \in writing /\ ~Reachable(t)
  /\ kept' = kept \cup {t}
  /\ Done(x)
  /\ UNCHANGED owner

Transmit(x) == SendLock(x) \/ Sent(x) \/ SendFails(x)

-----------------------------------------------------------------------------
(* brs_client_service.                                                     *)

\* The requests that change an account take the trader's mutex.
OnAccount(t) ==
  \/ \E n \in Deposits : Deposit(t, n) \/ Withdraw(t, n)
  \/ \E n \in Escrows : Escrow(t, n) \/ Release(t, n)

OnExchange(t) ==
  \/ Status(t)
  \/ \E kind \in {"buy", "sell"}, q \in Quantities, p \in Prices : NewOrder(t, kind, q, p)
  \/ \E id \in 1..MaxOrders : Cancel(t, id) \/ CancelRefused(t, id)

ClientRequest(t) ==
  /\ Ready(t)
  /\ (OnAccount(t) /\ CanLock(t, t)) \/ OnExchange(t)
  /\ UNCHANGED wire

\* create_order's encumbrance and reference.
Encumber(t) == Reserve(t) /\ CanLock(t, t) /\ UNCHANGED wire

\* POSTED is broadcast with the exchange's mutex held.
PostOrder(t) ==
  /\ InsertBuy(t) \/ InsertSell(t)
  /\ Sends(t, Broadcast("posted", {cur[t]}))

\* Slip: the mutex is released first.
UnlockAtOnce(t) == (Announce(t) \/ ReadId(t)) /\ UNCHANGED wire

Posted(t) == Ready(t) /\ (Announce(t) \/ ReadId(t)) /\ UNCHANGED wire

\* free_order, then CANCELED.
CancelOrder(t) ==
  /\ FreeCanceled(t) /\ CanLock(t, t)
  /\ Sends(t, Broadcast("canceled", {cur[t]}))

\* exchange_get_status lets go of the mutex before the answer is sent.
AnswerClient(t) == Ready(t) /\ Reply(t) /\ Sends(t, <<Packet("answer", t, {})>>)

ServeClient(t) ==
  Encumber(t) \/ PostOrder(t) \/ Posted(t) \/ CancelOrder(t) \/ AnswerClient(t)

-----------------------------------------------------------------------------
(* The matchmaker.                                                         *)

\* Under the exchange's mutex a trader's is taken.
Pay ==
  /\ \/ CreditSeller /\ CanLock(Matchmaker, order[mm.sell].owner)
     \/ DeliverUnits /\ CanLock(Matchmaker, order[mm.buy].owner)
     \/ RefundBuyer /\ (order[mm.buy].price > mm.price => CanLock(Matchmaker, order[mm.buy].owner))
  /\ UNCHANGED wire

\* BOUGHT; SOLD, then TRADED to all.
TellTraders ==
  LET ids == {mm.buy, mm.sell} IN
  /\ Ready(Matchmaker)
  /\ \/ SendBought /\ Sends(Matchmaker, <<Packet("bought", order[mm.buy].owner, ids)>>)
     \/ SendSold /\ Sends(Matchmaker, <<Packet("sold", order[mm.sell].owner, ids)>> \o Broadcast("traded", ids))

\* free_order drops the reference under the trader's mutex.
FreeTraded ==
  /\ \/ Relock /\ Ready(Matchmaker)
     \/ ReapSell /\ (order[mm.sell].qty = 0 => CanLock(Matchmaker, order[mm.sell].owner))
     \/ ReapBuy /\ (order[mm.buy].qty = 0 => CanLock(Matchmaker, order[mm.buy].owner))
  /\ UNCHANGED wire

FindMatch == (SemWait \/ Wake \/ Exit \/ StartTrade \/ Sleep) /\ UNCHANGED wire

MatchOrders == FindMatch \/ Pay \/ TellTraders \/ FreeTraded

-----------------------------------------------------------------------------
(* Connections.                                                            *)

\* The client resets the connection.
Reset(t) ==
  /\ t \in Unreliable \ down /\ pc[t] # "closed"
  /\ down' = down \cup {t}
  /\ UNCHANGED <<vars, owner, kept, outbox, writing>>

\* trader_logout, at the end of file; the mutexes that the thread still has
\* are nobody's to unlock.
EndSession(t) ==
  /\ Ready(t) /\ Logout(t) /\ CanLock(t, t)
  /\ owner' = [u \in Traders |-> IF owner[u] = t THEN Ended ELSE owner[u]]
  /\ down' = down \ {t}
  /\ UNCHANGED <<kept, outbox, writing>>

\* trader_login, whose trader_ref takes the trader's mutex; then an ACK.
StartSession(t) ==
  /\ Login(t) /\ CanLock(t, t)
  /\ Sends(t, <<Packet("answer", t, {})>>)

\* Another connection asks for a name in use.  Its thread takes the trader's
\* mutex only for the reference; its NACK goes to a client of no trader.
RefuseLogin(t) == LoginRefused(t) /\ owner[t] = Nobody /\ UNCHANGED wire

StopServer == Fini /\ UNCHANGED wire

-----------------------------------------------------------------------------
ServerStep ==
  /\ ~undef
  /\ \/ \E t \in Traders :
          \/ ClientRequest(t) \/ ServeClient(t)
          \/ Reset(t) \/ EndSession(t) \/ StartSession(t) \/ RefuseLogin(t)
     \/ MatchOrders \/ StopServer
     \/ \E x \in Threads : Transmit(x)

\* The process has ended, or threads wait for a mutex that stays locked.
ServerStopped ==
  /\ undef \/ mm.pc = "exited" \/ kept # {}
  /\ UNCHANGED serverVars

ServerNext == ServerStep \/ ServerStopped

ServerSpec == ServerInit /\ [][ServerNext]_serverVars

\* A thread whose next step is possible again and again takes it: the mutexes
\* starve nobody, and clients read what they are sent.
ServerFairness ==
  /\ \A t \in Traders : SF_serverVars(~undef /\ (ServeClient(t) \/ Transmit(t)))
  /\ SF_serverVars(~undef /\ (MatchOrders \/ Transmit(Matchmaker)))

FairServer == ServerSpec /\ ServerFairness
=============================================================================
