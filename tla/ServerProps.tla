---------------------------- MODULE ServerProps ----------------------------
(***************************************************************************)
(* What the clients of the server see: the order of its packets, and that  *)
(* it answers, trades and ends.                                            *)
(***************************************************************************)
EXTENDS Server

Packets == [kind : {"posted", "canceled", "bought", "sold", "traded", "answer"},
            to : Traders, ids : SUBSET Ids]

\* Every variable holds a value of its type; a mutex that is locked is held by
\* a thread that is writing to its trader, or left by a send that failed.
WireOK ==
  /\ owner \in [Traders -> Threads \cup {Nobody, Ended}]
  /\ kept \subseteq Traders /\ down \subseteq Unreliable
  /\ outbox \in [Threads -> Seq(Packets)]
  /\ writing \subseteq {x \in Threads : ~Ready(x)}
  /\ \A t \in Traders :
       owner[t] # Nobody /\ t \notin kept => owner[t] \in writing /\ Head(outbox[owner[t]]).to = t

\* A client learns of an order's trades and of its cancellation after it has
\* learned that it was posted: no packet about an order is under way to a
\* trader while POSTED still is, from any thread (exchange.h:75-77).
PostedComesFirst ==
  \A x, y \in Threads : \A i \in DOMAIN outbox[x], j \in DOMAIN outbox[y] :
    LET p == outbox[x][i]
        q == outbox[y][j]
    IN  p.kind = "posted" /\ q.kind # "posted" /\ p.to = q.to => p.ids \cap q.ids = {}

\* What a service thread has yet to send: nothing when it goes on with an order
\* of its own, POSTED while it holds the exchange's mutex, CANCELED once the
\* order is freed.
ServiceBox(t) ==
  /\ pc[t] \in {"reserve", "insert", "release", "closed"} => Ready(t)
  /\ \A i \in DOMAIN outbox[t] :
       LET p == outbox[t][i] IN
       \/ p.kind = "answer" /\ p.ids = {}
       \/ p.kind = "posted" /\ pc[t] = "announce" /\ p.ids = {cur[t]}
       \/ p.kind = "canceled" /\ \A id \in p.ids : order[id].state = "gone"

\* What the matchmaker has yet to send: the packets of its trade, before it
\* looks at the trade's orders again.
TradeBox ==
  \A i \in DOMAIN outbox[Matchmaker] :
    LET p == outbox[Matchmaker][i] IN
    /\ p.kind \in {"bought", "sold", "traded"} /\ p.ids = {mm.buy, mm.sell}
    /\ mm.pc \in {"sold", "traded"}

\* The packets and the exchange together, in every state the server can reach:
\* this is what lets a thread go on with an order while its other packets, and
\* those of the other threads, are under way.
WireInv == WireOK /\ (\A t \in Traders : ServiceBox(t)) /\ TradeBox

-----------------------------------------------------------------------------
(* Liveness, under FairServer.                                             *)

Busy(t) == pc[t] \notin {"idle", "closed"} \/ ~Ready(t)

\* Every request gets its answer sent, with its broadcasts: however the threads
\* wait for the exchange's mutex and, some of them with that, for the traders',
\* they do not wait for each other for ever, unless a send has failed.
RequestsAnswered == \A t \in Traders : Busy(t) ~> ~Busy(t) \/ kept # {} \/ undef

\* Matching orders do not stay: the matchmaker trades them until there are no
\* orders that match (exchange.h:28-29), unless the server shuts down.
MatchesAreTraded == Crossed ~> ~Crossed \/ done \/ kept # {} \/ undef

\* exchange_fini returns: the matchmaker it joins sees done and exits, unless a
\* service thread ended with a mutex that the matchmaker needs.
FiniReturns == done ~> mm.pc = "exited" \/ (\E t \in kept : owner[t] = Ended) \/ undef

-----------------------------------------------------------------------------
(* What the repository says of the server and the code does not do.        *)

\* A successful request has an ACK sent in response, a failed one a NACK
\* (protocol.h:51-58).  Violated: a broadcast to a trader who has logged out
\* leaves that trader's mutex locked, and the next other thread that has a
\* packet to broadcast waits for it before it answers its own client, for ever.
EveryRequestAnswered == \A t \in Traders : Busy(t) ~> ~Busy(t) \/ undef
=============================================================================
