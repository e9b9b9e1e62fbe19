--------------------------- MODULE RegistryProps ----------------------------
(***************************************************************************)
(* What the client registry keeps true, what it implements, and what the   *)
(* repository says of the shutdown that the code does not keep.            *)
(***************************************************************************)
EXTENDS ClientRegistry

\* Every variable holds a value of its type; the two binary semaphores stay
\* binary, the two counting ones between 0 and the size of the registry.
TypeOK ==
  /\ fds \in [Index -> Conns \cup {Free}]
  /\ count \in 0..FD_SETSIZE
  /\ count_mutex \in {0, 1} /\ mutex \in {0, 1}
  /\ items \in 0..FD_SETSIZE /\ slots \in 0..FD_SETSIZE
  /\ live \in BOOLEAN /\ process \in {"running", "undefined", "aborted"}
  /\ main \in {"setup", "listen", "malloc", "accept", "create", "shutdown_all", "wait_for_empty",
               "fini", "exit", "blocked", "exited"}
  /\ connfdp \in Conns \cup {Null, Fresh}
  /\ pc \in [Conns -> {"none", "accepted", "start", "p_slots", "register", "p_count",
                       "registered", "v_items", "serve", "blocked", "p_items", "unregister",
                       "v_count", "unregistered", "v_slots", "close", "done", "failed"}]
  /\ eof \subseteq Conns /\ kept \in BOOLEAN

At(labels) == {c \in Conns : pc[c] \in labels}

\* A thread that got past P(slots) finds a slot, and one that leaves finds its
\* connection: creg_register never returns -1 with mutex locked
\* (client_registry.c:61-64) and creg_unregister never gives back a slot that
\* nobody took (client_registry.c:100-102).
RegisterHasRoom ==
  /\ At({"register"}) # {} => EmptySlots # {}
  /\ At({"failed"}) = {}

\* The registered clients: in the array, and their first one past count_mutex.
Members == At({"registered", "v_items", "serve", "blocked", "p_items", "unregister"})

\* Once creg_wait_for_empty has returned no client is registered, or served,
\* until the process ends ("will block in the call until the number of
\* registered clients has reached zero", client_registry.h:64-66): main takes
\* count_mutex for good.
NobodyServedAfterWait == Emptied => Members = {}

-----------------------------------------------------------------------------
(* The inductive invariant: each semaphore, and the count, against the     *)
(* places of the threads.                                                  *)

\* Threads past P(slots) and before V(slots).
SlotHolders ==
  At({"register", "p_count", "registered", "v_items", "serve", "blocked", "p_items",
      "unregister", "v_count", "unregistered", "v_slots"})

\* Threads whose V(items) no P(items) has answered.
Offered == At({"serve", "blocked", "p_items"})

\* Threads whose connection is counted and stored.
Counted == At({"p_count", "registered", "v_items", "serve", "blocked", "p_items", "unregister"})
Used    == {i \in Index : fds[i] # Free}

\* Threads that have mutex.
Inside == At({"p_count", "registered", "v_count", "unregistered"})

SlotsInv == slots + Cardinality(SlotHolders) = FD_SETSIZE
ItemsInv == items = Cardinality(Offered)

CountInv ==
  /\ count = Cardinality(Counted) /\ count = Cardinality(Used)
  /\ \A c \in Counted : \E i \in Index : fds[i] = c

MutexInv ==
  /\ mutex = IF Inside = {} THEN 1 ELSE 0
  /\ \A c, d \in Inside : c = d

\* count_mutex is with main once it has waited, with the registered clients or
\* with the last one on its way out.
CountMutexInv ==
  /\ count_mutex = IF Emptied \/ Members # {} \/ At({"v_count"}) # {} THEN 0 ELSE 1
  /\ Emptied => Members = {} /\ At({"v_count"}) = {}
  /\ At({"v_count"}) # {} => Counted = {}
  /\ \A c \in At({"p_count"}) : Counted = {c}

\* The four semaphores agree with the array, the count and the places of the
\* threads, at every step of creg_register and creg_unregister: this is what
\* each of these waits on a semaphore relies on the other threads for.
RegistryInv ==
  /\ TypeOK /\ At({"failed"}) = {}
  /\ SlotsInv /\ ItemsInv /\ CountInv /\ MutexInv /\ CountMutexInv

-----------------------------------------------------------------------------
\* The registry implements a bounded set of clients that can be closed once,
\* when it is empty.
Set == INSTANCE ClientSet WITH Clients <- Conns, Size <- FD_SETSIZE,
                               members <- Members, closed <- Emptied

ClientSetSpec == Set!Spec

-----------------------------------------------------------------------------
(* Liveness, under FairSpec.                                               *)

\* A client whose connection has ended is unregistered and closed: none of the
\* four semaphores blocks its thread for ever.  A trader's mutex can, once a send
\* has failed (trader.c:129, 182).
ServedClientsEnd ==
  \A c \in Conns : pc[c] = "serve" /\ c \in eof ~> pc[c] = "done" \/ ~Running \/ kept

\* Once every client's connection has ended, terminate gets to its exit, unless a
\* send has failed: trader_fini and the service threads it waits for take the
\* traders' mutexes (trader.c:39, 129).
TerminateReturns ==
  main = "wait_for_empty" /\ (\A c \in Conns : pc[c] # "none" => c \in eof) ~> ~Running \/ kept

-----------------------------------------------------------------------------
(* What the repository says of the shutdown and the code does not do.      *)

\* "Server did not terminate after SIGHUP" is a failure
\* (tests/bourse_tests.c:61).  Violated with no failed send: a thread that
\* registers after creg_shutdown_all is served until its client chooses to close.
SighupTerminates == main = "shutdown_all" ~> ~Running \/ kept
=============================================================================
