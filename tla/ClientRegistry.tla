--------------------------- MODULE ClientRegistry ---------------------------
(***************************************************************************)
(* The client registry (src/client_registry.c), the accept loop and the    *)
(* shutdown that SIGHUP starts (src/main.c), and of each service thread    *)
(* (src/server.c) what it does to them: it registers its connection, serves*)
(* it until end of file, unregisters it and closes it, unless it waits for *)
(* a trader's mutex that a failed send has left locked.                    *)
(*                                                                         *)
(* The registry is four semaphores and an array.  One action is what a     *)
(* thread does between two semaphore operations; what it does while it     *)
(* holds the semaphore `mutex' and does not wait is one action with the    *)
(* P that let it in.                                                       *)
(***************************************************************************)
EXTENDS Integers, FiniteSets

CONSTANTS
  Conns,      \* the connections clients make, each with its service thread
  Free,       \* -1 in fds[]
  Null,       \* connfdp before the first Malloc
  Fresh,      \* connfdp allocated and not yet given to a thread
  FD_SETSIZE  \* slots of the registry

ASSUME ConnsAssumption ==
  IsFiniteSet(Conns) /\ Free \notin Conns /\ Null \notin Conns /\ Fresh \notin Conns /\ Null # Fresh

ASSUME SizeAssumption == FD_SETSIZE \in Nat \ {0}

VARIABLES
  fds,          \* fds[]
  count,        \* clients registered
  count_mutex,  \* semaphore, 0 while the registry is not empty
  mutex,        \* semaphore around fds[] and count
  items,        \* semaphore: registered clients not yet claimed by an unregister
  slots,        \* semaphore: slots not yet claimed by a register
  live,         \* between creg_init and creg_fini
  main,         \* program counter of the main thread
  connfdp,      \* what main's global points to: the cell of which thread
  pc,           \* program counter of each service thread
  eof,          \* the connections whose next read ends
  process,      \* "running"; "undefined": has used freed or unmapped memory; "aborted"
  kept          \* a send that failed has left a trader's mutex locked

creg == <<fds, count, count_mutex, mutex, items, slots>>
vars == <<creg, live, main, connfdp, pc, eof, process, kept>>

Index == 1..FD_SETSIZE

\* searchForEmptySlot: the first.
EmptySlots == {i \in Index : fds[i] = Free}
FirstEmpty == CHOOSE i \in EmptySlots : \A j \in EmptySlots : i <= j

-----------------------------------------------------------------------------
Init ==
  /\ fds = [i \in Index |-> Free] /\ count = 0
  /\ count_mutex = 1 /\ mutex = 1 /\ items = 0 /\ slots = FD_SETSIZE
  /\ live = FALSE
  /\ main = "setup"
  /\ connfdp = Null
  /\ pc = [c \in Conns |-> "none"]
  /\ eof = {}
  /\ process = "running" /\ kept = FALSE

Main(from, to) == main = from /\ main' = to
Go(c, from, to) == pc[c] = from /\ pc' = [pc EXCEPT ![c] = to]

\* csapp.c: sem_wait and sem_post.  Neither can fail here.
P(sem) == sem > 0 /\ sem' = sem - 1
V(sem) == sem' = sem + 1

\* unix_error and posix_error: exit(0), from whatever thread, with neither
\* creg_shutdown_all nor the waits of terminate.
Abort == process' = "aborted"

\* main is in terminate, called by the SIGHUP handler; past its wait.
Terminating == main \in {"shutdown_all", "wait_for_empty", "fini", "exit", "blocked", "exited"}
Emptied     == main \in {"fini", "exit", "blocked", "exited"}

-----------------------------------------------------------------------------
(* main: the accept loop.                                                  *)

\* creg_init (exchange_init and trader_init beside it).
CregInit ==
  /\ Main("setup", "listen") /\ live' = TRUE
  /\ UNCHANGED <<creg, connfdp, pc, eof, process, kept>>

\* A socket that listens, at the first address that can be bound.
OpenListenfd ==
  /\ Main("listen", "malloc")
  /\ UNCHANGED <<creg, live, connfdp, pc, eof, process, kept>>

\* The port is taken, memory or descriptors or threads are used up, or a
\* connection is gone before it is accepted.
CallFails ==
  /\ main \in {"listen", "malloc", "accept", "create"} /\ Abort
  /\ UNCHANGED <<creg, live, main, connfdp, pc, eof, kept>>

\* connfdp = Malloc(...)
MallocCell ==
  /\ Main("malloc", "accept") /\ connfdp' = Fresh
  /\ UNCHANGED <<creg, live, pc, eof, process, kept>>

AcceptConn(c) ==
  /\ Main("accept", "create")
  /\ Go(c, "none", "accepted")
  /\ UNCHANGED <<creg, live, connfdp, eof, process, kept>>

\* Pthread_create: the thread now owns the cell, which connfdp still names.
CreateThread(c) ==
  /\ Main("create", "malloc")
  /\ Go(c, "accepted", "start") /\ connfdp' = c
  /\ UNCHANGED <<creg, live, eof, process, kept>>

\* terminate before creg_init, for a wrong usage or by a SIGHUP: the registry
\* is a null pointer.
TerminateEarly ==
  /\ main = "setup" /\ process' = "undefined"
  /\ UNCHANGED <<creg, live, main, connfdp, pc, eof, kept>>

\* SIGHUP between any two steps of the loop.  The handler frees connfdp, which
\* may be the cell of a thread that has freed it already.
Sighup ==
  /\ main \in {"listen", "malloc", "accept", "create"} /\ main' = "shutdown_all"
  /\ process' = IF connfdp \in Conns /\ pc[connfdp] # "start" THEN "undefined" ELSE process
  /\ UNCHANGED <<creg, live, connfdp, pc, eof, kept>>

\* main, in the handler, holds back a second SIGHUP; it is delivered to a
\* service thread, where the handler frees connfdp once more.
SighupAgain(c) ==
  /\ Terminating /\ pc[c] \notin {"none", "accepted", "done", "failed"}
  /\ process' = "undefined"
  /\ UNCHANGED <<creg, live, main, connfdp, pc, eof, kept>>

-----------------------------------------------------------------------------
(* main: terminate.                                                        *)

\* creg_shutdown_all: the reads of the registered connections end.
ShutdownAll ==
  /\ Main("shutdown_all", "wait_for_empty")
  /\ mutex > 0
  /\ eof' = eof \cup {c \in Conns : \E i \in Index : fds[i] = c}
  /\ UNCHANGED <<creg, live, connfdp, pc, process, kept>>

WaitForEmpty ==
  /\ Main("wait_for_empty", "fini")
  /\ P(count_mutex)
  /\ UNCHANGED <<fds, count, mutex, items, slots, live, connfdp, pc, eof, process, kept>>

CregFini ==
  /\ Main("fini", "exit") /\ live' = FALSE
  /\ UNCHANGED <<creg, connfdp, pc, eof, process, kept>>

\* exchange_fini, which joins the matchmaker, trader_fini, which takes the mutex
\* of each trader it finds in the map, and exit.
ExitProcess ==
  /\ Main("exit", "exited")
  /\ UNCHANGED <<creg, live, connfdp, pc, eof, process, kept>>

\* The matchmaker waits for a mutex that stays locked, or main itself does.
ExitBlocked ==
  /\ Main("exit", "blocked") /\ kept
  /\ UNCHANGED <<creg, live, connfdp, pc, eof, process, kept>>

-----------------------------------------------------------------------------
(* brs_client_service up to its loop, with creg_register.                  *)

\* Read the connection from the cell and free the cell, which the SIGHUP
\* handler may have done before.
Start(c) ==
  /\ Go(c, "start", "p_slots")
  /\ process' = IF connfdp = c /\ Terminating THEN "undefined" ELSE process
  /\ UNCHANGED <<creg, live, main, connfdp, eof, kept>>

\* Slip: no wait for a slot.
PSlotsSkipped(c) == Go(c, "p_slots", "register") /\ UNCHANGED <<creg, live, main, connfdp, eof, process, kept>>

PSlots(c) ==
  /\ Go(c, "p_slots", "register")
  /\ P(slots)
  /\ UNCHANGED <<fds, count, count_mutex, mutex, items, live, main, connfdp, eof, process, kept>>

\* Slip: the count is tested before it is incremented.
SecondTakes == IF count = 1 THEN "p_count" ELSE "registered"

\* The first client takes count_mutex, the last one gives it back.
FirstTakes == IF count = 0 THEN "p_count" ELSE "registered"

\* P(mutex), store, count.  The first client goes on to wait for count_mutex,
\* with mutex held; with no slot to be found, creg_register would return with
\* mutex held.
Store(c) ==
  /\ P(mutex)
  /\ IF EmptySlots # {}
     THEN /\ fds' = [fds EXCEPT ![FirstEmpty] = c]
          /\ count' = count + 1
          /\ Go(c, "register", FirstTakes)
     ELSE Go(c, "register", "failed") /\ UNCHANGED <<fds, count>>
  /\ UNCHANGED <<count_mutex, items, slots, live, main, connfdp, eof, process, kept>>

PCount(c) ==
  /\ Go(c, "p_count", "registered")
  /\ P(count_mutex)
  /\ UNCHANGED <<fds, count, mutex, items, slots, live, main, connfdp, eof, process, kept>>

\* Slip: mutex stays locked.
RegisteredHeld(c) ==
  Go(c, "registered", "v_items") /\ UNCHANGED <<creg, live, main, connfdp, eof, process, kept>>

Registered(c) ==
  /\ Go(c, "registered", "v_items") /\ V(mutex)
  /\ UNCHANGED <<fds, count, count_mutex, items, slots, live, main, connfdp, eof, process, kept>>

VItems(c) ==
  /\ Go(c, "v_items", "serve") /\ V(items)
  /\ UNCHANGED <<fds, count, count_mutex, mutex, slots, live, main, connfdp, eof, process, kept>>

-----------------------------------------------------------------------------
(* The end of the loop, with creg_unregister.                              *)

ClientCloses(c) ==
  /\ pc[c] # "none" /\ c \notin eof /\ eof' = eof \cup {c}
  /\ UNCHANGED <<creg, live, main, connfdp, pc, process, kept>>

\* trader_send_packet fails, in a service thread or in the matchmaker, to a
\* trader who has logged out or whose connection is gone, and returns without
\* its unlock.  Before the first client is served there is no trader.
SendFails ==
  /\ \E c \in Conns : pc[c] \in {"serve", "blocked", "p_items", "unregister", "v_count",
                               "unregistered", "v_slots", "close", "done"}
  /\ kept' = TRUE
  /\ UNCHANGED <<creg, live, main, connfdp, pc, eof, process>>

\* Then a request that sends to the trader or pays it waits for ever, and so does
\* one that waits for a mutex which that thread has, or a logout.
Blocked(c) ==
  /\ Go(c, "serve", "blocked") /\ kept
  /\ UNCHANGED <<creg, live, main, connfdp, eof, process, kept>>

\* The loop ends, with trader_logout, whose mutex is free unless a send failed.
EndOfFile(c) ==
  /\ Go(c, "serve", "p_items") /\ c \in eof
  /\ UNCHANGED <<creg, live, main, connfdp, eof, process, kept>>

PItems(c) ==
  /\ Go(c, "p_items", "unregister")
  /\ P(items)
  /\ UNCHANGED <<fds, count, count_mutex, mutex, slots, live, main, connfdp, eof, process, kept>>

\* Slips: every client gives count_mutex back, the last but one, none.
EachGives    == "v_count"
SecondGives  == IF count = 2 THEN "v_count" ELSE "unregistered"
NobodyGives  == "unregistered"

LastGives == IF count = 1 THEN "v_count" ELSE "unregistered"

\* P(mutex), clear the first slot that holds the connection, count.  With none,
\* creg_unregister would give back mutex and a slot and return -1.
Clear(c) ==
  LET held == {i \in Index : fds[i] = c} IN
  /\ mutex > 0
  /\ IF held # {}
     THEN /\ fds' = [fds EXCEPT ![CHOOSE i \in held : \A j \in held : i <= j] = Free]
          /\ count' = count - 1
          /\ mutex' = mutex - 1
          /\ Go(c, "unregister", LastGives)
          /\ UNCHANGED slots
     ELSE /\ V(slots)
          /\ Go(c, "unregister", "failed")
          /\ UNCHANGED <<fds, count, mutex>>
  /\ UNCHANGED <<count_mutex, items, live, main, connfdp, eof, process, kept>>

VCount(c) ==
  /\ Go(c, "v_count", "unregistered") /\ V(count_mutex)
  /\ UNCHANGED <<fds, count, mutex, items, slots, live, main, connfdp, eof, process, kept>>

Unregistered(c) ==
  /\ Go(c, "unregistered", "v_slots") /\ V(mutex)
  /\ UNCHANGED <<fds, count, count_mutex, items, slots, live, main, connfdp, eof, process, kept>>

VSlots(c) ==
  /\ Go(c, "v_slots", "close") /\ V(slots)
  /\ UNCHANGED <<fds, count, count_mutex, mutex, items, live, main, connfdp, eof, process, kept>>

\* A close that fails ends the process, wherever main is.
CloseConn(c) ==
  /\ Go(c, "close", "done")
  /\ Abort \/ UNCHANGED process
  /\ UNCHANGED <<creg, live, main, connfdp, eof, kept>>

-----------------------------------------------------------------------------
\* The threads' steps on the registry.
Use(c) ==
  \/ PSlots(c) \/ Store(c) \/ PCount(c) \/ Registered(c) \/ VItems(c)
  \/ PItems(c) \/ Clear(c) \/ VCount(c) \/ Unregistered(c) \/ VSlots(c)

Using(c) ==
  pc[c] \in {"p_slots", "register", "p_count", "registered", "v_items",
             "p_items", "unregister", "v_count", "unregistered", "v_slots"}

\* The same after creg_fini has freed it.
UseFreed(c) ==
  /\ ~live /\ Using(c) /\ process' = "undefined"
  /\ UNCHANGED <<creg, live, main, connfdp, pc, eof, kept>>

Service(c) ==
  \/ Start(c) \/ (live /\ Use(c)) \/ UseFreed(c)
  \/ EndOfFile(c) \/ Blocked(c) \/ CloseConn(c)

MainLoop ==
  \/ CregInit \/ OpenListenfd \/ CallFails \/ MallocCell
  \/ \E c \in Conns : AcceptConn(c) \/ CreateThread(c)
Shutdown == ShutdownAll \/ WaitForEmpty \/ CregFini \/ ExitProcess \/ ExitBlocked

\* A thread waits for a mutex that stays locked, and main for that thread.
Stuck == main = "blocked" \/ \E c \in Conns : pc[c] = "blocked"

\* Nothing is known of a process that has used freed memory, and nothing runs
\* once it has exited.
Running == process = "running" /\ main # "exited"

Next ==
  \/ /\ Running
     /\ \/ MainLoop \/ TerminateEarly \/ Sighup \/ Shutdown \/ SendFails
        \/ \E c \in Conns : Service(c) \/ ClientCloses(c) \/ SighupAgain(c)
  \/ (~Running \/ Stuck) /\ UNCHANGED vars

Spec == Init /\ [][Next]_vars

\* Threads that can run do run; a signal or a client's close need never come.
Fairness ==
  /\ WF_vars(Running /\ Shutdown)
  /\ \A c \in Conns : WF_vars(Running /\ (Service(c) \/ CreateThread(c)))

FairSpec == Spec /\ Fairness
=============================================================================
