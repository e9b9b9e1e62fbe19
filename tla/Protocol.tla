------------------------------ MODULE Protocol ------------------------------
(***************************************************************************)
(* One connection: the packets that proto_send_packet and proto_recv_packet*)
(* (src/protocol.c) put on and take off its stream with rio_writen and     *)
(* rio_readn (src/csapp.c), and the loop of brs_client_service             *)
(* (src/server.c) that acts on them.                                       *)
(*                                                                         *)
(* A stream is a sequence of units: a header has HeaderLen of them, its    *)
(* first one carries the type and its second one the size, and a payload   *)
(* has one for each field.  Reads and writes take as many units as there   *)
(* are or fit; the connection can end before any unit.  The client's       *)
(* requests are well formed.                                               *)
(***************************************************************************)
EXTENDS Integers, Sequences

CONSTANTS
  Scripts,   \* the sequences of requests a client may make
  Nobody,    \* owner of a free mutex
  Zero,      \* what memset leaves
  Junk,      \* what malloc leaves
  MaxNotes   \* bound on the notifications sent to this client

Types == {"login", "status", "funds", "order"}

\* "funds" is a request with one field: DEPOSIT, WITHDRAW, ESCROW, RELEASE and
\* CANCEL; "order" one with two: BUY and SELL.
PayloadLen == [login |-> 1, status |-> 0, funds |-> 1, order |-> 2]

HeaderLen == 3

ASSUME ScriptsAssumption == \A s \in Scripts : s \in Seq(Types)
ASSUME BoundAssumption   == MaxNotes \in Nat

Unit == [of : Nat, at : Nat]

ASSUME MemoryAssumption  == Zero # Junk /\ {Zero, Junk} \cap Unit = {}

Writers == {"service", "notifier"}

ASSUME NobodyAssumption == Nobody \notin Writers

VARIABLES
  script,   \* the client's requests
  coming,   \* the unit of them that it sends next
  wire,     \* the units that it has sent and the server has not read
  conn,     \* "open"; "eof": nothing more comes; "reset": writes fail too
  pc,       \* program counter of brs_client_service
  hdr,      \* the header it has received, unit by unit
  block,    \* the memory payload points to
  pointed,  \* payload has been assigned
  got,      \* units read by the rio_readn at work
  loggedIn, \* this_trader # NULL
  wr,       \* the writers: their packet and how much of it is left
  mutex,    \* owner of the trader's mutex
  kept,     \* a send has failed and left it locked
  out,      \* the units written to the client
  notes,    \* notifications sent or begun
  served,   \* history: requests taken
  acted,    \* history: the requests carried out, with the fields they used
  undef     \* memory has been used or freed that payload never pointed to

input  == <<script, coming, wire, conn>>
buffer == <<hdr, block, pointed, got>>
output == <<wr, mutex, kept, out, notes>>
hist   == <<served, acted, undef>>
vars   == <<input, pc, buffer, loggedIn, output, hist>>

\* The units of each request in turn, one past the last request at the end.
Units(n) == HeaderLen + PayloadLen[script[n]]
After(u) == IF u.at < Units(u.of) THEN [u EXCEPT !.at = @ + 1] ELSE [of |-> u.of + 1, at |-> 1]

\* What a header says, given the units of it that were read.
TypeIn(h) == IF h[1] # Zero /\ h[1].at = 1 THEN script[h[1].of] ELSE "none"
SizeIn(h) == IF h[2] # Zero /\ h[2].at = 2 THEN PayloadLen[script[h[2].of]] ELSE 0

Blank == [k \in 1..HeaderLen |-> Zero]
Quiet == [pc |-> "idle", kind |-> "none", size |-> 0, left |-> 0]

-----------------------------------------------------------------------------
Init ==
  /\ script \in Scripts
  /\ coming = [of |-> 1, at |-> 1] /\ wire = <<>> /\ conn = "open"
  /\ pc = "header" /\ hdr = Blank /\ block = <<>> /\ pointed = FALSE /\ got = 0
  /\ loggedIn = FALSE
  /\ wr = [x \in Writers |-> Quiet] /\ mutex = Nobody /\ kept = FALSE
  /\ out = <<>> /\ notes = 0
  /\ served = 0 /\ acted = <<>> /\ undef = FALSE

-----------------------------------------------------------------------------
(* The client and the network.                                             *)

ClientSends ==
  /\ conn = "open" /\ coming.of \in DOMAIN script
  /\ wire' = Append(wire, coming) /\ coming' = After(coming)
  /\ UNCHANGED <<script, conn, pc, buffer, loggedIn, output, hist>>

\* The client closes, creg_shutdown_all shuts the reading side down, or the
\* connection is reset, at any unit.
ConnEnds ==
  /\ \/ conn = "open" /\ conn' \in {"eof", "reset"}
     \/ conn = "eof" /\ conn' = "reset"
  /\ UNCHANGED <<script, coming, wire, pc, buffer, loggedIn, output, hist>>

-----------------------------------------------------------------------------
(* proto_recv_packet.                                                      *)

Want == IF pc = "header" THEN HeaderLen ELSE Len(block)

\* One read of rio_readn's loop: some of what is there.
Fill(mem, k) ==
  [i \in DOMAIN mem |-> IF i \in (got + 1)..(got + k) THEN wire[i - got] ELSE mem[i]]

Read(k) ==
  /\ k <= Want - got /\ k <= Len(wire)
  /\ wire' = SubSeq(wire, k + 1, Len(wire)) /\ got' = got + k
  /\ \/ pc = "header"  /\ hdr' = Fill(hdr, k) /\ UNCHANGED block
     \/ pc = "payload" /\ block' = Fill(block, k) /\ UNCHANGED hdr
  /\ UNCHANGED <<script, coming, conn, pc, pointed, loggedIn, output, hist>>

\* Slip: one read is taken for all.
ReadOnce == got > 0 \/ (conn # "open" /\ wire = <<>>)

\* Slip: end of file is taken for a read that will have more.
ReadAll == got = Want

\* The loop ends with all it wanted or at end of file, with what there was.
ReadEnds == got = Want \/ (conn # "open" /\ wire = <<>>)

\* Slip: a payload is read into the block of the request before.
Reused(size) == IF pointed THEN block ELSE [k \in 1..size |-> Junk]

\* malloc for a payload.
NewBlock(size) == [k \in 1..size |-> Junk]

\* A header cut short counts, with zeros for the rest; without a payload
\* `payload' stays as it was.
RecvHeader ==
  LET size == SizeIn(hdr) IN
  /\ pc = "header" /\ ReadEnds
  /\ got' = 0
  /\ IF got = 0 THEN pc' = "failed" /\ UNCHANGED <<block, pointed>>
     ELSE IF size = 0 THEN pc' = "act" /\ UNCHANGED <<block, pointed>>
     ELSE pc' = "payload" /\ block' = NewBlock(size) /\ pointed' = TRUE
  /\ UNCHANGED <<input, hdr, loggedIn, output, hist>>

\* And so does a payload cut short.
RecvPayload ==
  /\ pc = "payload" /\ ReadEnds
  /\ pc' = "act" /\ got' = 0
  /\ UNCHANGED <<input, hdr, block, pointed, loggedIn, output, hist>>

RecvError ==
  /\ pc \in {"header", "payload"} /\ conn = "reset"
  /\ pc' = "failed"
  /\ UNCHANGED <<input, buffer, loggedIn, output, hist>>

-----------------------------------------------------------------------------
(* brs_client_service.                                                     *)

\* The next packet, with a header of zeros.
Loop == pc' = "header" /\ hdr' = Blank /\ UNCHANGED <<block, pointed, got>>

\* End of file or error: free(payload) if the header has a size, whether this
\* packet's payload had been allocated or not; then log out.
Failed ==
  /\ pc = "failed"
  /\ undef' = (SizeIn(hdr) > 0 /\ ~pointed)
  /\ pc' = IF loggedIn THEN "logout" ELSE "end"
  /\ UNCHANGED <<input, buffer, loggedIn, output, served, acted>>

\* trader_logout, under the trader's mutex.
Logout ==
  /\ pc = "logout" /\ mutex \in {Nobody, "service"}
  /\ pc' = "end" /\ loggedIn' = FALSE
  /\ UNCHANGED <<input, buffer, output, hist>>

\* trader_send_ack and trader_send_nack begin; a refused LOGIN is answered
\* without the mutex (alreadyRegistred).
Answer(kind, size, from) ==
  /\ pc' = "answer"
  /\ wr' = [wr EXCEPT !["service"] = [pc |-> from, kind |-> kind, size |-> size,
                                      left |-> IF from = "lock" THEN 0 ELSE HeaderLen]]
  /\ UNCHANGED <<mutex, kept, out, notes>>

\* The request in hand and the fields it uses, wherever they come from.
Request(t, fields) ==
  [type |-> t, of |-> hdr[1].of,
   fields |-> [i \in 1..fields |-> IF i \in DOMAIN block THEN block[i] ELSE Junk]]

Taken == served' = served + 1

\* The name is copied from the payload by the size in the header.
ActLogin ==
  /\ pc = "act" /\ TypeIn(hdr) = "login" /\ ~loggedIn /\ Taken
  /\ \/ loggedIn' = TRUE /\ Answer("ack", 0, "lock")
     \/ UNCHANGED loggedIn /\ Answer("nack", 0, "refuse")
  /\ acted' = Append(acted, Request("login", SizeIn(hdr)))
  /\ UNCHANGED <<input, buffer, undef>>

ActLoginAgain ==
  /\ pc = "act" /\ TypeIn(hdr) = "login" /\ loggedIn /\ Taken
  /\ Answer("nack", 0, "lock")
  /\ UNCHANGED <<input, buffer, loggedIn, acted, undef>>

\* Before LOGIN, and a packet of no type.
Ignore ==
  /\ pc = "act" /\ Taken
  /\ TypeIn(hdr) = "none" \/ (TypeIn(hdr) # "login" /\ ~loggedIn)
  /\ Loop
  /\ UNCHANGED <<input, loggedIn, output, acted, undef>>

\* Slip: what comes before LOGIN is carried out too.
ActAlways ==
  /\ pc = "act" /\ TypeIn(hdr) \notin {"login", "none"} /\ Taken
  /\ Answer("ack", 1, "lock")
  /\ acted' = Append(acted, Request(TypeIn(hdr), PayloadLen[TypeIn(hdr)]))
  /\ UNCHANGED <<input, buffer, loggedIn, undef>>

\* The request is carried out on the fields that payload points to.
Act ==
  LET t == TypeIn(hdr) IN
  /\ pc = "act" /\ t \notin {"login", "none"} /\ loggedIn /\ Taken
  /\ \/ Answer("ack", 1, "lock")
     \/ t # "status" /\ Answer("nack", 0, "lock")
  /\ acted' = Append(acted, Request(t, PayloadLen[t]))
  /\ undef' = (PayloadLen[t] > 0 /\ ~pointed)
  /\ UNCHANGED <<input, buffer, loggedIn>>

-----------------------------------------------------------------------------
(* proto_send_packet, from trader_send_packet and alreadyRegistred.        *)

\* POSTED, TRADED and the rest, from other threads to a logged-in trader.
Notify ==
  /\ loggedIn /\ notes < MaxNotes /\ notes' = notes + 1
  /\ wr["notifier"].pc = "idle"
  /\ wr' = [wr EXCEPT !["notifier"] = [pc |-> "lock", kind |-> "note", size |-> 1, left |-> 0]]
  /\ UNCHANGED <<input, pc, buffer, loggedIn, mutex, kept, out, hist>>

\* Slip: the packet is written without the mutex.
LockSkipped(x) ==
  /\ wr[x].pc = "lock"
  /\ mutex' = x
  /\ wr' = [wr EXCEPT ![x].pc = "head", ![x].left = HeaderLen]
  /\ UNCHANGED <<input, pc, buffer, loggedIn, kept, out, notes, hist>>

Lock(x) ==
  /\ wr[x].pc = "lock"
  /\ mutex \in {Nobody, x} /\ mutex' = x
  /\ wr' = [wr EXCEPT ![x].pc = "head", ![x].left = HeaderLen]
  /\ UNCHANGED <<input, pc, buffer, loggedIn, kept, out, notes, hist>>

\* What rio_writen puts out next, while the connection takes it: k units of the header or the payload.
Piece(x, k) ==
  LET w    == wr[x]
      len  == HeaderLen + w.size
      from == IF w.pc = "body" THEN len - w.left ELSE HeaderLen - w.left
  IN  [i \in 1..k |-> [by |-> x, kind |-> w.kind, at |-> from + i, len |-> len]]

\* Slip: the length of the payload includes the header's.
AfterWriteLong(w, k) ==
  IF w.left > k THEN [w EXCEPT !.left = @ - k]
  ELSE IF w.pc = "head" /\ w.size > 0 THEN [w EXCEPT !.pc = "body", !.left = HeaderLen + w.size]
  ELSE [w EXCEPT !.pc = IF w.pc = "refuse" THEN "refused" ELSE "unlock", !.left = 0]

\* After them: the rest, the payload if there is one, or the unlock.
AfterWrite(w, k) ==
  IF w.left > k THEN [w EXCEPT !.left = @ - k]
  ELSE IF w.pc = "head" /\ w.size > 0 THEN [w EXCEPT !.pc = "body", !.left = w.size]
  ELSE [w EXCEPT !.pc = IF w.pc = "refuse" THEN "refused" ELSE "unlock", !.left = 0]

Write(x, k) ==
  /\ wr[x].pc \in {"head", "body", "refuse"} /\ k <= wr[x].left
  /\ conn # "reset"
  /\ out' = out \o Piece(x, k)
  /\ wr' = [wr EXCEPT ![x] = AfterWrite(@, k)]
  /\ UNCHANGED <<input, pc, buffer, loggedIn, mutex, kept, notes, hist>>

\* The service thread goes on to the next request.
Resume(x) ==
  IF x = "service" THEN pc = "answer" /\ Loop ELSE UNCHANGED <<pc, buffer>>

\* Slip: no unlock.
SentHeld(x) ==
  /\ wr[x].pc \in {"unlock", "refused"}
  /\ wr' = [wr EXCEPT ![x] = Quiet]
  /\ Resume(x)
  /\ UNCHANGED <<input, loggedIn, mutex, kept, out, notes, hist>>

Sent(x) ==
  /\ wr[x].pc \in {"unlock", "refused"}
  /\ mutex' = IF wr[x].pc = "unlock" /\ ~kept THEN Nobody ELSE mutex
  /\ wr' = [wr EXCEPT ![x] = Quiet]
  /\ Resume(x)
  /\ UNCHANGED <<input, loggedIn, kept, out, notes, hist>>

\* rio_writen returns -1: trader_send_packet returns with the mutex locked.
SendFails(x) ==
  /\ wr[x].pc \in {"head", "body", "refuse"} /\ conn = "reset"
  /\ kept' = (kept \/ wr[x].pc # "refuse")
  /\ wr' = [wr EXCEPT ![x] = Quiet]
  /\ Resume(x)
  /\ UNCHANGED <<input, loggedIn, mutex, out, notes, hist>>

-----------------------------------------------------------------------------
Transmit(x) == Lock(x) \/ (\E k \in 1..HeaderLen : Write(x, k)) \/ Sent(x) \/ SendFails(x)

Service ==
  \/ \E k \in 1..HeaderLen : Read(k)
  \/ RecvHeader \/ RecvPayload \/ RecvError
  \/ ActLogin \/ ActLoginAgain \/ Ignore \/ Act \/ Failed \/ Logout
  \/ Transmit("service")

\* Nothing is known of a process that has used memory it does not have.
Step == ~undef /\ (ClientSends \/ ConnEnds \/ Service \/ Notify \/ Transmit("notifier"))

\* The thread has ended; or it waits for a mutex that a failed send keeps.
Stopped ==
  /\ undef \/ pc = "end" \/ kept
  /\ UNCHANGED vars

Next == Step \/ Stopped

Spec == Init /\ [][Next]_vars

\* Threads that can run do run, and the client reads what it is sent.
Fairness ==
  /\ WF_vars(~undef /\ Service)
  /\ WF_vars(~undef /\ Transmit("notifier"))

FairSpec == Spec /\ Fairness
=============================================================================
