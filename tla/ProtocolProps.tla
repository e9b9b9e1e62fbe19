--------------------------- MODULE ProtocolProps ----------------------------
(***************************************************************************)
(* What holds of a connection, however its reads and writes are cut up and *)
(* wherever it ends.                                                       *)
(***************************************************************************)
EXTENDS Protocol

Written == [by : Writers, kind : {"ack", "nack", "note"}, at : 1..(HeaderLen + 1), len : Nat]

\* Every variable holds a value of its type, and no request is taken twice.
TypeOK ==
  /\ script \in Scripts
  /\ coming \in Unit /\ wire \in Seq(Unit)
  /\ conn \in {"open", "eof", "reset"}
  /\ pc \in {"header", "payload", "act", "answer", "failed", "logout", "end"}
  /\ hdr \in [1..HeaderLen -> Unit \cup {Zero}] /\ block \in Seq(Unit \cup {Junk})
  /\ got \in 0..HeaderLen
  /\ wr \in [Writers -> [pc : {"idle", "lock", "head", "body", "refuse", "unlock", "refused"},
                         kind : {"none", "ack", "nack", "note"}, size : {0, 1},
                         left : 0..HeaderLen]]
  /\ mutex \in Writers \cup {Nobody}
  /\ out \in Seq(Written)
  /\ notes \in 0..MaxNotes /\ served \in 0..Len(script)
  /\ acted \in Seq([type : Types, of : Nat, fields : Seq(Unit \cup {Junk})])
  /\ pointed \in BOOLEAN /\ loggedIn \in BOOLEAN /\ kept \in BOOLEAN /\ undef \in BOOLEAN

\* The connection has ended inside a request: it can be taken for a whole one.
Torn(n) == conn # "open" /\ n = coming.of /\ coming.at > 1

\* The server never loses its place in the stream: every header it reads
\* starts where one was sent, after any way of cutting up the reads.
InPhase == pc \in {"header", "payload"} /\ hdr[1] # Zero => hdr[1] = [of |-> served + 1, at |-> 1]

\* A request is carried out on the fields it was sent with and not on those
\* that an earlier one left in the buffer (server.c:28, 103): all but one cut
\* short by the end of the connection, which is the last.
OwnPayload ==
  \A i \in DOMAIN acted :
    LET a == acted[i] IN
    \/ /\ a.type = script[a.of]
       /\ a.fields = [k \in 1..PayloadLen[a.type] |-> [of |-> a.of, at |-> HeaderLen + k]]
    \/ i = Len(acted) /\ Torn(a.of)

\* The client can tell packets apart: each is on the stream from its first
\* unit to its last before the next one starts, answers, refusals of LOGIN
\* and notifications of other threads alike (trader.h:118-119).
OutWhole ==
  \A i \in DOMAIN out :
    /\ out[i].at > 1 => i > 1 /\ out[i] = [out[i - 1] EXCEPT !.at = @ + 1]
    /\ out[i].at = 1 /\ i > 1 => out[i - 1].at = out[i - 1].len

-----------------------------------------------------------------------------
(* The inductive invariant of the writing side.                            *)

Writing(x) == wr[x].pc \in {"head", "body", "refuse"}

\* The units of its packet that a writer has written.
Sofar(x) == IF wr[x].pc = "body" THEN HeaderLen + wr[x].size - wr[x].left
                                 ELSE HeaderLen - wr[x].left

\* Who may write: a packet under way is the service thread's answer, or has
\* the mutex; a refusal, which has none, is of a client that nobody notifies.
WritersInv ==
  /\ wr["service"].pc # "idle" => pc = "answer"
  /\ pc \notin {"logout", "end"} /\ ~loggedIn => wr["notifier"].pc = "idle"
  /\ \A x \in Writers :
       /\ wr[x].pc \in {"head", "body", "unlock"} => mutex = x
       /\ wr[x].pc \in {"refuse", "refused"} => x = "service" /\ wr[x].size = 0 /\ ~loggedIn
       /\ Writing(x) => wr[x].left > 0
       /\ wr[x].pc = "body" => wr[x].left <= wr[x].size

\* Until a reset the client has whole packets and the beginning of the one
\* under way.
TailInv ==
  conn # "reset" =>
    /\ out # <<>> /\ (\A x \in Writers : Writing(x) => Sofar(x) = 0) =>
         out[Len(out)].at = out[Len(out)].len
    /\ \A x \in Writers : Writing(x) /\ Sofar(x) > 0 =>
         /\ out # <<>>
         /\ out[Len(out)] = [by |-> x, kind |-> wr[x].kind, at |-> Sofar(x), len |-> HeaderLen + wr[x].size]

\* The writers, their mutex and the units on the stream agree: each packet is
\* begun where the one before ended, whoever wrote that, with the mutex or,
\* for a refusal, without.
OutInv == WritersInv /\ TailInv /\ OutWhole

-----------------------------------------------------------------------------
(* The inductive invariant of the reading side.                            *)

Whole(u) == u.of \in DOMAIN script /\ u.at \in 1..Units(u.of)

\* The unit that comes i-th from here.
Upcoming(i) == IF i <= Len(wire) THEN wire[i] ELSE coming

\* What is under way is a piece of the script.
StreamInv ==
  /\ Whole(coming) \/ coming = [of |-> Len(script) + 1, at |-> 1]
  /\ \A i \in DOMAIN wire :
       Whole(wire[i]) /\ wire[i].of <= coming.of /\ Upcoming(i + 1) = After(wire[i])

\* r units of request n have been read.
Place(n, r) ==
  Upcoming(1) = IF r = 0 \/ r < Units(n) THEN [of |-> n, at |-> r + 1] ELSE [of |-> n + 1, at |-> 1]

\* There is no more to read, and request n was cut short.
Drained(n) == wire = <<>> /\ Torn(n)

\* A header of request n of which r units were read.
HeaderOf(n, r) == [k \in 1..HeaderLen |-> IF k <= r THEN [of |-> n, at |-> k] ELSE Zero]

\* The first r units of the payload of request n are in the block.
Filled(n, r) == r <= Len(block) /\ \A i \in 1..r : block[i] = [of |-> n, at |-> HeaderLen + i]

HeaderInv ==
  LET n == served + 1 IN
  /\ hdr = HeaderOf(n, got)
  /\ got > 0 => n \in DOMAIN script
  /\ Place(n, got) \/ (got = 0 /\ Drained(served))

PayloadInv ==
  LET n == served + 1 IN
  /\ n \in DOMAIN script /\ Len(block) = PayloadLen[script[n]] /\ Len(block) > 0
  /\ pointed /\ Filled(n, got)
  /\ \/ hdr = HeaderOf(n, HeaderLen) /\ Place(n, HeaderLen + got)
     \/ hdr = HeaderOf(n, HeaderLen - 1) /\ Drained(n) /\ got = 0

ActInv ==
  LET n == served + 1 IN
  /\ n \in DOMAIN script /\ got = 0
  /\ \/ hdr = HeaderOf(n, HeaderLen) /\ Place(n + 1, 0) /\ Filled(n, PayloadLen[script[n]])
     \/ Drained(n) /\ \E r \in 1..HeaderLen : hdr = HeaderOf(n, r)

AnswerInv == got = 0 /\ (Place(served + 1, 0) \/ Drained(served))

\* The server's place in the stream goes with what it has in its buffers, and
\* what it has carried out with what it has taken: a request that was cut short
\* leaves nothing behind it to read.
ReadInv ==
  /\ StreamInv
  /\ pc = "header"  => HeaderInv
  /\ pc = "payload" => PayloadInv
  /\ pc = "act"     => ActInv
  /\ pc = "answer"  => AnswerInv
  /\ OwnPayload /\ \A i \in DOMAIN acted : acted[i].of <= served

-----------------------------------------------------------------------------
(* The refinement of Session.                                              *)

\* The kinds of the answers that are whole in what the client was sent.
Answers(units) ==
  LET upto[n \in 0..Len(units)] ==
        IF n = 0 THEN <<>>
        ELSE IF units[n].by = "service" /\ units[n].at = units[n].len
             THEN Append(upto[n - 1], units[n].kind)
             ELSE upto[n - 1]
  IN  upto[Len(units)]

Owed == IF wr["service"].pc \in {"lock", "head", "body", "refuse"} THEN wr["service"].kind ELSE "none"

\* The server takes a client's requests one by one in the order they were
\* sent, honors LOGIN only before and the others only after a LOGIN that
\* succeeded (server.h:35-38), and sends each of those one answer before it
\* takes the next, on a stream read and written in pieces.
S == INSTANCE Session WITH
  arrived  <- coming.of - 1,
  begun    <- coming.at > 1,
  owed     <- Owed,
  answers  <- Answers(out),
  over     <- pc = "end"

SessionSpec == S!Spec

-----------------------------------------------------------------------------
(* Liveness, under FairSpec.                                               *)

\* A request that has been sent whole is taken unless the connection is reset,
\* however the reads cut it up and whoever else sends to the client.
ArrivedIsTaken ==
  \A n \in 1..4 : n <= Len(script) /\ coming.of > n ~> served >= n \/ conn = "reset"

\* The service loop ends when end of file is seen (server.h:39), after what
\* has arrived was answered, or on an error; unless a send that failed has left
\* the mutex locked.
EndOfService == conn # "open" ~> pc = "end" \/ kept \/ undef
=============================================================================
