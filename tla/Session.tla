------------------------------ MODULE Session -------------------------------
(***************************************************************************)
(* What a client and the server promise each other over one connection     *)
(* (include/protocol.h:19-60, include/server.h:35-41), with neither streams*)
(* nor buffers nor locks: requests are taken one at a time in the order    *)
(* they were sent, until LOGIN succeeds nothing but LOGIN is honored and   *)
(* after it anything but LOGIN, and an honored or refused request has one  *)
(* answer, sent before the next request is taken.  Protocol implements it. *)
(***************************************************************************)
EXTENDS Naturals, Sequences

CONSTANT Scripts   \* the sequences of requests a client may make, by their types

VARIABLES
  script,    \* the requests of this client
  arrived,   \* requests that have been sent whole
  begun,     \* the next one has been sent in part
  served,    \* requests taken
  loggedIn,
  owed,      \* the answer to the request in hand, if it has one
  answers,   \* what the client has been answered
  conn,      \* "open", "eof" or "reset"
  over       \* the server has left

vars == <<script, arrived, begun, served, loggedIn, owed, answers, conn, over>>

Init ==
  /\ script \in Scripts
  /\ arrived = 0 /\ begun = FALSE /\ served = 0
  /\ loggedIn = FALSE /\ owed = "none" /\ answers = <<>>
  /\ conn = "open" /\ over = FALSE

Begin ==
  /\ conn = "open" /\ arrived < Len(script)
  /\ ~begun /\ begun' = TRUE
  /\ UNCHANGED <<arrived, served, loggedIn, owed, answers, conn, over>>

Arrive ==
  /\ conn = "open" /\ begun
  /\ arrived' = arrived + 1 /\ begun' = FALSE
  /\ UNCHANGED <<served, loggedIn, owed, answers, conn, over>>

End ==
  /\ <<conn, conn'>> \in {<<"open", "eof">>, <<"open", "reset">>, <<"eof", "reset">>}
  /\ UNCHANGED <<arrived, begun, served, loggedIn, owed, answers, over>>

\* A second LOGIN is refused, a first one succeeds or not.
Login ==
  /\ served' = served + 1 /\ script[served'] = "login"
  /\ \/ loggedIn /\ owed' = "nack" /\ UNCHANGED loggedIn
     \/ ~loggedIn /\ owed' = "nack" /\ UNCHANGED loggedIn
     \/ ~loggedIn /\ owed' = "ack" /\ loggedIn' = TRUE

\* Ignored before LOGIN; STATUS never fails.
Honor ==
  /\ served' = served + 1 /\ script[served'] # "login"
  /\ IF loggedIn
     THEN owed' \in (IF script[served'] = "status" THEN {"ack"} ELSE {"ack", "nack"})
     ELSE owed' = "none"
  /\ UNCHANGED loggedIn

\* The next request, when it has arrived.  A connection may end within a
\* request: the server may then take it all the same, and none after it.
Take ==
  /\ ~over /\ owed = "none" /\ served < Len(script)
  /\ served < arrived \/ (served = arrived /\ begun /\ conn # "open")
  /\ Login \/ Honor
  /\ UNCHANGED <<arrived, begun, answers, conn, over>>

Deliver ==
  /\ owed # "none" /\ owed' = "none"
  /\ answers' = Append(answers, owed)
  /\ UNCHANGED <<arrived, begun, served, loggedIn, conn, over>>

\* An answer can be lost with the connection.
Lose ==
  /\ owed # "none" /\ owed' = "none" /\ conn = "reset"
  /\ UNCHANGED <<arrived, begun, served, loggedIn, answers, conn, over>>

\* When the connection has ended, with no answer left to give.
Leave ==
  /\ conn # "open" /\ owed = "none"
  /\ over' = TRUE /\ loggedIn' = FALSE
  /\ UNCHANGED <<arrived, begun, served, owed, answers, conn>>

Next ==
  /\ Begin \/ Arrive \/ End \/ Take \/ Deliver \/ Lose \/ Leave
  /\ UNCHANGED script

Spec == Init /\ [][Next]_vars
=============================================================================
