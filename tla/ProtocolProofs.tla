--------------------------- MODULE ProtocolProofs ---------------------------
(***************************************************************************)
(* What is proved of a connection.  The writing side: two threads and the  *)
(* answers to a refused LOGIN share one stream, under a mutex that a       *)
(* failed send keeps, and the client still gets whole packets.  The        *)
(* reading side: however the reads are cut up and wherever the connection  *)
(* ends, the server keeps its place in the stream, and acts on each        *)
(* request with the fields that it was sent with.                          *)
(***************************************************************************)
EXTENDS ProtocolProps, SumLemmas, SequenceTheorems, TLAPS

WritersPcs == {"idle", "lock", "head", "body", "refuse", "unlock", "refused"}

\* The part of TypeOK that the writing side needs, and that does not speak of
\* the stream read.
OutTypes ==
  /\ wr \in [Writers -> [pc : WritersPcs, kind : {"none", "ack", "nack", "note"},
                         size : {0, 1}, left : 0..HeaderLen]]
  /\ \A x \in Writers : Writing(x) => wr[x].kind # "none"
  /\ \A x \in Writers : wr[x].pc = "lock" => wr[x].kind # "none"
  /\ mutex \in Writers \cup {Nobody}
  /\ out \in Seq(Written)
  /\ loggedIn \in BOOLEAN /\ kept \in BOOLEAN

OutAll == OutTypes /\ OutInv

LEMMA OutInit == Init => OutAll
<1> SUFFICES ASSUME Init
             PROVE  OutAll
  OBVIOUS
<1>1. \A x \in Writers : wr[x] = Quiet
  BY DEF Init
<1>2. /\ mutex = Nobody /\ out = <<>> /\ pc = "header"
      /\ kept = FALSE /\ loggedIn = FALSE
  BY DEF Init
<1>3. OutTypes
  <2>1. wr = [x \in Writers |-> Quiet]
    BY DEF Init
  <2>2. Quiet \in [pc : WritersPcs, kind : {"none", "ack", "nack", "note"},
                   size : {0, 1}, left : 0..HeaderLen]
    BY DEF Quiet, WritersPcs, HeaderLen
  <2>3. wr \in [Writers -> [pc : WritersPcs, kind : {"none", "ack", "nack", "note"},
                           size : {0, 1}, left : 0..HeaderLen]]
    BY <2>1, <2>2
  <2>4. \A x \in Writers : ~Writing(x) /\ wr[x].pc # "lock"
    BY <1>1 DEF Quiet, Writing
  <2>5. out \in Seq(Written)
    BY <1>2
  <2> QED
    BY <1>2, <2>3, <2>4, <2>5 DEF OutTypes
<1>4. WritersInv
  BY <1>1, <1>2 DEF WritersInv, Writers, Quiet, Writing
<1>5. TailInv
  BY <1>1, <1>2 DEF TailInv, Quiet, Writing
<1>6. OutWhole
  BY <1>2 DEF OutWhole
<1> QED
  BY <1>3, <1>4, <1>5, <1>6 DEF OutAll, OutInv

-----------------------------------------------------------------------------
(* Steps that leave the stream and the writers alone.                      *)

\* The stream and its writers as they were, or a connection that is reset.
LEMMA OutFrame ==
  ASSUME OutAll, UNCHANGED output, loggedIn' \in BOOLEAN,
         conn' # "reset" => conn # "reset",
         WritersInv'
  PROVE  OutAll'
<1>1. OutTypes'
  BY DEF OutAll, OutTypes, output, Writing
<1>2. TailInv'
  BY DEF OutAll, OutInv, TailInv, output, Writing, Sofar
<1>3. OutWhole'
  BY DEF OutAll, OutInv, OutWhole, output
<1> QED
  BY <1>1, <1>2, <1>3 DEF OutAll, OutInv

\* The service thread goes on with nothing to write.
LEMMA OutIdle ==
  ASSUME OutAll, UNCHANGED output, loggedIn' \in BOOLEAN, conn' = conn,
         pc # "answer", loggedIn' => loggedIn,
         pc' \notin {"logout", "end"} /\ ~loggedIn' => pc \notin {"logout", "end"} /\ ~loggedIn
  PROVE  OutAll'
<1>1. wr["service"].pc = "idle"
  BY DEF OutAll, OutInv, WritersInv
<1>2. WritersInv'
  BY <1>1 DEF OutAll, OutInv, WritersInv, output, Writing
<1> QED
  BY <1>2, OutFrame

\* The client and the network.
LEMMA OutOutside ==
  ASSUME OutAll, ClientSends \/ ConnEnds \/ (\E k \in 1..HeaderLen : Read(k)) \/ UNCHANGED vars
  PROVE  OutAll'
<1>1. UNCHANGED <<output, pc, loggedIn>>
  BY DEF ClientSends, ConnEnds, Read, vars, output
<1>2. conn' # "reset" => conn # "reset"
  BY DEF ClientSends, ConnEnds, Read, vars, input
<1>3. WritersInv'
  BY <1>1 DEF OutAll, OutInv, WritersInv, output, Writing
<1>4. loggedIn' \in BOOLEAN
  BY <1>1 DEF OutAll, OutTypes
<1> QED
  BY <1>1, <1>2, <1>3, <1>4, OutFrame

\* proto_recv_packet, and the service loop where it sends nothing.
LEMMA OutServes ==
  ASSUME OutAll, RecvHeader \/ RecvPayload \/ RecvError \/ Ignore \/ Failed \/ Logout
  PROVE  OutAll'
<1>1. loggedIn \in BOOLEAN
  BY DEF OutAll, OutTypes
<1>2. UNCHANGED <<output, input>>
  BY DEF RecvHeader, RecvPayload, RecvError, Ignore, Failed, Logout, Loop
<1>3. pc # "answer"
  BY DEF RecvHeader, RecvPayload, RecvError, Ignore, Failed, Logout
<1>4. /\ loggedIn' \in BOOLEAN /\ (loggedIn' => loggedIn)
      /\ pc' \notin {"logout", "end"} /\ ~loggedIn' => pc \notin {"logout", "end"} /\ ~loggedIn
  <2>1. CASE RecvHeader \/ RecvPayload \/ RecvError \/ Ignore
    BY <1>1, <2>1 DEF RecvHeader, RecvPayload, RecvError, Ignore
  <2>2. CASE Failed
    <3>1. loggedIn' = loggedIn /\ pc = "failed"
      BY <2>2 DEF Failed
    <3> QED
      BY <1>1, <3>1
  <2>3. CASE Logout
    BY <2>3 DEF Logout
  <2> QED
    BY <2>1, <2>2, <2>3
<1> QED
  BY <1>2, <1>3, <1>4, OutIdle DEF input

-----------------------------------------------------------------------------
(* Packets begun, locked for, and done with.                               *)

WriterTypes == [pc : WritersPcs, kind : {"none", "ack", "nack", "note"},
                size : {0, 1}, left : 0..HeaderLen]

\* One writer moves that writes nothing and has written nothing: the stream
\* is as whole as it was.
LEMMA OutMoves ==
  ASSUME OutAll, NEW x \in Writers, NEW w \in WriterTypes,
         wr' = [wr EXCEPT ![x] = w],
         UNCHANGED <<out, conn>>,
         ~Writing(x) \/ conn = "reset",
         w.pc \in {"head", "refuse"} => w.left = HeaderLen,
         w.pc # "body",
         w.pc \in {"head", "refuse", "lock"} => w.kind # "none",
         mutex' \in Writers \cup {Nobody}, loggedIn' \in BOOLEAN, kept' \in BOOLEAN,
         WritersInv'
  PROVE  OutAll'
<1>1. wr'[x] = w /\ \A y \in Writers \ {x} : wr'[y] = wr[y]
  BY DEF OutAll, OutTypes
<1>2. OutTypes'
  <2>1. wr' \in [Writers -> WriterTypes]
    BY DEF OutAll, OutTypes, WriterTypes
  <2>2. \A y \in Writers : /\ Writing(y)' => wr'[y].kind # "none"
                           /\ wr'[y].pc = "lock" => wr'[y].kind # "none"
    <3> TAKE y \in Writers
    <3>1. CASE y = x
      BY <1>1, <3>1 DEF Writing
    <3>2. CASE y # x
      BY <1>1, <3>2 DEF OutAll, OutTypes, Writing
    <3> QED
      BY <3>1, <3>2
  <2>3. out' \in Seq(Written)
    BY DEF OutAll, OutTypes
  <2> QED
    BY <2>1, <2>2, <2>3 DEF OutTypes, WriterTypes
<1>3. TailInv'
  <2> SUFFICES ASSUME conn # "reset"
               PROVE  TailInv'
    BY DEF TailInv
  <2>1. ~Writing(x) /\ (Writing(x)' => Sofar(x)' = 0)
    BY <1>1 DEF Writing, Sofar, HeaderLen
  <2>2. \A y \in Writers \ {x} : (Writing(y)' <=> Writing(y)) /\ Sofar(y)' = Sofar(y)
    BY <1>1 DEF Writing, Sofar
  <2>3. TailInv
    BY DEF OutAll, OutInv
  <2>4. ASSUME out # <<>>, \A y \in Writers : Writing(y)' => Sofar(y)' = 0
        PROVE  out[Len(out)].at = out[Len(out)].len
    BY <2>1, <2>2, <2>3, <2>4 DEF TailInv
  <2>5. ASSUME NEW y \in Writers, Writing(y)', Sofar(y)' > 0
        PROVE  /\ out # <<>>
               /\ out[Len(out)] = [by |-> y, kind |-> wr'[y].kind, at |-> Sofar(y)',
                                   len |-> HeaderLen + wr'[y].size]
    <3>1. y # x
      BY <2>1, <2>5
    <3> QED
      BY <1>1, <2>2, <2>3, <2>5, <3>1 DEF TailInv
  <2> QED
    BY <2>4, <2>5 DEF TailInv
<1>4. OutWhole'
  BY DEF OutAll, OutInv, OutWhole
<1> QED
  BY <1>2, <1>3, <1>4 DEF OutAll, OutInv

\* An answer is begun by the service thread, which had none under way; a
\* LOGIN is refused only while nobody can notify the client.
LEMMA OutAnswers ==
  ASSUME OutAll, ActLogin \/ ActLoginAgain \/ Act
  PROVE  OutAll'
<1>1. pc = "act" /\ pc' = "answer" /\ UNCHANGED <<conn, out, mutex, kept>>
  BY DEF ActLogin, ActLoginAgain, Act, Answer, input
<1>2. wr["service"].pc = "idle"
  BY <1>1 DEF OutAll, OutInv, WritersInv
<1>3. PICK kind \in {"ack", "nack"}, size \in {0, 1}, from \in {"lock", "refuse"} :
        /\ Answer(kind, size, from)
        /\ from = "refuse" => size = 0 /\ ~loggedIn /\ UNCHANGED loggedIn
        /\ from = "lock" => loggedIn' = TRUE
  <2>1. CASE ActLogin
    BY <2>1 DEF ActLogin
  <2>2. CASE ActLoginAgain
    BY <2>2 DEF ActLoginAgain, OutAll, OutTypes
  <2>3. CASE Act
    BY <2>3 DEF Act, OutAll, OutTypes
  <2> QED
    BY <2>1, <2>2, <2>3
<1> DEFINE w == [pc |-> from, kind |-> kind, size |-> size,
                 left |-> IF from = "lock" THEN 0 ELSE HeaderLen]
<1>4. /\ w \in WriterTypes /\ w.pc = from /\ w.kind = kind /\ w.size = size
      /\ from = "refuse" => w.left = HeaderLen
  BY DEF WriterTypes, WritersPcs, HeaderLen
<1>5. wr' = [wr EXCEPT !["service"] = w]
  BY <1>3 DEF Answer
<1> HIDE DEF w
<1>6. wr'["service"] = w /\ wr'["notifier"] = wr["notifier"]
  BY <1>5 DEF OutAll, OutTypes, Writers
<1>7. ~loggedIn => wr["notifier"].pc = "idle"
  BY <1>1 DEF OutAll, OutInv, WritersInv
<1>8. loggedIn' \in BOOLEAN
  BY <1>3 DEF OutAll, OutTypes
<1>9. WritersInv'
  <2>1. wr'["service"].pc # "idle" => pc' = "answer"
    BY <1>1
  <2>2. ~loggedIn' => wr'["notifier"].pc = "idle"
    BY <1>3, <1>6, <1>7
  <2>3. /\ wr'["service"].pc \in {"lock", "refuse"}
        /\ wr'["service"].pc = "refuse" => wr'["service"].size = 0 /\ ~loggedIn'
                                           /\ wr'["service"].left = HeaderLen
    BY <1>3, <1>4, <1>6
  <2>4. wr["notifier"].pc \notin {"refuse", "refused"}
    BY DEF OutAll, OutInv, WritersInv, Writers
  <2>5. ASSUME NEW y \in Writers
        PROVE  /\ wr'[y].pc \in {"head", "body", "unlock"} => mutex' = y
               /\ wr'[y].pc \in {"refuse", "refused"} => y = "service" /\ wr'[y].size = 0 /\ ~loggedIn'
               /\ Writing(y)' => wr'[y].left > 0
               /\ wr'[y].pc = "body" => wr'[y].left <= wr'[y].size
    <3>1. CASE y = "service"
      BY <2>3, <3>1 DEF Writing, HeaderLen
    <3>2. CASE y = "notifier"
      BY <1>1, <1>6, <2>4, <3>2 DEF OutAll, OutInv, WritersInv, Writers, Writing
    <3> QED
      BY <3>1, <3>2 DEF Writers
  <2> QED
    BY <2>1, <2>2, <2>5 DEF WritersInv
<1>10. /\ "service" \in Writers /\ ~Writing("service")
       /\ mutex' \in Writers \cup {Nobody} /\ kept' \in BOOLEAN
  BY <1>1, <1>2 DEF Writers, Writing, OutAll, OutTypes
<1> QED
  BY <1>1, <1>3, <1>4, <1>5, <1>8, <1>9, <1>10, OutMoves

\* At most one of the two threads is writing: with the mutex there is one
\* owner, and a refusal, which goes without, has the client to itself.
LEMMA OneWrites ==
  ASSUME WritersInv, NEW x \in Writers, NEW y \in Writers, Writing(x), Writing(y)
  PROVE  x = y
<1>1. /\ wr["notifier"].pc \notin {"refuse", "refused"}
      /\ wr["service"].pc = "refuse" => wr["notifier"].pc = "idle"
  BY DEF WritersInv, Writers
<1>2. wr[x].pc = "refuse" \/ wr[y].pc = "refuse" => x = y
  BY <1>1 DEF Writers, Writing
<1>3. wr[x].pc # "refuse" /\ wr[y].pc # "refuse" => mutex = x /\ mutex = y
  BY DEF WritersInv, Writing
<1> QED
  BY <1>2, <1>3

\* A notification is begun to a client that is logged in.
LEMMA OutNotifies ==
  ASSUME OutAll, Notify
  PROVE  OutAll'
<1> DEFINE w == [pc |-> "lock", kind |-> "note", size |-> 1, left |-> 0]
<1>1. w \in WriterTypes /\ w.pc = "lock" /\ w.kind = "note"
  BY DEF WriterTypes, WritersPcs, HeaderLen
<1>2. /\ wr' = [wr EXCEPT !["notifier"] = w] /\ loggedIn /\ wr["notifier"].pc = "idle"
      /\ UNCHANGED <<pc, loggedIn, conn, out, mutex, kept>>
  BY DEF Notify, input
<1> HIDE DEF w
<1>3. wr'["notifier"] = w /\ wr'["service"] = wr["service"]
  BY <1>2 DEF OutAll, OutTypes, Writers
<1>4. WritersInv'
  <2>1. ASSUME NEW y \in Writers
        PROVE  /\ wr'[y].pc \in {"head", "body", "unlock"} => mutex' = y
               /\ wr'[y].pc \in {"refuse", "refused"} => y = "service" /\ wr'[y].size = 0 /\ ~loggedIn'
               /\ Writing(y)' => wr'[y].left > 0
               /\ wr'[y].pc = "body" => wr'[y].left <= wr'[y].size
    <3>1. CASE y = "notifier"
      BY <1>1, <1>3, <3>1 DEF Writing
    <3>2. CASE y = "service"
      BY <1>2, <1>3, <3>2 DEF OutAll, OutInv, WritersInv, Writers, Writing
    <3> QED
      BY <3>1, <3>2 DEF Writers
  <2>2. /\ wr'["service"].pc # "idle" => pc' = "answer"
        /\ loggedIn'
    BY <1>2, <1>3 DEF OutAll, OutInv, WritersInv
  <2> QED
    BY <2>1, <2>2 DEF WritersInv
<1>5. /\ "notifier" \in Writers /\ ~Writing("notifier")
      /\ mutex' \in Writers \cup {Nobody} /\ kept' \in BOOLEAN /\ loggedIn' \in BOOLEAN
  BY <1>2 DEF Writers, Writing, OutAll, OutTypes
<1> QED
  BY <1>1, <1>2, <1>4, <1>5, OutMoves

\* The mutex is taken only when no other writer has it.
LEMMA OutLocks ==
  ASSUME OutAll, NEW x \in Writers, Lock(x)
  PROVE  OutAll'
<1> DEFINE w == [wr[x] EXCEPT !.pc = "head", !.left = HeaderLen]
<1>1. /\ w \in WriterTypes /\ w.pc = "head" /\ w.left = HeaderLen
      /\ w.kind = wr[x].kind /\ w.size = wr[x].size
  <2>1. wr[x] \in WriterTypes
    BY DEF OutAll, OutTypes, WriterTypes
  <2>2. HeaderLen \in 0..HeaderLen /\ "head" \in WritersPcs
    BY DEF HeaderLen, WritersPcs
  <2> QED
    BY <2>1, <2>2 DEF WriterTypes
<1>2. /\ wr' = [wr EXCEPT ![x] = w] /\ wr[x].pc = "lock"
      /\ mutex \in {Nobody, x} /\ mutex' = x
      /\ UNCHANGED <<pc, loggedIn, conn, out, kept>>
  BY DEF Lock, input
<1> HIDE DEF w
<1>3. wr'[x] = w /\ \A y \in Writers \ {x} : wr'[y] = wr[y]
  BY <1>2 DEF OutAll, OutTypes
<1>4. WritersInv'
  <2>1. ASSUME NEW y \in Writers
        PROVE  /\ wr'[y].pc \in {"head", "body", "unlock"} => mutex' = y
               /\ wr'[y].pc \in {"refuse", "refused"} => y = "service" /\ wr'[y].size = 0 /\ ~loggedIn'
               /\ Writing(y)' => wr'[y].left > 0
               /\ wr'[y].pc = "body" => wr'[y].left <= wr'[y].size
    <3>1. CASE y = x
      BY <1>1, <1>2, <1>3, <3>1 DEF Writing, HeaderLen
    <3>2. CASE y # x
      <4>1. wr'[y] = wr[y] /\ wr[y].pc \notin {"head", "body", "unlock"}
        BY <1>2, <1>3, <3>2, NobodyAssumption DEF OutAll, OutInv, WritersInv
      <4> QED
        BY <1>2, <4>1 DEF OutAll, OutInv, WritersInv, Writing
    <3> QED
      BY <3>1, <3>2
  <2>2. \A y \in Writers : wr'[y].pc = "idle" <=> wr[y].pc = "idle"
    BY <1>1, <1>2, <1>3
  <2>3. /\ wr'["service"].pc # "idle" => pc' = "answer"
        /\ pc' \notin {"logout", "end"} /\ ~loggedIn' => wr'["notifier"].pc = "idle"
    BY <1>2, <2>2 DEF OutAll, OutInv, WritersInv, Writers
  <2> QED
    BY <2>1, <2>3 DEF WritersInv
<1>5. /\ ~Writing(x) /\ wr[x].kind # "none"
      /\ mutex' \in Writers \cup {Nobody} /\ kept' \in BOOLEAN /\ loggedIn' \in BOOLEAN
  BY <1>2 DEF Writing, OutAll, OutTypes
<1> QED
  BY <1>1, <1>2, <1>4, <1>5, OutMoves

\* A packet is done with: the mutex is given up, or kept when the send failed.
LEMMA OutEnds ==
  ASSUME OutAll, NEW x \in Writers, Sent(x) \/ SendFails(x)
  PROVE  OutAll'
<1>1. /\ wr' = [wr EXCEPT ![x] = Quiet]
      /\ UNCHANGED <<loggedIn, conn, out>>
      /\ Resume(x)
      /\ ~Writing(x) \/ conn = "reset"
      /\ mutex' = mutex \/ (mutex' = Nobody /\ wr[x].pc = "unlock")
      /\ wr[x].pc # "idle"
  BY DEF Sent, SendFails, input, Writing
<1>2. wr'[x] = Quiet /\ \A y \in Writers \ {x} : wr'[y] = wr[y]
  BY <1>1 DEF OutAll, OutTypes
<1>3. \/ x = "service" /\ pc = "answer" /\ pc' = "header"
      \/ x = "notifier" /\ pc' = pc
  BY <1>1 DEF Resume, Loop, Writers
<1>4. Quiet \in WriterTypes /\ Quiet.pc = "idle"
  BY DEF Quiet, WriterTypes, WritersPcs, HeaderLen
<1>5. kept' \in BOOLEAN
  BY DEF Sent, SendFails, OutAll, OutTypes
<1>6. WritersInv'
  <2>1. ASSUME NEW y \in Writers
        PROVE  /\ wr'[y].pc \in {"head", "body", "unlock"} => mutex' = y
               /\ wr'[y].pc \in {"refuse", "refused"} => y = "service" /\ wr'[y].size = 0 /\ ~loggedIn'
               /\ Writing(y)' => wr'[y].left > 0
               /\ wr'[y].pc = "body" => wr'[y].left <= wr'[y].size
    <3>1. CASE y = x
      BY <1>2, <1>4, <3>1 DEF Writing
    <3>2. CASE y # x
      <4>1. wr'[y] = wr[y] /\ (wr[y].pc \in {"head", "body", "unlock"} => mutex' = mutex)
        BY <1>1, <1>2, <3>2 DEF OutAll, OutInv, WritersInv
      <4> QED
        BY <1>1, <4>1 DEF OutAll, OutInv, WritersInv, Writing
    <3> QED
      BY <3>1, <3>2
  <2>2. CASE x = "service"
    BY <1>1, <1>2, <1>3, <1>4, <2>1, <2>2 DEF OutAll, OutInv, WritersInv, Writers
  <2>3. CASE x = "notifier"
    BY <1>1, <1>2, <1>3, <1>4, <2>1, <2>3 DEF OutAll, OutInv, WritersInv, Writers
  <2> QED
    BY <2>2, <2>3 DEF Writers
<1>7. /\ mutex' \in Writers \cup {Nobody} /\ loggedIn' \in BOOLEAN
  BY <1>1 DEF OutAll, OutTypes
<1> QED
  BY <1>1, <1>4, <1>5, <1>6, <1>7, OutMoves

-----------------------------------------------------------------------------
(* Units written.                                                          *)

\* What a writer has under way after k units more.
LEMMA WrittenOn ==
  ASSUME NEW w \in WriterTypes, NEW k \in 1..HeaderLen,
         w.pc \in {"head", "body", "refuse"}, k <= w.left
  PROVE  /\ AfterWrite(w, k) \in WriterTypes
         /\ AfterWrite(w, k).kind = w.kind /\ AfterWrite(w, k).size = w.size
         /\ w.left > k => AfterWrite(w, k).pc = w.pc /\ AfterWrite(w, k).left = w.left - k
         /\ w.left = k /\ w.pc = "head" /\ w.size > 0 =>
              AfterWrite(w, k).pc = "body" /\ AfterWrite(w, k).left = w.size
         /\ w.left = k /\ ~(w.pc = "head" /\ w.size > 0) =>
              AfterWrite(w, k).pc = IF w.pc = "refuse" THEN "refused" ELSE "unlock"
<1>1. w.left \in 0..HeaderLen /\ w.size \in {0, 1} /\ k \in Nat
  BY DEF WriterTypes, HeaderLen
<1> DEFINE less == w.left - k
           done == IF w.pc = "refuse" THEN "refused" ELSE "unlock"
<1>2. less \in Int /\ (w.left > k => less \in 0..HeaderLen)
  BY <1>1 DEF HeaderLen
<1>3. done \in WritersPcs /\ "body" \in WritersPcs
  BY DEF WritersPcs
<1>4. 0 \in 0..HeaderLen /\ w.size \in 0..HeaderLen
  BY <1>1 DEF HeaderLen
<1>5. AfterWrite(w, k) =
        IF w.left > k THEN [w EXCEPT !.left = less]
        ELSE IF w.pc = "head" /\ w.size > 0 THEN [w EXCEPT !.pc = "body", !.left = w.size]
        ELSE [w EXCEPT !.pc = done, !.left = 0]
  BY DEF AfterWrite
<1>6. /\ w.left > k => [w EXCEPT !.left = less] \in WriterTypes
      /\ [w EXCEPT !.pc = "body", !.left = w.size] \in WriterTypes
      /\ [w EXCEPT !.pc = done, !.left = 0] \in WriterTypes
  <2> HIDE DEF less, done
  <2> QED
    BY <1>2, <1>3, <1>4 DEF WriterTypes
<1>7. /\ [w EXCEPT !.left = less].left = less /\ [w EXCEPT !.left = less].pc = w.pc
      /\ [w EXCEPT !.left = less].kind = w.kind /\ [w EXCEPT !.left = less].size = w.size
  <2> HIDE DEF less
  <2> QED
    BY DEF WriterTypes
<1>8. \A c, l : LET v == [w EXCEPT !.pc = c, !.left = l]
                IN  v.pc = c /\ v.left = l /\ v.kind = w.kind /\ v.size = w.size
  BY DEF WriterTypes
<1> QED
  <2>1. CASE w.left > k
    BY <1>1, <1>5, <1>6, <1>7, <2>1
  <2>2. CASE w.left = k
    <3>1. ~(w.left > k)
      BY <1>1, <2>2
    <3>2. CASE w.pc = "head" /\ w.size > 0
      <4>1. AfterWrite(w, k) = [w EXCEPT !.pc = "body", !.left = w.size]
        BY <1>5, <3>1, <3>2
      <4> QED
        BY <1>6, <1>8, <3>1, <3>2, <4>1
    <3>3. CASE ~(w.pc = "head" /\ w.size > 0)
      <4>1. AfterWrite(w, k) = [w EXCEPT !.pc = done, !.left = 0]
        BY <1>5, <3>1, <3>3
      <4> QED
        BY <1>6, <1>8, <3>1, <3>3, <4>1
    <3> QED
      BY <3>2, <3>3
  <2> QED
    BY <1>1, <2>1, <2>2

\* The units of one write follow one another.
LEMMA PieceUnits ==
  ASSUME OutAll, NEW x \in Writers, Writing(x), NEW k \in 1..HeaderLen, k <= wr[x].left
  PROVE  /\ Sofar(x) \in Nat /\ Sofar(x) + k <= HeaderLen + wr[x].size
         /\ Piece(x, k) \in Seq(Written) /\ Len(Piece(x, k)) = k
         /\ \A i \in 1..k : Piece(x, k)[i] = [by |-> x, kind |-> wr[x].kind, at |-> Sofar(x) + i,
                                              len |-> HeaderLen + wr[x].size]
<1>1. /\ wr[x].left \in 0..HeaderLen /\ wr[x].size \in {0, 1}
      /\ wr[x].kind \in {"ack", "nack", "note"}
      /\ wr[x].pc = "body" => wr[x].left <= wr[x].size
  BY DEF OutAll, OutTypes, OutInv, WritersInv
<1>2. Sofar(x) \in Nat /\ Sofar(x) + k <= HeaderLen + wr[x].size
  <2> DEFINE left == wr[x].left
             size == wr[x].size
  <2>1. left \in 0..3 /\ size \in {0, 1} /\ k \in 1..3 /\ k <= left /\ HeaderLen = 3
    BY <1>1 DEF HeaderLen
  <2>2. CASE wr[x].pc = "body"
    <3>1. Sofar(x) = 3 + size - left /\ left <= size
      BY <1>1, <2>1, <2>2 DEF Sofar
    <3> HIDE DEF left, size
    <3>2. Sofar(x) \in Nat /\ Sofar(x) + k <= HeaderLen + size
      BY <2>1, <3>1
    <3> QED
      BY <3>2 DEF size
  <2>3. CASE wr[x].pc # "body"
    <3>1. Sofar(x) = 3 - left
      BY <2>1, <2>3 DEF Sofar
    <3> HIDE DEF left, size
    <3>2. Sofar(x) \in Nat /\ Sofar(x) + k <= HeaderLen + size
      BY <2>1, <3>1
    <3> QED
      BY <3>2 DEF size
  <2> QED
    BY <2>2, <2>3
<1>3. Piece(x, k) = [i \in 1..k |-> [by |-> x, kind |-> wr[x].kind, at |-> Sofar(x) + i,
                                     len |-> HeaderLen + wr[x].size]]
  <2> DEFINE from == IF wr[x].pc = "body" THEN (HeaderLen + wr[x].size) - wr[x].left
                                          ELSE HeaderLen - wr[x].left
  <2>1. Sofar(x) = from
    BY <1>1 DEF Sofar, HeaderLen
  <2>2. Piece(x, k) = [i \in 1..k |-> [by |-> x, kind |-> wr[x].kind, at |-> from + i,
                                       len |-> HeaderLen + wr[x].size]]
    BY DEF Piece
  <2> HIDE DEF from
  <2> QED
    BY <2>1, <2>2
<1>4. \A i \in 1..k : /\ Sofar(x) + i \in 1..(HeaderLen + 1)
                      /\ HeaderLen + wr[x].size \in Nat
  BY <1>1, <1>2 DEF HeaderLen
<1> HIDE DEF Sofar, HeaderLen
<1>5. \A i \in 1..k : [by |-> x, kind |-> wr[x].kind, at |-> Sofar(x) + i,
                       len |-> HeaderLen + wr[x].size] \in Written
  BY <1>1, <1>4 DEF Written
<1>6. k \in Nat
  BY DEF HeaderLen
<1> QED
  BY <1>2, <1>3, <1>5, <1>6

\* A write goes on where the packet was, or begins a packet where another has
\* ended.
LEMMA OutWrites ==
  ASSUME OutAll, NEW x \in Writers, NEW k \in 1..HeaderLen, Write(x, k)
  PROVE  OutAll'
<1> DEFINE w == wr[x]
           v == AfterWrite(w, k)
           sofar == Sofar(x)
           size == w.size
           kind == w.kind
           len == HeaderLen + size
           n == Len(out)
           piece == Piece(x, k)
           unit(a) == [by |-> x, kind |-> kind, at |-> a, len |-> len]
<1>1. /\ w.pc \in {"head", "body", "refuse"} /\ k <= w.left
      /\ conn # "reset" /\ out' = out \o piece
      /\ wr' = [wr EXCEPT ![x] = v]
      /\ UNCHANGED <<pc, loggedIn, conn, mutex, kept>>
  BY DEF Write, input
<1>2. w \in WriterTypes /\ wr \in [Writers -> WriterTypes]
  BY DEF OutAll, OutTypes, WriterTypes
<1>3. /\ v \in WriterTypes /\ v.kind = kind /\ v.size = size
      /\ w.left > k => v.pc = w.pc /\ v.left = w.left - k
      /\ w.left = k /\ w.pc = "head" /\ size > 0 => v.pc = "body" /\ v.left = size
      /\ w.left = k /\ ~(w.pc = "head" /\ size > 0) =>
           v.pc = IF w.pc = "refuse" THEN "refused" ELSE "unlock"
  <2> HIDE DEF w
  <2> QED
    BY <1>1, <1>2, WrittenOn
<1>4. wr'[x] = v /\ \A y \in Writers \ {x} : wr'[y] = wr[y]
  BY <1>1, <1>2
<1>5. Writing(x)
  BY <1>1 DEF Writing
<1>6. /\ sofar \in Nat /\ sofar + k <= len
      /\ piece \in Seq(Written) /\ Len(piece) = k
      /\ \A i \in 1..k : piece[i] = unit(sofar + i)
  BY <1>1, <1>5, PieceUnits
<1>7. \A y \in Writers : Writing(y) => y = x
  BY <1>5, OneWrites DEF OutAll, OutInv
<1>8. /\ w.left \in 0..3 /\ size \in {0, 1} /\ k \in 1..3 /\ HeaderLen = 3
      /\ w.kind # "none" /\ (w.pc = "refuse" => size = 0)
      /\ w.pc = "body" => w.left <= size
  BY <1>1, <1>2, <1>5 DEF WriterTypes, HeaderLen, OutAll, OutTypes, OutInv, WritersInv
<1>9. /\ w.pc = "body" => sofar = 3 + size - w.left
      /\ w.pc # "body" => sofar = 3 - w.left
      /\ len = 3 + size
  BY <1>8 DEF Sofar
<1>10. /\ v.pc = "body" => Sofar(x)' = 3 + v.size - v.left
       /\ v.pc # "body" => Sofar(x)' = 3 - v.left
  BY <1>4, <1>8 DEF Sofar
<1>11. /\ Writing(x)' <=> v.pc \in {"head", "body", "refuse"}
       /\ \A y \in Writers \ {x} : ~Writing(y)'
  BY <1>4, <1>7 DEF Writing
<1> HIDE DEF w, v, sofar, size, kind, len, n, piece
\* A packet that is not over has k units more; one that is, all of them.
<1>12. /\ Writing(x)' => Sofar(x)' = sofar + k /\ v.left > 0 /\ (v.pc = "body" => v.left <= v.size)
       /\ ~Writing(x)' => sofar + k = len
       /\ v.pc \in {"head", "body", "refuse", "unlock", "refused"}
       /\ v.pc \in {"refuse", "refused"} <=> w.pc = "refuse"
  <2>1. CASE w.left > k
    <3>1. /\ v.pc = w.pc /\ v.left = w.left - k
          /\ Writing(x)'
      BY <1>1, <1>3, <1>11, <2>1
    <3>2. Sofar(x)' = sofar + k
      BY <1>3, <1>8, <1>9, <1>10, <2>1, <3>1
    <3>3. v.left > 0 /\ (v.pc = "body" => v.left <= v.size)
      BY <1>3, <1>8, <2>1, <3>1
    <3> QED
      BY <1>1, <3>1, <3>2, <3>3
  <2>2. CASE w.left = k
    <3>1. CASE w.pc = "head" /\ size > 0
      <4>1. v.pc = "body" /\ v.left = size /\ v.size = size /\ size = 1 /\ sofar = 3 - k
        BY <1>3, <1>8, <1>9, <2>2, <3>1
      <4>2. Sofar(x)' = sofar + k
        BY <1>8, <1>10, <4>1
      <4> QED
        BY <1>11, <3>1, <4>1, <4>2
    <3>2. CASE ~(w.pc = "head" /\ size > 0)
      <4>1. v.pc = IF w.pc = "refuse" THEN "refused" ELSE "unlock"
        BY <1>3, <2>2, <3>2
      <4>2. sofar + k = len
        BY <1>1, <1>8, <1>9, <2>2, <3>2
      <4> QED
        BY <1>1, <1>11, <4>1, <4>2
    <3> QED
      BY <3>1, <3>2
  <2> QED
    BY <1>1, <1>8, <2>1, <2>2
\* The stream after it.
<1>13. out \in Seq(Written) /\ n \in Nat /\ n = Len(out) /\ DOMAIN out = 1..n
  BY DEF OutAll, OutTypes, n
<1>14. /\ out' \in Seq(Written) /\ Len(out') = n + k /\ DOMAIN out' = 1..(n + k)
       /\ \A i \in 1..n : out'[i] = out[i]
       /\ \A i \in 1..k : out'[n + i] = unit(sofar + i)
  <2>1. /\ out' \in Seq(Written) /\ Len(out') = n + k
        /\ \A i \in 1..(n + k) : out'[i] = IF i <= n THEN out[i] ELSE piece[i - n]
    BY <1>1, <1>6, <1>13, ConcatProperties
  <2>2. k \in 1..3
    BY <1>8
  <2>3. \A i \in 1..n : out'[i] = out[i]
    BY <1>13, <2>1, <2>2
  <2>4. ASSUME NEW i \in 1..k
        PROVE  out'[n + i] = unit(sofar + i)
    <3>1. n + i \in 1..(n + k) /\ ~(n + i <= n) /\ (n + i) - n = i
      BY <1>13, <2>2
    <3> QED
      BY <1>6, <2>1, <3>1
  <2>5. DOMAIN out' = 1..(n + k)
    BY <2>1
  <2> QED
    BY <2>1, <2>3, <2>4, <2>5
\* Where it begins.
<1>15. /\ n > 0 /\ sofar = 0 => out[n].at = out[n].len
       /\ sofar > 0 => n > 0 /\ out[n] = unit(sofar)
  <2>1. TailInv
    BY DEF OutAll, OutInv
  <2>2. sofar = 0 => \A y \in Writers : Writing(y) => Sofar(y) = 0
    BY <1>7 DEF sofar
  <2>3. n > 0 <=> out # <<>>
    BY <1>13
  <2>4. n > 0 /\ sofar = 0 => out[n].at = out[n].len
    BY <1>1, <1>13, <2>1, <2>2, <2>3 DEF TailInv
  <2>5. ASSUME sofar > 0
        PROVE  n > 0 /\ out[n] = unit(sofar)
    <3>1. /\ out # <<>>
          /\ out[Len(out)] = [by |-> x, kind |-> wr[x].kind, at |-> Sofar(x),
                              len |-> HeaderLen + wr[x].size]
      BY <1>1, <1>5, <2>1, <2>5 DEF TailInv, sofar
    <3> QED
      BY <1>13, <2>3, <3>1 DEF w, kind, size, len, sofar
  <2> QED
    BY <2>4, <2>5
<1>16. OutWhole'
  <2> SUFFICES ASSUME NEW j \in 1..(n + k)
               PROVE  /\ out'[j].at > 1 => j > 1 /\ out'[j] = [out'[j - 1] EXCEPT !.at = @ + 1]
                      /\ out'[j].at = 1 /\ j > 1 => out'[j - 1].at = out'[j - 1].len
    BY <1>14 DEF OutWhole
  <2>1. CASE j <= n
    <3>1. j \in 1..n /\ (j > 1 => j - 1 \in 1..n)
      BY <1>13, <2>1
    <3>2. /\ out[j].at > 1 => j > 1 /\ out[j] = [out[j - 1] EXCEPT !.at = @ + 1]
          /\ out[j].at = 1 /\ j > 1 => out[j - 1].at = out[j - 1].len
      BY <1>13, <3>1 DEF OutAll, OutInv, OutWhole
    <3>3. out'[j] = out[j] /\ (j > 1 => out'[j - 1] = out[j - 1])
      BY <1>14, <3>1
    <3> QED
      BY <3>2, <3>3
  <2>2. CASE j > n
    <3> DEFINE i == j - n
    <3>1. i \in 1..k /\ n + i = j /\ (i > 1 => i - 1 \in 1..k /\ n + (i - 1) = j - 1)
      BY <1>8, <1>13, <2>2
    <3>2. out'[j] = unit(sofar + i) /\ out'[j].at = sofar + i
      <4> HIDE DEF i
      <4>1. out'[n + i] = unit(sofar + i)
        BY <1>14, <3>1
      <4> QED
        BY <3>1, <4>1
    <3>3. CASE i > 1
      <4>1. /\ j > 1 /\ sofar + i > 1 /\ sofar + i # 1
            /\ (sofar + (i - 1)) + 1 = sofar + i
        BY <1>6, <1>13, <3>1, <3>3
      <4>2. out'[j - 1] = unit(sofar + (i - 1))
        BY <1>14, <3>1, <3>3
      <4> DEFINE a == sofar + (i - 1)
      <4>3. [out'[j - 1] EXCEPT !.at = @ + 1] = unit(sofar + i)
        <5>1. a + 1 = sofar + i /\ out'[j - 1] = unit(a)
          BY <4>1, <4>2
        <5> HIDE DEF a
        <5>2. [unit(a) EXCEPT !.at = @ + 1] = unit(a + 1)
          OBVIOUS
        <5> QED
          BY <5>1, <5>2, Zenon
      <4> QED
        BY <3>2, <4>1, <4>3
    <3>4. CASE i = 1 /\ sofar > 0
      <4>1. n > 0 /\ j - 1 = n /\ n \in 1..n /\ out[n] = unit(sofar)
        BY <1>13, <1>15, <3>1, <3>4
      <4>2. out'[j - 1] = unit(sofar)
        BY <1>14, <4>1
      <4>3. j > 1 /\ sofar + i = sofar + 1 /\ sofar + i # 1
        BY <1>6, <1>13, <3>4, <4>1
      <4>4. [out'[j - 1] EXCEPT !.at = @ + 1] = unit(sofar + i)
        BY <4>2, <4>3
      <4> QED
        BY <3>2, <4>3, <4>4
    <3>5. CASE i = 1 /\ sofar = 0
      <4>1. out'[j].at = 1
        BY <3>2, <3>5
      <4>2. j > 1 => n > 0 /\ j - 1 = n /\ n \in 1..n
        BY <1>13, <3>1, <3>5
      <4>3. j > 1 => out'[j - 1].at = out'[j - 1].len
        BY <1>14, <1>15, <3>5, <4>2
      <4> QED
        BY <4>1, <4>3
    <3> HIDE DEF i
    <3>6. i > 1 \/ (i = 1 /\ (sofar > 0 \/ sofar = 0))
      BY <1>6, <1>8, <3>1
    <3> QED
      BY <3>3, <3>4, <3>5, <3>6
  <2> QED
    BY <1>8, <1>13, <2>1, <2>2
<1>17. TailInv'
  <2>1. /\ n + k > 0 /\ out' # <<>>
        /\ out'[Len(out')] = unit(sofar + k)
    BY <1>8, <1>13, <1>14
  <2>2. sofar + k > 0
    BY <1>6, <1>8
  <2>3. ASSUME \A y \in Writers : Writing(y)' => Sofar(y)' = 0
        PROVE  out'[Len(out')].at = out'[Len(out')].len
    <3>1. ~Writing(x)'
      BY <1>6, <1>8, <1>12, <2>2, <2>3
    <3>2. sofar + k = len
      BY <1>12, <3>1
    <3> QED
      BY <2>1, <3>2
  <2>4. ASSUME NEW y \in Writers, Writing(y)'
        PROVE  out'[Len(out')] = [by |-> y, kind |-> wr'[y].kind, at |-> Sofar(y)',
                                  len |-> HeaderLen + wr'[y].size]
    <3>1. y = x
      BY <1>11, <2>4
    <3>2. Sofar(x)' = sofar + k /\ wr'[x].kind = kind /\ HeaderLen + wr'[x].size = len
      BY <1>3, <1>4, <1>12, <2>4, <3>1 DEF len
    <3> QED
      BY <2>1, <3>1, <3>2
  <2> QED
    BY <2>1, <2>3, <2>4 DEF TailInv
<1>18. OutTypes'
  <2>1. wr' \in [Writers -> WriterTypes]
    BY <1>1, <1>2, <1>3
  <2>2. v.kind # "none"
    BY <1>3, <1>8 DEF kind
  <2>3. \A y \in Writers : /\ Writing(y)' => wr'[y].kind # "none"
                           /\ wr'[y].pc = "lock" => wr'[y].kind # "none"
    BY <1>4, <1>11, <2>2 DEF OutAll, OutTypes
  <2> QED
    BY <1>1, <1>14, <2>1, <2>3 DEF OutAll, OutTypes, WriterTypes
<1>19. WritersInv'
  <2>1. w.pc = "refuse" => x = "service" /\ size = 0 /\ ~loggedIn
    BY DEF OutAll, OutInv, WritersInv, w, size
  <2>2. w.pc # "refuse" => mutex = x
    BY <1>1 DEF OutAll, OutInv, WritersInv, w
  <2>3. ASSUME NEW y \in Writers
        PROVE  /\ wr'[y].pc \in {"head", "body", "unlock"} => mutex' = y
               /\ wr'[y].pc \in {"refuse", "refused"} => y = "service" /\ wr'[y].size = 0 /\ ~loggedIn'
               /\ Writing(y)' => wr'[y].left > 0
               /\ wr'[y].pc = "body" => wr'[y].left <= wr'[y].size
    <3>1. CASE y = x
      <4>1. wr'[y].pc \in {"head", "body", "unlock"} => mutex' = y
        BY <1>1, <1>4, <1>12, <2>2, <3>1
      <4>2. wr'[y].pc \in {"refuse", "refused"} => y = "service" /\ wr'[y].size = 0 /\ ~loggedIn'
        BY <1>1, <1>3, <1>4, <1>12, <2>1, <3>1
      <4>3. Writing(y)' => wr'[y].left > 0 /\ (wr'[y].pc = "body" => wr'[y].left <= wr'[y].size)
        BY <1>4, <1>12, <3>1
      <4>4. wr'[y].pc = "body" => Writing(y)'
        BY DEF Writing
      <4> QED
        BY <4>1, <4>2, <4>3, <4>4
    <3>2. CASE y # x
      <4>1. wr'[y] = wr[y] /\ ~Writing(y)' /\ wr'[y].pc # "body"
        BY <1>4, <1>11, <3>2 DEF Writing
      <4> QED
        BY <1>1, <4>1 DEF OutAll, OutInv, WritersInv, Writing
    <3> QED
      BY <3>1, <3>2
  <2>4. \A y \in Writers : wr'[y].pc = "idle" <=> wr[y].pc = "idle"
    BY <1>1, <1>4, <1>12 DEF w
  <2>5. /\ wr'["service"].pc # "idle" => pc' = "answer"
        /\ pc' \notin {"logout", "end"} /\ ~loggedIn' => wr'["notifier"].pc = "idle"
    BY <1>1, <2>4 DEF OutAll, OutInv, WritersInv, Writers
  <2> QED
    BY <2>3, <2>5 DEF WritersInv
<1> QED
  BY <1>16, <1>17, <1>18, <1>19 DEF OutAll, OutInv

-----------------------------------------------------------------------------
(* The theorems.                                                           *)

LEMMA OutStep == OutAll /\ [Next]_vars => OutAll'
<1> SUFFICES ASSUME OutAll, [Next]_vars
             PROVE  OutAll'
  OBVIOUS
<1>1. CASE UNCHANGED vars
  BY <1>1, OutOutside
<1>2. CASE Stopped
  BY <1>2, OutOutside DEF Stopped
<1>3. CASE ClientSends \/ ConnEnds \/ Notify
  BY <1>3, OutOutside, OutNotifies
<1>4. CASE Service
  <2>1. CASE \E k \in 1..HeaderLen : Read(k)
    BY <2>1, OutOutside
  <2>2. CASE RecvHeader \/ RecvPayload \/ RecvError \/ Ignore \/ Failed \/ Logout
    BY <2>2, OutServes
  <2>3. CASE ActLogin \/ ActLoginAgain \/ Act
    BY <2>3, OutAnswers
  <2>4. CASE Transmit("service")
    <3>1. "service" \in Writers
      BY DEF Writers
    <3> QED
      BY <2>4, <3>1, OutLocks, OutWrites, OutEnds DEF Transmit
  <2> QED
    BY <1>4, <2>1, <2>2, <2>3, <2>4 DEF Service
<1>5. CASE Transmit("notifier")
  <2>1. "notifier" \in Writers
    BY DEF Writers
  <2> QED
    BY <1>5, <2>1, OutLocks, OutWrites, OutEnds DEF Transmit
<1> QED
  BY <1>1, <1>2, <1>3, <1>4, <1>5 DEF Next, Step

\* The writers, their mutex and the stream agree in every state, for every
\* script and any number of notifications: a thread has a packet under way
\* with the mutex or, for a refused LOGIN, while nobody else may write.
THEOREM OutInvHolds == Spec => []OutInv
<1>1. OutAll => OutInv
  BY DEF OutAll
<1> QED
  BY <1>1, OutInit, OutStep, PTL DEF Spec

\* The client can tell packets apart: each is on the stream from its first
\* unit to its last before the next one starts, however the writes are cut up
\* and whoever else sends to the client (trader.h:118-119).
THEOREM OutIsWhole == Spec => []OutWhole
<1>1. OutInv => OutWhole
  BY DEF OutInv
<1> QED
  BY <1>1, OutInvHolds, PTL

-----------------------------------------------------------------------------
(* The reading side: the units of the requests.                            *)

\* The part of TypeOK that the reading side is about.
InTypes ==
  /\ script \in Scripts
  /\ coming \in Unit /\ wire \in Seq(Unit)
  /\ conn \in {"open", "eof", "reset"}
  /\ pc \in {"header", "payload", "act", "answer", "failed", "logout", "end"}
  /\ hdr \in [1..HeaderLen -> Unit \cup {Zero}] /\ block \in Seq(Unit \cup {Junk})
  /\ got \in 0..HeaderLen
  /\ served \in 0..Len(script)
  /\ acted \in Seq([type : Types, of : Nat, fields : Seq(Unit \cup {Junk})])
  /\ pointed \in BOOLEAN

\* A request has a header and at most two fields.
LEMMA UnitsBounds ==
  ASSUME script \in Scripts
  PROVE  /\ Len(script) \in Nat /\ DOMAIN script = 1..Len(script)
         /\ \A n \in DOMAIN script :
              /\ script[n] \in Types /\ PayloadLen[script[n]] \in 0..2
              /\ Units(n) = 3 + PayloadLen[script[n]] /\ Units(n) \in 3..5
<1>1. script \in Seq(Types)
  BY ScriptsAssumption
<1>2. Len(script) \in Nat /\ DOMAIN script = 1..Len(script)
  BY <1>1
<1>3. ASSUME NEW n \in DOMAIN script
      PROVE  /\ script[n] \in Types /\ PayloadLen[script[n]] \in 0..2
             /\ Units(n) = 3 + PayloadLen[script[n]] /\ Units(n) \in 3..5
  <2>1. script[n] \in Types
    BY <1>1, <1>2
  <2>2. \A t \in Types : PayloadLen[t] \in 0..2
    BY DEF Types, PayloadLen
  <2>3. Units(n) = 3 + PayloadLen[script[n]]
    BY DEF Units, HeaderLen
  <2> HIDE DEF Units
  <2> QED
    BY <2>1, <2>2, <2>3
<1> QED
  BY <1>2, <1>3

\* The unit after one of the script is of the script, or one past it, and of
\* the same request or the next.
LEMMA AfterWhole ==
  ASSUME script \in Scripts, NEW u \in Unit, Whole(u)
  PROVE  /\ After(u) \in Unit /\ u.of <= After(u).of
         /\ After(u) = IF u.at < Units(u.of) THEN [of |-> u.of, at |-> u.at + 1]
                                             ELSE [of |-> u.of + 1, at |-> 1]
         /\ Whole(After(u)) \/ After(u) = [of |-> Len(script) + 1, at |-> 1]
<1>1. /\ u.of \in 1..Len(script) /\ Units(u.of) \in 3..5 /\ u.at \in 1..Units(u.of)
      /\ u = [of |-> u.of, at |-> u.at] /\ u.of \in Nat /\ u.at \in Nat
      /\ Len(script) \in Nat /\ DOMAIN script = 1..Len(script)
  BY UnitsBounds DEF Whole, Unit
<1>2. After(u) = IF u.at < Units(u.of) THEN [of |-> u.of, at |-> u.at + 1]
                                       ELSE [of |-> u.of + 1, at |-> 1]
  BY <1>1 DEF After
<1>3. CASE u.at < Units(u.of)
  <2>1. After(u) = [of |-> u.of, at |-> u.at + 1]
    BY <1>2, <1>3
  <2>2. u.at + 1 \in 1..Units(u.of)
    BY <1>1, <1>3
  <2> QED
    BY <1>1, <1>2, <2>1, <2>2 DEF Whole, Unit
<1>4. CASE ~(u.at < Units(u.of))
  <2>1. After(u) = [of |-> u.of + 1, at |-> 1]
    BY <1>2, <1>4
  <2>2. u.of + 1 \in 1..Len(script) => Units(u.of + 1) \in 3..5
    BY <1>1, UnitsBounds
  <2>3. u.of + 1 \in 1..Len(script) \/ u.of + 1 = Len(script) + 1
    BY <1>1
  <2>4. u.of + 1 \in 1..Len(script) => Whole(After(u))
    <3> SUFFICES ASSUME u.of + 1 \in 1..Len(script)
                 PROVE  Whole(After(u))
      OBVIOUS
    <3>1. 1 \in 1..Units(u.of + 1)
      BY <2>2
    <3> QED
      BY <1>1, <2>1, <3>1 DEF Whole
  <2>5. After(u) \in Unit /\ u.of <= After(u).of
    BY <1>1, <2>1 DEF Unit
  <2> QED
    BY <1>2, <2>1, <2>3, <2>4, <2>5
<1> QED
  BY <1>3, <1>4

\* Of a whole stream the units after the r-th of request n are the next ones
\* of it, in a row, and then comes what is after the last of them.
LEMMA InARow ==
  ASSUME InTypes, StreamInv, NEW n \in Nat, NEW r \in Nat, NEW k \in 1..3,
         k <= Len(wire), Upcoming(1) = [of |-> n, at |-> r + 1],
         r + k <= Units(n)
  PROVE  /\ n \in DOMAIN script
         /\ \A j \in 1..k : wire[j] = [of |-> n, at |-> r + j]
         /\ Upcoming(k + 1) = IF r + k < Units(n) THEN [of |-> n, at |-> (r + k) + 1]
                                                  ELSE [of |-> n + 1, at |-> 1]
<1>1. /\ Len(wire) \in Nat /\ DOMAIN wire = 1..Len(wire) /\ \A j \in 1..Len(wire) : wire[j] \in Unit
  BY DEF InTypes
<1>2. \A j \in 1..Len(wire) :
        /\ Whole(wire[j])
        /\ wire[j] = Upcoming(j)
        /\ Upcoming(j + 1) = IF wire[j].at < Units(wire[j].of)
                               THEN [of |-> wire[j].of, at |-> wire[j].at + 1]
                               ELSE [of |-> wire[j].of + 1, at |-> 1]
  <2> TAKE j \in 1..Len(wire)
  <2>1. Whole(wire[j]) /\ Upcoming(j + 1) = After(wire[j])
    BY <1>1 DEF StreamInv
  <2>2. wire[j] = Upcoming(j)
    BY <1>1 DEF Upcoming
  <2>3. wire[j] \in Unit /\ script \in Scripts
    BY <1>1 DEF InTypes
  <2>4. After(wire[j]) = IF wire[j].at < Units(wire[j].of)
                           THEN [of |-> wire[j].of, at |-> wire[j].at + 1]
                           ELSE [of |-> wire[j].of + 1, at |-> 1]
    BY <2>1, <2>3, AfterWhole
  <2> QED
    BY <2>1, <2>2, <2>4, Zenon
<1>3. wire[1] = [of |-> n, at |-> r + 1] /\ n \in DOMAIN script /\ Units(n) \in 3..5
  <2>1. 1 \in 1..Len(wire)
    BY <1>1
  <2>2. wire[1] = [of |-> n, at |-> r + 1] /\ Whole(wire[1])
    BY <1>2, <2>1
  <2>3. n \in DOMAIN script
    BY <2>2 DEF Whole
  <2> QED
    BY <2>2, <2>3, UnitsBounds DEF InTypes
<1> HIDE DEF Units
\* One after another.
<1>4. ASSUME NEW j \in 1..3, j <= k, wire[j] = [of |-> n, at |-> r + j]
      PROVE  /\ r + j < Units(n) => Upcoming(j + 1) = [of |-> n, at |-> (r + j) + 1]
             /\ ~(r + j < Units(n)) => Upcoming(j + 1) = [of |-> n + 1, at |-> 1]
  <2>1. j \in 1..Len(wire) /\ wire[j].at = r + j /\ wire[j].of = n
    BY <1>1, <1>4
  <2> QED
    BY <1>2, <2>1
<1>5. ASSUME NEW j \in 1..2, j + 1 <= k, wire[j] = [of |-> n, at |-> r + j]
      PROVE  wire[j + 1] = [of |-> n, at |-> r + (j + 1)]
  <2>1. r + j < Units(n) /\ j \in 1..3 /\ j <= k /\ (r + j) + 1 = r + (j + 1) /\ j + 1 \in 1..Len(wire)
    BY <1>1, <1>3, <1>5
  <2>2. Upcoming(j + 1) = [of |-> n, at |-> r + (j + 1)]
    BY <1>4, <1>5, <2>1
  <2> QED
    BY <1>2, <2>1, <2>2
<1>6. \A j \in 1..k : wire[j] = [of |-> n, at |-> r + j]
  <2>1. 2 <= k => wire[2] = [of |-> n, at |-> r + 2]
    BY <1>3, <1>5
  <2>2. 3 <= k => wire[3] = [of |-> n, at |-> r + 3]
    BY <1>5, <2>1
  <2> QED
    BY <1>3, <2>1, <2>2
<1> QED
  BY <1>3, <1>4, <1>6

\* The client sends the next unit.
LEMMA StreamSends ==
  ASSUME InTypes, StreamInv, ClientSends
  PROVE  /\ StreamInv' /\ Upcoming(1)' = Upcoming(1)
         /\ coming' \in Unit /\ wire' \in Seq(Unit)
<1>1. /\ Len(wire) \in Nat /\ DOMAIN wire = 1..Len(wire) /\ \A j \in 1..Len(wire) : wire[j] \in Unit
      /\ coming \in Unit /\ script \in Scripts
  BY DEF InTypes
<1>2. Whole(coming)
  BY <1>1, UnitsBounds DEF ClientSends, StreamInv
<1>3. /\ script' = script /\ coming' = After(coming)
      /\ wire' = Append(wire, coming)
  BY DEF ClientSends
<1>4. /\ coming' \in Unit /\ coming.of <= coming'.of
      /\ Whole(coming') \/ coming' = [of |-> Len(script) + 1, at |-> 1]
  BY <1>1, <1>2, <1>3, AfterWhole
<1>5. /\ wire' \in Seq(Unit) /\ Len(wire') = Len(wire) + 1
      /\ DOMAIN wire' = 1..(Len(wire) + 1)
      /\ \A j \in 1..Len(wire) : wire'[j] = wire[j]
      /\ wire'[Len(wire) + 1] = coming
  BY <1>1, <1>3 DEF InTypes
<1>6. \A i \in 1..(Len(wire) + 1) : Upcoming(i)' = Upcoming(i)
  BY <1>1, <1>5 DEF Upcoming
<1>7. ASSUME NEW i \in 1..(Len(wire) + 1)
      PROVE  (Whole(wire[i]) /\ wire[i].of <= coming.of /\ Upcoming(i + 1) = After(wire[i]))'
  <2>1. CASE i \in 1..Len(wire)
    <3>1. wire'[i] = wire[i] /\ wire[i] \in Unit
      BY <1>1, <1>5, <2>1
    <3>2. Whole(wire[i]) /\ wire[i].of <= coming.of /\ Upcoming(i + 1) = After(wire[i])
      BY <1>1, <2>1 DEF StreamInv
    <3>3. i + 1 \in 1..(Len(wire) + 1)
      BY <1>1, <2>1
    <3>4. Upcoming(i + 1)' = After(wire[i])
      BY <1>6, <3>2, <3>3
    <3>5. After(wire[i])' = After(wire[i]) /\ Whole(wire[i])'
      BY <1>3, <3>1, <3>2 DEF Whole, After, Units
    <3>6. wire[i].of <= coming'.of
      BY <1>1, <1>4, <3>1, <3>2 DEF Unit
    <3> QED
      BY <3>1, <3>4, <3>5, <3>6
  <2>2. CASE i = Len(wire) + 1
    <3>1. wire'[i] = coming
      BY <1>5, <2>2
    <3>2. Whole(wire[i])' /\ After(wire[i])' = After(coming)
      BY <1>2, <1>3, <3>1 DEF Whole, After, Units
    <3>3. ~(i + 1 <= Len(wire'))
      BY <1>1, <1>5, <2>2
    <3>4. Upcoming(i + 1)' = After(wire[i])'
      BY <1>3, <3>2, <3>3 DEF Upcoming
    <3> QED
      BY <1>4, <3>1, <3>2, <3>4
  <2> QED
    BY <1>1, <2>1, <2>2
<1>8. Whole(coming)' \/ coming' = [of |-> Len(script') + 1, at |-> 1]
  BY <1>3, <1>4 DEF Whole, Units
<1>9. StreamInv'
  BY <1>5, <1>7, <1>8 DEF StreamInv
<1>10. 1 \in 1..(Len(wire) + 1)
  BY <1>1
<1> QED
  BY <1>4, <1>5, <1>6, <1>9, <1>10

\* The server takes the first k units.
LEMMA StreamReads ==
  ASSUME InTypes, StreamInv, NEW k \in 1..3, k <= Len(wire),
         wire' = SubSeq(wire, k + 1, Len(wire)), UNCHANGED <<script, coming>>
  PROVE  /\ StreamInv' /\ Upcoming(1)' = Upcoming(k + 1)
         /\ wire' \in Seq(Unit)
<1>1. /\ Len(wire) \in Nat /\ DOMAIN wire = 1..Len(wire) /\ \A j \in 1..Len(wire) : wire[j] \in Unit
      /\ wire \in Seq(Unit)
  BY DEF InTypes
<1>2. /\ wire' \in Seq(Unit) /\ Len(wire') = Len(wire) - k
      /\ DOMAIN wire' = 1..(Len(wire) - k)
      /\ \A j \in 1..(Len(wire) - k) : wire'[j] = wire[k + j]
  <2>1. /\ wire' \in Seq(Unit)
        /\ Len(wire') = IF k + 1 <= Len(wire) THEN (Len(wire) - (k + 1)) + 1 ELSE 0
        /\ \A j \in 1..((Len(wire) - (k + 1)) + 1) : wire'[j] = wire[(k + 1) + (j - 1)]
    <3> DEFINE m == k + 1
    <3>1. m \in Int /\ Len(wire) \in Int /\ \A i \in m..Len(wire) : wire[i] \in Unit
      BY <1>1
    <3> HIDE DEF m
    <3>2. /\ SubSeq(wire, m, Len(wire)) \in Seq(Unit)
          /\ Len(SubSeq(wire, m, Len(wire))) = IF m <= Len(wire) THEN (Len(wire) - m) + 1 ELSE 0
          /\ \A i \in 1..((Len(wire) - m) + 1) : SubSeq(wire, m, Len(wire))[i] = wire[m + (i - 1)]
      BY <3>1, SubSeqProperties
    <3> QED
      BY <3>2 DEF m
  <2>2. Len(wire') = Len(wire) - k /\ (Len(wire) - (k + 1)) + 1 = Len(wire) - k
    <3> DEFINE n == Len(wire)
    <3>1. n \in Nat /\ k <= n /\ Len(wire') = IF k + 1 <= n THEN (n - (k + 1)) + 1 ELSE 0
      BY <1>1, <2>1
    <3> HIDE DEF n
    <3>2. (n - (k + 1)) + 1 = n - k /\ (~(k + 1 <= n) => n - k = 0)
      BY <3>1
    <3>3. Len(wire') = n - k
      BY <3>1, <3>2
    <3> QED
      BY <3>2, <3>3 DEF n
  <2>3. DOMAIN wire' = 1..Len(wire')
    BY <2>1
  <2>4. \A j \in 1..(Len(wire) - k) : (k + 1) + (j - 1) = k + j
    BY <1>1
  <2> QED
    BY <2>1, <2>2, <2>3, <2>4
<1>3. \A i \in 1..((Len(wire) - k) + 1) : Upcoming(i)' = Upcoming(k + i)
  <2> TAKE i \in 1..((Len(wire) - k) + 1)
  <2>1. CASE i <= Len(wire) - k
    <3>1. i \in 1..(Len(wire) - k) /\ k + i <= Len(wire)
      BY <1>1, <2>1
    <3> QED
      BY <1>2, <3>1 DEF Upcoming
  <2>2. CASE ~(i <= Len(wire) - k)
    <3>1. ~(k + i <= Len(wire))
      BY <1>1, <2>2
    <3> QED
      BY <1>2, <2>2, <3>1 DEF Upcoming
  <2> QED
    BY <2>1, <2>2
<1>4. ASSUME NEW i \in 1..(Len(wire) - k)
      PROVE  (Whole(wire[i]) /\ wire[i].of <= coming.of /\ Upcoming(i + 1) = After(wire[i]))'
  <2>1. /\ k + i \in 1..Len(wire) /\ i + 1 \in 1..((Len(wire) - k) + 1)
        /\ k + (i + 1) = (k + i) + 1
    BY <1>1
  <2>2. Whole(wire[k + i]) /\ wire[k + i].of <= coming.of /\ Upcoming((k + i) + 1) = After(wire[k + i])
    BY <1>1, <2>1 DEF StreamInv
  <2>3. wire'[i] = wire[k + i]
    BY <1>2
  <2>4. Upcoming(i + 1)' = Upcoming((k + i) + 1)
    BY <1>3, <2>1
  <2>5. Whole(wire[i])' /\ After(wire[i])' = After(wire[k + i])
    BY <2>2, <2>3 DEF Whole, After, Units
  <2> QED
    BY <2>2, <2>3, <2>4, <2>5
<1>5. Whole(coming)' \/ coming' = [of |-> Len(script') + 1, at |-> 1]
  BY DEF StreamInv, Whole, Units
<1>6. StreamInv'
  BY <1>2, <1>4, <1>5 DEF StreamInv
<1>7. 1 \in 1..((Len(wire) - k) + 1)
  BY <1>1
<1> QED
  BY <1>2, <1>3, <1>6, <1>7

-----------------------------------------------------------------------------
(* Steps of the client, the network and the writers.                       *)

InAll == InTypes /\ ReadInv

\* What the types say of numbers and sequences.
LEMMA InFacts ==
  ASSUME InTypes
  PROVE  /\ served \in Nat /\ served + 1 \in Nat /\ (served + 1) + 1 \in Nat /\ got \in Nat
         /\ Len(script) \in Nat /\ DOMAIN script = 1..Len(script)
         /\ \A n \in DOMAIN script :
              /\ n \in Nat /\ script[n] \in Types /\ PayloadLen[script[n]] \in 0..2
              /\ Units(n) = 3 + PayloadLen[script[n]] /\ Units(n) \in 3..5
         /\ Len(acted) \in Nat /\ DOMAIN acted = 1..Len(acted)
         /\ \A i \in DOMAIN acted : acted[i].of \in Nat
<1>1. script \in Scripts /\ served \in 0..Len(script) /\ got \in 0..3
  BY DEF InTypes, HeaderLen
<1>2. /\ Len(script) \in Nat /\ DOMAIN script = 1..Len(script)
      /\ \A n \in DOMAIN script :
           /\ script[n] \in Types /\ PayloadLen[script[n]] \in 0..2
           /\ Units(n) = 3 + PayloadLen[script[n]] /\ Units(n) \in 3..5
  BY <1>1, UnitsBounds
<1>3. served \in Nat /\ served + 1 \in Nat /\ (served + 1) + 1 \in Nat /\ got \in Nat
  BY <1>1, <1>2
<1>4. acted \in Seq([type : Types, of : Nat, fields : Seq(Unit \cup {Junk})])
  BY DEF InTypes
<1>5. Len(acted) \in Nat /\ DOMAIN acted = 1..Len(acted)
  BY <1>4
<1>6. ASSUME NEW i \in DOMAIN acted
      PROVE  acted[i].of \in Nat
  <2> DEFINE A == [type : Types, of : Nat, fields : Seq(Unit \cup {Junk})]
  <2>1. acted[i] \in A
    <3>1. acted \in Seq(A)
      BY <1>4
    <3> HIDE DEF A
    <3> QED
      BY <1>5, <3>1
  <2> QED
    BY <2>1
<1>7. \A n \in DOMAIN script : n \in Nat
  BY <1>2
<1> QED
  BY <1>2, <1>3, <1>5, <1>6, <1>7

\* The server is where it was, and a request that was cut short stays so.
LEMMA ReadKeeps ==
  ASSUME InAll, InTypes', StreamInv',
         UNCHANGED <<script, pc, hdr, block, pointed, got, served, acted>>,
         Upcoming(1)' = Upcoming(1),
         \A n \in Nat : /\ Torn(n) => Torn(n)'
                        /\ Drained(n) => Drained(n)'
  PROVE  InAll'
<1>1. /\ served \in Nat /\ served + 1 \in Nat /\ (served + 1) + 1 \in Nat
      /\ \A n \in DOMAIN script : PayloadLen[script[n]] \in Nat
  BY InFacts DEF InAll
<1> DEFINE m == served + 1
<1>2. /\ m \in Nat /\ m + 1 \in Nat /\ m' = m /\ m = served + 1
      /\ \A n, r : HeaderOf(n, r)' = HeaderOf(n, r)
  BY <1>1 DEF HeaderOf
<1> HIDE DEF m
<1>3. \A n \in Nat, r \in Nat : Place(n, r) => Place(n, r)'
  BY DEF Place, Units
<1>4. \A n \in Nat, r \in Nat : Filled(n, r) => Filled(n, r)'
  BY DEF Filled
<1>5. got \in Nat /\ HeaderLen + got \in Nat
  BY DEF InAll, InTypes, HeaderLen
<1>6. ASSUME pc = "header"
      PROVE  HeaderInv'
  <2>1. HeaderInv
    BY <1>6 DEF InAll, ReadInv
  <2> QED
    BY <1>2, <1>1, <1>3, <1>5, <2>1 DEF HeaderInv
<1>7. ASSUME pc = "payload"
      PROVE  PayloadInv'
  <2>1. PayloadInv
    BY <1>7 DEF InAll, ReadInv
  <2> QED
    BY <1>2, <1>1, <1>3, <1>4, <1>5, <2>1 DEF PayloadInv, HeaderLen
<1>8. ASSUME pc = "act"
      PROVE  ActInv'
  <2>1. ActInv
    BY <1>8 DEF InAll, ReadInv
  <2>2. m \in DOMAIN script /\ PayloadLen[script[m]] \in Nat
    BY <1>2, <1>1, <2>1 DEF ActInv
  <2>3. /\ Place(m + 1, 0) => Place(m + 1, 0)'
        /\ Drained(m) => Drained(m)'
        /\ Filled(m, PayloadLen[script[m]]) => Filled(m, PayloadLen[script[m]])'
    BY <1>2, <1>3, <1>4, <2>2
  <2> QED
    BY <1>2, <2>1, <2>3 DEF ActInv, HeaderLen
<1>9. ASSUME pc = "answer"
      PROVE  AnswerInv'
  <2>1. AnswerInv
    BY <1>9 DEF InAll, ReadInv
  <2> QED
    BY <1>1, <1>3, <2>1 DEF AnswerInv
<1>10. (OwnPayload /\ \A i \in DOMAIN acted : acted[i].of <= served)'
  <2>1. OwnPayload /\ \A i \in DOMAIN acted : acted[i].of <= served
    BY DEF InAll, ReadInv
  <2>2. \A i \in DOMAIN acted : acted[i].of \in Nat
    BY InFacts DEF InAll
  <2> QED
    BY <2>1, <2>2 DEF OwnPayload
<1> QED
  BY <1>6, <1>7, <1>8, <1>9, <1>10 DEF InAll, ReadInv

\* Of the reading side only the state of the connection changes.
LEMMA ReadOthers ==
  ASSUME InAll, UNCHANGED <<script, coming, wire, pc, buffer, served, acted>>,
         conn' \in {"open", "eof", "reset"}, conn' = "open" => conn = "open"
  PROVE  InAll'
<1>1. InTypes'
  BY DEF InAll, InTypes, buffer
<1>2. StreamInv'
  BY DEF InAll, ReadInv, StreamInv, Upcoming, Whole, After, Units
<1>3. Upcoming(1)' = Upcoming(1)
  BY DEF Upcoming
<1>4. \A n \in Nat : /\ Torn(n) => Torn(n)'
                     /\ Drained(n) => Drained(n)'
  BY DEF Torn, Drained
<1> QED
  BY <1>1, <1>2, <1>3, <1>4, ReadKeeps DEF buffer

LEMMA ReadSends ==
  ASSUME InAll, ClientSends
  PROVE  InAll'
<1>1. /\ StreamInv' /\ Upcoming(1)' = Upcoming(1)
      /\ coming' \in Unit /\ wire' \in Seq(Unit)
  BY StreamSends DEF InAll, ReadInv
<1>2. /\ UNCHANGED <<script, conn, pc, hdr, block, pointed, got, served, acted>>
      /\ conn = "open"
  BY DEF ClientSends, buffer, hist
<1>3. InTypes'
  BY <1>1, <1>2 DEF InAll, InTypes
<1>4. \A n \in Nat : ~Torn(n) /\ ~Drained(n)
  BY <1>2 DEF Torn, Drained
<1> QED
  BY <1>1, <1>2, <1>3, <1>4, ReadKeeps

\* The service loop ends, by an error or at end of file.
LEMMA ReadLeaves ==
  ASSUME InAll, RecvError \/ Failed \/ Logout
  PROVE  InAll'
<1>1. UNCHANGED <<script, coming, wire, conn, hdr, block, pointed, got, served, acted>>
  BY DEF RecvError, Failed, Logout, input, buffer, hist
<1>2. pc' \in {"failed", "logout", "end"}
  BY DEF RecvError, Failed, Logout
<1>3. InTypes'
  BY <1>1, <1>2 DEF InAll, InTypes
<1>4. StreamInv'
  BY <1>1 DEF InAll, ReadInv, StreamInv, Upcoming, Whole, After, Units
<1>5. (OwnPayload /\ \A i \in DOMAIN acted : acted[i].of <= served)'
  BY <1>1 DEF InAll, ReadInv, OwnPayload, Torn
<1> QED
  BY <1>2, <1>3, <1>4, <1>5 DEF InAll, ReadInv

-----------------------------------------------------------------------------
(* proto_recv_packet.                                                      *)

\* What a read finds next is where the server is.
LEMMA NextIsHere ==
  ASSUME InAll, NEW k \in 1..3, k <= Len(wire), NEW n \in Nat, NEW r \in Nat,
         Place(n, r), r = 0 \/ (n \in DOMAIN script /\ r < Units(n))
  PROVE  /\ Upcoming(1) = [of |-> n, at |-> r + 1] /\ n \in DOMAIN script
         /\ \A m \in Nat : ~Drained(m)
<1>1. Upcoming(1) = [of |-> n, at |-> r + 1]
  BY DEF Place
<1>2. /\ Len(wire) \in Nat /\ DOMAIN wire = 1..Len(wire)
  BY DEF InAll, InTypes
<1>3. 1 \in 1..Len(wire) /\ wire # <<>>
  BY <1>2
<1>4. wire[1] = Upcoming(1)
  BY <1>3 DEF Upcoming
<1>5. Whole(wire[1])
  BY <1>2, <1>3 DEF InAll, ReadInv, StreamInv
<1> QED
  BY <1>1, <1>3, <1>4, <1>5 DEF Whole, Drained

\* A read of the header.
LEMMA ReadHeader ==
  ASSUME InAll, NEW k \in 1..HeaderLen, Read(k), pc = "header"
  PROVE  InAll'
<1> DEFINE n == served + 1
           r == got
<1>1. n \in Nat /\ r \in Nat /\ r <= 3 /\ k \in 1..3
  BY InFacts DEF InAll, InTypes, HeaderLen
<1>2. /\ k <= 3 - r /\ k <= Len(wire)
      /\ wire' = SubSeq(wire, k + 1, Len(wire)) /\ got' = r + k
      /\ hdr' = Fill(hdr, k)
      /\ UNCHANGED <<script, coming, conn, pc, block, pointed, served, acted>>
  BY DEF Read, Want, HeaderLen, hist
<1>3. HeaderInv
  BY DEF InAll, ReadInv
<1>4. /\ StreamInv' /\ Upcoming(1)' = Upcoming(k + 1) /\ wire' \in Seq(Unit)
  BY <1>1, <1>2, StreamReads DEF InAll, ReadInv
<1>5. r < 3 /\ r + k <= 3
  BY <1>1, <1>2
<1>6. \A m \in DOMAIN script : Units(m) \in 3..5
  BY InFacts DEF InAll
<1>7. r = 0 \/ (n \in DOMAIN script /\ r < Units(n))
  BY <1>1, <1>3, <1>5, <1>6 DEF HeaderInv
<1>8. Place(n, r)
  <2>1. wire # <<>>
    BY <1>1, <1>2
  <2> QED
    BY <1>3, <2>1 DEF HeaderInv, Drained
<1>9. Upcoming(1) = [of |-> n, at |-> r + 1] /\ n \in DOMAIN script
  <2> HIDE DEF n, r
  <2> QED
    BY <1>1, <1>2, <1>7, <1>8, NextIsHere
<1>10. Units(n) \in 3..5 /\ r + k <= Units(n)
  <2> HIDE DEF n, r
  <2> QED
    BY <1>1, <1>5, <1>6, <1>9
<1>11. /\ \A j \in 1..k : wire[j] = [of |-> n, at |-> r + j]
       /\ Upcoming(k + 1) = IF r + k < Units(n) THEN [of |-> n, at |-> (r + k) + 1]
                                                ELSE [of |-> n + 1, at |-> 1]
  <2> HIDE DEF n, r
  <2> QED
    BY <1>1, <1>2, <1>9, <1>10, InARow DEF InAll, ReadInv
<1>12. hdr = HeaderOf(n, r)
  BY <1>3 DEF HeaderInv
<1>13. n' = n
  BY <1>2
<1> HIDE DEF n
<1>14. hdr' = HeaderOf(n, r + k)
  <2>1. hdr' = [i \in 1..3 |-> IF i \in (r + 1)..(r + k) THEN wire[i - r] ELSE hdr[i]]
    BY <1>2, <1>12 DEF Fill, HeaderOf, HeaderLen
  <2>2. \A i \in 1..3 : hdr[i] = IF i <= r THEN [of |-> n, at |-> i] ELSE Zero
    BY <1>12 DEF HeaderOf, HeaderLen
  <2>3. ASSUME NEW i \in 1..3
        PROVE  (IF i \in (r + 1)..(r + k) THEN wire[i - r] ELSE hdr[i])
                 = IF i <= r + k THEN [of |-> n, at |-> i] ELSE Zero
    <3> HIDE DEF r
    <3>1. CASE i \in (r + 1)..(r + k)
      <4>1. i - r \in 1..k /\ r + (i - r) = i /\ i <= r + k
        BY <1>1, <3>1
      <4> QED
        BY <1>11, <3>1, <4>1
    <3>2. CASE i \notin (r + 1)..(r + k)
      <4>1. i <= r \/ ~(i <= r + k)
        BY <1>1, <3>2
      <4>2. i <= r => i <= r + k
        BY <1>1
      <4> QED
        BY <2>2, <3>2, <4>1, <4>2
    <3> QED
      BY <3>1, <3>2
  <2> HIDE DEF r
  <2> QED
    BY <2>1, <2>3 DEF HeaderOf, HeaderLen
<1>15. Place(n, got)'
  <2>1. got' = r + k /\ Units(n)' = Units(n)
    BY <1>2, <1>13 DEF Units
  <2>2. Upcoming(1)' = IF r + k < Units(n) THEN [of |-> n, at |-> (r + k) + 1]
                                           ELSE [of |-> n + 1, at |-> 1]
    BY <1>4, <1>11
  <2>3. r + k # 0
    BY <1>1
  <2> QED
    BY <1>13, <2>1, <2>2, <2>3 DEF Place
<1>16. HeaderInv'
  <2>1. n = served + 1 /\ n' = served' + 1 /\ DOMAIN script' = DOMAIN script
    BY <1>2, <1>13 DEF n
  <2>2. hdr' = HeaderOf(n, got)'
    BY <1>2, <1>13, <1>14 DEF HeaderOf, HeaderLen
  <2> QED
    BY <1>9, <1>13, <1>15, <2>1, <2>2 DEF HeaderInv
<1>17. InTypes'
  <2>1. got' \in 0..3
    BY <1>1, <1>2, <1>5
  <2>2. \A i \in 1..3 : [of |-> n, at |-> i] \in Unit
    BY <1>1 DEF Unit
  <2>3. hdr' \in [1..3 -> Unit \cup {Zero}]
    <3> DEFINE g == r + k
    <3> HIDE DEF g
    <3>1. HeaderOf(n, g) \in [1..3 -> Unit \cup {Zero}]
      BY <2>2 DEF HeaderOf, HeaderLen
    <3> QED
      BY <1>14, <3>1 DEF g
  <2> QED
    BY <1>2, <1>4, <2>1, <2>3 DEF InAll, InTypes, HeaderLen
<1>18. (OwnPayload /\ \A i \in DOMAIN acted : acted[i].of <= served)'
  BY <1>2 DEF InAll, ReadInv, OwnPayload, Torn
<1> QED
  BY <1>2, <1>4, <1>16, <1>17, <1>18 DEF InAll, ReadInv

\* A read of the payload.
LEMMA ReadPayload ==
  ASSUME InAll, NEW k \in 1..HeaderLen, Read(k), pc = "payload"
  PROVE  InAll'
<1> DEFINE n == served + 1
           r == got
           len == Len(block)
<1>1. n \in Nat /\ r \in Nat /\ k \in 1..3 /\ len \in Nat
  BY InFacts DEF InAll, InTypes, HeaderLen
<1>2. /\ k <= len - r /\ k <= Len(wire)
      /\ wire' = SubSeq(wire, k + 1, Len(wire)) /\ got' = r + k
      /\ block' = Fill(block, k)
      /\ UNCHANGED <<script, coming, conn, pc, hdr, pointed, served, acted>>
  BY DEF Read, Want, hist
<1>3. PayloadInv
  BY DEF InAll, ReadInv
<1>4. /\ StreamInv' /\ Upcoming(1)' = Upcoming(k + 1) /\ wire' \in Seq(Unit)
  BY <1>1, <1>2, StreamReads DEF InAll, ReadInv
<1>5. n \in DOMAIN script /\ len = PayloadLen[script[n]] /\ len > 0 /\ pointed /\ Filled(n, r)
  BY <1>3 DEF PayloadInv
<1>6. Units(n) = 3 + len /\ Units(n) \in 3..5
  BY <1>5, InFacts DEF InAll
<1>7. hdr = HeaderOf(n, HeaderLen) /\ Place(n, 3 + r)
  <2>1. wire # <<>>
    BY <1>1, <1>2
  <2> QED
    BY <1>3, <2>1 DEF PayloadInv, Drained, HeaderLen
<1>8. /\ block \in Seq(Unit \cup {Junk}) /\ DOMAIN block = 1..len
      /\ n' = n
  BY <1>2 DEF InAll, InTypes
<1>9. block' = [i \in 1..len |-> IF i \in (r + 1)..(r + k) THEN wire[i - r] ELSE block[i]]
  BY <1>2, <1>8 DEF Fill
<1>10. \A i \in 1..r : block[i] = [of |-> n, at |-> 3 + i]
  BY <1>5 DEF Filled, HeaderLen
<1>11. \A i \in 1..len : block[i] \in Unit \cup {Junk}
  BY <1>8
<1>12. got' = r + k /\ r + k <= len /\ len <= 2
  BY <1>1, <1>2, <1>6
<1> HIDE DEF n, r, len
<1>13. 3 + r \in Nat /\ 3 + r < Units(n) /\ (3 + r) + k <= Units(n) /\ r < len
  BY <1>1, <1>2, <1>6
<1>14. Upcoming(1) = [of |-> n, at |-> (3 + r) + 1]
  BY <1>1, <1>2, <1>5, <1>7, <1>13, NextIsHere
<1>15. /\ \A j \in 1..k : wire[j] = [of |-> n, at |-> (3 + r) + j]
       /\ Upcoming(k + 1) = IF (3 + r) + k < Units(n) THEN [of |-> n, at |-> ((3 + r) + k) + 1]
                                                      ELSE [of |-> n + 1, at |-> 1]
  <2> DEFINE p == 3 + r
  <2>1. p \in Nat /\ p + k <= Units(n) /\ Upcoming(1) = [of |-> n, at |-> p + 1]
    BY <1>13, <1>14
  <2> HIDE DEF p
  <2>2. /\ \A j \in 1..k : wire[j] = [of |-> n, at |-> p + j]
        /\ Upcoming(k + 1) = IF p + k < Units(n) THEN [of |-> n, at |-> (p + k) + 1]
                                                 ELSE [of |-> n + 1, at |-> 1]
    BY <1>1, <1>2, <2>1, InARow DEF InAll, ReadInv
  <2> QED
    BY <2>2 DEF p
<1>16. \A i \in (r + 1)..(r + k) : wire[i - r] = [of |-> n, at |-> 3 + i]
  <2> TAKE i \in (r + 1)..(r + k)
  <2>1. i - r \in 1..k /\ (3 + r) + (i - r) = 3 + i
    BY <1>1
  <2> QED
    BY <1>15, <2>1
<1>17. block' \in Seq(Unit \cup {Junk}) /\ Len(block') = len
  <2>1. \A i \in 1..len : (IF i \in (r + 1)..(r + k) THEN wire[i - r] ELSE block[i]) \in Unit \cup {Junk}
    <3> TAKE i \in 1..len
    <3>1. 3 + i \in Nat
      OBVIOUS
    <3>2. [of |-> n, at |-> 3 + i] \in Unit
      BY <1>1, <3>1 DEF Unit
    <3> QED
      BY <1>11, <1>16, <3>2
  <2> DEFINE B == Unit \cup {Junk}
             b(i) == IF i \in (r + 1)..(r + k) THEN wire[i - r] ELSE block[i]
  <2>2. block' = [i \in 1..len |-> b(i)] /\ \A i \in 1..len : b(i) \in B
    BY <1>9, <2>1
  <2> HIDE DEF B, b
  <2>3. block' \in Seq(B) /\ Len(block') = len
    BY <1>1, <2>2
  <2> QED
    BY <2>3 DEF B
<1>18. Filled(n, got)'
  <2>1. \A i \in 1..(r + k) : block'[i] = [of |-> n, at |-> 3 + i]
    <3> TAKE i \in 1..(r + k)
    <3>1. i \in 1..len /\ (i \in (r + 1)..(r + k) \/ i \in 1..r)
      BY <1>1, <1>12
    <3>2. i \in 1..r => i \notin (r + 1)..(r + k)
      BY <1>1
    <3> QED
      BY <1>9, <1>10, <1>16, <3>1, <3>2
  <2> QED
    BY <1>8, <1>12, <1>17, <2>1 DEF Filled, HeaderLen
<1>19. Place(n, 3 + got)'
  <2>1. 3 + got' = (3 + r) + k /\ Units(n)' = Units(n) /\ 3 + got' # 0
    BY <1>1, <1>2, <1>8, <1>12 DEF Units
  <2> QED
    BY <1>4, <1>8, <1>15, <2>1 DEF Place
<1>20. PayloadInv'
  <2>1. /\ n = served + 1 /\ n' = served' + 1
        /\ DOMAIN script' = DOMAIN script /\ script' = script /\ Len(block') = len
    BY <1>2, <1>8, <1>17 DEF n
  <2>2. hdr' = HeaderOf(n, HeaderLen)'
    BY <1>2, <1>7, <1>8 DEF HeaderOf, HeaderLen
  <2>3. pointed' /\ Place(n, HeaderLen + got)'
    BY <1>2, <1>5, <1>19 DEF HeaderLen
  <2> QED
    BY <1>5, <1>8, <1>18, <2>1, <2>2, <2>3 DEF PayloadInv
<1>21. InTypes'
  <2>1. got' \in 0..3
    BY <1>1, <1>12
  <2> QED
    BY <1>2, <1>4, <1>17, <2>1 DEF InAll, InTypes, HeaderLen
<1>22. (OwnPayload /\ \A i \in DOMAIN acted : acted[i].of <= served)'
  BY <1>2 DEF InAll, ReadInv, OwnPayload, Torn
<1> QED
  BY <1>2, <1>4, <1>20, <1>21, <1>22 DEF InAll, ReadInv

\* At end of file inside a request there is nothing more to read.
LEMMA CutShort ==
  ASSUME NEW n \in Nat, NEW r \in Nat, 0 < r, r < Units(n), Place(n, r),
         conn # "open", wire = <<>>
  PROVE  Drained(n)
<1>1. Upcoming(1) = coming
  BY DEF Upcoming
<1>2. coming = [of |-> n, at |-> r + 1]
  BY <1>1 DEF Place
<1>3. coming.of = n /\ coming.at > 1
  BY <1>2
<1> QED
  BY <1>3 DEF Drained, Torn

\* Between two requests the server is at the first unit of the next.
LEMMA BetweenTwo ==
  ASSUME NEW n \in Nat, NEW r \in Nat, 0 < r, r = Units(n), Place(n, r)
  PROVE  Place(n + 1, 0)
<1>1. Upcoming(1) = [of |-> n + 1, at |-> 1]
  <2>1. ~(r = 0 \/ r < Units(n))
    <3> HIDE DEF Units
    <3> QED
      OBVIOUS
  <2> QED
    BY <2>1 DEF Place
<1> QED
  BY <1>1 DEF Place

\* What is read off a header that was read up to its r-th unit.
LEMMA HeaderSays ==
  ASSUME InTypes, NEW n \in DOMAIN script, NEW r \in 1..3, hdr = HeaderOf(n, r)
  PROVE  /\ hdr[1] = [of |-> n, at |-> 1] /\ hdr[1] # Zero /\ TypeIn(hdr) = script[n]
         /\ SizeIn(hdr) = IF r >= 2 THEN PayloadLen[script[n]] ELSE 0
<1>1. n \in Nat
  BY InFacts
<1>2. [of |-> n, at |-> 1] \in Unit /\ [of |-> n, at |-> 2] \in Unit
  BY <1>1 DEF Unit
<1>3. [of |-> n, at |-> 1] # Zero /\ [of |-> n, at |-> 2] # Zero
  BY <1>2, MemoryAssumption
<1>4. hdr[1] = [of |-> n, at |-> 1] /\ hdr[2] = IF 2 <= r THEN [of |-> n, at |-> 2] ELSE Zero
  BY DEF HeaderOf, HeaderLen
<1>5. TypeIn(hdr) = script[n]
  BY <1>3, <1>4 DEF TypeIn
<1>6. CASE r >= 2
  <2>1. hdr[2] = [of |-> n, at |-> 2]
    BY <1>4, <1>6
  <2> QED
    BY <1>3, <1>4, <1>5, <1>6, <2>1 DEF SizeIn
<1>7. CASE ~(r >= 2)
  <2>1. hdr[2] = Zero
    BY <1>4, <1>7
  <2> QED
    BY <1>3, <1>4, <1>5, <1>7, <2>1 DEF SizeIn
<1> QED
  BY <1>6, <1>7

\* The stream and what was carried out are as they were.
LEMMA ReadStill ==
  ASSUME InAll, UNCHANGED <<input, served, acted>>
  PROVE  /\ StreamInv'
         /\ (OwnPayload /\ \A i \in DOMAIN acted : acted[i].of <= served)'
         /\ Upcoming(1)' = Upcoming(1)
         /\ \A n \in Nat : /\ Drained(n) => Drained(n)'
                           /\ Place(n, 0) => Place(n, 0)'
<1>1. UNCHANGED <<script, coming, wire, conn, served, acted>>
  BY DEF input
<1>2. StreamInv'
  BY <1>1 DEF InAll, ReadInv, StreamInv, Upcoming, Whole, After, Units
<1>3. (OwnPayload /\ \A i \in DOMAIN acted : acted[i].of <= served)'
  BY <1>1 DEF InAll, ReadInv, OwnPayload, Torn
<1>4. Upcoming(1)' = Upcoming(1)
  BY <1>1 DEF Upcoming
<1>5. \A n \in Nat : Drained(n) => Drained(n)'
  BY <1>1 DEF Drained, Torn
<1>6. \A n \in Nat : Place(n, 0) => Place(n, 0)'
  BY <1>1, <1>4 DEF Place
<1> QED
  BY <1>2, <1>3, <1>4, <1>5, <1>6

\* The header is read, whole or cut short.
LEMMA ReadsHeader ==
  ASSUME InAll, RecvHeader
  PROVE  InAll'
<1> DEFINE n == served + 1
           r == got
           size == SizeIn(hdr)
<1>1. n \in Nat /\ r \in 0..3
  BY InFacts DEF InAll, InTypes, HeaderLen
<1>2. /\ pc = "header" /\ (r = 3 \/ (conn # "open" /\ wire = <<>>)) /\ got' = 0
      /\ UNCHANGED <<input, hdr, served, acted>>
      /\ script' = script /\ coming' = coming /\ wire' = wire /\ conn' = conn
  BY DEF RecvHeader, ReadEnds, Want, HeaderLen, hist, input
<1>3. /\ r = 0 => pc' = "failed" /\ UNCHANGED <<block, pointed>>
      /\ r # 0 /\ size = 0 => pc' = "act" /\ UNCHANGED <<block, pointed>>
      /\ r # 0 /\ size # 0 => pc' = "payload" /\ block' = NewBlock(size) /\ pointed' = TRUE
  BY DEF RecvHeader
<1>4. /\ StreamInv'
      /\ (OwnPayload /\ \A i \in DOMAIN acted : acted[i].of <= served)'
      /\ \A m \in Nat : /\ Drained(m) => Drained(m)'
                        /\ Place(m, 0) => Place(m, 0)'
  BY <1>2, ReadStill
<1>5. HeaderInv
  BY <1>2 DEF InAll, ReadInv
<1>6. hdr = HeaderOf(n, r) /\ (r > 0 => n \in DOMAIN script /\ Place(n, r))
  BY <1>1, <1>5 DEF HeaderInv
<1>7. n' = n
  BY <1>2
<1>8. \A m \in DOMAIN script : /\ PayloadLen[script[m]] \in 0..2
                               /\ Units(m) = 3 + PayloadLen[script[m]]
  BY InFacts DEF InAll
<1> HIDE DEF n, r, size
<1>9. CASE r = 0
  <2>1. pc' = "failed" /\ UNCHANGED <<block, pointed>>
    BY <1>3, <1>9
  <2>2. InTypes'
    BY <1>2, <2>1 DEF InAll, InTypes, HeaderLen
  <2> QED
    BY <1>4, <2>1, <2>2 DEF InAll, ReadInv
<1>10. CASE r # 0
  <2>1. /\ r \in 1..3 /\ n \in DOMAIN script /\ Place(n, r)
        /\ size = IF r >= 2 THEN PayloadLen[script[n]] ELSE 0
        /\ PayloadLen[script[n]] \in 0..2 /\ Units(n) = 3 + PayloadLen[script[n]]
    <3>1. r \in 1..3 /\ n \in DOMAIN script /\ Place(n, r)
      BY <1>1, <1>6, <1>10
    <3> QED
      BY <1>6, <1>8, <3>1, HeaderSays DEF InAll, size
  \* A header cut short.
  <2>2. r < 3 => Drained(n)
    <3> SUFFICES ASSUME r < 3
                 PROVE  Drained(n)
      OBVIOUS
    <3>1. conn # "open" /\ wire = <<>> /\ 0 < r /\ r < Units(n) /\ r \in Nat
      BY <1>2, <2>1
    <3> QED
      BY <1>1, <2>1, <3>1, CutShort
  <2>3. hdr' = HeaderOf(n, r) /\ script' = script
    BY <1>2, <1>6
  <2>4. CASE size = 0
    <3>1. pc' = "act" /\ UNCHANGED <<block, pointed>>
      BY <1>3, <1>10, <2>4
    <3>2. InTypes'
      BY <1>2, <3>1 DEF InAll, InTypes, HeaderLen
    <3>3. r = 3 => Place(n + 1, 0) /\ PayloadLen[script[n]] = 0
      <4> SUFFICES ASSUME r = 3
                   PROVE  Place(n + 1, 0) /\ PayloadLen[script[n]] = 0
        OBVIOUS
      <4>1. PayloadLen[script[n]] = 0 /\ r = Units(n) /\ r \in Nat /\ 0 < r
        BY <2>1, <2>4
      <4> QED
        BY <1>1, <2>1, <4>1, BetweenTwo
    <3>4. r = 3 => Filled(n, PayloadLen[script[n]])'
      <4>1. Len(block) \in Nat /\ block' = block
        BY <3>1 DEF InAll, InTypes
      <4> QED
        BY <1>2, <1>7, <3>3, <4>1 DEF Filled
    <3>5. n + 1 \in Nat /\ n = served + 1 /\ n' = served' + 1
      BY <1>1 DEF n
    <3>6. ActInv'
      <4>1. CASE r = 3
        <5>1. hdr' = HeaderOf(n, HeaderLen)'
          BY <1>7, <2>3, <4>1 DEF HeaderOf, HeaderLen
        <5>2. Place(n + 1, 0)'
          BY <1>4, <1>7, <3>3, <3>5, <4>1
        <5> QED
          BY <1>2, <1>7, <2>1, <2>3, <3>4, <3>5, <4>1, <5>1, <5>2 DEF ActInv
      <4>2. CASE r < 3
        <5>1. Drained(n)'
          BY <1>1, <1>4, <1>7, <2>2, <4>2
        <5>2. \E q \in 1..HeaderLen : hdr' = HeaderOf(n, q)'
          BY <1>7, <2>1, <2>3 DEF HeaderOf, HeaderLen
        <5> QED
          BY <1>2, <1>7, <2>1, <2>3, <3>5, <5>1, <5>2 DEF ActInv
      <4> QED
        BY <2>1, <4>1, <4>2
    <3> QED
      BY <1>4, <3>1, <3>2, <3>6 DEF InAll, ReadInv
  <2>5. CASE size # 0
    <3>1. /\ pc' = "payload" /\ block' = [j \in 1..size |-> Junk] /\ pointed' = TRUE
          /\ r >= 2 /\ size = PayloadLen[script[n]] /\ size \in 1..2
      BY <1>3, <1>10, <2>1, <2>5 DEF NewBlock
    <3>2. block' \in Seq(Unit \cup {Junk}) /\ Len(block') = size
      BY <3>1
    <3>3. InTypes'
      BY <1>2, <3>1, <3>2 DEF InAll, InTypes, HeaderLen
    <3>4. Filled(n, got)'
      BY <1>2, <3>1, <3>2 DEF Filled
    <3>5. n = served + 1 /\ n' = served' + 1
      BY DEF n
    <3>6. \/ (hdr = HeaderOf(n, HeaderLen) /\ Place(n, HeaderLen + got))'
          \/ (hdr = HeaderOf(n, HeaderLen - 1) /\ Drained(n) /\ got = 0)'
      <4>1. CASE r = 3
        <5>1. hdr' = HeaderOf(n, HeaderLen)'
          BY <1>7, <2>3, <4>1 DEF HeaderOf, HeaderLen
        <5>2. Place(n, HeaderLen + got)'
          <6>1. Upcoming(1)' = Upcoming(1) /\ Units(n)' = Units(n) /\ HeaderLen + got' = r
            BY <1>2, <1>7, <4>1 DEF Upcoming, Units, HeaderLen
          <6> QED
            BY <1>7, <2>1, <6>1 DEF Place
        <5> QED
          BY <5>1, <5>2
      <4>2. CASE r < 3
        <5>1. r = HeaderLen - 1
          BY <2>1, <3>1, <4>2 DEF HeaderLen
        <5>2. hdr' = HeaderOf(n, HeaderLen - 1)'
          BY <1>7, <2>3, <5>1 DEF HeaderOf, HeaderLen
        <5>3. Drained(n)'
          BY <1>1, <1>4, <1>7, <2>2, <4>2
        <5> QED
          BY <1>2, <5>2, <5>3
      <4> QED
        BY <2>1, <4>1, <4>2
    <3>7. PayloadInv'
      BY <1>7, <2>1, <2>3, <3>1, <3>2, <3>4, <3>5, <3>6 DEF PayloadInv
    <3> QED
      BY <1>4, <3>1, <3>3, <3>7 DEF InAll, ReadInv
  <2> QED
    BY <2>4, <2>5
<1> QED
  BY <1>9, <1>10

\* The payload is read, whole or cut short.
LEMMA ReadsPayload ==
  ASSUME InAll, RecvPayload
  PROVE  InAll'
<1> DEFINE n == served + 1
           r == got
           len == Len(block)
<1>1. n \in Nat /\ n + 1 \in Nat /\ r \in Nat /\ len \in Nat
  BY InFacts DEF InAll, InTypes
<1>2. /\ pc = "payload" /\ (r = len \/ (conn # "open" /\ wire = <<>>)) /\ got' = 0
      /\ pc' = "act"
      /\ UNCHANGED <<input, hdr, block, pointed, served, acted>>
      /\ script' = script /\ coming' = coming /\ wire' = wire /\ conn' = conn
  BY DEF RecvPayload, ReadEnds, Want, hist, input
<1>3. /\ StreamInv'
      /\ (OwnPayload /\ \A i \in DOMAIN acted : acted[i].of <= served)'
      /\ \A m \in Nat : /\ Drained(m) => Drained(m)'
                        /\ Place(m, 0) => Place(m, 0)'
  BY <1>2, ReadStill
<1>4. PayloadInv
  BY <1>2 DEF InAll, ReadInv
<1>5. /\ n \in DOMAIN script /\ len = PayloadLen[script[n]] /\ len > 0 /\ Filled(n, r)
      /\ \/ hdr = HeaderOf(n, 3) /\ Place(n, 3 + r)
         \/ hdr = HeaderOf(n, 2) /\ Drained(n)
  BY <1>4 DEF PayloadInv, HeaderLen
<1>6. n' = n /\ n = served + 1 /\ n' = served' + 1
  BY <1>2
<1>7. Units(n) = 3 + len /\ r <= len
  BY <1>5, InFacts DEF InAll, Filled
<1>8. InTypes'
  BY <1>2 DEF InAll, InTypes, HeaderLen
<1>9. r = len => Filled(n, len)'
  BY <1>2, <1>5 DEF Filled
<1> HIDE DEF n, r, len
<1>10. ActInv'
  <2>1. ASSUME Drained(n), NEW q \in 1..3, hdr = HeaderOf(n, q)
        PROVE  ActInv'
    <3>1. Drained(n)'
      BY <1>1, <1>3, <1>6, <2>1
    <3>2. \E p \in 1..HeaderLen : hdr' = HeaderOf(n, p)'
      BY <1>2, <1>6, <2>1 DEF HeaderOf, HeaderLen
    <3> QED
      BY <1>2, <1>5, <1>6, <3>1, <3>2 DEF ActInv
  <2>2. CASE hdr = HeaderOf(n, 2) /\ Drained(n)
    BY <2>1, <2>2
  <2>3. CASE hdr = HeaderOf(n, 3) /\ Place(n, 3 + r) /\ r = len
    <3> DEFINE p == 3 + r
    <3>1. p \in Nat /\ 0 < p /\ p = Units(n) /\ Place(n, p)
      BY <1>1, <1>7, <2>3
    <3> HIDE DEF p
    <3>2. Place(n + 1, 0)
      BY <1>1, <3>1, BetweenTwo
    <3>3. Place(n + 1, 0)'
      BY <1>1, <1>3, <1>6, <3>2
    <3>4. hdr' = HeaderOf(n, HeaderLen)'
      BY <1>2, <1>6, <2>3 DEF HeaderOf, HeaderLen
    <3>5. Filled(n, PayloadLen[script[n]])'
      BY <1>2, <1>5, <1>6, <1>9, <2>3 DEF Filled, len
    <3> QED
      BY <1>2, <1>5, <1>6, <3>3, <3>4, <3>5 DEF ActInv
  <2>4. CASE hdr = HeaderOf(n, 3) /\ Place(n, 3 + r) /\ r # len
    <3> DEFINE p == 3 + r
    <3>1. p \in Nat /\ 0 < p /\ p < Units(n) /\ Place(n, p) /\ conn # "open" /\ wire = <<>>
      BY <1>1, <1>2, <1>7, <2>4
    <3> HIDE DEF p
    <3>2. Drained(n)
      BY <1>1, <3>1, CutShort
    <3> QED
      BY <2>1, <2>4, <3>2
  <2> QED
    BY <1>5, <2>2, <2>3, <2>4
<1> QED
  BY <1>2, <1>3, <1>8, <1>10 DEF InAll, ReadInv

-----------------------------------------------------------------------------
(* brs_client_service.                                                     *)

\* What the client sends next is not before where the server is.
LEMMA ComesAfter ==
  ASSUME InTypes, ReadInv, NEW n \in Nat, Place(n, 0)
  PROVE  n <= coming.of
<1>1. coming \in Unit /\ Len(wire) \in Nat /\ DOMAIN wire = 1..Len(wire) /\ coming.of \in Nat
  BY DEF InTypes, Unit
<1>2. Upcoming(1) = [of |-> n, at |-> 1]
  BY DEF Place
<1>3. CASE 1 <= Len(wire)
  <2>1. wire[1].of = n /\ 1 \in DOMAIN wire
    BY <1>1, <1>2, <1>3 DEF Upcoming
  <2>2. wire[1].of <= coming.of
    BY <2>1 DEF ReadInv, StreamInv
  <2> QED
    BY <2>1, <2>2
<1>4. CASE ~(1 <= Len(wire))
  <2>1. coming.of = n
    BY <1>2, <1>4 DEF Upcoming
  <2> QED
    BY <1>1, <2>1
<1> QED
  BY <1>3, <1>4

\* Nothing carried out before the request in hand was cut short: there would
\* be nothing to read behind it.
LEMMA NoneTorn ==
  ASSUME InAll, pc = "act"
  PROVE  \A i \in DOMAIN acted : ~Torn(acted[i].of)
<1> DEFINE n == served + 1
<1>1. /\ n \in Nat /\ served \in Nat /\ n + 1 \in Nat
      /\ \A i \in DOMAIN acted : acted[i].of \in Nat /\ acted[i].of <= served
  BY InFacts DEF InAll, ReadInv
<1>2. Drained(n) \/ Place(n + 1, 0)
  BY DEF InAll, ReadInv, ActInv
<1>3. coming \in Unit /\ Len(wire) \in Nat /\ DOMAIN wire = 1..Len(wire) /\ coming.of \in Nat
  BY DEF InAll, InTypes, Unit
<1>4. CASE Drained(n)
  <2>1. coming.of = n
    BY <1>4 DEF Drained, Torn
  <2>2. \A i \in DOMAIN acted : acted[i].of # coming.of
    BY <1>1, <2>1
  <2> QED
    BY <2>2 DEF Torn
<1>5. CASE Place(n + 1, 0)
  <2>1. n + 1 <= coming.of
    <3> HIDE DEF n
    <3> QED
      BY <1>1, <1>5, ComesAfter DEF InAll
  <2>2. \A i \in DOMAIN acted : acted[i].of # coming.of
    BY <1>1, <1>3, <2>1
  <2> QED
    BY <2>2 DEF Torn
<1> QED
  BY <1>2, <1>4, <1>5

\* A request is carried out: on its own fields, unless it was cut short.
LEMMA ActedMore ==
  ASSUME InAll, pc = "act", NEW f \in 0..2,
         acted' = Append(acted, Request(script[served + 1], f)),
         UNCHANGED <<script, coming, conn>>, served' = served + 1,
         f = PayloadLen[script[served + 1]] \/ Drained(served + 1)
  PROVE  /\ acted' \in Seq([type : Types, of : Nat, fields : Seq(Unit \cup {Junk})])
         /\ (OwnPayload /\ \A i \in DOMAIN acted : acted[i].of <= served)'
<1> DEFINE n == served + 1
           a == Request(script[n], f)
           fs == [i \in 1..f |-> IF i \in DOMAIN block THEN block[i] ELSE Junk]
           own == [k \in 1..PayloadLen[script[n]] |-> [of |-> n, at |-> HeaderLen + k]]
           A == [type : Types, of : Nat, fields : Seq(Unit \cup {Junk})]
<1>1. /\ n \in Nat /\ served \in Nat
      /\ Len(acted) \in Nat /\ DOMAIN acted = 1..Len(acted)
      /\ \A i \in DOMAIN acted : acted[i].of \in Nat /\ acted[i].of <= served
  BY InFacts DEF InAll, ReadInv
<1>2. ActInv
  BY DEF InAll, ReadInv
<1>3. n \in DOMAIN script /\ script[n] \in Types /\ PayloadLen[script[n]] \in 0..2
  BY <1>2, InFacts DEF ActInv, InAll
<1>4. \E r \in 1..3 : hdr = HeaderOf(n, r)
  BY <1>2 DEF ActInv, HeaderLen
<1>5. hdr[1].of = n
  <2> PICK r \in 1..3 : hdr = HeaderOf(n, r)
    BY <1>4
  <2>1. hdr[1] = [of |-> n, at |-> 1]
    <3> HIDE DEF n
    <3> QED
      BY <1>3, HeaderSays DEF InAll
  <2> QED
    BY <2>1
<1>6. a = [type |-> script[n], of |-> n, fields |-> fs]
  BY <1>5 DEF Request
<1>7. \/ fs = own
      \/ Drained(n)
  <2> SUFFICES ASSUME ~Drained(n)
               PROVE  fs = own
    OBVIOUS
  <2>1. f = PayloadLen[script[n]] /\ Filled(n, f)
    BY <1>2 DEF ActInv
  <2>2. block \in Seq(Unit \cup {Junk}) /\ DOMAIN block = 1..Len(block) /\ Len(block) \in Nat
    BY DEF InAll, InTypes
  <2>3. \A i \in 1..f : i \in DOMAIN block /\ block[i] = [of |-> n, at |-> HeaderLen + i]
    BY <2>1, <2>2 DEF Filled
  <2> QED
    BY <2>1, <2>3
<1>8. a \in A
  <2>1. block \in Seq(Unit \cup {Junk}) /\ DOMAIN block = 1..Len(block)
    BY DEF InAll, InTypes
  <2>2. \A i \in 1..f : (IF i \in DOMAIN block THEN block[i] ELSE Junk) \in Unit \cup {Junk}
    BY <2>1
  <2>3. fs \in Seq(Unit \cup {Junk})
    BY <2>2
  <2> HIDE DEF fs, a
  <2> QED
    BY <1>1, <1>3, <1>6, <2>3
<1>9. acted \in Seq(A)
  BY DEF InAll, InTypes
<1>10. script' = script /\ served' = n /\ acted' = Append(acted, a)
  OBVIOUS
<1>11. \A m \in Nat : Torn(m)' = Torn(m)
  BY DEF Torn
<1>12. \A i \in DOMAIN acted :
         /\ acted[i].type = script[acted[i].of]
         /\ acted[i].fields = [k \in 1..PayloadLen[acted[i].type] |-> [of |-> acted[i].of, at |-> HeaderLen + k]]
  BY NoneTorn DEF InAll, ReadInv, OwnPayload
<1>13. PayloadLen[script[n]] \in Nat /\ n <= n
  BY <1>1, <1>3
<1> HIDE DEF n, a, fs, A, own
<1>14. /\ acted' \in Seq(A) /\ Len(acted') = Len(acted) + 1
       /\ DOMAIN acted' = 1..(Len(acted) + 1)
       /\ \A i \in DOMAIN acted : acted'[i] = acted[i]
       /\ acted'[Len(acted) + 1] = a
  BY <1>1, <1>8, <1>9, <1>10
<1>15. ASSUME NEW i \in DOMAIN acted'
       PROVE  /\ acted'[i].of <= served'
              /\ \/ /\ acted'[i].type = script'[acted'[i].of]
                    /\ acted'[i].fields = [k \in 1..PayloadLen[acted'[i].type] |->
                                             [of |-> acted'[i].of, at |-> HeaderLen + k]]
                 \/ i = Len(acted') /\ Torn(acted[i].of)'
  <2>1. CASE i \in DOMAIN acted
    <3>1. acted'[i] = acted[i] /\ acted[i].of <= served'
      BY <1>1, <1>10, <1>14, <2>1 DEF n
    <3> QED
      BY <1>10, <1>12, <2>1, <3>1
  <2>2. CASE i = Len(acted')
    <3>1. acted'[i] = a
      BY <1>14, <2>2
    <3>2. a.type = script[n] /\ a.of = n /\ a.fields = fs
      BY <1>6
    <3>3. Drained(n) => Torn(acted[i].of)'
      <4> SUFFICES ASSUME Drained(n)
                   PROVE  Torn(acted[i].of)'
        OBVIOUS
      <4>1. conn # "open" /\ coming.of = n /\ coming.at > 1
        BY DEF Drained, Torn
      <4> QED
        BY <3>1, <3>2, <4>1 DEF Torn
    <3>4. CASE fs = own
      <4>1. own = [k \in 1..PayloadLen[script[n]] |-> [of |-> n, at |-> HeaderLen + k]]
        BY DEF own
      <4> QED
        BY <1>10, <1>13, <3>1, <3>2, <3>4, <4>1
    <3> QED
      BY <1>7, <1>10, <1>13, <2>2, <3>1, <3>2, <3>3, <3>4
  <2>3. i \in DOMAIN acted \/ i = Len(acted')
    BY <1>1, <1>14
  <2> QED
    BY <2>1, <2>2, <2>3
<1>16. (OwnPayload /\ \A i \in DOMAIN acted : acted[i].of <= served)'
  BY <1>15 DEF OwnPayload
<1> QED
  BY <1>14, <1>16 DEF A

\* Back at the top of the loop, after a request and before its answer or after.
LEMMA ReadAgain ==
  ASSUME InAll, UNCHANGED <<input, block, pointed, got>>,
         served' \in 0..Len(script), got = 0,
         Place(served' + 1, 0) \/ Drained(served'),
         (pc' = "answer" /\ UNCHANGED hdr) \/ (pc' = "header" /\ hdr' = Blank),
         acted' \in Seq([type : Types, of : Nat, fields : Seq(Unit \cup {Junk})]),
         (OwnPayload /\ \A i \in DOMAIN acted : acted[i].of <= served)'
  PROVE  InAll'
<1>1. UNCHANGED <<script, coming, wire, conn>>
  BY DEF input
<1>2. hdr' \in [1..HeaderLen -> Unit \cup {Zero}]
  BY DEF Blank, InAll, InTypes
<1>3. InTypes'
  BY <1>1, <1>2 DEF InAll, InTypes
<1>4. StreamInv'
  BY <1>1 DEF InAll, ReadInv, StreamInv, Upcoming, Whole, After, Units
<1>5. Place(served + 1, 0)' \/ Drained(served)'
  BY <1>1 DEF Place, Drained, Torn, Upcoming
<1>6. pc' = "answer" => AnswerInv'
  BY <1>5 DEF AnswerInv
<1>7. pc' = "header" => HeaderInv'
  <2> SUFFICES ASSUME pc' = "header"
               PROVE  HeaderInv'
    OBVIOUS
  <2>1. hdr' = HeaderOf(served + 1, got)'
    <3>1. hdr' = [k \in 1..HeaderLen |-> Zero] /\ got' = 0
      BY DEF Blank
    <3>2. \A k \in 1..HeaderLen : ~(k <= 0)
      BY DEF HeaderLen
    <3> QED
      BY <3>1, <3>2 DEF HeaderOf
  <2>2. Place(served + 1, got)' \/ (got' = 0 /\ Drained(served)')
    BY <1>5 DEF Place
  <2>3. got' = 0 /\ ~(got' > 0)
    OBVIOUS
  <2> QED
    BY <2>1, <2>2, <2>3 DEF HeaderInv
<1> QED
  BY <1>3, <1>4, <1>6, <1>7 DEF InAll, ReadInv

\* A request is taken: carried out, refused or passed over.
LEMMA ReadActs ==
  ASSUME InAll, ActLogin \/ ActLoginAgain \/ Ignore \/ Act
  PROVE  InAll'
<1> DEFINE n == served + 1
           A == [type : Types, of : Nat, fields : Seq(Unit \cup {Junk})]
<1>1. /\ pc = "act" /\ served' = n
      /\ UNCHANGED <<input, block, pointed, got>>
      /\ (pc' = "answer" /\ UNCHANGED hdr) \/ (pc' = "header" /\ hdr' = Blank)
  BY DEF ActLogin, ActLoginAgain, Ignore, Act, Taken, Answer, Loop, buffer
<1>2. ActInv
  BY <1>1 DEF InAll, ReadInv
<1>3. n \in DOMAIN script /\ got = 0 /\ (Place(n + 1, 0) \/ Drained(n))
  BY <1>2 DEF ActInv
<1>4. /\ n \in Nat /\ served \in Nat /\ Len(script) \in Nat /\ DOMAIN script = 1..Len(script)
      /\ script[n] \in Types /\ PayloadLen[script[n]] \in 0..2
  BY <1>3, InFacts DEF InAll
<1>5. PICK r \in 1..3 : hdr = HeaderOf(n, r) /\ (r = 3 \/ Drained(n))
  BY <1>2 DEF ActInv, HeaderLen
<1>6. /\ TypeIn(hdr) = script[n]
      /\ SizeIn(hdr) = IF r >= 2 THEN PayloadLen[script[n]] ELSE 0
  <2> HIDE DEF n
  <2> QED
    BY <1>3, <1>5, HeaderSays DEF InAll
<1>7. UNCHANGED <<script, coming, conn>>
  BY <1>1 DEF input
<1>8. \/ UNCHANGED acted
      \/ \E f \in 0..2 : /\ acted' = Append(acted, Request(script[n], f))
                         /\ f = PayloadLen[script[n]] \/ Drained(n)
  <2>1. CASE ActLoginAgain \/ Ignore
    BY <2>1 DEF ActLoginAgain, Ignore
  <2>2. CASE ActLogin
    <3>1. acted' = Append(acted, Request(script[n], SizeIn(hdr)))
      BY <1>6, <2>2 DEF ActLogin
    <3>2. SizeIn(hdr) \in 0..2 /\ (SizeIn(hdr) = PayloadLen[script[n]] \/ Drained(n))
      BY <1>4, <1>5, <1>6
    <3> QED
      BY <3>1, <3>2
  <2>3. CASE Act
    <3>1. acted' = Append(acted, Request(script[n], PayloadLen[script[n]]))
      BY <1>6, <2>3 DEF Act
    <3> QED
      BY <1>4, <3>1
  <2> QED
    BY <2>1, <2>2, <2>3
<1>9. acted' \in Seq(A) /\ (OwnPayload /\ \A i \in DOMAIN acted : acted[i].of <= served)'
  <2>1. CASE UNCHANGED acted
    <3>1. acted' \in Seq(A)
      BY <2>1 DEF InAll, InTypes
    <3>2. OwnPayload'
      BY <1>7, <2>1 DEF InAll, ReadInv, OwnPayload, Torn
    <3>3. \A i \in DOMAIN acted : acted[i].of \in Nat /\ acted[i].of <= served
      BY InFacts DEF InAll, ReadInv
    <3>4. \A i \in DOMAIN acted' : acted'[i].of <= served'
      BY <1>1, <1>4, <2>1, <3>3
    <3> QED
      BY <3>1, <3>2, <3>4
  <2>2. CASE \E f \in 0..2 : /\ acted' = Append(acted, Request(script[n], f))
                             /\ f = PayloadLen[script[n]] \/ Drained(n)
    BY <1>1, <1>7, <2>2, ActedMore
  <2> QED
    BY <1>8, <2>1, <2>2
<1>10. served' \in 0..Len(script)
  BY <1>1, <1>3, <1>4
<1>11. Place(served' + 1, 0) \/ Drained(served')
  BY <1>1, <1>3
<1> QED
  BY <1>1, <1>3, <1>9, <1>10, <1>11, ReadAgain

\* An answer is done with, sent or not.
LEMMA ReadResumes ==
  ASSUME InAll, UNCHANGED <<input, served, acted>>, pc = "answer", Loop
  PROVE  InAll'
<1>1. AnswerInv
  BY DEF InAll, ReadInv
<1>2. served' = served /\ served \in 0..Len(script) /\ acted' = acted
  BY DEF InAll, InTypes
<1>3. acted' \in Seq([type : Types, of : Nat, fields : Seq(Unit \cup {Junk})])
  BY <1>2 DEF InAll, InTypes
<1>4. (OwnPayload /\ \A i \in DOMAIN acted : acted[i].of <= served)'
  BY ReadStill
<1>5. got = 0 /\ (Place(served' + 1, 0) \/ Drained(served'))
  BY <1>1, <1>2 DEF AnswerInv
<1> QED
  BY <1>2, <1>3, <1>4, <1>5, ReadAgain DEF Loop

LEMMA ReadInit == Init => InAll
<1> SUFFICES ASSUME Init
             PROVE  InAll
  OBVIOUS
<1>1. /\ script \in Scripts /\ coming = [of |-> 1, at |-> 1] /\ wire = <<>> /\ conn = "open"
      /\ pc = "header" /\ hdr = Blank /\ block = <<>> /\ pointed = FALSE /\ got = 0
      /\ served = 0 /\ acted = <<>>
  BY DEF Init
<1>2. /\ Len(script) \in Nat /\ DOMAIN script = 1..Len(script)
      /\ \A n \in DOMAIN script : Units(n) \in 3..5
  BY <1>1, UnitsBounds
<1>3. hdr \in [1..HeaderLen -> Unit \cup {Zero}]
  BY <1>1 DEF Blank
<1>4. InTypes
  <2>1. coming \in Unit /\ got \in 0..HeaderLen /\ served \in 0..Len(script)
    BY <1>1, <1>2 DEF Unit, HeaderLen
  <2>2. \A values : <<>> \in Seq(values)
    OBVIOUS
  <2>3. /\ wire \in Seq(Unit) /\ block \in Seq(Unit \cup {Junk})
        /\ acted \in Seq([type : Types, of : Nat, fields : Seq(Unit \cup {Junk})])
    BY <1>1, <2>2
  <2> QED
    BY <1>1, <1>3, <2>1, <2>3 DEF InTypes
<1>5. Whole(coming) \/ coming = [of |-> Len(script) + 1, at |-> 1]
  <2>1. CASE Len(script) = 0
    BY <1>1, <2>1
  <2>2. CASE Len(script) # 0
    <3>1. 1 \in DOMAIN script /\ 1 \in 1..Units(1)
      BY <1>2, <2>2
    <3> QED
      BY <1>1, <3>1 DEF Whole
  <2> QED
    BY <2>1, <2>2
<1>6. StreamInv
  BY <1>1, <1>5 DEF StreamInv
<1>7. HeaderInv
  <2>1. hdr = HeaderOf(1, 0)
    <3>1. \A k \in 1..HeaderLen : ~(k <= 0)
      BY DEF HeaderLen
    <3> QED
      BY <1>1, <3>1 DEF Blank, HeaderOf
  <2>2. Place(1, 0)
    BY <1>1 DEF Place, Upcoming
  <2>3. served + 1 = 1
    BY <1>1
  <2> QED
    BY <1>1, <2>1, <2>2, <2>3 DEF HeaderInv
<1>8. OwnPayload /\ \A i \in DOMAIN acted : acted[i].of <= served
  BY <1>1 DEF OwnPayload
<1> QED
  BY <1>1, <1>4, <1>6, <1>7, <1>8 DEF InAll, ReadInv

\* A thread's packet, whatever becomes of it.
LEMMA ReadTransmits ==
  ASSUME InAll, NEW x \in Writers, Transmit(x)
  PROVE  InAll'
<1>1. UNCHANGED <<input, served, acted>>
  BY DEF Transmit, Lock, Write, Sent, SendFails, hist
<1>2. UNCHANGED <<pc, buffer>> \/ (pc = "answer" /\ Loop)
  BY DEF Transmit, Lock, Write, Sent, SendFails, Resume
<1>3. CASE UNCHANGED <<pc, buffer>>
  <2>1. UNCHANGED <<script, coming, wire, pc, buffer, served, acted>> /\ conn' = conn
    BY <1>1, <1>3 DEF input
  <2>2. conn' \in {"open", "eof", "reset"} /\ (conn' = "open" => conn = "open")
    BY <2>1 DEF InAll, InTypes
  <2> QED
    BY <2>1, <2>2, ReadOthers
<1>4. CASE pc = "answer" /\ Loop
  BY <1>1, <1>4, ReadResumes
<1> QED
  BY <1>2, <1>3, <1>4

LEMMA ReadStep == InAll /\ [Next]_vars => InAll'
<1> SUFFICES ASSUME InAll, [Next]_vars
             PROVE  InAll'
  OBVIOUS
<1>1. CASE Stopped \/ Notify \/ UNCHANGED vars
  <2>1. UNCHANGED <<script, coming, wire, pc, buffer, served, acted>> /\ conn' = conn
    BY <1>1 DEF Stopped, Notify, vars, input, hist
  <2>2. conn' \in {"open", "eof", "reset"} /\ (conn' = "open" => conn = "open")
    BY <2>1 DEF InAll, InTypes
  <2> QED
    BY <2>1, <2>2, ReadOthers
<1>2. CASE ClientSends
  BY <1>2, ReadSends
<1>3. CASE ConnEnds
  <2>1. UNCHANGED <<script, coming, wire, pc, buffer, served, acted>>
    BY <1>3 DEF ConnEnds, hist
  <2>2. conn' \in {"open", "eof", "reset"} /\ (conn' = "open" => conn = "open")
    BY <1>3 DEF ConnEnds
  <2> QED
    BY <2>1, <2>2, ReadOthers
<1>4. CASE Transmit("notifier") \/ Transmit("service")
  <2>1. "notifier" \in Writers /\ "service" \in Writers
    BY DEF Writers
  <2> QED
    BY <1>4, <2>1, ReadTransmits
<1>5. CASE \E k \in 1..HeaderLen : Read(k)
  <2> PICK k \in 1..HeaderLen : Read(k)
    BY <1>5
  <2>1. pc = "header" \/ pc = "payload"
    BY DEF Read
  <2> QED
    BY <2>1, ReadHeader, ReadPayload
<1>6. CASE RecvHeader \/ RecvPayload
  BY <1>6, ReadsHeader, ReadsPayload
<1>7. CASE RecvError \/ Failed \/ Logout
  BY <1>7, ReadLeaves
<1>8. CASE ActLogin \/ ActLoginAgain \/ Ignore \/ Act
  BY <1>8, ReadActs
<1> QED
  BY <1>1, <1>2, <1>3, <1>4, <1>5, <1>6, <1>7, <1>8 DEF Next, Step, Service

\* The server's place in the stream goes with what it has in its buffers, and
\* what it has carried out with what it has taken: for every script, every way
\* of cutting up the reads and an end of the connection at any unit.
THEOREM ReadInvHolds == Spec => []ReadInv
<1>1. InAll => ReadInv
  BY DEF InAll
<1> QED
  BY <1>1, ReadInit, ReadStep, PTL DEF Spec

\* The server never loses its place in the stream: every header it reads
\* starts where one was sent (rio_readn and proto_recv_packet).
THEOREM InPhaseHolds == Spec => []InPhase
<1>1. InAll => InPhase
  <2> SUFFICES ASSUME InAll, pc \in {"header", "payload"}, hdr[1] # Zero
               PROVE  hdr[1] = [of |-> served + 1, at |-> 1]
    BY DEF InPhase
  <2>1. CASE pc = "header"
    <3>1. hdr = HeaderOf(served + 1, got) /\ got \in 0..3
      BY <2>1 DEF InAll, InTypes, ReadInv, HeaderInv, HeaderLen
    <3>2. hdr[1] = IF 1 <= got THEN [of |-> served + 1, at |-> 1] ELSE Zero
      BY <3>1 DEF HeaderOf, HeaderLen
    <3> QED
      BY <3>2
  <2>2. CASE pc = "payload"
    <3>1. hdr = HeaderOf(served + 1, 3) \/ hdr = HeaderOf(served + 1, 2)
      BY <2>2 DEF InAll, ReadInv, PayloadInv, HeaderLen
    <3> QED
      BY <3>1 DEF HeaderOf, HeaderLen
  <2> QED
    BY <2>1, <2>2
<1> QED
  BY <1>1, ReadInit, ReadStep, PTL DEF Spec

\* A request is carried out on the fields it was sent with, and not on those
\* of an earlier one that the buffer still points to (server.c:28, 103): all
\* but one cut short by the end of the connection, which is the last.
THEOREM PayloadIsOwn == Spec => []OwnPayload
<1>1. ReadInv => OwnPayload
  BY DEF ReadInv
<1> QED
  BY <1>1, ReadInvHolds, PTL

\* What neither side's types speak of.
RestTypes == notes \in 0..MaxNotes /\ undef \in BOOLEAN

LEMMA RestStep == RestTypes /\ [Next]_vars => RestTypes'
<1> SUFFICES ASSUME RestTypes, [Next]_vars
             PROVE  RestTypes'
  OBVIOUS
<1>1. CASE UNCHANGED <<notes, undef>>
  BY <1>1 DEF RestTypes
<1>2. CASE Notify
  <2>1. notes' = notes + 1 /\ notes < MaxNotes /\ undef' = undef
    BY <1>2 DEF Notify, hist
  <2> QED
    BY <2>1, BoundAssumption DEF RestTypes
<1>3. CASE Failed \/ Act
  <2>1. notes' = notes /\ undef' \in BOOLEAN
    BY <1>3 DEF Failed, Act, Answer, output
  <2> QED
    BY <2>1 DEF RestTypes
<1>4. Stopped \/ ClientSends \/ ConnEnds \/ UNCHANGED vars => UNCHANGED <<notes, undef>>
  BY DEF Stopped, ClientSends, ConnEnds, vars, output, hist
<1>5. Service => Failed \/ Act \/ UNCHANGED <<notes, undef>>
  BY DEF Service, Read, RecvHeader, RecvPayload, RecvError, ActLogin, ActLoginAgain, Ignore,
         Logout, Transmit, Lock, Write, Sent, SendFails, Answer, output, hist
<1>6. Transmit("notifier") => UNCHANGED <<notes, undef>>
  BY DEF Transmit, Lock, Write, Sent, SendFails, hist
<1> QED
  BY <1>1, <1>2, <1>3, <1>4, <1>5, <1>6 DEF Next, Step

\* Every variable holds a value of its type: no read goes past its buffer and
\* no request is taken that was not sent.
THEOREM ProtocolTypes == Spec => []TypeOK
<1>1. Init => RestTypes
  <2>1. 0 \in 0..MaxNotes
    BY BoundAssumption
  <2>2. Init => notes = 0 /\ undef = FALSE
    BY DEF Init
  <2> QED
    BY <2>1, <2>2 DEF RestTypes
<1>2. InAll /\ OutAll /\ RestTypes => TypeOK
  BY DEF InAll, InTypes, OutAll, OutTypes, RestTypes, TypeOK, WritersPcs
<1> QED
  BY <1>1, <1>2, ReadInit, ReadStep, OutInit, OutStep, RestStep, PTL DEF Spec

-----------------------------------------------------------------------------
(* The answers among what the client was sent.                             *)

IsAnswer(u) == u.by = "service" /\ u.at = u.len

\* The recursion that Answers stands for, over the first m units.
Answering(units, m, g) ==
  g = [n \in 0..m |-> IF n = 0 THEN <<>>
                      ELSE IF IsAnswer(units[n]) THEN Append(g[n - 1], units[n].kind) ELSE g[n - 1]]

LEMMA AnswersRecursive ==
  ASSUME NEW units
  PROVE  Answers(units) = (CHOOSE g : Answering(units, Len(units), g))[Len(units)]
BY DEF Answers, Answering, IsAnswer

\* What it says of no units and of one more.
LEMMA AnsweringNone ==
  ASSUME NEW units, NEW m \in Nat, NEW g, Answering(units, m, g)
  PROVE  g[0] = <<>>
<1>1. 0 \in 0..m
  OBVIOUS
<1> QED
  BY <1>1 DEF Answering

LEMMA AnsweringOne ==
  ASSUME NEW units, NEW m \in Nat, NEW g, Answering(units, m, g), NEW n \in 1..m
  PROVE  g[n] = IF IsAnswer(units[n]) THEN Append(g[n - 1], units[n].kind) ELSE g[n - 1]
<1>1. n \in 0..m /\ n # 0
  OBVIOUS
<1> QED
  BY <1>1 DEF Answering

\* It has one solution at most, and that goes with the units.
LEMMA AnsweringSame ==
  ASSUME NEW units, NEW m \in Nat, NEW g, Answering(units, m, g),
         NEW more, NEW l \in Nat, NEW h, Answering(more, l, h),
         m <= l, \A i \in 1..m : more[i] = units[i]
  PROVE  \A n \in 0..m : h[n] = g[n]
<1> DEFINE B == {n \in 0..m : h[n] # g[n]}
<1> SUFFICES ASSUME B # {}
             PROVE  FALSE
  OBVIOUS
<1>1. PICK n \in B : \A j \in B : n <= j
  <2>1. B \in SUBSET Nat
    OBVIOUS
  <2> HIDE DEF B
  <2> QED
    BY <2>1, SmallestNumber
<1>2. n # 0
  <2>1. g[0] = <<>> /\ h[0] = <<>>
    BY AnsweringNone
  <2> QED
    BY <2>1
<1>3. n \in 1..m /\ n \in 1..l /\ n - 1 \in 0..m /\ ~ (n <= n - 1)
  BY <1>2
<1>4. h[n - 1] = g[n - 1]
  BY <1>1, <1>3
<1>5. /\ g[n] = IF IsAnswer(units[n]) THEN Append(g[n - 1], units[n].kind) ELSE g[n - 1]
      /\ h[n] = IF IsAnswer(more[n]) THEN Append(h[n - 1], more[n].kind) ELSE h[n - 1]
  <2>1. n \in 1..m
    BY <1>3
  <2>2. n \in 1..l
    BY <1>3
  <2> HIDE DEF B
  <2> QED
    BY <2>1, <2>2, AnsweringOne
<1>6. h[n] = g[n]
  BY <1>3, <1>4, <1>5
<1> QED
  BY <1>6

\* It has one.
LEMMA AnsweringExists ==
  ASSUME NEW units, NEW m \in Nat
  PROVE  \E g : Answering(units, m, g)
<1> DEFINE Solved(j) == \E g : Answering(units, j, g)
           B == {j \in Nat : ~ Solved(j)}
<1> HIDE DEF Solved
<1> SUFFICES ASSUME B # {}
             PROVE  FALSE
  BY DEF Solved
<1>1. PICK j \in B : \A i \in B : j <= i
  <2>1. B \in SUBSET Nat
    OBVIOUS
  <2> HIDE DEF B
  <2> QED
    BY <2>1, SmallestNumber
<1>2. j # 0
  <2> DEFINE g == [n \in 0..0 |-> <<>>]
  <2>1. Answering(units, 0, g)
    BY DEF Answering
  <2>2. Solved(0)
    BY <2>1 DEF Solved
  <2> QED
    BY <2>2
<1>3. j \in Nat /\ j - 1 \in Nat /\ ~ (j <= j - 1)
  BY <1>2
<1>4. Solved(j - 1)
  BY <1>1, <1>3
<1>5. PICK g : Answering(units, j - 1, g)
  BY <1>4 DEF Solved
<1> DEFINE h == [n \in 0..j |-> IF n = 0 THEN <<>>
                                ELSE IF IsAnswer(units[n]) THEN Append(g[n - 1], units[n].kind) ELSE g[n - 1]]
<1>6. ASSUME NEW n \in 0..(j - 1)
      PROVE  h[n] = g[n]
  <2>1. CASE n = 0
    BY <1>3, <1>5, <2>1, AnsweringNone
  <2>2. CASE n # 0
    <3>1. n \in 1..(j - 1) /\ n \in 0..j
      BY <1>3, <2>2
    <3>2. g[n] = IF IsAnswer(units[n]) THEN Append(g[n - 1], units[n].kind) ELSE g[n - 1]
      BY <1>3, <1>5, <3>1, AnsweringOne
    <3> QED
      BY <2>2, <3>1, <3>2
  <2> QED
    BY <2>1, <2>2
<1>7. \A n \in 0..j : n # 0 => h[n - 1] = g[n - 1]
  <2> HIDE DEF h
  <2> TAKE n \in 0..j
  <2> HAVE n # 0
  <2>1. n - 1 \in 0..(j - 1)
    BY <1>3
  <2> QED
    BY <1>6, <2>1
<1>8. h = [n \in 0..j |-> IF n = 0 THEN <<>>
                          ELSE IF IsAnswer(units[n]) THEN Append(h[n - 1], units[n].kind) ELSE h[n - 1]]
  <2> DEFINE f(n) == IF n = 0 THEN <<>>
                     ELSE IF IsAnswer(units[n]) THEN Append(g[n - 1], units[n].kind) ELSE g[n - 1]
             e(n) == IF n = 0 THEN <<>>
                     ELSE IF IsAnswer(units[n]) THEN Append(h[n - 1], units[n].kind) ELSE h[n - 1]
  <2>1. h = [n \in 0..j |-> f(n)]
    OBVIOUS
  <2>2. \A n \in 0..j : f(n) = e(n)
    <3> HIDE DEF h
    <3> QED
      BY <1>7
  <2> HIDE DEF f, e, h
  <2>3. h = [n \in 0..j |-> e(n)]
    BY <2>1, <2>2
  <2> QED
    BY <2>3 DEF e
<1>9. Answering(units, j, h)
  <2> HIDE DEF h
  <2> QED
    BY <1>8 DEF Answering
<1>10. Solved(j)
  <2> HIDE DEF h
  <2> QED
    BY <1>9 DEF Solved
<1> QED
  BY <1>10

\* A write adds an answer when its last unit is the end of one, and nothing
\* before.
LEMMA AnswersGrow ==
  ASSUME NEW units \in Seq(Written), NEW more \in Seq(Written), NEW k \in 1..3,
         Len(more) = Len(units) + k,
         \A i \in 1..Len(units) : more[i] = units[i],
         \A i \in 1..(k - 1) : ~ IsAnswer(more[Len(units) + i])
  PROVE  Answers(more) = IF IsAnswer(more[Len(more)])
                         THEN Append(Answers(units), more[Len(more)].kind) ELSE Answers(units)
<1> DEFINE m == Len(units)
           l == Len(more)
           g == CHOOSE f : Answering(units, m, f)
           h == CHOOSE f : Answering(more, l, f)
<1>1. m \in Nat /\ l \in Nat /\ l = m + k
  OBVIOUS
<1>2. Answers(units) = g[m] /\ Answers(more) = h[l]
  BY AnswersRecursive
<1>3. \A i \in 1..m : more[i] = units[i]
  OBVIOUS
<1>4. \A i \in 1..(k - 1) : ~ IsAnswer(more[m + i])
  OBVIOUS
<1>5. Answering(units, m, g) /\ Answering(more, l, h)
  BY <1>1, AnsweringExists
<1> HIDE DEF m, l, g, h
<1>6. h[m] = g[m]
  <2>1. m <= m /\ m <= l /\ m \in 0..m
    BY <1>1
  <2>2. \A n \in 0..m : h[n] = g[n]
    <3>1. m \in Nat /\ l \in Nat /\ m <= l
      BY <1>1
    <3> QED
      BY <1>3, <1>5, <3>1, AnsweringSame
  <2> QED
    BY <2>1, <2>2
<1>7. \A n \in 1..l : h[n] = IF IsAnswer(more[n]) THEN Append(h[n - 1], more[n].kind) ELSE h[n - 1]
  BY <1>1, <1>5, AnsweringOne
<1>8. h[l - 1] = h[m]
  <2>1. CASE k = 1
    BY <1>1, <2>1
  <2>2. CASE k = 2
    <3>1. m + 1 \in 1..l /\ (m + 1) - 1 = m /\ l - 1 = m + 1 /\ 1 \in 1..(k - 1)
      BY <1>1, <2>2
    <3> QED
      BY <1>4, <1>7, <3>1
  <2>3. CASE k = 3
    <3>1. /\ m + 1 \in 1..l /\ (m + 1) - 1 = m /\ 1 \in 1..(k - 1)
          /\ m + 2 \in 1..l /\ (m + 2) - 1 = m + 1 /\ 2 \in 1..(k - 1) /\ l - 1 = m + 2
      BY <1>1, <2>3
    <3>2. h[m + 1] = h[m]
      BY <1>4, <1>7, <3>1
    <3>3. h[m + 2] = h[m + 1]
      BY <1>4, <1>7, <3>1
    <3> QED
      BY <3>1, <3>2, <3>3
  <2> QED
    BY <2>1, <2>2, <2>3
<1>9. l \in 1..l
  BY <1>1
<1>10. h[l] = IF IsAnswer(more[l]) THEN Append(g[m], more[l].kind) ELSE g[m]
  BY <1>6, <1>7, <1>8, <1>9
<1> QED
  BY <1>2, <1>10 DEF l

-----------------------------------------------------------------------------
(* The refinement of Session.                                              *)

\* The service loop is left only when the connection has ended.
Gone == pc \in {"failed", "logout", "end"} => conn # "open"

LEMMA GoneStep == Gone /\ [Next]_vars => Gone'
<1> SUFFICES ASSUME Gone, [Next]_vars
             PROVE  Gone'
  OBVIOUS
<1>1. Stopped \/ Notify \/ ClientSends \/ ConnEnds \/ Transmit("notifier") \/ UNCHANGED vars => Gone'
  BY DEF Gone, Stopped, Notify, ClientSends, ConnEnds, Transmit, Lock, Write, Sent, SendFails, Resume,
         vars, input
<1>2. Transmit("service") => Gone'
  BY DEF Gone, Transmit, Lock, Write, Sent, SendFails, Resume, Loop, input
<1>3. (\E k \in 1..HeaderLen : Read(k)) \/ RecvPayload \/ RecvError \/ Failed \/ Logout => Gone'
  BY DEF Gone, Read, RecvPayload, RecvError, Failed, Logout, input
<1>4. RecvHeader => Gone'
  <2>1. RecvHeader => conn' = conn /\ (pc' = "failed" => got = 0 /\ (got = 3 \/ conn # "open"))
                      /\ pc' \in {"failed", "act", "payload"}
    BY DEF RecvHeader, ReadEnds, Want, HeaderLen, input
  <2> QED
    BY <2>1 DEF Gone
<1>5. ActLogin \/ ActLoginAgain \/ Ignore \/ Act => Gone'
  BY DEF Gone, ActLogin, ActLoginAgain, Ignore, Act, Answer, Loop
<1> QED
  BY <1>1, <1>2, <1>3, <1>4, <1>5 DEF Next, Step, Service

\* What Session does not see.
LEMMA SessionStutters ==
  ASSUME UNCHANGED <<script, coming, conn, served, loggedIn>>, Owed' = Owed,
         Answers(out)' = Answers(out), pc' = "end" <=> pc = "end"
  PROVE  UNCHANGED S!vars
BY DEF S!vars

\* The client and the network.
LEMMA SessionClient ==
  ASSUME InAll, ClientSends \/ ConnEnds
  PROVE  [S!Next]_(S!vars)
<1>1. UNCHANGED <<script, pc, served, loggedIn, wr, out>>
  BY DEF ClientSends, ConnEnds, output, hist
<1>2. Owed' = Owed /\ Answers(out)' = Answers(out)
  <2>1. Owed' = Owed
    BY <1>1 DEF Owed
  <2>2. Answers(out)' = Answers(out)
    BY <1>1 DEF Answers
  <2> QED
    BY <2>1, <2>2
<1>3. CASE ConnEnds
  <2>1. UNCHANGED coming /\ <<conn, conn'>> \in {<<"open", "eof">>, <<"open", "reset">>, <<"eof", "reset">>}
    BY <1>3 DEF ConnEnds
  <2>2. S!End
    BY <1>1, <1>2, <2>1 DEF S!End
  <2> QED
    BY <1>1, <2>2 DEF S!Next
<1>4. CASE ClientSends
  <2>1. conn = "open" /\ UNCHANGED conn /\ coming.of \in DOMAIN script /\ coming' = After(coming)
    BY <1>4 DEF ClientSends
  <2>2. /\ coming \in Unit /\ script \in Scripts /\ Len(script) \in Nat /\ DOMAIN script = 1..Len(script)
        /\ Units(coming.of) \in 3..5
    BY <2>1, InFacts DEF InAll, InTypes
  <2>3. Whole(coming)
    BY <2>1, <2>2 DEF InAll, ReadInv, StreamInv
  <2>4. /\ coming.of \in Nat /\ coming.at \in Nat /\ coming.at >= 1 /\ coming.of <= Len(script)
        /\ coming.at <= Units(coming.of)
    BY <2>1, <2>2, <2>3 DEF Whole, Unit
  <2>5. coming' = IF coming.at < Units(coming.of) THEN [of |-> coming.of, at |-> coming.at + 1]
                                                  ELSE [of |-> coming.of + 1, at |-> 1]
    BY <2>1, <2>2, <2>3, AfterWhole
  <2> HIDE DEF Units
  <2>6. CASE coming.at < Units(coming.of)
    <3>1. coming'.of = coming.of /\ coming'.at = coming.at + 1 /\ coming'.at > 1
      BY <2>4, <2>5, <2>6
    <3>2. CASE coming.at = 1
      <4>1. coming.of - 1 < Len(script) /\ ~(coming.at > 1)
        BY <2>2, <2>4, <3>2
      <4>2. S!Begin
        BY <1>1, <1>2, <2>1, <3>1, <4>1 DEF S!Begin
      <4> QED
        BY <1>1, <4>2 DEF S!Next
    <3>3. CASE coming.at # 1
      <4>1. (coming'.at > 1) = (coming.at > 1) /\ coming'.of - 1 = coming.of - 1
        BY <2>4, <3>1, <3>3
      <4>2. UNCHANGED S!vars
        BY <1>1, <1>2, <2>1, <4>1 DEF S!vars
      <4> QED
        BY <4>2
    <3> QED
      BY <3>2, <3>3
  <2>7. CASE ~(coming.at < Units(coming.of))
    <3>1. /\ coming'.of = coming.of + 1 /\ coming'.at = 1 /\ coming.at > 1
      BY <2>2, <2>4, <2>5, <2>7
    <3>2. coming'.of - 1 = (coming.of - 1) + 1 /\ ~(coming'.at > 1)
      BY <2>4, <3>1
    <3>3. S!Arrive
      BY <1>1, <1>2, <2>1, <3>1, <3>2 DEF S!Arrive
    <3> QED
      BY <1>1, <3>3 DEF S!Next
  <2> QED
    BY <2>6, <2>7
<1> QED
  BY <1>3, <1>4

\* Reading is not seen.
LEMMA SessionReads ==
  ASSUME (\E k \in 1..HeaderLen : Read(k)) \/ RecvHeader \/ RecvPayload \/ RecvError
  PROVE  UNCHANGED S!vars
<1>1. UNCHANGED <<script, coming, conn, served, loggedIn, wr, out>>
  BY DEF Read, RecvHeader, RecvPayload, RecvError, input, output, hist
<1>2. pc # "end" /\ pc' # "end"
  BY DEF Read, RecvHeader, RecvPayload, RecvError
<1>3. Owed' = Owed /\ Answers(out)' = Answers(out)
  BY <1>1 DEF Owed, Answers
<1> QED
  BY <1>1, <1>2, <1>3, SessionStutters

\* The service loop is left.
LEMMA SessionLeaves ==
  ASSUME InAll, OutAll, Gone, Failed \/ Logout
  PROVE  [S!Next]_(S!vars)
<1>1. UNCHANGED <<script, coming, conn, served, wr, out>> /\ pc \in {"failed", "logout"}
  BY DEF Failed, Logout, input, output, hist
<1>2. Owed' = Owed /\ Answers(out)' = Answers(out) /\ Owed = "none"
  <2>1. wr["service"].pc = "idle"
    BY <1>1 DEF OutAll, OutInv, WritersInv
  <2> QED
    BY <1>1, <2>1 DEF Owed, Answers
<1>3. conn # "open"
  BY <1>1 DEF Gone
<1>4. CASE pc' # "end"
  <2>1. UNCHANGED loggedIn
    BY <1>4 DEF Failed, Logout
  <2> QED
    BY <1>1, <1>2, <1>4, <2>1, SessionStutters
<1>5. CASE pc' = "end"
  <2>1. loggedIn' = FALSE
    BY <1>5 DEF Failed, Logout, OutAll, OutTypes
  <2>2. S!Leave
    BY <1>1, <1>2, <1>3, <1>5, <2>1 DEF S!Leave
  <2> QED
    BY <1>1, <2>2 DEF S!Next
<1> QED
  BY <1>4, <1>5

\* A request is taken when it has arrived, or when it was cut short.
LEMMA SessionTakes ==
  ASSUME InAll, OutAll, ActLogin \/ ActLoginAgain \/ Ignore \/ Act
  PROVE  [S!Next]_(S!vars)
<1> DEFINE n == served + 1
           t == script[n]
<1>1. /\ pc = "act" /\ pc' \in {"answer", "header"} /\ served' = n
      /\ UNCHANGED <<script, coming, conn, out>>
  BY DEF ActLogin, ActLoginAgain, Ignore, Act, Taken, Answer, Loop, input, output
<1>2. Answers(out)' = Answers(out)
  BY <1>1 DEF Answers
<1>3. wr["service"].pc = "idle" /\ Owed = "none"
  BY <1>1 DEF OutAll, OutInv, WritersInv, Owed
<1>4. ActInv
  BY <1>1 DEF InAll, ReadInv
<1>5. n \in DOMAIN script /\ (Place(n + 1, 0) \/ Drained(n))
  BY <1>4 DEF ActInv
<1>6. /\ n \in Nat /\ served \in Nat /\ n + 1 \in Nat /\ Len(script) \in Nat /\ DOMAIN script = 1..Len(script)
      /\ t \in Types /\ served < Len(script)
  BY <1>5, InFacts DEF InAll
<1>7. TypeIn(hdr) = t
  <2> PICK r \in 1..3 : hdr = HeaderOf(n, r)
    BY <1>4 DEF ActInv, HeaderLen
  <2> HIDE DEF n
  <2> QED
    BY <1>5, HeaderSays DEF InAll
<1>8. coming \in Unit /\ coming.of \in Nat /\ coming.at \in Nat
  BY DEF InAll, InTypes, Unit
\* Where it is.
<1>9. served < coming.of - 1 \/ (served = coming.of - 1 /\ coming.at > 1 /\ conn # "open")
  <2>1. CASE Place(n + 1, 0)
    <3>1. n + 1 <= coming.of
      <4> HIDE DEF n
      <4> QED
        BY <1>6, <2>1, ComesAfter DEF InAll
    <3> QED
      BY <1>6, <1>8, <3>1
  <2>2. CASE Drained(n)
    BY <1>6, <1>8, <2>2 DEF Drained, Torn
  <2> QED
    BY <1>5, <2>1, <2>2
\* What becomes of it.
<1>10. loggedIn \in BOOLEAN /\ DOMAIN wr = Writers /\ "service" \in Writers
  BY DEF OutAll, OutTypes, Writers
<1>11. S!Login \/ S!Honor
  <2>1. ASSUME NEW kind, NEW size, NEW from \in {"lock", "refuse"}, Answer(kind, size, from)
        PROVE  Owed' = kind
    BY <1>10, <2>1 DEF Answer, Owed
  <2>2. CASE ActLogin
    <3>1. t = "login" /\ ~loggedIn
      BY <1>7, <2>2 DEF ActLogin
    <3>2. (loggedIn' = TRUE /\ Owed' = "ack") \/ (UNCHANGED loggedIn /\ Owed' = "nack")
      BY <2>1, <2>2 DEF ActLogin
    <3> QED
      BY <1>1, <3>1, <3>2 DEF S!Login
  <2>3. CASE ActLoginAgain
    <3>1. t = "login" /\ loggedIn /\ UNCHANGED loggedIn
      BY <1>7, <2>3 DEF ActLoginAgain
    <3>2. Owed' = "nack"
      BY <2>1, <2>3 DEF ActLoginAgain
    <3> QED
      BY <1>1, <3>1, <3>2 DEF S!Login
  <2>4. CASE Ignore
    <3>1. t # "none"
      BY <1>6 DEF Types
    <3>2. t # "login" /\ ~loggedIn /\ UNCHANGED loggedIn /\ UNCHANGED wr
      BY <1>7, <2>4, <3>1 DEF Ignore, output
    <3>3. Owed' = "none"
      BY <1>3, <3>2 DEF Owed
    <3> QED
      BY <1>1, <3>2, <3>3 DEF S!Honor
  <2>5. CASE Act
    <3>1. t # "login" /\ loggedIn /\ UNCHANGED loggedIn
      BY <1>7, <2>5 DEF Act
    <3>2. Owed' = "ack" \/ (t # "status" /\ Owed' = "nack")
      BY <1>7, <2>1, <2>5 DEF Act
    <3> QED
      BY <1>1, <3>1, <3>2 DEF S!Honor
  <2> QED
    BY <2>2, <2>3, <2>4, <2>5
<1>12. S!Take
  BY <1>1, <1>2, <1>3, <1>6, <1>9, <1>11 DEF S!Take
<1> QED
  BY <1>1, <1>12 DEF S!Next

\* An answer is delivered by the write that ends it.
LEMMA SessionWrites ==
  ASSUME OutAll, NEW x \in Writers, NEW k \in 1..HeaderLen, Write(x, k)
  PROVE  [S!Next]_(S!vars)
<1> DEFINE w == wr[x]
           v == AfterWrite(w, k)
           sofar == Sofar(x)
           size == w.size
           len == HeaderLen + size
           n == Len(out)
           piece == Piece(x, k)
           unit(a) == [by |-> x, kind |-> w.kind, at |-> a, len |-> len]
<1>1. /\ w.pc \in {"head", "body", "refuse"} /\ k <= w.left
      /\ out' = out \o piece /\ wr' = [wr EXCEPT ![x] = v]
      /\ UNCHANGED <<script, coming, conn, pc, loggedIn, served>>
  BY DEF Write, input, hist
<1>2. w \in WriterTypes /\ wr \in [Writers -> WriterTypes] /\ "service" \in Writers
  BY DEF OutAll, OutTypes, WriterTypes, Writers
<1>3. /\ v \in WriterTypes /\ v.kind = w.kind
      /\ w.left > k => v.pc = w.pc
      /\ w.left = k /\ w.pc = "head" /\ size > 0 => v.pc = "body"
      /\ w.left = k /\ ~(w.pc = "head" /\ size > 0) =>
           v.pc = IF w.pc = "refuse" THEN "refused" ELSE "unlock"
  <2> HIDE DEF w
  <2> QED
    BY <1>1, <1>2, WrittenOn
<1>4. wr'[x] = v /\ \A y \in Writers \ {x} : wr'[y] = wr[y]
  BY <1>1, <1>2
<1>5. Writing(x)
  BY <1>1 DEF Writing
<1>6. /\ sofar \in Nat /\ sofar + k <= len
      /\ piece \in Seq(Written) /\ Len(piece) = k
      /\ \A i \in 1..k : piece[i] = unit(sofar + i)
  BY <1>1, <1>5, PieceUnits
<1>7. /\ w.left \in 0..3 /\ size \in {0, 1} /\ k \in 1..3 /\ HeaderLen = 3
      /\ w.kind # "none" /\ (w.pc = "refuse" => size = 0)
      /\ w.pc = "body" => w.left <= size
  BY <1>1, <1>2, <1>5 DEF WriterTypes, HeaderLen, OutAll, OutTypes, OutInv, WritersInv
<1>8. /\ w.pc = "body" => sofar = 3 + size - w.left
      /\ w.pc # "body" => sofar = 3 - w.left
      /\ len = 3 + size
  BY <1>7 DEF Sofar
<1> HIDE DEF w, v, sofar, size, len, n, piece
\* The packet ends with the write, or goes on after it.
<1>9. \/ sofar + k = len /\ v.pc \in {"refused", "unlock"}
      \/ sofar + k < len /\ v.pc \in {"head", "body", "refuse"}
  <2>1. CASE w.left > k
    <3>1. sofar + k < len
      BY <1>1, <1>7, <1>8, <2>1
    <3> QED
      BY <1>1, <1>3, <2>1, <3>1
  <2>2. CASE w.left = k /\ w.pc = "head" /\ size > 0
    <3>1. sofar + k < len
      BY <1>7, <1>8, <2>2
    <3> QED
      BY <1>3, <2>2, <3>1
  <2>3. CASE w.left = k /\ ~(w.pc = "head" /\ size > 0)
    <3>1. sofar + k = len
      BY <1>1, <1>7, <1>8, <2>3
    <3> QED
      BY <1>3, <2>3, <3>1
  <2> QED
    BY <1>1, <1>7, <2>1, <2>2, <2>3
\* The answers after it.
<1>10. out \in Seq(Written) /\ n \in Nat /\ n = Len(out)
  BY DEF OutAll, OutTypes, n
<1>11. /\ out' \in Seq(Written) /\ Len(out') = n + k
       /\ \A i \in 1..n : out'[i] = out[i]
       /\ \A i \in 1..k : out'[n + i] = unit(sofar + i)
  <2>1. /\ out' \in Seq(Written) /\ Len(out') = n + k
        /\ \A i \in 1..(n + k) : out'[i] = IF i <= n THEN out[i] ELSE piece[i - n]
    BY <1>1, <1>6, <1>10, ConcatProperties
  <2>2. \A i \in 1..n : out'[i] = out[i]
    BY <1>7, <1>10, <2>1
  <2>3. ASSUME NEW i \in 1..k
        PROVE  out'[n + i] = unit(sofar + i)
    <3>1. n + i \in 1..(n + k) /\ ~(n + i <= n) /\ (n + i) - n = i
      BY <1>7, <1>10
    <3> QED
      BY <1>6, <2>1, <3>1
  <2> QED
    BY <2>1, <2>2, <2>3
<1>12. /\ \A i \in 1..(k - 1) : ~ IsAnswer(out'[n + i])
       /\ out'[Len(out')] = unit(sofar + k)
  <2>1. \A i \in 1..(k - 1) : i \in 1..k /\ sofar + i # len
    BY <1>6, <1>7, <1>8
  <2>2. k \in 1..k /\ Len(out') = n + k
    BY <1>7, <1>11
  <2>3. out'[Len(out')] = unit(sofar + k)
    BY <1>11, <2>2
  <2>4. ASSUME NEW i \in 1..(k - 1)
        PROVE  ~ IsAnswer(out'[n + i])
    <3>1. out'[n + i] = unit(sofar + i) /\ sofar + i # len
      BY <1>11, <2>1
    <3> QED
      BY <3>1 DEF IsAnswer
  <2> QED
    BY <2>3, <2>4
<1>13. Answers(out') = IF x = "service" /\ sofar + k = len THEN Append(Answers(out), w.kind) ELSE Answers(out)
  <2>1. Answers(out') = IF IsAnswer(out'[Len(out')])
                        THEN Append(Answers(out), out'[Len(out')].kind) ELSE Answers(out)
    BY <1>7, <1>10, <1>11, <1>12, AnswersGrow
  <2>2. /\ IsAnswer(out'[Len(out')]) <=> x = "service" /\ sofar + k = len
        /\ out'[Len(out')].kind = w.kind
    BY <1>12 DEF IsAnswer
  <2> QED
    BY <2>1, <2>2
<1>14. CASE x = "service" /\ sofar + k = len
  <2>1. Owed = w.kind /\ w.kind # "none"
    BY <1>1, <1>7, <1>14 DEF Owed, w
  <2>2. Owed' = "none"
    <3>1. v.pc \in {"refused", "unlock"}
      BY <1>6, <1>7, <1>8, <1>9, <1>14
    <3> QED
      BY <1>4, <1>14, <3>1 DEF Owed
  <2>3. S!Deliver
    BY <1>1, <1>13, <1>14, <2>1, <2>2 DEF S!Deliver
  <2> QED
    BY <1>1, <2>3 DEF S!Next
<1>15. CASE ~(x = "service" /\ sofar + k = len)
  <2>1. Owed' = Owed
    <3>1. CASE x = "service"
      <4>1. wr'["service"] = v /\ v.pc \in {"head", "body", "refuse"} /\ v.kind = wr["service"].kind
            /\ wr["service"].pc \in {"head", "body", "refuse"}
        BY <1>1, <1>3, <1>4, <1>6, <1>8, <1>9, <1>15, <3>1 DEF w
      <4> QED
        BY <4>1 DEF Owed
    <3>2. CASE x # "service"
      BY <1>2, <1>4, <3>2 DEF Owed
    <3> QED
      BY <3>1, <3>2
  <2>2. Answers(out)' = Answers(out)
    BY <1>13, <1>15
  <2> QED
    BY <1>1, <2>1, <2>2, SessionStutters
<1> QED
  BY <1>14, <1>15

\* The rest of sending a packet: an answer may be lost with the connection.
LEMMA SessionSends ==
  ASSUME OutAll, NEW x \in Writers, Transmit(x)
  PROVE  [S!Next]_(S!vars)
<1>1. CASE \E k \in 1..HeaderLen : Write(x, k)
  BY <1>1, SessionWrites
<1>2. ASSUME Lock(x) \/ Sent(x) \/ SendFails(x)
      PROVE  [S!Next]_(S!vars)
  <2>1. /\ UNCHANGED <<script, coming, conn, loggedIn, served, out>> /\ (pc' = "end" <=> pc = "end")
        /\ "service" \in Writers /\ DOMAIN wr = Writers
    BY <1>2 DEF Lock, Sent, SendFails, Resume, Loop, input, hist, OutAll, OutTypes, Writers
  <2>2. Answers(out)' = Answers(out)
    BY <2>1 DEF Answers
  <2>3. CASE x # "service" \/ Lock(x) \/ Sent(x)
    <3>1. Owed' = Owed
      <4>1. CASE x # "service"
        <5>1. wr'["service"] = wr["service"]
          BY <1>2, <2>1, <4>1 DEF Lock, Sent, SendFails
        <5> QED
          BY <5>1 DEF Owed
      <4>2. CASE x = "service" /\ Lock(x)
        <5>1. wr' = [wr EXCEPT !["service"].pc = "head", !["service"].left = HeaderLen]
              /\ wr["service"].pc = "lock"
          BY <4>2 DEF Lock
        <5>2. wr["service"] \in WriterTypes
          BY <2>1 DEF OutAll, OutTypes, WriterTypes
        <5>3. wr'["service"].pc = "head" /\ wr'["service"].kind = wr["service"].kind
          BY <2>1, <5>1, <5>2 DEF WriterTypes
        <5> QED
          BY <5>1, <5>3 DEF Owed
      <4>3. CASE x = "service" /\ Sent(x)
        <5>1. wr'["service"].pc = "idle" /\ wr["service"].pc \in {"unlock", "refused"}
          BY <2>1, <4>3 DEF Sent, Quiet
        <5> QED
          BY <5>1 DEF Owed
      <4> QED
        BY <2>3, <4>1, <4>2, <4>3
    <3> QED
      BY <2>1, <2>2, <3>1, SessionStutters
  <2>4. CASE x = "service" /\ SendFails(x)
    <3>1. /\ wr["service"].pc \in {"head", "body", "refuse"} /\ conn = "reset"
          /\ wr'["service"].pc = "idle"
      BY <2>1, <2>4 DEF SendFails, Quiet
    <3>2. Owed # "none" /\ Owed' = "none"
      BY <2>1, <3>1 DEF Owed, OutAll, OutTypes, Writing
    <3>3. S!Lose
      BY <2>1, <2>2, <3>1, <3>2 DEF S!Lose
    <3> QED
      BY <2>1, <3>3 DEF S!Next
  <2> QED
    BY <1>2, <2>3, <2>4
<1> QED
  BY <1>1, <1>2 DEF Transmit

LEMMA SessionStep == OutAll /\ InAll /\ Gone /\ [Next]_vars => [S!Next]_(S!vars)
<1> SUFFICES ASSUME OutAll, InAll, Gone, [Next]_vars
             PROVE  [S!Next]_(S!vars)
  OBVIOUS
<1>1. CASE Stopped \/ UNCHANGED vars
  <2>1. /\ UNCHANGED <<script, coming, conn, served, loggedIn, pc, wr, out>>
    BY <1>1 DEF Stopped, vars, input, output, hist
  <2>2. Owed' = Owed /\ Answers(out)' = Answers(out)
    BY <2>1 DEF Owed, Answers
  <2> QED
    BY <2>1, <2>2, SessionStutters
<1>2. CASE Notify
  <2>1. /\ UNCHANGED <<script, coming, conn, served, loggedIn, pc, out>>
        /\ wr'["service"] = wr["service"]
    BY <1>2 DEF Notify, input, hist, OutAll, OutTypes, Writers
  <2>2. Owed' = Owed /\ Answers(out)' = Answers(out)
    BY <2>1 DEF Owed, Answers
  <2> QED
    BY <2>1, <2>2, SessionStutters
<1>3. CASE ClientSends \/ ConnEnds
  BY <1>3, SessionClient
<1>4. CASE Transmit("notifier") \/ Transmit("service")
  <2>1. "notifier" \in Writers /\ "service" \in Writers
    BY DEF Writers
  <2> QED
    BY <1>4, <2>1, SessionSends
<1>5. CASE (\E k \in 1..HeaderLen : Read(k)) \/ RecvHeader \/ RecvPayload \/ RecvError
  BY <1>5, SessionReads
<1>6. CASE Failed \/ Logout
  BY <1>6, SessionLeaves
<1>7. CASE ActLogin \/ ActLoginAgain \/ Ignore \/ Act
  BY <1>7, SessionTakes
<1> QED
  BY <1>1, <1>2, <1>3, <1>4, <1>5, <1>6, <1>7 DEF Next, Step, Service

\* The server takes a client's requests one by one in the order they were
\* sent, honors LOGIN only before and the others only after a LOGIN that
\* succeeded (server.h:35-38), and sends each of those one answer before it
\* takes the next: the connection with its streams, buffers and mutex
\* implements the session, for every script.
THEOREM SessionImplements == Spec => SessionSpec
<1>1. Init => S!Init
  <2> SUFFICES ASSUME Init
               PROVE  S!Init
    OBVIOUS
  <2>1. /\ script \in Scripts /\ coming.of - 1 = 0 /\ ~(coming.at > 1) /\ served = 0
        /\ loggedIn = FALSE /\ conn = "open" /\ pc # "end" /\ out = <<>>
        /\ wr["service"].pc = "idle"
    BY DEF Init, Quiet, Writers
  <2>2. Owed = "none"
    BY <2>1 DEF Owed
  <2>3. Answers(out) = <<>>
    <3>1. Len(out) = 0 /\ 0 \in Nat
      BY <2>1
    <3>2. \E g : Answering(out, 0, g)
      BY <3>1, AnsweringExists
    <3> DEFINE g == CHOOSE f : Answering(out, 0, f)
    <3>3. Answering(out, 0, g)
      BY <3>2
    <3>4. Answers(out) = g[0]
      BY <3>1, AnswersRecursive
    <3> HIDE DEF g
    <3> QED
      BY <3>1, <3>3, <3>4, AnsweringNone
  <2> QED
    BY <2>1, <2>2, <2>3 DEF S!Init
<1>2. Init => Gone
  BY DEF Init, Gone
<1> QED
  BY <1>1, <1>2, OutInit, OutStep, ReadInit, ReadStep, GoneStep, SessionStep,
     PTL DEF Spec, SessionSpec, S!Spec
=============================================================================
