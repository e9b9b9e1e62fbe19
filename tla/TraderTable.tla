---------------------------- MODULE TraderTable -----------------------------
(***************************************************************************)
(* The traders map of src/trader.c: login, logout, the packets sent to     *)
(* traders and the end at shutdown, as the service threads of src/server.c *)
(* and the matchmaker call them.                                           *)
(*                                                                         *)
(* trader_login takes no lock but the trader's own around its reference    *)
(* count, so each of its looks at shared memory is an action.  A trader's  *)
(* mutex is held across actions only while a packet is written; but a send *)
(* that fails returns with the mutex locked, and it stays so.              *)
(***************************************************************************)
EXTENDS Integers, FiniteSets, Sequences

CONSTANTS
  Conns,        \* descriptors of connections, each with its service thread
  Notifiers,    \* the matchmaker thread, which sends but serves nobody
  Names,        \* user names
  NoName,       \* before the first LOGIN of a connection
  NoFd,         \* -1 in TRADER.fd
  Nobody,       \* owner of a free mutex
  Ended,        \* owner of a mutex that a thread had when it ended
  Memory,       \* what TRADER.ref may read before it is counted up
  MAX_TRADERS,  \* slots of all_traders
  RefCap,       \* bound: no LOGIN names a trader with so many references
  MaxReconnects \* bound on the connections that reuse a descriptor

Threads == Conns \cup Notifiers

ASSUME TableAssumption ==
  /\ IsFiniteSet(Conns) /\ Conns \cap Notifiers = {}
  /\ NoFd \notin Conns
  /\ Nobody \notin Threads /\ Ended \notin Threads \cup {Nobody}
  /\ Memory \subseteq Int
  /\ NoName \notin Names
  /\ MAX_TRADERS \in Nat \ {0}

VARIABLES
  trader,      \* every TRADER ever allocated: its name, ref, fd, mutex owner
  kept,        \* the traders whose mutex a failed send has left locked
  all_traders, \* slot -> index in trader, 0 for NULL
  count,       \* traders counted
  th,          \* the threads' program counters and locals
  fini,        \* trader_fini's loop index, 0 before
  freed,       \* the traders trader_fini has freed
  reconnects,  \* connections that have reused a descriptor
  undef,       \* freed memory has been used
  overlapped   \* history: two trader_login have run at once

map  == <<trader, kept, all_traders, count>>
rest == <<fini, freed, reconnects, undef, overlapped>>
vars == <<map, rest, th>>

Slots   == 1..MAX_TRADERS
Traders == 1..Len(trader)

First(S) == CHOOSE i \in S : \A j \in S : i <= j

\* Slip: from the other end.
LastEmpty ==
  LET empty == {i \in Slots : all_traders[i] = 0}
  IN  IF empty = {} THEN 0 ELSE CHOOSE i \in empty : \A j \in empty : i >= j

\* getFirstAvailableIndex; 0 where the code has -1.
FirstEmpty ==
  LET empty == {i \in Slots : all_traders[i] = 0} IN IF empty = {} THEN 0 ELSE First(empty)

\* The slots that hold a trader of this name, and the first such trader, 0 if
\* there is none.
SlotsOf(n) == {i \in Slots : all_traders[i] # 0 /\ trader[all_traders[i]].name = n}
Find(n)    == IF SlotsOf(n) = {} THEN 0 ELSE all_traders[First(SlotsOf(n))]

\* Slip: a mutex that does not exclude.
AnyCanLock(x, o) == TRUE

\* The mutexes are recursive.
CanLock(x, o) == trader[o].owner \in {Nobody, x}

\* Slip: the map's reference only.
MapRef == 1

\* The map's reference and the session's.
NewRefs == 2

\* The thread's program counter, and its locals: this_trader, the name it
\* logs in with, the trader it looks at or sends to, a slot (the one chosen
\* for a new trader or the broadcast's), count as loaded by count++, and the
\* descriptor it writes to.
Idle == [pc |-> "idle", me |-> 0, name |-> NoName, to |-> 0, at |-> 0, seen |-> 0, dest |-> NoFd]

LoginSteps == {"ref", "check", "adopt", "full", "load", "create", "choose", "enter"}
InLogin    == {c \in Conns : th[c].pc \in LoginSteps}

-----------------------------------------------------------------------------
Init ==
  /\ trader = <<>> /\ kept = {}
  /\ all_traders = [i \in Slots |-> 0] /\ count = 0
  /\ th = [x \in Threads |-> Idle]
  /\ fini = 0 /\ freed = {} /\ reconnects = 0
  /\ undef = FALSE /\ overlapped = FALSE

Go(x, from, to) == th[x].pc = from /\ th' = [th EXCEPT ![x].pc = to]

-----------------------------------------------------------------------------
(* trader_login of a name that the map has.                                *)

\* checkOldTraderAndLogin: scan the map.
Lookup(c, n) ==
  LET o == Find(n) IN
  /\ th[c].pc = "idle" /\ th[c].me = 0
  /\ o # 0 => trader[o].ref < RefCap
  /\ th' = [th EXCEPT ![c].pc = IF o # 0 THEN "ref" ELSE "full",
                      ![c].to = o, ![c].name = n]
  /\ overlapped' = (overlapped \/ InLogin # {})
  /\ UNCHANGED <<map, fini, freed, reconnects, undef>>

\* trader_ref, under the trader's mutex.
Ref(c) ==
  /\ Go(c, "ref", "check")
  /\ CanLock(c, th[c].to)
  /\ trader' = [trader EXCEPT ![th[c].to].ref = @ + 1]
  /\ UNCHANGED <<kept, all_traders, count, rest>>

\* Slip: a session that exists is taken over.
CheckSkipped(c) ==
  /\ Go(c, "check", "adopt")
  /\ UNCHANGED <<map, rest>>

\* A session exists: refused, with the reference taken.
Check(c) ==
  /\ Go(c, "check", IF trader[th[c].to].fd # NoFd THEN "refused" ELSE "adopt")
  /\ UNCHANGED <<map, rest>>

\* The session is the caller's; send an ACK.
Adopt(c) ==
  /\ th[c].pc = "adopt"
  /\ trader' = [trader EXCEPT ![th[c].to].fd = c]
  /\ th' = [th EXCEPT ![c].pc = "send", ![c].me = th[c].to]
  /\ UNCHANGED <<kept, all_traders, count, rest>>

-----------------------------------------------------------------------------
(* trader_login of a new name.                                             *)

Full(c) ==
  /\ Go(c, "full", IF count >= MAX_TRADERS THEN "refused" ELSE "load")
  /\ UNCHANGED <<map, rest>>

\* count++, a load and a store; then the new trader, whose ref is counted up
\* from what malloc left there.
Load(c) ==
  /\ th[c].pc = "load"
  /\ th' = [th EXCEPT ![c].pc = "create", ![c].seen = count]
  /\ UNCHANGED <<map, rest>>

Create(c) ==
  /\ th[c].pc = "create"
  /\ count' = th[c].seen + 1
  /\ \E garbage \in Memory :
       trader' = Append(trader, [name |-> th[c].name, ref |-> garbage + NewRefs,
                                 fd |-> c, owner |-> Nobody])
  /\ th' = [th EXCEPT ![c].pc = "choose", ![c].to = Len(trader) + 1, ![c].seen = 0]
  /\ UNCHANGED <<kept, all_traders, rest>>

\* Slip: -1 is taken for a slot.
ChooseAny(c) ==
  /\ th[c].pc = "choose"
  /\ th' = [th EXCEPT ![c].pc = "enter", ![c].at = FirstEmpty]
  /\ UNCHANGED <<map, rest>>

\* With no slot left the trader is lost and the login refused.
Choose(c) ==
  /\ th[c].pc = "choose"
  /\ th' = [th EXCEPT ![c].pc = IF FirstEmpty = 0 THEN "refused" ELSE "enter",
                      ![c].at = FirstEmpty]
  /\ UNCHANGED <<map, rest>>

\* The slot may no longer be free.
Enter(c) ==
  /\ th[c].pc = "enter"
  /\ all_traders' = [all_traders EXCEPT ![th[c].at] = th[c].to]
  /\ th' = [th EXCEPT ![c].pc = "send", ![c].me = th[c].to, ![c].at = 0]
  /\ UNCHANGED <<trader, kept, count, rest>>

\* alreadyRegistred: a NACK straight to the descriptor.
Refuse(c) ==
  /\ th[c].pc = "refused"
  /\ th' = [th EXCEPT ![c] = Idle]
  /\ UNCHANGED <<map, rest>>

-----------------------------------------------------------------------------
(* Packets.  at is 0 for a packet to one trader, else the broadcast's slot.*)

\* A request is answered to its trader, a second LOGIN too.
Answer(c) ==
  /\ th[c].me # 0 /\ th[c].pc = "idle"
  /\ th' = [th EXCEPT ![c].pc = "send", ![c].to = th[c].me]
  /\ UNCHANGED <<map, rest>>

\* An order posted or canceled is broadcast first, a trade by the matchmaker.
Broadcast(x) ==
  /\ th[x].pc = "idle" /\ fini = 0
  /\ IF x \in Conns THEN th[x].me # 0 ELSE count > 0
  /\ th' = [th EXCEPT ![x].pc = "scan", ![x].at = 1]
  /\ UNCHANGED <<map, rest>>

\* trader_broadcast_packet's loop: to every trader of the map, logged in or
\* not; then a service thread answers its own trader.
Scan(x) ==
  LET t == th[x] IN
  /\ t.pc = "scan"
  /\ th' = [th EXCEPT ![x] =
       IF t.at > MAX_TRADERS
       THEN IF x \in Conns THEN [t EXCEPT !.pc = "send", !.to = t.me, !.at = 0] ELSE Idle
       ELSE IF all_traders[t.at] = 0 THEN [t EXCEPT !.at = t.at + 1]
       ELSE [t EXCEPT !.pc = "send", !.to = all_traders[t.at]]]
  /\ UNCHANGED <<map, rest>>

\* BOUGHT and SOLD, from the matchmaker to one trader.
Notify(x) ==
  /\ th[x].pc = "idle" /\ fini = 0
  /\ \E i \in Slots :
       /\ all_traders[i] # 0
       /\ th' = [th EXCEPT ![x].pc = "send", ![x].to = all_traders[i]]
  /\ UNCHANGED <<map, rest>>

\* trader_send_packet: lock, and write to the descriptor of that moment.
Send(x) ==
  LET o == th[x].to IN
  /\ th[x].pc = "send"
  /\ CanLock(x, o)
  /\ trader' = [trader EXCEPT ![o].owner = x]
  /\ th' = [th EXCEPT ![x].pc = "write", ![x].dest = trader[o].fd]
  /\ UNCHANGED <<kept, all_traders, count, rest>>

\* After a packet: the broadcast's next slot, or the next request.
Written(x) ==
  LET t == th[x] IN
  th' = [th EXCEPT ![x] =
    IF t.at # 0 THEN [t EXCEPT !.pc = "scan", !.at = t.at + 1, !.to = 0, !.dest = NoFd]
                ELSE [Idle EXCEPT !.me = t.me]]

\* Slip: no unlock.
SentHeld(x) ==
  /\ th[x].pc = "write" /\ th[x].dest # NoFd
  /\ Written(x)
  /\ UNCHANGED <<map, rest>>

\* Written in full: unlock, which frees the mutex unless an earlier send of
\* this thread has left it locked.
Sent(x) ==
  /\ th[x].pc = "write" /\ th[x].dest # NoFd
  /\ Written(x)
  /\ trader' = [trader EXCEPT ![th[x].to].owner = IF th[x].to \in kept THEN x ELSE Nobody]
  /\ UNCHANGED <<kept, all_traders, count, rest>>

\* proto_send_packet returns -1: always without a descriptor, and with one
\* when its client has reset the connection.  No unlock.
SendFails(x) ==
  /\ th[x].pc = "write"
  /\ Written(x)
  /\ kept' = kept \cup {th[x].to}
  /\ UNCHANGED <<trader, all_traders, count, rest>>

-----------------------------------------------------------------------------
(* The end of a connection, and of the server.                             *)

\* End of file: of a connection that has not logged in nothing is left.
EndOfFile(c) ==
  /\ Go(c, "idle", IF th[c].me = 0 THEN "done" ELSE "logout")
  /\ UNCHANGED <<map, rest>>

\* A new connection gets the descriptor and a thread of its own.
Reconnect(c) ==
  /\ fini = 0
  /\ reconnects < MaxReconnects /\ reconnects' = reconnects + 1
  /\ Go(c, "done", "idle")
  /\ UNCHANGED <<map, fini, freed, undef, overlapped>>

\* The mutexes a thread has when it ends are nobody's to unlock.
Orphaned(traders, c) ==
  [o \in DOMAIN traders |->
     IF traders[o].owner = c THEN [traders[o] EXCEPT !.owner = Ended] ELSE traders[o]]

\* trader_logout: if the name is in the map, drop the session's reference and
\* forget its descriptor; then the thread ends.  A trader without references
\* goes, with the slot of the first one of its name, and is written to after.
Logout(c) ==
  LET o    == th[c].me
      name == trader[o].name
      last == trader[o].ref = 1
  IN
  /\ th[c].pc = "logout"
  /\ CanLock(c, o)
  /\ IF Find(name) # 0
     THEN /\ trader' = Orphaned([trader EXCEPT ![o].ref = @ - 1, ![o].fd = NoFd], c)
          /\ all_traders' = [i \in Slots |-> IF last /\ i = First(SlotsOf(name)) THEN 0 ELSE all_traders[i]]
          /\ undef' = last
     ELSE trader' = Orphaned(trader, c) /\ UNCHANGED <<all_traders, undef>>
  /\ th' = [th EXCEPT ![c] = [Idle EXCEPT !.pc = "done"]]
  /\ UNCHANGED <<kept, count, fini, freed, reconnects, overlapped>>

\* trader_fini, called when the service threads are gone and the matchmaker
\* has been joined.
StartFini ==
  /\ fini = 0 /\ fini' = 1
  /\ \A c \in Conns : th[c].pc = "done"
  /\ \A x \in Notifiers : th[x].pc = "idle"
  /\ UNCHANGED <<map, th, freed, reconnects, undef, overlapped>>

\* Slip: one too few.
FiniLoopShort == fini + 1 <= count

\* The loop goes up to the count of traders.
FiniLoop == fini <= count

\* Lock, free, unlock.  A count above the size of the array reads beyond it.
FiniStep ==
  /\ fini # 0 /\ FiniLoop
  /\ fini' = fini + 1
  /\ undef' = (fini \notin Slots)
  /\ freed' = IF fini \in Slots THEN freed \cup ({all_traders[fini]} \ {0}) ELSE freed
  /\ fini \in Slots /\ all_traders[fini] # 0 => trader[all_traders[fini]].owner = Nobody
  /\ UNCHANGED <<map, th, reconnects, overlapped>>

-----------------------------------------------------------------------------
Login(c) ==
  \/ Ref(c) \/ Check(c) \/ Adopt(c)
  \/ Full(c) \/ Load(c) \/ Create(c) \/ Choose(c) \/ Enter(c) \/ Refuse(c)

Transmit(x) == Scan(x) \/ Send(x) \/ Sent(x) \/ SendFails(x)

Step ==
  /\ ~undef
  /\ \/ \E c \in Conns :
          \/ Login(c) \/ Answer(c) \/ EndOfFile(c) \/ Logout(c) \/ Reconnect(c)
          \/ \E n \in Names : Lookup(c, n)
     \/ \E x \in Threads : Broadcast(x) \/ Transmit(x)
     \/ \E x \in Notifiers : Notify(x)
     \/ StartFini \/ FiniStep

\* The process ends; freed memory has been used; or some threads wait for a
\* mutex that nobody will unlock.
Finished == fini # 0 /\ ~FiniLoop

Stopped ==
  /\ undef \/ Finished \/ kept # {}
  /\ UNCHANGED vars

Next == Step \/ Stopped

Spec == Init /\ [][Next]_vars
=============================================================================
