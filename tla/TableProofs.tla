----------------------------- MODULE TableProofs ----------------------------
(***************************************************************************)
(* The traders map is never caught half way: for any number of threads,    *)
(* names and slots the mutexes, the references, the descriptors and the    *)
(* slots agree with where every thread is.                                 *)
(***************************************************************************)
EXTENDS TableProps, ListLemmas, FiniteSetTheorems

USE TableAssumption

\* What holds of the threads and the mutexes however logins overlap and
\* whatever malloc leaves in TRADER.ref.
BaseInv == TypeOK /\ ThreadInv /\ LockInv /\ FiniInv

\* The first of some slots.
LEMMA FirstIsLeast ==
  ASSUME NEW S \in SUBSET Slots, S # {}
  PROVE  First(S) \in S /\ \A j \in S : First(S) <= j
<1>1. S \in SUBSET Nat
  BY DEF Slots
<1>2. \E i \in S : \A j \in S : i <= j
  BY <1>1, LeastNatural
<1> QED
  BY <1>2 DEF First

\* There are finitely many connections.
LEMMA ConnsFinite ==
  ASSUME NEW S \in SUBSET Conns
  PROVE  IsFiniteSet(S) /\ Cardinality(S) \in Nat
BY FS_Subset, FS_CardinalityType

\* What typing says of one trader, one slot and one thread.
LEMMA Typing ==
  ASSUME TypeOK
  PROVE  /\ Len(trader) \in Nat /\ DOMAIN trader = Traders /\ Traders \in SUBSET Nat /\ 0 \notin Traders
         /\ \A o \in Traders : trader[o] \in TraderRecords
         /\ \A i \in Slots : all_traders[i] \in Traders \cup {0}
         /\ th \in [Threads -> Locals]
         /\ \A x \in Threads : th[x] \in Locals
<1>1. Len(trader) \in Nat /\ DOMAIN trader = Traders /\ \A o \in Traders : trader[o] \in TraderRecords
  BY LenProperties, ElementOfSeq DEF TypeOK, Traders
<1> QED
  BY <1>1 DEF TypeOK, Traders

\* A trader may be replaced, and one appended.
LEMMA ChangeTrader ==
  ASSUME TypeOK, NEW o \in Traders, NEW r \in TraderRecords
  PROVE  /\ [trader EXCEPT ![o] = r] \in Seq(TraderRecords)
         /\ Len([trader EXCEPT ![o] = r]) = Len(trader)
         /\ \A p \in Traders : [trader EXCEPT ![o] = r][p] = IF p = o THEN r ELSE trader[p]
<1>1. trader \in Seq(TraderRecords) /\ o \in 1..Len(trader)
  BY DEF TypeOK, Traders
<1> QED
  BY <1>1, ExceptSeq, Typing DEF Traders

LEMMA AppendTrader ==
  ASSUME TypeOK, NEW r \in TraderRecords
  PROVE  /\ Append(trader, r) \in Seq(TraderRecords)
         /\ Len(Append(trader, r)) = Len(trader) + 1
         /\ Append(trader, r)[Len(trader) + 1] = r
         /\ \A p \in Traders : Append(trader, r)[p] = trader[p]
<1>1. trader \in Seq(TraderRecords)
  BY DEF TypeOK
<1> QED
  BY <1>1, AppendProperties DEF Traders

-----------------------------------------------------------------------------
(* The threads and the mutexes.                                            *)

\* A step of one thread.
Moves(x, t) == th' = [th EXCEPT ![x] = t]

LEMMA Moved ==
  ASSUME TypeOK, NEW x \in Threads, NEW t, Moves(x, t)
  PROVE  th'[x] = t /\ \A y \in Threads : y # x => th'[y] = th[y]
BY Typing DEF Moves

\* The other threads stay as they were, and consistent.
LEMMA ThreadMoves ==
  ASSUME TypeOK, ThreadInv, NEW x \in Threads, NEW t \in Locals, Moves(x, t), Consistent(x, t),
         t.pc = "enter" => t.at \in Slots, Len(trader') = Len(trader)
  PROVE  /\ th' \in [Threads -> Locals'] /\ ThreadInv'
         /\ \A c \in Conns : th'[c].pc = "enter" => th'[c].at \in Slots
<1>1. Traders' = Traders /\ Locals' = Locals
  BY DEF Traders, Locals
<1>2. th' \in [Threads -> Locals]
  BY Typing DEF Moves
<1>3. ThreadInv'
  BY Moved DEF ThreadInv, Consistent
<1>4. \A c \in Conns : th'[c].pc = "enter" => th'[c].at \in Slots
  BY Moved DEF TypeOK, Threads
<1> QED
  BY <1>1, <1>2, <1>3, <1>4

\* A mutex that no failed send has left locked is held by a thread.
LEMMA OwnerIsThread ==
  ASSUME TypeOK, LockInv, NEW o \in Traders, trader[o].owner # Nobody, o \notin kept
  PROVE  trader[o].owner \in Threads
<1>1. trader[o] \in TraderRecords
  BY Typing
<1> QED
  BY <1>1 DEF LockInv, TraderRecords

\* A step of a thread that has no mutex before or after, and leaves the map
\* alone.
LEMMA QuietBase ==
  ASSUME BaseInv, NEW x \in Threads, NEW t \in Locals, Moves(x, t), Consistent(x, t),
         t.pc = "enter" => t.at \in Slots, th[x].pc # "write", t.pc # "write",
         UNCHANGED <<map, fini, freed>>, fini = 0,
         undef' \in BOOLEAN, reconnects' \in Nat, overlapped' \in BOOLEAN
  PROVE  BaseInv'
<1>1. UNCHANGED <<trader, kept, all_traders, count>>
  BY DEF map
<1>2. TypeOK'
  BY <1>1, ThreadMoves DEF BaseInv, TypeOK, Traders
<1>3. LockInv'
  <2>1. \A o \in Traders : trader[o].owner # Nobody /\ o \notin kept => trader[o].owner \in Threads
    BY OwnerIsThread DEF BaseInv
  <2>2. Traders' = Traders
    BY <1>1 DEF Traders
  <2>3. TypeOK
    BY DEF BaseInv
  <2>4. LockedOrKept'
    BY <1>1, <2>1, <2>2, <2>3, Moved DEF BaseInv, LockInv, LockedOrKept
  <2> QED
    BY <1>1, <2>2, <2>3, <2>4, Moved DEF BaseInv, LockInv
<1> QED
  BY <1>1, <1>2, <1>3, ThreadMoves DEF BaseInv, FiniInv

-----------------------------------------------------------------------------
(* The steps that only move a thread on.                                   *)

\* What such a step is,
Quiet(x, t) ==
  /\ x \in Threads /\ t \in Locals /\ Moves(x, t) /\ Consistent(x, t)
  /\ t.pc = "enter" => t.at \in Slots
  /\ th[x].pc # "write" /\ t.pc # "write"
  /\ UNCHANGED <<map, fini, freed, undef>> /\ fini = 0
  /\ reconnects' \in Nat /\ overlapped' \in BOOLEAN

\* what it does for the references: nobody begins to use a trader;
UsersKept(x, t) ==
  x \in Conns =>
    /\ t.me = th[x].me
    /\ t.pc \in {"check", "adopt", "choose", "enter"} =>
         th[x].pc \in {"check", "adopt", "choose", "enter"} /\ t.to = th[x].to

\* for the sessions: at most one login, which loses no trader it has made;
SessionKept(x, t) ==
  ~overlapped' =>
    /\ ~overlapped
    /\ t.pc \in LoginSteps => th[x].pc \in LoginSteps \/ InLogin = {}
    /\ t.pc \in {"choose", "enter"} <=> th[x].pc \in {"choose", "enter"}
    /\ t.pc \in {"choose", "enter"} => t.to = th[x].to
    /\ t.pc = "adopt" => trader[t.to].fd = NoFd

\* and for the map: what it has seen there is so.
MapSeen(x, t) ==
  ~overlapped' =>
    /\ t.pc \in {"load", "create"} => count < MAX_TRADERS
    /\ t.pc = "create" => t.seen = count
    /\ t.pc \in {"full", "load", "create"} => SlotsOf(t.name) = {}
    /\ t.pc = "enter" => t.at = FirstEmpty

MovesOn(x, t) ==
  /\ Quiet(x, t) /\ UsersKept(x, t)
  /\ SessionInv /\ MapInv => SessionKept(x, t) /\ MapSeen(x, t)

\* The trader found for a name is one of the table.
LEMMA FindFacts ==
  ASSUME TypeOK, NEW n
  PROVE  /\ Find(n) \in Traders \cup {0}
         /\ Find(n) = 0 => SlotsOf(n) = {}
         /\ SlotsOf(n) # {} => Find(n) \in Mapped
<1>1. SlotsOf(n) \in SUBSET Slots /\ \A i \in SlotsOf(n) : all_traders[i] # 0
  BY DEF SlotsOf
<1>2. SlotsOf(n) # {} => First(SlotsOf(n)) \in SlotsOf(n)
  BY <1>1, FirstIsLeast
<1> QED
  BY <1>1, <1>2, Typing DEF Find, Mapped

\* The slot found for a new trader is one of the table, and free.
LEMMA FirstEmptyFacts ==
  ASSUME TypeOK
  PROVE  /\ FirstEmpty \in 0..MAX_TRADERS
         /\ FirstEmpty # 0 => FirstEmpty \in Slots /\ all_traders[FirstEmpty] = 0
         /\ FirstEmpty = 0 => \A i \in Slots : all_traders[i] # 0
<1> DEFINE empty == {i \in Slots : all_traders[i] = 0}
<1>1. empty # {} => First(empty) \in empty
  BY FirstIsLeast
<1> QED
  BY <1>1 DEF FirstEmpty, Slots

LEMMA LookupMoves ==
  ASSUME BaseInv, NEW c \in Conns, NEW n \in Names, Lookup(c, n)
  PROVE  \E x \in Threads, t \in Locals : MovesOn(x, t)
<1> DEFINE o == Find(n)
           t == [th[c] EXCEPT !.pc = IF o # 0 THEN "ref" ELSE "full", !.to = o, !.name = n]
<1>1. TypeOK /\ ThreadInv /\ c \in Threads
  BY DEF BaseInv, Threads
<1>2. th[c] \in Locals /\ o \in Traders \cup {0} /\ th[c].pc = "idle" /\ th[c].me = 0
      /\ th[c].at = 0
  BY <1>1, Typing, FindFacts DEF Lookup, ThreadInv, Consistent
<1>3. t \in Locals /\ Moves(c, t) /\ Consistent(c, t)
  <2>1. t \in Locals
    BY <1>2 DEF Locals, LoginSteps
  <2>2. Moves(c, t)
    BY DEF Lookup, Moves
  <2> QED
    BY <1>2, <2>1, <2>2 DEF Locals, LoginSteps, Consistent
<1>4. Quiet(c, t)
  <2>1. fini = 0
    BY <1>2 DEF BaseInv, FiniInv
  <2>2. reconnects' \in Nat /\ overlapped' \in BOOLEAN
    BY <1>1 DEF Lookup, TypeOK
  <2> QED
    BY <1>1, <1>2, <1>3, <2>1, <2>2 DEF Lookup, Quiet, Locals
<1>5. UsersKept(c, t)
  BY <1>2 DEF UsersKept, Locals
<1>6. SessionKept(c, t)
  BY <1>1, <1>2 DEF SessionKept, Lookup, Locals, TypeOK
<1>7. MapSeen(c, t)
  BY <1>1, <1>2, FindFacts DEF MapSeen, Lookup, Locals
<1> QED
  BY <1>1, <1>3, <1>4, <1>5, <1>6, <1>7 DEF MovesOn

\* The steps of a login that look at the map or leave it.
LEMMA LoginMoves ==
  ASSUME BaseInv, NEW c \in Conns, Check(c) \/ Full(c) \/ Load(c) \/ Choose(c) \/ Refuse(c)
  PROVE  \E x \in Threads, t \in Locals : MovesOn(x, t)
<1>1. TypeOK /\ ThreadInv /\ c \in Threads
  BY DEF BaseInv, Threads
<1>2. th[c] \in Locals /\ Consistent(c, th[c])
  BY <1>1, Typing DEF ThreadInv
<1>3. /\ UNCHANGED <<map, rest>>
      /\ UNCHANGED <<fini, freed, undef, reconnects, overlapped>>
  BY DEF Check, Full, Load, Choose, Refuse, rest
<1>4. reconnects' \in Nat /\ overlapped' \in BOOLEAN
  BY <1>1, <1>3 DEF TypeOK
<1>5. th[c].pc \in {"check", "full", "load", "choose", "refused"} /\ fini = 0
  <2>1. th[c].pc \in {"check", "full", "load", "choose", "refused"}
    BY DEF Check, Full, Load, Choose, Refuse, Go
  <2> QED
    BY <2>1 DEF BaseInv, FiniInv
<1>6. CASE Check(c)
  <2> DEFINE t == [th[c] EXCEPT !.pc = IF trader[th[c].to].fd # NoFd THEN "refused" ELSE "adopt"]
  <2>1. t \in Locals /\ Moves(c, t) /\ Consistent(c, t) /\ th[c].pc = "check"
    BY <1>2, <1>6 DEF Check, Go, Moves, Locals, LoginSteps, Consistent
  <2>2. t.pc \in {"refused", "adopt"} /\ t.me = th[c].me /\ t.to = th[c].to
        /\ (t.pc = "adopt" => trader[t.to].fd = NoFd)
    BY <1>2 DEF Locals
  <2> HIDE DEF t
  <2>3. Quiet(c, t) /\ UsersKept(c, t)
    BY <1>1, <1>3, <1>4, <1>5, <2>1, <2>2 DEF Quiet, UsersKept
  <2>4. SessionKept(c, t) /\ MapSeen(c, t)
    BY <1>3, <2>1, <2>2 DEF SessionKept, MapSeen, LoginSteps
  <2> QED
    BY <1>1, <2>1, <2>3, <2>4 DEF MovesOn
<1>7. CASE Full(c)
  <2> DEFINE t == [th[c] EXCEPT !.pc = IF count >= MAX_TRADERS THEN "refused" ELSE "load"]
  <2>1. t \in Locals /\ Moves(c, t) /\ Consistent(c, t) /\ th[c].pc = "full"
    BY <1>2, <1>7 DEF Full, Go, Moves, Locals, LoginSteps, Consistent
  <2>2. t.pc \in {"refused", "load"} /\ t.me = th[c].me /\ t.name = th[c].name
        /\ (t.pc = "load" => ~(count >= MAX_TRADERS))
    BY <1>2 DEF Locals
  <2>3. MAX_TRADERS \in Nat /\ count \in Nat
    BY <1>1 DEF TypeOK
  <2> HIDE DEF t
  <2>4. Quiet(c, t) /\ UsersKept(c, t)
    BY <1>1, <1>3, <1>4, <1>5, <2>1, <2>2 DEF Quiet, UsersKept
  <2>5. SessionKept(c, t)
    BY <1>3, <2>1, <2>2 DEF SessionKept, LoginSteps
  <2>6. MapInv => MapSeen(c, t)
    BY <1>3, <2>1, <2>2, <2>3 DEF MapInv, MapSeen
  <2> QED
    BY <1>1, <2>1, <2>4, <2>5, <2>6 DEF MovesOn
<1>8. CASE Load(c)
  <2> DEFINE t == [th[c] EXCEPT !.pc = "create", !.seen = count]
  <2>1. t \in Locals /\ Moves(c, t) /\ Consistent(c, t) /\ th[c].pc = "load"
    BY <1>1, <1>2, <1>8 DEF Load, Go, Moves, Locals, LoginSteps, Consistent, TypeOK
  <2>2. t.pc = "create" /\ t.me = th[c].me /\ t.name = th[c].name /\ t.seen = count
    BY <1>2 DEF Locals
  <2> HIDE DEF t
  <2>3. Quiet(c, t) /\ UsersKept(c, t)
    BY <1>1, <1>3, <1>4, <1>5, <2>1, <2>2 DEF Quiet, UsersKept
  <2>4. SessionKept(c, t)
    BY <1>3, <2>1, <2>2 DEF SessionKept, LoginSteps
  <2>5. MapInv => MapSeen(c, t)
    BY <1>3, <2>1, <2>2 DEF MapInv, MapSeen
  <2> QED
    BY <1>1, <2>1, <2>3, <2>4, <2>5 DEF MovesOn
<1>9. CASE Choose(c)
  <2> DEFINE t == [th[c] EXCEPT !.pc = IF FirstEmpty = 0 THEN "refused" ELSE "enter",
                                !.at = FirstEmpty]
  <2>1. th[c].pc = "choose" /\ FirstEmpty \in 0..MAX_TRADERS /\ (FirstEmpty # 0 => FirstEmpty \in Slots)
    BY <1>1, <1>9, FirstEmptyFacts DEF Choose
  <2>2. t \in Locals /\ Moves(c, t) /\ Consistent(c, t)
    <3>1. FirstEmpty \in 0..(MAX_TRADERS + 1)
      BY <2>1
    <3>2. t \in Locals
      BY <1>2, <3>1 DEF Locals, LoginSteps
    <3>3. Moves(c, t)
      BY <1>9 DEF Choose, Moves
    <3>4. Consistent(c, t)
      BY <1>2, <2>1, <3>1 DEF Locals, LoginSteps, Consistent
    <3> QED
      BY <3>2, <3>3, <3>4
  <2>3. /\ t.pc = (IF FirstEmpty = 0 THEN "refused" ELSE "enter") /\ t.at = FirstEmpty
        /\ t.me = th[c].me /\ t.to = th[c].to
    BY <1>2 DEF Locals
  <2> HIDE DEF t
  <2>4. Quiet(c, t) /\ UsersKept(c, t)
    BY <1>1, <1>3, <1>4, <1>5, <2>1, <2>2, <2>3 DEF Quiet, UsersKept
  <2>5. MapInv /\ ~overlapped => FirstEmpty # 0
    <3> SUFFICES ASSUME MapInv, ~overlapped, FirstEmpty = 0
                 PROVE  FALSE
      OBVIOUS
    <3> DEFINE n == count - Cardinality(Entering)
    <3>1. /\ \A i \in Slots : all_traders[i] # 0 <=> i <= n
          /\ FirstEmpty = n + 1
      BY <2>1 DEF MapInv, Packed, Entering
    <3>2. all_traders[1] # 0 /\ 1 \in Slots
      BY <1>1, FirstEmptyFacts DEF Slots
    <3>3. n \in Int
      <4>1. Entering \in SUBSET Conns /\ count \in Nat
        BY <1>1 DEF Entering, TypeOK
      <4>2. Cardinality(Entering) \in Nat
        BY <4>1, ConnsFinite
      <4> QED
        BY <4>1, <4>2
    <3> HIDE DEF n
    <3> QED
      BY <3>1, <3>2, <3>3
  <2>6. MapInv => SessionKept(c, t) /\ MapSeen(c, t)
    BY <1>3, <2>1, <2>3, <2>5 DEF SessionKept, MapSeen, LoginSteps
  <2> QED
    BY <1>1, <2>2, <2>4, <2>6 DEF MovesOn
<1>10. CASE Refuse(c)
  <2>1. Idle \in Locals /\ Moves(c, Idle) /\ Consistent(c, Idle) /\ th[c].pc = "refused"
    BY <1>2, <1>10 DEF Refuse, Idle, Moves, Locals, LoginSteps, Consistent
  <2>2. Quiet(c, Idle) /\ UsersKept(c, Idle)
    BY <1>1, <1>2, <1>3, <1>4, <1>5, <2>1 DEF Quiet, UsersKept, Idle, Consistent
  <2>3. SessionKept(c, Idle) /\ MapSeen(c, Idle)
    BY <1>3, <2>1 DEF SessionKept, MapSeen, LoginSteps, Idle
  <2> QED
    BY <1>1, <2>1, <2>2, <2>3 DEF MovesOn
<1> QED
  BY <1>6, <1>7, <1>8, <1>9, <1>10

\* A thread that neither logs in nor writes, before or after, moves on
\* whatever it does otherwise.
LEMMA OtherMoves ==
  ASSUME BaseInv, NEW x \in Threads, NEW t \in Locals, Moves(x, t), Consistent(x, t),
         UNCHANGED <<map, fini, freed, undef, overlapped>>, fini = 0, reconnects' \in Nat,
         th[x].pc \notin LoginSteps \cup {"write"}, t.pc \notin LoginSteps \cup {"write"},
         x \in Conns => t.me = th[x].me
  PROVE  MovesOn(x, t)
<1>1. overlapped' \in BOOLEAN
  BY DEF BaseInv, TypeOK
<1>2. Quiet(x, t)
  BY <1>1 DEF Quiet, LoginSteps
<1> QED
  BY <1>2 DEF MovesOn, UsersKept, SessionKept, MapSeen, LoginSteps

LEMMA PacketMoves ==
  ASSUME BaseInv, NEW x \in Threads,
         \/ x \in Conns /\ Answer(x)
         \/ Broadcast(x) \/ Scan(x)
         \/ x \in Notifiers /\ Notify(x)
  PROVE  \E t \in Locals : MovesOn(x, t)
<1>1. TypeOK /\ ThreadInv
  BY DEF BaseInv
<1>2. th[x] \in Locals /\ Consistent(x, th[x])
  BY <1>1, Typing DEF ThreadInv
<1>3. UNCHANGED <<map, fini, freed, undef, overlapped>> /\ reconnects' \in Nat
  BY <1>1 DEF Answer, Broadcast, Scan, Notify, rest, TypeOK
<1>4. /\ th[x].pc \in {"idle", "scan"} /\ fini = 0 /\ x \in Conns \cup Notifiers
      /\ MAX_TRADERS \in Nat /\ {0, 1} \subseteq 0..(MAX_TRADERS + 1)
  <2>1. th[x].pc \in {"idle", "scan"} /\ x \in Conns \cup Notifiers
    BY DEF Answer, Broadcast, Scan, Notify, Threads
  <2>2. fini = 0
    BY <2>1 DEF BaseInv, FiniInv, Answer, Broadcast, Scan, Notify
  <2> QED
    BY <2>1, <2>2
<1>5. CASE x \in Conns /\ Answer(x)
  <2> DEFINE t == [th[x] EXCEPT !.pc = "send", !.to = th[x].me]
  <2>1. t \in Locals /\ Moves(x, t) /\ t.pc = "send" /\ t.me = th[x].me
    BY <1>2, <1>5 DEF Answer, Moves, Locals
  <2>2. Consistent(x, t)
    BY <1>2, <1>4, <1>5 DEF Answer, Consistent, Locals, LoginSteps
  <2> HIDE DEF t
  <2> QED
    BY <1>3, <1>4, <2>1, <2>2, OtherMoves DEF LoginSteps
<1>6. CASE Broadcast(x)
  <2> DEFINE t == [th[x] EXCEPT !.pc = "scan", !.at = 1]
  <2>1. t \in Locals /\ Moves(x, t) /\ t.pc = "scan" /\ t.me = th[x].me
    BY <1>2, <1>4, <1>6 DEF Broadcast, Moves, Locals
  <2>2. Consistent(x, t)
    BY <1>2, <1>4, <1>6 DEF Broadcast, Consistent, Locals, LoginSteps
  <2> HIDE DEF t
  <2> QED
    BY <1>3, <1>4, <2>1, <2>2, OtherMoves DEF LoginSteps
<1>7. CASE x \in Notifiers /\ Notify(x)
  <2>1. PICK i \in Slots : /\ all_traders[i] # 0
                          /\ th' = [th EXCEPT ![x].pc = "send", ![x].to = all_traders[i]]
    BY <1>7 DEF Notify
  <2> DEFINE t == [th[x] EXCEPT !.pc = "send", !.to = all_traders[i]]
  <2>2. all_traders[i] \in Traders /\ x \notin Conns /\ th[x].pc = "idle"
    BY <1>1, <1>7, <2>1, Typing DEF Notify
  <2>3. t \in Locals /\ Moves(x, t) /\ t.pc = "send" /\ t.me = th[x].me
    BY <1>2, <2>1, <2>2 DEF Moves, Locals
  <2>4. Consistent(x, t)
    BY <1>2, <1>4, <2>1, <2>2 DEF Consistent, Locals, LoginSteps
  <2> HIDE DEF t
  <2> QED
    BY <1>3, <1>4, <2>3, <2>4, OtherMoves DEF LoginSteps
<1>8. CASE Scan(x)
  <2>1. th[x].pc = "scan" /\ th[x].at \in 0..(MAX_TRADERS + 1) /\ th[x].at # 0
        /\ (x \in Conns => th[x].me # 0) /\ th[x].me \in Traders \cup {0}
    BY <1>2, <1>8 DEF Scan, Consistent, Locals
  <2>2. CASE th[x].at > MAX_TRADERS /\ x \in Conns
    <3> DEFINE t == [th[x] EXCEPT !.pc = "send", !.to = th[x].me, !.at = 0]
    <3>1. t \in Locals /\ Moves(x, t) /\ t.pc = "send" /\ t.me = th[x].me
      <4>1. t \in Locals /\ t.pc = "send" /\ t.me = th[x].me
        BY <1>2, <1>4, <2>1 DEF Locals
      <4>2. Moves(x, t)
        BY <1>8, <2>2 DEF Scan, Moves
      <4> QED
        BY <4>1, <4>2
    <3>2. Consistent(x, t)
      BY <1>2, <1>4, <2>1, <2>2 DEF Consistent, Locals, LoginSteps
    <3> HIDE DEF t
    <3> QED
      BY <1>3, <1>4, <2>1, <3>1, <3>2, OtherMoves DEF LoginSteps
  <2>3. CASE th[x].at > MAX_TRADERS /\ x \notin Conns
    <3>1. Idle \in Locals /\ Moves(x, Idle) /\ Consistent(x, Idle) /\ Idle.pc = "idle"
      <4>1. Idle \in Locals /\ Idle.pc = "idle"
        BY <1>4 DEF Locals, Idle
      <4>2. Moves(x, Idle)
        BY <1>8, <2>3 DEF Scan, Moves
      <4>3. Consistent(x, Idle)
        BY DEF Idle, Consistent, LoginSteps
      <4> QED
        BY <4>1, <4>2, <4>3
    <3> QED
      BY <1>3, <1>4, <2>1, <2>3, <3>1, OtherMoves DEF LoginSteps
  <2>4. CASE ~(th[x].at > MAX_TRADERS)
    <3>1. th[x].at \in Slots /\ th[x].at + 1 \in 0..(MAX_TRADERS + 1)
      BY <1>4, <2>1, <2>4 DEF Slots
    <3>2. all_traders[th[x].at] \in Traders \cup {0}
      BY <1>1, <3>1, Typing
    <3>3. CASE all_traders[th[x].at] = 0
      <4> DEFINE t == [th[x] EXCEPT !.at = th[x].at + 1]
      <4>1. t \in Locals /\ Moves(x, t) /\ t.pc = "scan" /\ t.me = th[x].me
        BY <1>2, <1>8, <2>1, <2>4, <3>1, <3>3 DEF Scan, Moves, Locals
      <4>2. Consistent(x, t)
        BY <1>2, <2>1, <3>1 DEF Consistent, Locals, LoginSteps
      <4> HIDE DEF t
      <4> QED
        BY <1>3, <1>4, <2>1, <4>1, <4>2, OtherMoves DEF LoginSteps
    <3>4. CASE all_traders[th[x].at] # 0
      <4> DEFINE t == [th[x] EXCEPT !.pc = "send", !.to = all_traders[th[x].at]]
      <4>1. t \in Locals /\ Moves(x, t) /\ t.pc = "send" /\ t.me = th[x].me
        BY <1>2, <1>8, <2>1, <2>4, <3>2, <3>4 DEF Scan, Moves, Locals
      <4>2. Consistent(x, t)
        BY <1>2, <1>4, <2>1, <2>4, <3>4 DEF Consistent, Locals, LoginSteps
      <4> HIDE DEF t
      <4> QED
        BY <1>3, <1>4, <2>1, <4>1, <4>2, OtherMoves DEF LoginSteps
    <3> QED
      BY <3>3, <3>4
  <2> QED
    BY <2>2, <2>3, <2>4
<1> QED
  BY <1>5, <1>6, <1>7, <1>8

LEMMA EndMoves ==
  ASSUME BaseInv, NEW c \in Conns, EndOfFile(c) \/ Reconnect(c)
  PROVE  \E x \in Threads, t \in Locals : MovesOn(x, t)
<1> DEFINE t == [th[c] EXCEPT !.pc = IF Reconnect(c) THEN "idle"
                                     ELSE IF th[c].me = 0 THEN "done" ELSE "logout"]
<1>1. TypeOK /\ ThreadInv /\ c \in Threads
  BY DEF BaseInv, Threads
<1>2. th[c] \in Locals /\ Consistent(c, th[c])
  BY <1>1, Typing DEF ThreadInv
<1>3. UNCHANGED <<map, fini, freed, undef, overlapped>> /\ reconnects' \in Nat
  BY <1>1 DEF EndOfFile, Reconnect, rest, TypeOK
<1>4. /\ th[c].pc = IF Reconnect(c) THEN "done" ELSE "idle"
      /\ Moves(c, t)
  BY DEF EndOfFile, Reconnect, Go, Moves
<1>5. fini = 0
  BY <1>4 DEF BaseInv, FiniInv, Reconnect
<1>6. t \in Locals /\ Consistent(c, t) /\ t.me = th[c].me /\ t.pc \in {"idle", "done", "logout"}
  BY <1>2, <1>4 DEF Locals, Consistent, LoginSteps
<1> HIDE DEF t
<1>7. MovesOn(c, t)
  BY <1>1, <1>3, <1>4, <1>5, <1>6, OtherMoves DEF LoginSteps
<1> QED
  BY <1>1, <1>6, <1>7

-----------------------------------------------------------------------------
(* The steps that change the table.                                        *)

\* A step that changes traders or slots, and makes no trader.
LEMMA ChangeBase ==
  ASSUME BaseInv, NEW x \in Threads, NEW t \in Locals, Moves(x, t), Consistent(x, t),
         t.pc = "enter" => t.at \in Slots, fini = 0,
         trader' \in Seq(TraderRecords), Len(trader') = Len(trader), kept' \subseteq Traders,
         all_traders' \in [Slots -> Traders \cup {0}], UNCHANGED <<count, fini, freed, reconnects, overlapped>>,
         undef' \in BOOLEAN, LockInv'
  PROVE  BaseInv'
<1>1. Traders' = Traders
  BY DEF Traders
<1>2. TypeOK'
  BY <1>1, ThreadMoves DEF BaseInv, TypeOK
<1> QED
  BY <1>2, ThreadMoves DEF BaseInv, FiniInv

\* A step that leaves the mutexes alone and begins and ends no write keeps
\* them so.
LEMMA SameLocks ==
  ASSUME BaseInv, NEW x \in Threads, NEW t, Moves(x, t), th[x].pc # "write", t.pc # "write",
         Len(trader') = Len(trader), kept' = kept,
         \A o \in Traders : trader'[o].owner = trader[o].owner
  PROVE  LockInv'
<1>1. \A o \in Traders : trader[o].owner # Nobody /\ o \notin kept => trader[o].owner \in Threads
  BY OwnerIsThread DEF BaseInv
<1>2. Traders' = Traders /\ TypeOK
  BY DEF BaseInv, Traders
<1>3. \A y \in Threads : th'[y].pc = "write" => th'[y] = th[y] /\ th[y].to \in Traders
  <2>1. \A y \in Threads : th'[y].pc = "write" => th'[y] = th[y]
    BY <1>2, Moved
  <2>2. \A y \in Threads : th[y].pc = "write" => th[y].to \in Traders
    BY <1>2, Typing DEF BaseInv, ThreadInv, Consistent, Locals
  <2> QED
    BY <2>1, <2>2
<1>4. LockedOrKept'
  BY <1>1, <1>2, Moved DEF BaseInv, LockInv, LockedOrKept
<1> QED
  BY <1>2, <1>3, <1>4 DEF BaseInv, LockInv

\* What Ref and Adopt do to the trader that the login has found.
LEMMA FoundFacts ==
  ASSUME BaseInv, NEW c \in Conns, Ref(c) \/ Adopt(c)
  PROVE  LET o == th[c].to
             t == IF Ref(c) THEN [th[c] EXCEPT !.pc = "check"]
                            ELSE [th[c] EXCEPT !.pc = "send", !.me = o]
         IN  /\ c \in Threads /\ t \in Locals /\ Moves(c, t) /\ o \in Traders
             /\ th[c].me = 0 /\ fini = 0 /\ BaseInv'
             /\ UNCHANGED <<kept, all_traders, count, rest>> /\ Len(trader') = Len(trader)
             /\ \A p \in Traders :
                  trader'[p] = IF p # o THEN trader[p]
                               ELSE IF Ref(c) THEN [trader[o] EXCEPT !.ref = @ + 1]
                                              ELSE [trader[o] EXCEPT !.fd = c]
<1> DEFINE o == th[c].to
           t == IF Ref(c) THEN [th[c] EXCEPT !.pc = "check"]
                          ELSE [th[c] EXCEPT !.pc = "send", !.me = o]
           r == IF Ref(c) THEN [trader[o] EXCEPT !.ref = @ + 1] ELSE [trader[o] EXCEPT !.fd = c]
<1>1. TypeOK /\ ThreadInv /\ c \in Threads
  BY DEF BaseInv, Threads
<1>2. th[c] \in Locals /\ Consistent(c, th[c]) /\ th[c].pc = IF Ref(c) THEN "ref" ELSE "adopt"
  BY <1>1, Typing DEF ThreadInv, Ref, Adopt, Go
<1>3. o \in Traders /\ th[c].me = 0 /\ trader[o] \in TraderRecords
  <2>1. o \in Traders /\ th[c].me = 0
    BY <1>2 DEF Locals, Consistent, LoginSteps
  <2> QED
    BY <1>1, <2>1, Typing
<1>4. fini = 0
  BY <1>2 DEF BaseInv, FiniInv
<1>5. t \in Locals /\ Consistent(c, t) /\ t.pc \in {"check", "send"}
  <2>1. 0 \notin Traders /\ 0 <= MAX_TRADERS
    BY <1>1, Typing
  <2>2. t \in Locals /\ t.pc = (IF Ref(c) THEN "check" ELSE "send")
    BY <1>2, <1>3 DEF Locals, LoginSteps
  <2>3. /\ t.to = th[c].to /\ t.at = th[c].at /\ th[c].at = 0
        /\ t.me = IF Ref(c) THEN th[c].me ELSE th[c].to
    BY <1>2 DEF Locals, Consistent, LoginSteps
  <2> HIDE DEF t
  <2>4. Consistent(c, t)
    BY <1>3, <2>1, <2>2, <2>3 DEF Consistent, LoginSteps
  <2> QED
    BY <2>2, <2>4
<1>6. r \in TraderRecords /\ r.owner = trader[o].owner
  BY <1>3 DEF TraderRecords
<1>7. Moves(c, t) /\ trader' = [trader EXCEPT ![o] = r] /\ UNCHANGED <<kept, all_traders, count, rest>>
  BY <1>2 DEF Ref, Adopt, Go, Moves
<1>8. /\ trader' \in Seq(TraderRecords) /\ Len(trader') = Len(trader)
      /\ \A p \in Traders : trader'[p] = IF p = o THEN r ELSE trader[p]
  BY <1>1, <1>3, <1>6, <1>7, ChangeTrader
<1>9. BaseInv'
  <2> HIDE DEF t, r, o
  <2>1. LockInv'
    <3>1. \A p \in Traders : trader'[p].owner = trader[p].owner
      BY <1>6, <1>8
    <3> QED
      BY <1>1, <1>2, <1>5, <1>7, <1>8, <3>1, SameLocks
  <2> QED
    BY <1>1, <1>4, <1>5, <1>7, <1>8, <2>1, ChangeBase DEF rest, BaseInv, TypeOK
<1> QED
  BY <1>1, <1>3, <1>4, <1>5, <1>7, <1>8, <1>9

\* What Create does: one more trader, with two references more than malloc
\* left there, the caller's descriptor, and a free mutex.
LEMMA CreateFacts ==
  ASSUME BaseInv, NEW c \in Conns, Create(c)
  PROVE  LET t == [th[c] EXCEPT !.pc = "choose", !.to = Len(trader) + 1, !.seen = 0]
         IN  /\ c \in Threads /\ Moves(c, t) /\ th[c] \in Locals
             /\ th[c].pc = "create" /\ th[c].me = 0 /\ fini = 0 /\ BaseInv'
             /\ UNCHANGED <<kept, all_traders, rest>> /\ count' = th[c].seen + 1
             /\ Len(trader') = Len(trader) + 1 /\ Traders' = Traders \cup {Len(trader) + 1}
             /\ \A p \in Traders : trader'[p] = trader[p]
             /\ \E garbage \in Memory :
                  trader'[Len(trader) + 1] =
                    [name |-> th[c].name, ref |-> garbage + NewRefs, fd |-> c, owner |-> Nobody]
<1> DEFINE t == [th[c] EXCEPT !.pc = "choose", !.to = Len(trader) + 1, !.seen = 0]
           new(garbage) == [name |-> th[c].name, ref |-> garbage + NewRefs, fd |-> c,
                            owner |-> Nobody]
           n == Len(trader) + 1
<1>1. TypeOK /\ ThreadInv /\ LockInv /\ c \in Threads
  BY DEF BaseInv, Threads
<1>2. th[c] \in Locals /\ Consistent(c, th[c]) /\ th[c].pc = "create"
  BY <1>1, Typing DEF ThreadInv, Create
<1>3. th[c].me = 0 /\ th[c].name \in Names /\ th[c].at = 0 /\ th[c].seen \in Nat
  BY <1>2 DEF Locals, Consistent, LoginSteps
<1>4. fini = 0
  BY <1>2 DEF BaseInv, FiniInv
<1>5. Moves(c, t) /\ UNCHANGED <<kept, all_traders, rest>> /\ count' = th[c].seen + 1
  BY DEF Create, Moves
<1>6. PICK garbage \in Memory : trader' = Append(trader, new(garbage))
  BY DEF Create
<1>7. new(garbage) \in TraderRecords
  <2>1. garbage + NewRefs \in Int
    BY DEF NewRefs
  <2> QED
    BY <1>3, <2>1 DEF TraderRecords
<1> HIDE DEF new
<1>8. /\ trader' \in Seq(TraderRecords) /\ Len(trader') = n /\ trader'[n] = new(garbage)
      /\ \A p \in Traders : trader'[p] = trader[p]
  BY <1>1, <1>6, <1>7, AppendTrader
<1>9. Traders' = Traders \cup {n} /\ n # 0
  BY <1>1, <1>8, Typing DEF Traders
<1>10. t \in Locals' /\ Consistent(c, t) /\ t.pc = "choose"
  <2>1. t.pc = "choose" /\ t.me = 0 /\ t.at = 0 /\ t.to = n
    BY <1>2, <1>3 DEF Locals
  <2>2. t \in Locals'
    BY <1>2, <1>9 DEF Locals, LoginSteps
  <2> HIDE DEF t
  <2> QED
    BY <1>9, <2>1, <2>2 DEF Consistent, LoginSteps
<1> HIDE DEF t, n
<1>11. Locals \subseteq Locals'
  BY <1>9 DEF Locals
<1>12. /\ th'[c] = t /\ \A y \in Threads : y # c => th'[y] = th[y]
       /\ th' \in [Threads -> Locals']
  <2>1. th \in [Threads -> Locals']
    BY <1>1, <1>11, Typing
  <2> QED
    BY <1>1, <1>5, <1>10, <2>1, Moved DEF Moves
<1>13. TypeOK'
  <2>1. all_traders' \in [Slots -> Traders' \cup {0}] /\ kept' \subseteq Traders' /\ freed' \subseteq Traders'
    BY <1>1, <1>5, <1>9 DEF TypeOK, rest
  <2>2. count' \in Nat /\ fini' \in Nat /\ reconnects' \in Nat /\ undef' \in BOOLEAN /\ overlapped' \in BOOLEAN
    BY <1>1, <1>3, <1>5 DEF TypeOK, rest
  <2>3. \A d \in Conns : th'[d].pc = "enter" => th'[d].at \in Slots
    BY <1>1, <1>10, <1>12 DEF TypeOK, Threads
  <2> QED
    BY <1>8, <1>12, <2>1, <2>2, <2>3 DEF TypeOK
<1>14. ThreadInv'
  BY <1>1, <1>10, <1>12 DEF ThreadInv, Consistent
<1>15. LockInv'
  <2>1. \A o \in Traders : trader[o].owner # Nobody /\ o \notin kept => trader[o].owner \in Threads
    BY <1>1, OwnerIsThread
  <2>2. \A y \in Threads : th[y].pc = "write" => th[y].to \in Traders
    BY <1>1, Typing DEF ThreadInv, Consistent, Locals
  <2>3. trader'[n].owner = Nobody /\ Nobody # Ended /\ n \notin kept'
    <3>1. n \notin kept'
      BY <1>1, <1>5, Typing DEF TypeOK, Traders, n
    <3> QED
      BY <1>8, <3>1 DEF new
  <2>4. \A o \in Traders' : o = n \/ (o \in Traders /\ trader'[o] = trader[o])
    BY <1>8, <1>9
  <2>5. LockedOrKept'
    BY <1>1, <1>2, <1>5, <1>12, <2>1, <2>3, <2>4 DEF LockInv, LockedOrKept
  <2>6. \A y \in Threads : th'[y].pc = "write" => trader'[th'[y].to].owner = y
    BY <1>1, <1>8, <1>10, <1>12, <2>2 DEF LockInv
  <2> QED
    BY <1>1, <1>5, <2>3, <2>4, <2>5, <2>6 DEF LockInv
<1>16. FiniInv'
  BY <1>4, <1>5 DEF FiniInv, rest
<1> QED
  BY <1>1, <1>2, <1>3, <1>4, <1>5, <1>6, <1>8, <1>9, <1>13, <1>14, <1>15, <1>16
     DEF BaseInv, t, n, new

\* What Enter does: the slot it has chosen holds the trader it has made.
LEMMA EnterFacts ==
  ASSUME BaseInv, NEW c \in Conns, Enter(c)
  PROVE  LET t == [th[c] EXCEPT !.pc = "send", !.me = th[c].to, !.at = 0]
         IN  /\ c \in Threads /\ Moves(c, t) /\ th[c] \in Locals /\ t \in Locals
             /\ th[c].pc = "enter" /\ th[c].me = 0 /\ th[c].to \in Traders /\ th[c].at \in Slots
             /\ fini = 0 /\ BaseInv' /\ UNCHANGED <<trader, kept, count, rest>>
             /\ all_traders' = [all_traders EXCEPT ![th[c].at] = th[c].to]
<1> DEFINE t == [th[c] EXCEPT !.pc = "send", !.me = th[c].to, !.at = 0]
<1>1. TypeOK /\ ThreadInv /\ c \in Threads
  BY DEF BaseInv, Threads
<1>2. th[c] \in Locals /\ Consistent(c, th[c]) /\ th[c].pc = "enter" /\ th[c].at \in Slots
  BY <1>1, Typing DEF ThreadInv, Enter, TypeOK
<1>3. th[c].me = 0 /\ th[c].to \in Traders /\ fini = 0
  BY <1>2 DEF Locals, Consistent, LoginSteps, BaseInv, FiniInv
<1>4. Moves(c, t) /\ UNCHANGED <<trader, kept, count, rest>>
      /\ all_traders' = [all_traders EXCEPT ![th[c].at] = th[c].to]
  BY DEF Enter, Moves
<1>5. t \in Locals /\ Consistent(c, t) /\ t.pc = "send"
  <2>1. 0 \notin Traders /\ 0 <= MAX_TRADERS /\ 0 \in 0..(MAX_TRADERS + 1)
    BY <1>1, Typing
  <2>2. t \in Locals
    BY <1>2, <1>3, <2>1 DEF Locals, LoginSteps
  <2>3. t.pc = "send" /\ t.me = th[c].to /\ t.to = th[c].to /\ t.at = 0
    BY <1>2 DEF Locals
  <2> HIDE DEF t
  <2> QED
    BY <1>3, <2>1, <2>2, <2>3 DEF Consistent, LoginSteps
<1>6. all_traders' \in [Slots -> Traders \cup {0}]
  BY <1>1, <1>2, <1>3, <1>4 DEF TypeOK
<1> HIDE DEF t
<1>7. LockInv'
  BY <1>1, <1>2, <1>4, <1>5, SameLocks
<1>8. BaseInv'
  BY <1>1, <1>3, <1>4, <1>5, <1>6, <1>7, ChangeBase DEF BaseInv, TypeOK, rest
<1> QED
  BY <1>1, <1>2, <1>3, <1>4, <1>5, <1>8 DEF t

\* The thread after a packet.
LEMMA WrittenFacts ==
  ASSUME BaseInv, NEW x \in Threads, th[x].pc = "write", Written(x)
  PROVE  \E t \in Locals : Moves(x, t) /\ Consistent(x, t) /\ t.pc \in {"scan", "idle"} /\ t.me = th[x].me
<1>1. TypeOK /\ ThreadInv
  BY DEF BaseInv
<1>2. th[x] \in Locals /\ Consistent(x, th[x]) /\ MAX_TRADERS \in Nat
  BY <1>1, Typing DEF ThreadInv
<1>3. th[x].at \in 0..MAX_TRADERS /\ (x \in Conns => th[x].me # 0)
  BY <1>2 DEF Consistent, Locals
<1>4. CASE th[x].at # 0
  <2> DEFINE t == [th[x] EXCEPT !.pc = "scan", !.at = th[x].at + 1, !.to = 0, !.dest = NoFd]
  <2>1. th[x].at + 1 \in 1..(MAX_TRADERS + 1) /\ th[x].at + 1 \in 0..(MAX_TRADERS + 1)
    BY <1>2, <1>3, <1>4
  <2>2. t \in Locals /\ t.pc = "scan" /\ t.me = th[x].me /\ t.at = th[x].at + 1
    BY <1>2, <2>1 DEF Locals
  <2>3. Moves(x, t)
    BY <1>4 DEF Written, Moves
  <2> HIDE DEF t
  <2>4. Consistent(x, t)
    BY <1>3, <2>1, <2>2 DEF Consistent, LoginSteps
  <2> QED
    BY <2>2, <2>3, <2>4
<1>5. CASE th[x].at = 0
  <2> DEFINE t == [Idle EXCEPT !.me = th[x].me]
  <2>1. t \in Locals /\ t.pc = "idle" /\ t.me = th[x].me /\ t.at = 0
    BY <1>2 DEF Locals, Idle
  <2>2. Moves(x, t)
    BY <1>5 DEF Written, Moves
  <2> HIDE DEF t
  <2>3. Consistent(x, t)
    BY <2>1 DEF Consistent, LoginSteps
  <2> QED
    BY <2>1, <2>2, <2>3
<1> QED
  BY <1>4, <1>5

\* What a packet changes: the mutex of its trader, and what the thread has
\* to do.
LEMMA WriteFacts ==
  ASSUME BaseInv, NEW x \in Threads, Send(x) \/ Sent(x) \/ SendFails(x)
  PROVE  /\ fini = 0 /\ BaseInv' /\ UNCHANGED <<all_traders, count, rest>>
         /\ Len(trader') = Len(trader)
         /\ \A p \in Traders : /\ trader'[p].name = trader[p].name
                               /\ trader'[p].ref = trader[p].ref
                               /\ trader'[p].fd = trader[p].fd
         /\ th[x].pc \notin LoginSteps
         /\ \E t \in Locals : /\ Moves(x, t) /\ t.me = th[x].me /\ t.pc \notin LoginSteps
                              /\ t.pc = "write" => t.to \in Traders /\ t.dest = trader[t.to].fd
<1> DEFINE o == th[x].to
<1>1. TypeOK /\ ThreadInv /\ LockInv
  BY DEF BaseInv
<1>2. th[x] \in Locals /\ Consistent(x, th[x]) /\ MAX_TRADERS \in Nat
  BY <1>1, Typing DEF ThreadInv
<1>3. th[x].pc \in {"send", "write"} /\ fini = 0
  <2>1. th[x].pc \in {"send", "write"}
    BY DEF Send, Sent, SendFails
  <2> QED
    BY <2>1 DEF BaseInv, FiniInv, Threads
<1>4. o \in Traders /\ trader[o] \in TraderRecords
  <2>1. o \in Traders
    BY <1>2, <1>3 DEF Consistent, Locals
  <2> QED
    BY <1>1, <2>1, Typing
<1>5. UNCHANGED <<all_traders, count, rest>>
  BY DEF Send, Sent, SendFails
<1>6. all_traders' \in [Slots -> Traders \cup {0}] /\ undef' \in BOOLEAN
      /\ UNCHANGED <<count, fini, freed, reconnects, overlapped>>
  BY <1>1, <1>5 DEF TypeOK, rest
<1>7. \A y \in Threads : th[y].pc = "write" => th[y].to \in Traders /\ trader[th[y].to].owner = y
  BY <1>1, Typing DEF ThreadInv, LockInv, Consistent, Locals
<1>8. \A p \in Traders : trader[p].owner # Nobody /\ p \notin kept => trader[p].owner \in Threads
  BY <1>1, OwnerIsThread
<1>9. CASE Send(x)
  <2> DEFINE t == [th[x] EXCEPT !.pc = "write", !.dest = trader[o].fd]
             r == [trader[o] EXCEPT !.owner = x]
  <2>1. th[x].pc = "send" /\ trader[o].owner \in {Nobody, x} /\ trader' = [trader EXCEPT ![o] = r]
        /\ kept' = kept /\ Moves(x, t)
    BY <1>9 DEF Send, CanLock, Moves
  <2>2. r \in TraderRecords /\ r.owner = x /\ r.name = trader[o].name /\ r.ref = trader[o].ref
        /\ r.fd = trader[o].fd
    BY <1>4 DEF TraderRecords
  <2>3. trader[o].fd \in Conns \cup {NoFd}
    BY <1>4 DEF TraderRecords
  <2>4. t \in Locals /\ t.pc = "write" /\ t.to = o /\ t.dest = trader[o].fd /\ t.me = th[x].me
        /\ t.at = th[x].at
    BY <1>2, <2>3 DEF Locals
  <2> HIDE DEF t, r
  <2>5. Consistent(x, t)
    BY <1>2, <2>1, <2>4 DEF Consistent, LoginSteps
  <2>6. /\ trader' \in Seq(TraderRecords) /\ Len(trader') = Len(trader)
        /\ \A p \in Traders : trader'[p] = IF p = o THEN r ELSE trader[p]
    BY <1>1, <1>4, <2>1, <2>2, ChangeTrader
  <2>7. Traders' = Traders /\ th'[x] = t /\ \A y \in Threads : y # x => th'[y] = th[y]
    BY <1>1, <2>1, <2>6, Moved DEF Traders
  <2>8. LockInv'
    <3>1. \A y \in Threads : y # x /\ th[y].pc = "write" => th[y].to # o
      BY <1>7, <2>1
    <3>2. x # Nobody /\ x # Ended
      OBVIOUS
    <3>3. LockedOrKept'
      BY <1>1, <1>8, <2>1, <2>2, <2>4, <2>6, <2>7, <3>2 DEF LockInv, LockedOrKept
    <3>4. \A p \in Traders : trader'[p].owner = Ended => p \in kept'
      BY <1>1, <2>1, <2>2, <2>6, <3>2 DEF LockInv
    <3>5. \A y \in Threads : th'[y].pc = "write" => trader'[th'[y].to].owner = y
      BY <1>4, <1>7, <2>2, <2>4, <2>6, <2>7, <3>1
    <3> QED
      BY <2>7, <3>3, <3>4, <3>5 DEF LockInv
  <2>9. BaseInv'
    BY <1>1, <1>3, <1>6, <2>1, <2>4, <2>5, <2>6, <2>8, ChangeBase DEF TypeOK
  <2> QED
    BY <1>3, <1>4, <1>5, <2>1, <2>2, <2>4, <2>6, <2>9 DEF LoginSteps
<1>10. CASE Sent(x)
  <2> DEFINE r == [trader[o] EXCEPT !.owner = IF o \in kept THEN x ELSE Nobody]
  <2>1. th[x].pc = "write" /\ trader' = [trader EXCEPT ![o] = r] /\ kept' = kept /\ Written(x)
    BY <1>10 DEF Sent
  <2>2. r \in TraderRecords /\ r.name = trader[o].name /\ r.ref = trader[o].ref /\ r.fd = trader[o].fd
        /\ r.owner = IF o \in kept THEN x ELSE Nobody
    BY <1>4 DEF TraderRecords
  <2> HIDE DEF r
  <2>3. PICK t \in Locals : Moves(x, t) /\ Consistent(x, t) /\ t.pc \in {"scan", "idle"} /\ t.me = th[x].me
    BY <2>1, WrittenFacts
  <2>4. /\ trader' \in Seq(TraderRecords) /\ Len(trader') = Len(trader)
        /\ \A p \in Traders : trader'[p] = IF p = o THEN r ELSE trader[p]
    BY <1>1, <1>4, <2>1, <2>2, ChangeTrader
  <2>5. Traders' = Traders /\ th'[x] = t /\ \A y \in Threads : y # x => th'[y] = th[y]
    BY <1>1, <2>3, <2>4, Moved DEF Traders
  <2>6. LockInv'
    <3>1. \A y \in Threads : y # x /\ th[y].pc = "write" => th[y].to # o
      BY <1>7, <2>1
    <3>2. x # Nobody /\ x # Ended /\ Nobody # Ended
      OBVIOUS
    <3>3. \A p \in Traders : p # o /\ trader[p].owner # Nobody /\ p \notin kept
            => trader[p].owner # x
      BY <1>1, <2>1 DEF LockInv, LockedOrKept
    <3>4. LockedOrKept'
      BY <1>1, <1>8, <2>1, <2>2, <2>4, <2>5, <3>2, <3>3 DEF LockInv, LockedOrKept
    <3>5. \A p \in Traders : trader'[p].owner = Ended => p \in kept'
      BY <1>1, <2>1, <2>2, <2>4, <3>2 DEF LockInv
    <3>6. \A y \in Threads : th'[y].pc = "write" => trader'[th'[y].to].owner = y
      BY <1>7, <2>3, <2>4, <2>5, <3>1
    <3> QED
      BY <2>5, <3>4, <3>5, <3>6 DEF LockInv
  <2>7. BaseInv'
    BY <1>1, <1>3, <1>6, <2>1, <2>3, <2>4, <2>6, ChangeBase DEF TypeOK
  <2> QED
    BY <1>3, <1>5, <2>2, <2>3, <2>4, <2>7 DEF LoginSteps
<1>11. CASE SendFails(x)
  <2>1. th[x].pc = "write" /\ trader' = trader /\ kept' = kept \cup {o} /\ Written(x)
    BY <1>11 DEF SendFails
  <2>2. PICK t \in Locals : Moves(x, t) /\ Consistent(x, t) /\ t.pc \in {"scan", "idle"} /\ t.me = th[x].me
    BY <2>1, WrittenFacts
  <2>3. Traders' = Traders /\ th'[x] = t /\ \A y \in Threads : y # x => th'[y] = th[y]
    BY <1>1, <2>1, <2>2, Moved DEF Traders
  <2>4. LockInv'
    <3>1. trader[o].owner = x /\ x # Nobody
      BY <1>7, <2>1
    <3>2. \A p \in Traders : p # o /\ trader[p].owner # Nobody /\ p \notin kept
            => trader[p].owner # x
      BY <1>1, <2>1 DEF LockInv, LockedOrKept
    <3>3. LockedOrKept'
      BY <1>1, <1>8, <2>1, <2>3, <3>1, <3>2 DEF LockInv, LockedOrKept
    <3> QED
      BY <1>1, <1>7, <2>1, <2>2, <2>3, <3>3 DEF LockInv
  <2>5. BaseInv'
    <3>1. trader' \in Seq(TraderRecords) /\ Len(trader') = Len(trader) /\ kept' \subseteq Traders
      BY <1>1, <1>4, <2>1 DEF TypeOK
    <3> QED
      BY <1>3, <1>6, <2>2, <2>4, <3>1, ChangeBase
  <2> QED
    BY <1>3, <1>5, <2>1, <2>2, <2>5 DEF LoginSteps
<1> QED
  BY <1>9, <1>10, <1>11

\* What Logout does: if the name is in the map the trader loses a reference
\* and its descriptor; the map changes with the last reference only.
LEMMA LogoutFacts ==
  ASSUME BaseInv, NEW c \in Conns, Logout(c)
  PROVE  LET o == th[c].me
             t == [Idle EXCEPT !.pc = "done"]
             found == Find(trader[o].name) # 0
         IN  /\ c \in Threads /\ t \in Locals /\ Moves(c, t) /\ th[c].pc = "logout" /\ o \in Traders
             /\ trader[o].owner \in {Nobody, c} /\ fini = 0 /\ BaseInv'
             /\ UNCHANGED <<kept, count, fini, freed, reconnects, overlapped>>
             /\ Len(trader') = Len(trader)
             /\ \A p \in Traders :
                  /\ trader'[p].name = trader[p].name
                  /\ trader'[p].ref = IF found /\ p = o THEN trader[p].ref - 1 ELSE trader[p].ref
                  /\ trader'[p].fd = IF found /\ p = o THEN NoFd ELSE trader[p].fd
             /\ trader[o].ref # 1 => all_traders' = all_traders /\ (undef' => undef)
<1> DEFINE o == th[c].me
           t == [Idle EXCEPT !.pc = "done"]
           found == Find(trader[o].name) # 0
           r == IF found THEN [trader[o] EXCEPT !.ref = @ - 1, !.fd = NoFd] ELSE trader[o]
           traders == IF found THEN [trader EXCEPT ![o] = r] ELSE trader
<1>1. TypeOK /\ ThreadInv /\ LockInv /\ c \in Threads
  BY DEF BaseInv, Threads
<1>2. th[c] \in Locals /\ Consistent(c, th[c]) /\ th[c].pc = "logout"
  BY <1>1, Typing DEF ThreadInv, Logout
<1>3. o \in Traders /\ trader[o] \in TraderRecords /\ fini = 0
  <2>1. o \in Traders /\ fini = 0
    BY <1>2 DEF Consistent, Locals, BaseInv, FiniInv
  <2> QED
    BY <1>1, <2>1, Typing
<1>4. t \in Locals /\ Consistent(c, t) /\ t.pc = "done" /\ Moves(c, t)
  <2>1. t \in Locals /\ t.pc = "done" /\ t.me = 0 /\ t.at = 0
    BY DEF Locals, Idle
  <2>2. Moves(c, t)
    BY DEF Logout, Moves
  <2> HIDE DEF t
  <2> QED
    BY <2>1, <2>2 DEF Consistent, LoginSteps
<1>5. trader[o].owner \in {Nobody, c} /\ UNCHANGED <<kept, count, fini, freed, reconnects, overlapped>>
  BY DEF Logout, CanLock
<1>6. r \in TraderRecords /\ r.owner = trader[o].owner /\ r.name = trader[o].name
      /\ r.ref = (IF found THEN trader[o].ref - 1 ELSE trader[o].ref)
      /\ r.fd = (IF found THEN NoFd ELSE trader[o].fd)
  <2>1. CASE found
    <3>1. r = [trader[o] EXCEPT !.ref = trader[o].ref - 1, !.fd = NoFd]
      BY <2>1
    <3>2. trader[o].ref - 1 \in Int
      BY <1>3 DEF TraderRecords
    <3> DEFINE rec == trader[o]
               e == rec.ref - 1
    <3>3. rec \in TraderRecords /\ e \in Int /\ r = [rec EXCEPT !.ref = e, !.fd = NoFd]
      BY <1>3, <3>1, <3>2
    <3> HIDE DEF r, found, rec, e
    <3>4. r \in TraderRecords /\ r.owner = rec.owner /\ r.name = rec.name /\ r.ref = e /\ r.fd = NoFd
      BY <3>3 DEF TraderRecords
    <3> QED
      BY <2>1, <3>4 DEF rec, e
  <2>2. CASE ~found
    <3>1. r = trader[o]
      BY <2>2
    <3> HIDE DEF r, found
    <3> QED
      BY <1>3, <2>2, <3>1
  <2> QED
    BY <2>1, <2>2
<1>7. trader' = Orphaned(traders, c)
  BY <1>3 DEF Logout
<1>8. /\ all_traders' \in [Slots -> Traders \cup {0}] /\ undef' \in BOOLEAN
      /\ trader[o].ref # 1 => all_traders' = all_traders /\ (undef' => undef)
  <2>1. CASE ~found
    BY <1>1, <2>1 DEF Logout, TypeOK
  <2>2. CASE found /\ trader[o].ref # 1
    <3>1. all_traders' = [i \in Slots |-> all_traders[i]] /\ undef' = FALSE
      BY <2>2 DEF Logout
    <3>2. all_traders \in [Slots -> Traders \cup {0}]
      BY <1>1 DEF TypeOK
    <3> HIDE DEF found, o
    <3>3. all_traders' = all_traders
      BY <3>1, <3>2
    <3> QED
      BY <3>1, <3>2, <3>3
  <2>3. CASE found /\ trader[o].ref = 1
    <3> DEFINE name == trader[o].name
    <3>1. all_traders' = [i \in Slots |-> IF trader[o].ref = 1 /\ i = First(SlotsOf(name)) THEN 0 ELSE all_traders[i]]
          /\ undef' = (trader[o].ref = 1)
      BY <2>3 DEF Logout
    <3> HIDE DEF name
    <3> QED
      BY <1>1, <2>3, <3>1, Typing
  <2> QED
    BY <2>1, <2>2, <2>3
<1> HIDE DEF t, r, found
<1>9. /\ traders \in Seq(TraderRecords) /\ Len(traders) = Len(trader)
      /\ \A p \in Traders : traders[p] = IF p = o THEN r ELSE trader[p]
  <2>1. CASE found
    BY <1>1, <1>3, <1>6, <2>1, ChangeTrader
  <2>2. CASE ~found
    BY <1>1, <2>2 DEF r, TypeOK
  <2> QED
    BY <2>1, <2>2
<1> HIDE DEF traders
<1>10. /\ trader' \in Seq(TraderRecords) /\ Len(trader') = Len(trader)
       /\ \A p \in Traders :
            trader'[p] = IF traders[p].owner = c THEN [traders[p] EXCEPT !.owner = Ended] ELSE traders[p]
  <2>1. DOMAIN traders = 1..Len(trader) /\ Len(trader) \in Nat /\ \A p \in 1..Len(trader) : traders[p] \in TraderRecords
    BY <1>1, <1>9, LenProperties, ElementOfSeq, Typing
  <2>2. \A p \in 1..Len(trader) : [traders[p] EXCEPT !.owner = Ended] \in TraderRecords
    BY <2>1 DEF TraderRecords
  <2>3. trader' \in [1..Len(trader) -> TraderRecords]
    BY <1>7, <2>1, <2>2 DEF Orphaned
  <2>4. trader' \in Seq(TraderRecords) /\ Len(trader') = Len(trader)
    BY <2>1, <2>3, LenProperties, SeqDef
  <2> QED
    BY <1>7, <2>1, <2>4 DEF Orphaned, Traders
<1>11. \A p \in Traders :
         /\ trader'[p].name = trader[p].name
         /\ trader'[p].ref = IF found /\ p = o THEN trader[p].ref - 1 ELSE trader[p].ref
         /\ trader'[p].fd = IF found /\ p = o THEN NoFd ELSE trader[p].fd
         /\ trader'[p].owner = IF trader[p].owner = c THEN Ended ELSE trader[p].owner
  <2> TAKE p \in Traders
  <2>1. trader[p] \in TraderRecords /\ traders[p] \in TraderRecords
    BY <1>1, <1>6, <1>9, Typing
  <2>2. /\ traders[p].name = trader[p].name /\ traders[p].owner = trader[p].owner
        /\ traders[p].ref = IF found /\ p = o THEN trader[p].ref - 1 ELSE trader[p].ref
        /\ traders[p].fd = IF found /\ p = o THEN NoFd ELSE trader[p].fd
    BY <1>6, <1>9
  <2>3. trader'[p] = IF traders[p].owner = c THEN [traders[p] EXCEPT !.owner = Ended] ELSE traders[p]
    BY <1>10
  <2>4. /\ trader'[p].name = traders[p].name /\ trader'[p].ref = traders[p].ref
        /\ trader'[p].fd = traders[p].fd
        /\ trader'[p].owner = IF traders[p].owner = c THEN Ended ELSE traders[p].owner
    BY <2>1, <2>3 DEF TraderRecords
  <2> QED
    BY <2>2, <2>4
<1>12. LockInv'
  <2>1. \A p \in Traders : trader[p].owner = c => p \in kept
    BY <1>1, <1>2 DEF LockInv, LockedOrKept, Threads
  <2>2. \A p \in Traders : trader[p].owner # Nobody /\ p \notin kept => trader[p].owner \in Threads
    BY <1>1, OwnerIsThread
  <2>3. Traders' = Traders /\ th'[c] = t /\ \A y \in Threads : y # c => th'[y] = th[y]
    BY <1>1, <1>4, <1>10, Moved DEF Traders
  <2>4. \A y \in Threads : th[y].pc = "write" => th[y].to \in Traders
    BY <1>1, Typing DEF ThreadInv, Consistent, Locals
  <2>5. LockedOrKept'
    BY <1>1, <1>5, <1>11, <2>1, <2>2, <2>3 DEF LockInv, LockedOrKept
  <2>6. \A p \in Traders : trader'[p].owner = Ended => p \in kept'
    BY <1>1, <1>5, <1>11, <2>1 DEF LockInv
  <2>7. \A y \in Threads : th'[y].pc = "write" => trader'[th'[y].to].owner = y
    BY <1>1, <1>2, <1>4, <1>11, <2>3, <2>4 DEF LockInv
  <2> QED
    BY <2>3, <2>5, <2>6, <2>7 DEF LockInv
<1>13. BaseInv'
  BY <1>1, <1>3, <1>4, <1>5, <1>8, <1>10, <1>12, ChangeBase DEF TypeOK
<1> QED
  BY <1>1, <1>2, <1>3, <1>4, <1>5, <1>8, <1>10, <1>11, <1>13 DEF t, found

\* trader_fini touches no thread.
LEMMA FiniBase ==
  ASSUME BaseInv, StartFini \/ FiniStep \/ UNCHANGED vars
  PROVE  BaseInv'
<1>1. UNCHANGED <<trader, kept, all_traders, count, th, reconnects, overlapped>>
  BY DEF StartFini, FiniStep, vars, map, rest
<1>2. TypeOK /\ ThreadInv /\ LockInv /\ FiniInv
  BY DEF BaseInv
<1>3. freed' \subseteq Traders /\ fini' \in Nat /\ undef' \in BOOLEAN
  <2>1. CASE FiniStep
    <3>1. fini' = fini + 1 /\ undef' = (fini \notin Slots)
          /\ freed' = IF fini \in Slots THEN freed \cup ({all_traders[fini]} \ {0}) ELSE freed
      BY <2>1 DEF FiniStep
    <3>2. fini \in Slots => all_traders[fini] \in Traders \cup {0}
      BY <1>2, Typing
    <3> QED
      BY <1>2, <3>1, <3>2 DEF TypeOK
  <2>2. CASE StartFini \/ UNCHANGED vars
    BY <1>2, <2>2 DEF StartFini, vars, rest, TypeOK
  <2> QED
    BY <2>1, <2>2
<1>4. TypeOK'
  BY <1>1, <1>2, <1>3 DEF TypeOK, Traders, Locals
<1>5. ThreadInv' /\ LockInv'
  BY <1>1, <1>2 DEF ThreadInv, Consistent, LockInv, LockedOrKept, Traders
<1>6. FiniInv'
  <2>1. CASE StartFini
    BY <1>1, <2>1 DEF StartFini, FiniInv, Slots
  <2>2. CASE UNCHANGED vars
    BY <1>2, <2>2 DEF vars, map, rest, FiniInv
  <2>3. CASE FiniStep
    <3>1. \A i \in Slots : i < fini + 1 => i < fini \/ i = fini
      BY <1>2 DEF TypeOK, Slots
    <3> QED
      BY <1>1, <1>2, <2>3, <3>1 DEF FiniStep, FiniInv
  <2> QED
    BY <2>1, <2>2, <2>3
<1> QED
  BY <1>4, <1>5, <1>6 DEF BaseInv

-----------------------------------------------------------------------------
(* What every step is.                                                     *)

LEMMA StepCases ==
  ASSUME BaseInv, Next \/ UNCHANGED vars
  PROVE  \/ \E x \in Threads, t \in Locals : MovesOn(x, t)
         \/ \E c \in Conns : Ref(c) \/ Adopt(c) \/ Create(c) \/ Enter(c) \/ Logout(c)
         \/ \E x \in Threads : Send(x) \/ Sent(x) \/ SendFails(x)
         \/ StartFini \/ FiniStep \/ UNCHANGED vars
<1>1. ASSUME NEW c \in Conns, Check(c) \/ Full(c) \/ Load(c) \/ Choose(c) \/ Refuse(c)
      PROVE  \E x \in Threads, t \in Locals : MovesOn(x, t)
  BY <1>1, LoginMoves
<1>2. ASSUME NEW c \in Conns, NEW n \in Names, Lookup(c, n)
      PROVE  \E x \in Threads, t \in Locals : MovesOn(x, t)
  BY <1>2, LookupMoves
<1>3. ASSUME NEW c \in Conns, Answer(c) \/ EndOfFile(c) \/ Reconnect(c)
      PROVE  \E x \in Threads, t \in Locals : MovesOn(x, t)
  <2>1. c \in Threads
    BY DEF Threads
  <2> QED
    BY <1>3, <2>1, PacketMoves, EndMoves
<1>4. ASSUME NEW x \in Threads, Broadcast(x) \/ Scan(x)
      PROVE  \E y \in Threads, t \in Locals : MovesOn(y, t)
  BY <1>4, PacketMoves
<1>5. ASSUME NEW x \in Notifiers, Notify(x)
      PROVE  \E y \in Threads, t \in Locals : MovesOn(y, t)
  <2>1. x \in Threads
    BY DEF Threads
  <2> QED
    BY <1>5, <2>1, PacketMoves
<1> QED
  BY <1>1, <1>2, <1>3, <1>4, <1>5 DEF Next, Step, Stopped, Login, Transmit

LEMMA BaseKept == BaseInv /\ [Next]_vars => BaseInv'
<1> SUFFICES ASSUME BaseInv, Next \/ UNCHANGED vars
             PROVE  BaseInv'
  OBVIOUS
<1>1. ASSUME NEW x \in Threads, NEW t \in Locals, MovesOn(x, t)
      PROVE  BaseInv'
  <2>1. undef' \in BOOLEAN
    BY <1>1 DEF MovesOn, Quiet, BaseInv, TypeOK
  <2> QED
    BY <1>1, <2>1, QuietBase DEF MovesOn, Quiet
<1>2. ASSUME NEW c \in Conns, Ref(c) \/ Adopt(c) \/ Create(c) \/ Enter(c) \/ Logout(c)
      PROVE  BaseInv'
  BY <1>2, FoundFacts, CreateFacts, EnterFacts, LogoutFacts
<1>3. ASSUME NEW x \in Threads, Send(x) \/ Sent(x) \/ SendFails(x)
      PROVE  BaseInv'
  BY <1>3, WriteFacts
<1> QED
  BY <1>1, <1>2, <1>3, StepCases, FiniBase

LEMMA BaseInit == Init => BaseInv
<1> SUFFICES ASSUME Init
             PROVE  BaseInv
  OBVIOUS
<1>1. /\ trader = <<>> /\ kept = {} /\ all_traders = [i \in Slots |-> 0] /\ count = 0
      /\ th = [x \in Threads |-> Idle] /\ fini = 0 /\ freed = {} /\ reconnects = 0
      /\ undef = FALSE /\ overlapped = FALSE
  BY DEF Init
<1>2. Traders = {} /\ trader \in Seq(TraderRecords)
  BY <1>1, EmptySeq DEF Traders
<1>3. Idle \in Locals /\ Idle.pc = "idle" /\ Idle.at = 0
  <2>1. 0 \in 0..(MAX_TRADERS + 1)
    OBVIOUS
  <2> QED
    BY <2>1 DEF Idle, Locals
<1>4. TypeOK
  <2>1. th \in [Threads -> Locals] /\ \A c \in Conns : th[c].pc = "idle"
    BY <1>1, <1>3 DEF Threads
  <2> QED
    BY <1>1, <1>2, <2>1 DEF TypeOK
<1>5. ThreadInv
  BY <1>1, <1>3 DEF ThreadInv, Consistent, LoginSteps
<1>6. LockInv
  BY <1>1, <1>2, <1>3 DEF LockInv, LockedOrKept
<1> QED
  BY <1>1, <1>4, <1>5, <1>6 DEF BaseInv, FiniInv

LEMMA BaseHolds == Spec => []BaseInv
BY BaseInit, BaseKept, PTL DEF Spec

\* The table keeps its types, whatever logins overlap, however many
\* connections there are: no login stores outside the array.
THEOREM TableTypes == Spec => []TypeOK
<1>1. BaseInv => TypeOK
  BY DEF BaseInv
<1> QED
  BY <1>1, BaseHolds, PTL

\* A mutex is locked while its thread writes, or for ever by a send that
\* failed: no thread waits for any other reason.
THEOREM MutexesHeld == Spec => []LockedOrKept
<1>1. BaseInv => LockedOrKept
  BY DEF BaseInv, LockInv
<1> QED
  BY <1>1, BaseHolds, PTL

-----------------------------------------------------------------------------
(* The references.                                                         *)

\* What one thread does to the users of a trader.
LEMMA UsersMove ==
  ASSUME TypeOK, NEW x \in Threads, NEW t, Moves(x, t), NEW o
  PROVE  /\ \A c \in Conns : c # x => (c \in Users(o)' <=> c \in Users(o))
         /\ x \in Conns => (x \in Users(o)' <=>
              \/ t.me = o
              \/ t.pc \in {"check", "adopt", "choose", "enter"} /\ t.to = o)
BY Moved DEF Users, Threads

\* A user more costs a reference, a user less may give one back.
LEMMA UsersCount ==
  ASSUME NEW S \in SUBSET Conns, NEW T \in SUBSET Conns, NEW c \in Conns
  PROVE  /\ T \subseteq S => Cardinality(T) <= Cardinality(S)
         /\ T \subseteq S \cup {c} => Cardinality(T) <= Cardinality(S) + 1
         /\ T \subseteq S \ {c} /\ c \in S => Cardinality(T) <= Cardinality(S) - 1
         /\ c \in S => Cardinality(S) >= 1
         /\ Cardinality(S) \in Nat /\ Cardinality(T) \in Nat
<1>1. IsFiniteSet(S) /\ IsFiniteSet(S \cup {c}) /\ IsFiniteSet(S \ {c}) /\ IsFiniteSet(T)
      /\ Cardinality(S) \in Nat /\ Cardinality(T) \in Nat
  BY ConnsFinite
<1>2. /\ Cardinality(S \cup {c}) = IF c \in S THEN Cardinality(S) ELSE Cardinality(S) + 1
      /\ Cardinality(S \ {c}) = IF c \in S THEN Cardinality(S) - 1 ELSE Cardinality(S)
  BY <1>1, FS_AddElement, FS_RemoveElement
<1>3. /\ T \subseteq S => Cardinality(T) <= Cardinality(S)
      /\ T \subseteq S \cup {c} => Cardinality(T) <= Cardinality(S \cup {c})
      /\ T \subseteq S \ {c} => Cardinality(T) <= Cardinality(S \ {c})
  BY <1>1, FS_Subset
<1>4. Cardinality(S \ {c}) \in Nat
  BY <1>1, FS_CardinalityType
<1> QED
  BY <1>1, <1>2, <1>3, <1>4

\* Nobody begins to use a trader, and no reference is dropped.
LEMMA RefsKept ==
  ASSUME BaseInv, RefsInv, Len(trader') = Len(trader), NEW x \in Threads, NEW t, Moves(x, t),
         \A o \in Traders : trader'[o].ref = trader[o].ref,
         x \in Conns => \A o \in Traders :
           t.me = o \/ (t.pc \in {"check", "adopt", "choose", "enter"} /\ t.to = o) => x \in Users(o)
  PROVE  RefsInv'
<1> SUFFICES ASSUME NEW o \in Traders'
             PROVE  trader'[o].ref >= 1 + Cardinality(Users(o)')
  BY DEF RefsInv
<1>1. o \in Traders /\ TypeOK
  BY DEF Traders, BaseInv
<1>2. Users(o)' \subseteq Users(o) /\ Users(o) \in SUBSET Conns /\ Users(o)' \in SUBSET Conns
  <2>1. \A c \in Conns : c \in Users(o)' => c \in Users(o)
    BY <1>1, UsersMove
  <2> QED
    BY <2>1 DEF Users
<1>3. Cardinality(Users(o)') <= Cardinality(Users(o)) /\ Cardinality(Users(o)) \in Nat
      /\ Cardinality(Users(o)') \in Nat
  <2>1. \A c \in Conns : Cardinality(Users(o)') <= Cardinality(Users(o))
    BY <1>2, UsersCount
  <2>2. Conns = {} => Users(o)' = Users(o)
    BY <1>2
  <2> QED
    BY <1>2, <2>1, <2>2, ConnsFinite
<1>4. trader[o].ref \in Int /\ trader[o].ref >= 1 + Cardinality(Users(o))
  BY <1>1, Typing DEF RefsInv, TraderRecords
<1> QED
  BY <1>1, <1>3, <1>4

LEMMA RefsStep ==
  ASSUME Memory \subseteq Nat, BaseInv, RefsInv, Next \/ UNCHANGED vars
  PROVE  RefsInv'
<1>1. ASSUME NEW x \in Threads, NEW t \in Locals, MovesOn(x, t)
      PROVE  RefsInv'
  <2>1. trader' = trader /\ Moves(x, t) /\ UsersKept(x, t)
    BY <1>1 DEF MovesOn, Quiet, map
  <2> QED
    BY <2>1, RefsKept DEF UsersKept, Users
<1>2. ASSUME NEW x \in Threads, Send(x) \/ Sent(x) \/ SendFails(x)
      PROVE  RefsInv'
  <2>1. PICK t \in Locals : Moves(x, t) /\ t.me = th[x].me /\ t.pc \notin LoginSteps
    BY <1>2, WriteFacts
  <2> QED
    BY <1>2, <2>1, WriteFacts, RefsKept DEF LoginSteps, Users
<1>3. ASSUME NEW c \in Conns, Adopt(c)
      PROVE  RefsInv'
  <2> DEFINE o == th[c].to
             t == [th[c] EXCEPT !.pc = "send", !.me = o]
  <2>1. ~Ref(c) /\ th[c].pc = "adopt"
    BY <1>3 DEF Ref, Adopt, Go
  <2>2. /\ c \in Threads /\ t \in Locals /\ Moves(c, t) /\ o \in Traders /\ Len(trader') = Len(trader)
        /\ \A p \in Traders : trader'[p] = IF p # o THEN trader[p] ELSE [trader[o] EXCEPT !.fd = c]
    BY <1>3, <2>1, FoundFacts
  <2>3. t.me = o /\ t.pc = "send" /\ TypeOK
    BY <2>2 DEF Locals, BaseInv
  <2>4. \A p \in Traders : trader'[p].ref = trader[p].ref
    BY <2>2, <2>3, Typing DEF TraderRecords
  <2>5. c \in Users(o)
    BY <2>1 DEF Users
  <2> HIDE DEF t, o
  <2> QED
    BY <2>2, <2>3, <2>4, <2>5, RefsKept
<1>4. ASSUME NEW c \in Conns, Enter(c)
      PROVE  RefsInv'
  <2> DEFINE t == [th[c] EXCEPT !.pc = "send", !.me = th[c].to, !.at = 0]
  <2>1. c \in Threads /\ Moves(c, t) /\ th[c] \in Locals /\ th[c].pc = "enter" /\ trader' = trader
    BY <1>4, EnterFacts
  <2>2. t.me = th[c].to /\ t.pc = "send"
    BY <2>1 DEF Locals
  <2>3. c \in Users(th[c].to)
    BY <2>1 DEF Users
  <2> HIDE DEF t
  <2> QED
    BY <2>1, <2>2, <2>3, RefsKept
<1>5. ASSUME NEW c \in Conns, Ref(c)
      PROVE  RefsInv'
  <2> DEFINE o == th[c].to
             t == [th[c] EXCEPT !.pc = "check"]
  <2>1. /\ c \in Threads /\ t \in Locals /\ Moves(c, t) /\ o \in Traders /\ Len(trader') = Len(trader)
        /\ th[c].me = 0
        /\ \A p \in Traders : trader'[p] = IF p # o THEN trader[p] ELSE [trader[o] EXCEPT !.ref = @ + 1]
    BY <1>5, FoundFacts
  <2>2. TypeOK /\ th[c] \in Locals
    BY <2>1, Typing DEF BaseInv
  <2>3. t.me = 0 /\ t.pc = "check" /\ t.to = o
    BY <2>1, <2>2 DEF Locals
  <2> HIDE DEF t, o
  <2> SUFFICES ASSUME NEW p \in Traders'
               PROVE  trader'[p].ref >= 1 + Cardinality(Users(p)')
    BY DEF RefsInv
  <2>4. p \in Traders /\ p # 0
    BY <2>1, <2>2, Typing DEF Traders
  <2>5. trader[p].ref \in Int /\ trader[p].ref >= 1 + Cardinality(Users(p))
    BY <2>2, <2>4, Typing DEF RefsInv, TraderRecords
  <2>6. trader'[p].ref = IF p = o THEN trader[p].ref + 1 ELSE trader[p].ref
    BY <2>1, <2>2, <2>4, Typing DEF TraderRecords
  <2>7. Users(p)' \subseteq (IF p = o THEN Users(p) \cup {c} ELSE Users(p))
    <3>1. /\ \A d \in Conns : d # c => (d \in Users(p)' <=> d \in Users(p))
          /\ c \in Users(p)' => p = o
      BY <2>1, <2>2, <2>3, <2>4, UsersMove
    <3> QED
      BY <3>1 DEF Users
  <2>8. Users(p) \in SUBSET Conns /\ Users(p)' \in SUBSET Conns
    BY DEF Users
  <2> QED
    BY <2>5, <2>6, <2>7, <2>8, UsersCount
<1>6. ASSUME NEW c \in Conns, Create(c)
      PROVE  RefsInv'
  <2> DEFINE n == Len(trader) + 1
             t == [th[c] EXCEPT !.pc = "choose", !.to = n, !.seen = 0]
  <2>1. /\ c \in Threads /\ Moves(c, t) /\ th[c] \in Locals /\ th[c].pc = "create" /\ th[c].me = 0
        /\ Traders' = Traders \cup {n} /\ \A p \in Traders : trader'[p] = trader[p]
    BY <1>6, CreateFacts
  <2>2. PICK garbage \in Memory :
          trader'[n] = [name |-> th[c].name, ref |-> garbage + NewRefs, fd |-> c, owner |-> Nobody]
    BY <1>6, CreateFacts
  <2>3. t.pc = "choose" /\ t.to = n /\ t.me = 0 /\ TypeOK
    BY <2>1 DEF Locals, BaseInv
  <2>4. n \notin Traders /\ n # 0 /\ 0 \notin Traders
    BY <2>3, Typing DEF Traders
  <2>5. \A d \in Threads : th[d].me # n /\ th[d].to # n
    BY <2>3, <2>4, Typing DEF Locals
  <2> HIDE DEF t, n
  <2> SUFFICES ASSUME NEW p \in Traders'
               PROVE  trader'[p].ref >= 1 + Cardinality(Users(p)')
    BY DEF RefsInv
  <2>6. CASE p = n
    <3>1. Users(p)' \subseteq {} \cup {c}
      <4>1. \A d \in Conns : d \notin Users(p)
        BY <2>5, <2>6 DEF Users, Threads
      <4>2. \A d \in Conns : d # c => (d \in Users(p)' <=> d \in Users(p))
        BY <2>1, <2>3, UsersMove
      <4> QED
        BY <4>1, <4>2 DEF Users
    <3>2. Users(p)' \in SUBSET Conns /\ {} \in SUBSET Conns
      BY DEF Users
    <3>3. trader'[p].ref = garbage + 2 /\ garbage \in Nat
      BY <2>2, <2>6 DEF NewRefs
    <3>4. Cardinality({}) = 0
      BY FS_EmptySet
    <3>5. Cardinality(Users(p)') <= 0 + 1 /\ Cardinality(Users(p)') \in Nat
      BY <3>1, <3>2, <3>4, UsersCount
    <3> QED
      BY <3>3, <3>5
  <2>7. CASE p # n
    <3>1. p \in Traders /\ trader'[p] = trader[p]
      BY <2>1, <2>7
    <3>2. Users(p)' = Users(p)
      <4>1. c \notin Users(p)
        BY <2>1, <2>4, <3>1 DEF Users
      <4>2. /\ \A d \in Conns : d # c => (d \in Users(p)' <=> d \in Users(p))
            /\ c \notin Users(p)'
        BY <2>1, <2>3, <2>4, <2>7, <3>1, UsersMove
      <4> QED
        BY <4>1, <4>2 DEF Users
    <3> QED
      BY <3>1, <3>2 DEF RefsInv
  <2> QED
    BY <2>6, <2>7
<1>7. ASSUME NEW c \in Conns, Logout(c)
      PROVE  RefsInv'
  <2> DEFINE o == th[c].me
             t == [Idle EXCEPT !.pc = "done"]
             found == Find(trader[o].name) # 0
  <2>1. /\ c \in Threads /\ Moves(c, t) /\ o \in Traders /\ Len(trader') = Len(trader)
        /\ \A p \in Traders :
             trader'[p].ref = IF found /\ p = o THEN trader[p].ref - 1 ELSE trader[p].ref
    BY <1>7, LogoutFacts
  <2>2. TypeOK /\ t.me = 0 /\ t.pc = "done"
    BY DEF BaseInv, Idle
  <2>3. c \in Users(o)
    BY DEF Users
  <2> HIDE DEF t, found, o
  <2> SUFFICES ASSUME NEW p \in Traders'
               PROVE  trader'[p].ref >= 1 + Cardinality(Users(p)')
    BY DEF RefsInv
  <2>4. p \in Traders /\ p # 0
    BY <2>1, <2>2, Typing DEF Traders
  <2>5. trader[p].ref \in Int /\ trader[p].ref >= 1 + Cardinality(Users(p))
    BY <2>2, <2>4, Typing DEF RefsInv, TraderRecords
  <2>6. Users(p)' \subseteq Users(p) \ {c}
    <3>1. /\ \A d \in Conns : d # c => (d \in Users(p)' <=> d \in Users(p))
          /\ c \notin Users(p)'
      BY <2>1, <2>2, <2>4, UsersMove
    <3> QED
      BY <3>1 DEF Users
  <2>7. Users(p) \in SUBSET Conns /\ Users(p)' \in SUBSET Conns
    BY DEF Users
  <2>8. /\ Cardinality(Users(p)') <= Cardinality(Users(p))
        /\ p = o => Cardinality(Users(p)') <= Cardinality(Users(p)) - 1
        /\ Cardinality(Users(p)) \in Nat /\ Cardinality(Users(p)') \in Nat
    BY <2>3, <2>6, <2>7, UsersCount
  <2>9. \/ trader'[p].ref = trader[p].ref
        \/ p = o /\ trader'[p].ref = trader[p].ref - 1
    BY <2>1, <2>4
  <2> QED
    BY <2>5, <2>8, <2>9
<1>8. CASE StartFini \/ FiniStep \/ UNCHANGED vars
  <2>1. trader' = trader /\ th' = th
    BY <1>8 DEF StartFini, FiniStep, vars, map
  <2> QED
    BY <2>1 DEF RefsInv, Traders, Users
<1> QED
  BY <1>1, <1>2, <1>3, <1>4, <1>5, <1>6, <1>7, <1>8, StepCases

-----------------------------------------------------------------------------
(* The sessions.                                                           *)

\* Where the threads that hold a trader in view have it from the table.
LEMMA InTable ==
  ASSUME BaseInv, NEW x \in Threads
  PROVE  /\ th[x].pc \in {"ref", "check", "adopt", "choose", "enter", "send", "write"} => th[x].to \in Traders
         /\ th[x].me # 0 => th[x].me \in Traders
         /\ th[x].pc \in LoginSteps => x \in Conns /\ th[x].me = 0
         /\ x \in Conns /\ th[x].pc \in {"logout", "scan", "send", "write"} => th[x].me \in Traders
BY Typing DEF BaseInv, ThreadInv, Consistent, Locals, LoginSteps

\* What one thread does to the logins, the sessions and the new traders.
LEMMA SessionMove ==
  ASSUME TypeOK, NEW x \in Threads, NEW t, Moves(x, t)
  PROVE  /\ \A c \in Conns : c # x => /\ c \in InLogin' <=> c \in InLogin
                                      /\ c \in Entering' <=> c \in Entering
         /\ x \in Conns => /\ x \in InLogin' <=> t.pc \in LoginSteps
                           /\ x \in Entering' <=> t.pc \in {"choose", "enter"}
BY Moved DEF InLogin, Entering, Threads

\* A step that gives no trader another descriptor.
LEMMA SessionFrame ==
  ASSUME BaseInv, BaseInv', SessionInv, NEW x \in Threads, NEW t, Moves(x, t), SessionKept(x, t),
         x \in Conns => t.me = th[x].me,
         Len(trader') = Len(trader), \A o \in Traders : trader'[o].fd = trader[o].fd,
         t.pc = "write" /\ t.dest # NoFd => t.to \in Traders /\ trader[t.to].fd = t.dest
  PROVE  SessionInv'
<1> SUFFICES ASSUME ~overlapped'
             PROVE  /\ \A c, d \in InLogin' : c = d
                    /\ \A o \in Traders', c \in Conns :
                         trader'[o].fd = c <=> th'[c].me = o \/ (c \in Entering' /\ th'[c].to = o)
                    /\ \A c \in Conns : th'[c].pc = "adopt" => trader'[th'[c].to].fd = NoFd
                    /\ \A y \in Threads :
                         th'[y].pc = "write" /\ th'[y].dest # NoFd => trader'[th'[y].to].fd = th'[y].dest
  BY DEF SessionInv
<1>1. TypeOK /\ Traders' = Traders /\ ~overlapped
  BY DEF BaseInv, Traders, SessionKept
<1>2. th'[x] = t /\ \A y \in Threads : y # x => th'[y] = th[y]
  BY <1>1, Moved
<1>3. \A c, d \in InLogin' : c = d
  <2>1. InLogin' \subseteq Conns /\ InLogin \subseteq Conns
    BY DEF InLogin
  <2>2. \A c, d \in InLogin : c = d
    BY <1>1 DEF SessionInv
  <2>3. x \in Conns /\ x \in InLogin' => x \in InLogin \/ InLogin = {}
    BY <1>1, SessionMove DEF SessionKept, InLogin
  <2>4. \A c \in InLogin' : c = x \/ c \in InLogin
    BY <1>1, <2>1, SessionMove
  <2> QED
    BY <2>1, <2>2, <2>3, <2>4
<1>4. ASSUME NEW o \in Traders, NEW c \in Conns
      PROVE  trader'[o].fd = c <=> th'[c].me = o \/ (c \in Entering' /\ th'[c].to = o)
  <2>1. trader[o].fd = c <=> th[c].me = o \/ (c \in Entering /\ th[c].to = o)
    BY <1>1 DEF SessionInv
  <2>2. c \in Threads
    BY DEF Threads
  <2>3. CASE c # x
    BY <1>1, <1>2, <2>1, <2>2, <2>3, SessionMove
  <2>4. CASE c = x
    <3>1. (c \in Entering' <=> c \in Entering) /\ (c \in Entering => t.to = th[c].to)
      BY <1>1, <2>4, SessionMove DEF SessionKept, Entering
    <3> QED
      BY <1>2, <2>1, <2>4, <3>1
  <2> QED
    BY <2>3, <2>4
<1>5. ASSUME NEW c \in Conns, th'[c].pc = "adopt"
      PROVE  trader'[th'[c].to].fd = NoFd
  <2>1. c \in Threads
    BY DEF Threads
  <2>2. th'[c].to \in Traders
    BY <1>1, <1>5, <2>1, InTable DEF BaseInv, ThreadInv, TypeOK, Consistent, Locals
  <2>3. trader[th'[c].to].fd = NoFd
    BY <1>1, <1>2, <1>5, <2>1 DEF SessionKept, SessionInv
  <2> QED
    BY <2>2, <2>3
<1>6. ASSUME NEW y \in Threads, th'[y].pc = "write", th'[y].dest # NoFd
      PROVE  trader'[th'[y].to].fd = th'[y].dest
  <2>1. CASE y = x
    BY <1>2, <1>6, <2>1
  <2>2. CASE y # x
    <3>1. th'[y] = th[y] /\ th[y].to \in Traders
      BY <1>2, <1>6, <2>2, InTable
    <3> QED
      BY <1>1, <1>6, <3>1 DEF SessionInv
  <2> QED
    BY <2>1, <2>2
<1> QED
  BY <1>1, <1>3, <1>4, <1>5, <1>6

\* While logins come one at a time a session's trader is in the map, and its
\* logout leaves the map as it is.
LEMMA LogoutFinds ==
  ASSUME BaseInv, RefsInv, SessionInv, MapInv, NEW c \in Conns, Logout(c), ~overlapped
  PROVE  /\ Find(trader[th[c].me].name) # 0
         /\ all_traders' = all_traders
<1> DEFINE o == th[c].me
<1>1. TypeOK /\ o \in Traders /\ th[c].pc = "logout" /\ o # 0
  BY LogoutFacts, Typing DEF BaseInv
<1>2. trader[o].fd = c
  BY <1>1 DEF SessionInv
<1>3. o \in Mapped
  <2>1. ASSUME NEW d \in Entering, th[d].to = o
        PROVE  FALSE
    <3>1. d \in Conns /\ th[d].pc \in {"choose", "enter"}
      BY DEF Entering
    <3>2. trader[o].fd = d
      BY <1>1, <2>1, <3>1 DEF SessionInv
    <3> QED
      BY <1>1, <1>2, <3>1, <3>2
  <2>2. Traders = Mapped \cup {th[d].to : d \in Entering}
    BY DEF MapInv
  <2> QED
    BY <1>1, <2>1, <2>2
<1>4. SlotsOf(trader[o].name) # {}
  <2>1. PICK i \in Slots : all_traders[i] = o
    BY <1>3 DEF Mapped
  <2> QED
    BY <1>1, <2>1 DEF SlotsOf
<1>5. trader[o].ref # 1
  <2>1. Users(o) \in SUBSET Conns /\ c \in Users(o)
    BY DEF Users
  <2>2. Cardinality(Users(o)) >= 1 /\ Cardinality(Users(o)) \in Nat
    BY <2>1, UsersCount
  <2>3. trader[o].ref >= 1 + Cardinality(Users(o)) /\ trader[o].ref \in Int
    BY <1>1, Typing DEF RefsInv, TraderRecords
  <2> QED
    BY <2>2, <2>3
<1>6. Find(trader[o].name) \in Mapped
  BY <1>1, <1>4, FindFacts
<1> QED
  BY <1>5, <1>6, LogoutFacts DEF Mapped

\* The thread of a login becomes the session of its trader: the one found,
\* which had none, or the one made.
LEMMA SessionBegins ==
  ASSUME BaseInv, BaseInv', SessionInv, ~overlapped, NEW c \in Conns, NEW o \in Traders,
         NEW t, Moves(c, t), c \in InLogin, t.pc = "send", t.me = o, Len(trader') = Len(trader),
         \A p \in Traders : trader'[p].fd = IF p = o THEN c ELSE trader[p].fd,
         trader[o].fd = IF c \in Entering THEN c ELSE NoFd,
         c \in Entering => th[c].to = o
  PROVE  SessionInv'
<1>1. TypeOK /\ Traders' = Traders /\ c \in Threads /\ th[c].me = 0 /\ o # 0 /\ NoFd \notin Conns
  <2>1. TypeOK /\ c \in Threads /\ Traders' = Traders /\ th[c].pc \in LoginSteps
    BY DEF BaseInv, Traders, Threads, InLogin
  <2> QED
    BY <2>1, InTable, Typing
<1>2. th'[c] = t /\ \A y \in Threads : y # c => th'[y] = th[y]
  BY <1>1, Moved
<1>3. c \notin InLogin' /\ c \notin Entering'
  BY <1>1, SessionMove DEF LoginSteps
<1>4. InLogin' = {} /\ Entering' = {}
  <2>1. \A d \in Conns : d # c => d \notin InLogin
    BY DEF SessionInv
  <2>2. Entering \subseteq InLogin /\ InLogin' \subseteq Conns /\ Entering' \subseteq Conns
    BY DEF Entering, InLogin, LoginSteps
  <2>3. \A d \in Conns : d # c => d \notin InLogin' /\ d \notin Entering'
    BY <1>1, <2>1, <2>2, SessionMove
  <2> QED
    BY <1>3, <2>2, <2>3
<1>5. ASSUME NEW p \in Traders, NEW d \in Conns
      PROVE  trader'[p].fd = d <=> th'[d].me = p
  <2>1. trader[p].fd = d <=> th[d].me = p \/ (d \in Entering /\ th[d].to = p)
    BY DEF SessionInv
  <2>2. d \in Entering => d = c
    BY DEF SessionInv, Entering, InLogin, LoginSteps
  <2>3. d \in Threads
    BY DEF Threads
  <2>4. CASE p = o
    <3>1. d # c => th[d].me # p
      BY <1>1, <2>1, <2>4
    <3> QED
      BY <1>2, <2>3, <2>4, <3>1
  <2>5. CASE p # o
    <3>1. d = c => trader[p].fd # d
      BY <1>1, <2>1, <2>5, Typing
    <3> QED
      BY <1>1, <1>2, <2>1, <2>2, <2>3, <2>5, <3>1
  <2> QED
    BY <2>4, <2>5
<1>6. ASSUME NEW y \in Threads, th'[y].pc = "write", th'[y].dest # NoFd
      PROVE  trader'[th'[y].to].fd = th'[y].dest
  <2>1. y # c /\ th'[y] = th[y] /\ th[y].to \in Traders
    BY <1>2, <1>6, InTable
  <2>2. trader[th[y].to].fd = th[y].dest
    BY <1>6, <2>1 DEF SessionInv
  <2>3. th[y].to = o => c \in Entering /\ th[y].dest = c
    BY <1>6, <2>1, <2>2
  <2> QED
    BY <2>1, <2>2, <2>3
<1>7. \A d \in Conns : th'[d].pc # "adopt"
  BY <1>4 DEF InLogin, LoginSteps
<1> QED
  BY <1>1, <1>4, <1>5, <1>6, <1>7 DEF SessionInv

LEMMA CreateSession ==
  ASSUME BaseInv, SessionInv, NEW c \in Conns, Create(c)
  PROVE  SessionInv'
<1> DEFINE n == Len(trader) + 1
           t == [th[c] EXCEPT !.pc = "choose", !.to = n, !.seen = 0]
<1>1. /\ c \in Threads /\ Moves(c, t) /\ th[c] \in Locals /\ th[c].pc = "create" /\ th[c].me = 0
      /\ Traders' = Traders \cup {n} /\ \A p \in Traders : trader'[p] = trader[p]
      /\ overlapped' = overlapped
  BY CreateFacts DEF rest
<1>2. trader'[n].fd = c
  <2>1. \E garbage \in Memory :
          trader'[n] = [name |-> th[c].name, ref |-> garbage + NewRefs, fd |-> c, owner |-> Nobody]
    BY CreateFacts
  <2> QED
    BY <2>1
<1>3. t.pc = "choose" /\ t.to = n /\ t.me = 0 /\ TypeOK
  BY <1>1 DEF Locals, BaseInv
<1>4. n \notin Traders /\ n # 0 /\ 0 \notin Traders
  BY <1>3, Typing DEF Traders
<1>5. \A d \in Threads : th[d].me # n /\ th[d].to # n
  BY <1>3, <1>4, Typing DEF Locals
<1> HIDE DEF t, n
<1> SUFFICES ASSUME ~overlapped'
             PROVE  SessionInv'
  BY DEF SessionInv
<1>6. th'[c] = t /\ \A y \in Threads : y # c => th'[y] = th[y]
  BY <1>1, <1>3, Moved
<1>7. c \in InLogin /\ c \in InLogin' /\ c \in Entering' /\ c \notin Entering
  BY <1>1, <1>3, SessionMove DEF InLogin, Entering, LoginSteps
<1>8. /\ \A d \in Conns : d # c => d \notin InLogin' /\ d \notin Entering' /\ d \notin Entering
      /\ InLogin' \subseteq Conns
  <2>1. \A d \in Conns : d # c => d \notin InLogin
    BY <1>1, <1>7 DEF SessionInv
  <2>2. Entering \subseteq InLogin /\ InLogin' \subseteq Conns
    BY DEF Entering, InLogin, LoginSteps
  <2> QED
    BY <1>1, <1>3, <2>1, <2>2, SessionMove
<1>9. \A a, b \in InLogin' : a = b
  BY <1>8
<1>10. ASSUME NEW p \in Traders', NEW d \in Conns
       PROVE  trader'[p].fd = d <=> th'[d].me = p \/ (d \in Entering' /\ th'[d].to = p)
  <2>1. d \in Threads
    BY DEF Threads
  <2>2. CASE p = n
    <3>1. d # c => th'[d].me # p /\ d \notin Entering'
      BY <1>5, <1>6, <1>8, <2>1, <2>2
    <3> QED
      BY <1>2, <1>3, <1>6, <1>7, <2>2, <3>1
  <2>3. CASE p # n
    <3>1. p \in Traders /\ p # 0 /\ trader'[p] = trader[p]
      BY <1>1, <1>4, <2>3
    <3>2. trader[p].fd = d <=> th[d].me = p \/ (d \in Entering /\ th[d].to = p)
      BY <1>1, <3>1 DEF SessionInv
    <3> QED
      BY <1>1, <1>3, <1>6, <1>7, <1>8, <2>1, <2>3, <3>1, <3>2
  <2> QED
    BY <2>2, <2>3
<1>11. ASSUME NEW d \in Conns, th'[d].pc = "adopt"
       PROVE  FALSE
  <2>1. d \in InLogin'
    BY <1>11 DEF InLogin, LoginSteps
  <2>2. d = c
    BY <1>7, <2>1, <1>9
  <2> QED
    BY <1>3, <1>6, <1>11, <2>2
<1>12. ASSUME NEW y \in Threads, th'[y].pc = "write", th'[y].dest # NoFd
       PROVE  trader'[th'[y].to].fd = th'[y].dest
  <2>1. y # c /\ th'[y] = th[y] /\ th[y].to \in Traders
    BY <1>3, <1>6, <1>12, InTable
  <2> QED
    BY <1>1, <1>12, <2>1 DEF SessionInv
<1> QED
  BY <1>9, <1>10, <1>11, <1>12 DEF SessionInv

\* A session ends with its descriptor.
LEMMA LogoutSession ==
  ASSUME BaseInv, RefsInv, SessionInv, MapInv, NEW c \in Conns, Logout(c)
  PROVE  SessionInv'
<1> DEFINE o == th[c].me
           t == [Idle EXCEPT !.pc = "done"]
<1> SUFFICES ASSUME ~overlapped'
             PROVE  SessionInv'
  BY DEF SessionInv
<1>1. ~overlapped /\ Find(trader[o].name) # 0
  BY LogoutFacts, LogoutFinds
<1>2. /\ c \in Threads /\ Moves(c, t) /\ th[c].pc = "logout" /\ o \in Traders
      /\ trader[o].owner \in {Nobody, c} /\ Traders' = Traders
      /\ \A p \in Traders : trader'[p].fd = IF p = o THEN NoFd ELSE trader[p].fd
  BY <1>1, LogoutFacts DEF Traders
<1>3. TypeOK /\ t.pc = "done" /\ t.me = 0 /\ 0 \notin Traders
  BY Typing DEF BaseInv, Idle
<1> HIDE DEF t
<1>4. th'[c] = t /\ \A y \in Threads : y # c => th'[y] = th[y]
  BY <1>2, <1>3, Moved
<1>5. /\ c \notin InLogin' /\ c \notin Entering' /\ c \notin Entering /\ c \notin InLogin
      /\ \A d \in Conns : d # c => (d \in InLogin' <=> d \in InLogin) /\ (d \in Entering' <=> d \in Entering)
  <2>1. c \notin Entering /\ c \notin InLogin
    BY <1>2 DEF Entering, InLogin, LoginSteps
  <2> QED
    BY <1>2, <1>3, <2>1, SessionMove DEF LoginSteps
<1>6. \A a, b \in InLogin' : a = b
  <2>1. InLogin' \subseteq InLogin
    BY <1>5 DEF InLogin
  <2> QED
    BY <1>1, <2>1 DEF SessionInv
<1>7. ASSUME NEW p \in Traders, NEW d \in Conns
      PROVE  trader'[p].fd = d <=> th'[d].me = p \/ (d \in Entering' /\ th'[d].to = p)
  <2>1. trader[p].fd = d <=> th[d].me = p \/ (d \in Entering /\ th[d].to = p)
    BY <1>1 DEF SessionInv
  <2>2. trader[o].fd = c
    BY <1>1, <1>2 DEF SessionInv
  <2>3. d \in Threads /\ NoFd # d
    BY DEF Threads
  <2>4. CASE d = c
    BY <1>2, <1>3, <1>4, <1>5, <2>1, <2>3, <2>4
  <2>5. CASE d # c
    <3>1. p = o => trader[p].fd # d
      BY <2>2, <2>5
    <3> QED
      BY <1>2, <1>4, <1>5, <2>1, <2>3, <2>5, <3>1
  <2> QED
    BY <2>4, <2>5
<1>8. ASSUME NEW d \in Conns, th'[d].pc = "adopt"
      PROVE  trader'[th'[d].to].fd = NoFd
  <2>1. d \in Threads /\ d # c /\ th'[d] = th[d]
    BY <1>3, <1>4, <1>8 DEF Threads
  <2>2. th[d].to \in Traders /\ trader[th[d].to].fd = NoFd
    BY <1>1, <1>8, <2>1, InTable DEF SessionInv
  <2> QED
    BY <1>2, <2>1, <2>2
<1>9. ASSUME NEW y \in Threads, th'[y].pc = "write", th'[y].dest # NoFd
      PROVE  trader'[th'[y].to].fd = th'[y].dest
  <2>1. y # c /\ th'[y] = th[y] /\ th[y].to \in Traders
    BY <1>3, <1>4, <1>9, InTable
  <2>2. trader[th[y].to].fd = th[y].dest
    BY <1>1, <1>9, <2>1 DEF SessionInv
  <2>3. trader[th[y].to].owner = y /\ y # Nobody
    BY <1>9, <2>1 DEF BaseInv, LockInv
  <2>4. th[y].to # o
    BY <1>2, <2>1, <2>3
  <2> QED
    BY <1>2, <2>1, <2>2, <2>4
<1> QED
  BY <1>2, <1>6, <1>7, <1>8, <1>9 DEF SessionInv

LEMMA SessionStep ==
  ASSUME BaseInv, RefsInv, SessionInv, MapInv, Next \/ UNCHANGED vars
  PROVE  SessionInv'
<1>0. BaseInv' /\ TypeOK
  BY BaseKept DEF BaseInv
<1>1. ASSUME NEW x \in Threads, NEW t \in Locals, MovesOn(x, t)
      PROVE  SessionInv'
  <2>1. trader' = trader /\ Moves(x, t) /\ SessionKept(x, t) /\ t.pc # "write"
        /\ (x \in Conns => t.me = th[x].me)
    BY <1>1 DEF MovesOn, Quiet, UsersKept, map
  <2> QED
    BY <1>0, <2>1, SessionFrame
<1>2. ASSUME NEW x \in Threads, Send(x) \/ Sent(x) \/ SendFails(x)
      PROVE  SessionInv'
  <2>1. PICK t \in Locals : /\ Moves(x, t) /\ t.me = th[x].me /\ t.pc \notin LoginSteps
                            /\ t.pc = "write" => t.to \in Traders /\ t.dest = trader[t.to].fd
    BY <1>2, WriteFacts
  <2>2. th[x].pc \notin LoginSteps /\ overlapped' = overlapped
    BY <1>2, WriteFacts DEF rest
  <2>3. CASE ~overlapped'
    <3>1. SessionKept(x, t)
      BY <2>1, <2>2 DEF SessionKept, LoginSteps
    <3> QED
      BY <1>0, <1>2, <2>1, <3>1, WriteFacts, SessionFrame
  <2>4. CASE overlapped'
    BY <2>4 DEF SessionInv
  <2> QED
    BY <2>3, <2>4
<1>3. ASSUME NEW c \in Conns, Ref(c)
      PROVE  SessionInv'
  <2> DEFINE t == [th[c] EXCEPT !.pc = "check"]
             o == th[c].to
  <2>1. /\ c \in Threads /\ Moves(c, t) /\ o \in Traders /\ Len(trader') = Len(trader)
        /\ overlapped' = overlapped
        /\ \A p \in Traders : trader'[p] = IF p # o THEN trader[p] ELSE [trader[o] EXCEPT !.ref = @ + 1]
    BY <1>3, FoundFacts DEF rest
  <2>2. th[c] \in Locals /\ th[c].pc = "ref"
    BY <1>0, <1>3, <2>1, Typing DEF Ref, Go
  <2>3. t.pc = "check" /\ t.me = th[c].me
    BY <2>2 DEF Locals
  <2>4. \A p \in Traders : trader'[p].fd = trader[p].fd
    BY <1>0, <2>1, Typing DEF TraderRecords
  <2> HIDE DEF t
  <2>5. CASE ~overlapped'
    <3>1. SessionKept(c, t)
      BY <2>1, <2>2, <2>3, <2>5 DEF SessionKept, LoginSteps
    <3> QED
      BY <1>0, <2>1, <2>3, <2>4, <3>1, SessionFrame
  <2>6. CASE overlapped'
    BY <2>6 DEF SessionInv
  <2> QED
    BY <2>5, <2>6
<1>4. ASSUME NEW c \in Conns, Adopt(c), ~overlapped
      PROVE  SessionInv'
  <2> DEFINE o == th[c].to
             t == [th[c] EXCEPT !.pc = "send", !.me = o]
  <2>1. ~Ref(c) /\ th[c].pc = "adopt"
    BY <1>4 DEF Ref, Adopt, Go
  <2>2. /\ c \in Threads /\ Moves(c, t) /\ o \in Traders /\ Len(trader') = Len(trader)
        /\ \A p \in Traders : trader'[p] = IF p # o THEN trader[p] ELSE [trader[o] EXCEPT !.fd = c]
    BY <1>4, <2>1, FoundFacts
  <2>3. th[c] \in Locals
    BY <1>0, <2>2, Typing
  <2>4. t.pc = "send" /\ t.me = o
    BY <2>3 DEF Locals
  <2>5. \A p \in Traders : trader'[p].fd = IF p = o THEN c ELSE trader[p].fd
    BY <1>0, <2>2, Typing DEF TraderRecords
  <2>6. c \in InLogin /\ c \notin Entering /\ trader[o].fd = NoFd
    BY <1>4, <2>1 DEF InLogin, Entering, LoginSteps, SessionInv
  <2> HIDE DEF t, o
  <2> QED
    BY <1>0, <1>4, <2>2, <2>4, <2>5, <2>6, SessionBegins
<1>5. ASSUME NEW c \in Conns, Enter(c), ~overlapped
      PROVE  SessionInv'
  <2> DEFINE o == th[c].to
             t == [th[c] EXCEPT !.pc = "send", !.me = o, !.at = 0]
  <2>1. /\ c \in Threads /\ Moves(c, t) /\ th[c] \in Locals /\ th[c].pc = "enter" /\ o \in Traders
        /\ trader' = trader
    BY <1>5, EnterFacts
  <2>2. t.pc = "send" /\ t.me = o
    BY <2>1 DEF Locals
  <2>3. c \in InLogin /\ c \in Entering
    BY <2>1 DEF InLogin, Entering, LoginSteps
  <2>4. trader[o].fd = c
    BY <1>5, <2>1, <2>3 DEF SessionInv
  <2> HIDE DEF t
  <2> QED
    BY <1>0, <1>5, <2>1, <2>2, <2>3, <2>4, SessionBegins
<1>6. ASSUME NEW c \in Conns, Create(c) \/ Logout(c)
      PROVE  SessionInv'
  BY <1>6, CreateSession, LogoutSession
<1>7. CASE StartFini \/ FiniStep \/ UNCHANGED vars
  <2>1. trader' = trader /\ th' = th /\ overlapped' = overlapped
    BY <1>7 DEF StartFini, FiniStep, vars, map, rest
  <2> QED
    BY <2>1 DEF SessionInv, Traders, InLogin, Entering
<1>8. ASSUME NEW c \in Conns, Adopt(c) \/ Enter(c), overlapped
      PROVE  SessionInv'
  <2>1. overlapped' = overlapped
    BY <1>8 DEF Adopt, Enter, rest
  <2> QED
    BY <1>8, <2>1 DEF SessionInv
<1> QED
  BY <1>1, <1>2, <1>3, <1>4, <1>5, <1>6, <1>7, <1>8, StepCases

-----------------------------------------------------------------------------
(* The map.                                                                *)

\* The slots in use: every trader that is counted, but for one about to be
\* put into the map.
Filled == count - Cardinality(Entering)

\* MapInv, for logins that come one at a time.
LEMMA MapInvIs ==
  MapInv <=> (~overlapped =>
    /\ \A i \in Slots : all_traders[i] # 0 <=> i <= Filled
    /\ \A i, j \in 1..Filled : i # j => trader[all_traders[i]].name # trader[all_traders[j]].name
    /\ \A c \in Conns : c \in Entering => FirstEmpty = Filled + 1
    /\ count <= MAX_TRADERS
    /\ \A c \in Conns :
         /\ th[c].pc \in {"load", "create"} => count < MAX_TRADERS
         /\ th[c].pc = "create" => th[c].seen = count
         /\ th[c].pc \in {"full", "load", "create"} => SlotsOf(th[c].name) = {}
         /\ th[c].pc = "enter" => th[c].at = FirstEmpty
         /\ c \in Entering => th[c].to \notin Mapped /\ SlotsOf(trader[th[c].to].name) = {}
    /\ Traders = Mapped \cup {th[c].to : c \in Entering})
BY DEF MapInv, Packed, Filled, Entering

\* The map is what the slots and the names make it.
LEMMA SameMap ==
  ASSUME TypeOK, all_traders' = all_traders, \A o \in Traders : trader'[o].name = trader[o].name
  PROVE  Mapped' = Mapped /\ FirstEmpty' = FirstEmpty /\ \A n : SlotsOf(n)' = SlotsOf(n)
<1>1. Mapped' = Mapped
  BY DEF Mapped
<1>2. FirstEmpty' = FirstEmpty
  BY DEF FirstEmpty, First
<1>3. ASSUME NEW n
      PROVE  SlotsOf(n)' = SlotsOf(n)
  <2>1. \A i \in Slots : all_traders[i] # 0 => trader'[all_traders[i]].name = trader[all_traders[i]].name
    BY Typing
  <2> QED
    BY <2>1 DEF SlotsOf
<1> QED
  BY <1>1, <1>2, <1>3

\* A step that changes neither the slots nor the names.
LEMMA MapFrame ==
  ASSUME BaseInv, MapInv, NEW x \in Threads, NEW t, Moves(x, t), SessionKept(x, t), MapSeen(x, t),
         t.pc \in LoginSteps => x \in Conns,
         all_traders' = all_traders, count' = count, Len(trader') = Len(trader),
         \A o \in Traders : trader'[o].name = trader[o].name
  PROVE  MapInv'
<1> SUFFICES ASSUME ~overlapped'
             PROVE  MapInv'
  BY DEF MapInv
<1>1. TypeOK /\ Traders' = Traders /\ ~overlapped
  BY DEF BaseInv, Traders, SessionKept
<1>2. Mapped' = Mapped /\ FirstEmpty' = FirstEmpty /\ \A n : SlotsOf(n)' = SlotsOf(n)
  BY <1>1, SameMap
<1>3. th'[x] = t /\ \A y \in Threads : y # x => th'[y] = th[y]
  BY <1>1, Moved
<1>4. Entering' = Entering /\ \A c \in Entering : th'[c].to = th[c].to /\ th[c].to \in Traders
  <2>1. \A c \in Conns : c \in Entering' <=> c \in Entering
    <3>1. x \in Conns => (x \in Entering' <=> x \in Entering)
      BY <1>1, SessionMove DEF SessionKept, Entering
    <3> QED
      BY <1>1, <3>1, SessionMove
  <2>2. \A c \in Entering : th'[c].to = th[c].to
    BY <1>3 DEF SessionKept, Entering, Threads
  <2>3. \A c \in Entering : th[c].to \in Traders
    BY InTable DEF Entering, Threads
  <2> QED
    BY <2>1, <2>2, <2>3 DEF Entering
<1>5. Filled' = Filled
  BY <1>4 DEF Filled
<1>6. \A i, j \in 1..Filled' : i # j => trader'[all_traders'[i]].name # trader'[all_traders'[j]].name
  <2>1. \A i \in 1..Filled : i \in Slots /\ all_traders[i] \in Traders
    <3>1. Filled <= MAX_TRADERS /\ Filled \in Int
      <4>1. Cardinality(Entering) \in Nat
        BY ConnsFinite DEF Entering
      <4>2. count \in Nat /\ count <= MAX_TRADERS
        BY <1>1 DEF TypeOK, MapInv
      <4> QED
        BY <4>1, <4>2 DEF Filled
    <3>2. \A i \in 1..Filled : i \in Slots /\ all_traders[i] # 0
      BY <1>1, <3>1, MapInvIs DEF Slots
    <3> QED
      BY <1>1, <3>2, Typing
  <2> QED
    BY <1>1, <1>5, <2>1, MapInvIs
<1>7. \A c \in Conns :
        /\ th'[c].pc \in {"load", "create"} => count < MAX_TRADERS
        /\ th'[c].pc = "create" => th'[c].seen = count
        /\ th'[c].pc \in {"full", "load", "create"} => SlotsOf(th'[c].name) = {}
        /\ th'[c].pc = "enter" => th'[c].at = FirstEmpty
  BY <1>1, <1>3, MapInvIs DEF MapSeen, Threads
<1>8. \A c \in Entering : th'[c].to \notin Mapped /\ SlotsOf(trader'[th'[c].to].name) = {}
  BY <1>1, <1>4, MapInvIs DEF Entering
<1>9. Traders' = Mapped' \cup {th'[c].to : c \in Entering'}
  BY <1>1, <1>2, <1>4, MapInvIs
<1>10. Packed'
  BY <1>1, <1>2, <1>4, <1>5, <1>6, MapInvIs DEF Packed, Filled, Entering
<1>11. \A c \in Conns :
         /\ th'[c].pc \in {"full", "load", "create"} => SlotsOf(th[c].name)' = {}
         /\ c \in Entering' => SlotsOf(trader[th[c].to].name)' = {}
  BY <1>2, <1>4, <1>7, <1>8
<1> QED
  BY <1>1, <1>2, <1>4, <1>7, <1>8, <1>9, <1>10, <1>11 DEF MapInv

\* The slot after those in use.
LEMMA NextSlot ==
  ASSUME TypeOK, NEW n \in Nat, n < MAX_TRADERS, \A i \in Slots : all_traders[i] # 0 <=> i <= n
  PROVE  FirstEmpty = n + 1
<1> DEFINE empty == {i \in Slots : all_traders[i] = 0}
<1>1. n + 1 \in empty /\ \A i \in empty : i >= n + 1
  BY DEF Slots
<1>2. First(empty) \in empty /\ \A j \in empty : First(empty) <= j
  BY <1>1, FirstIsLeast
<1>3. First(empty) = n + 1
  <2>1. First(empty) \in Nat
    BY <1>2 DEF Slots
  <2> HIDE DEF empty
  <2> QED
    BY <1>1, <1>2, <2>1
<1> QED
  BY <1>1, <1>3 DEF FirstEmpty

\* One login at a time: the others' locals do not count.
LEMMA OneLogin ==
  ASSUME SessionInv, ~overlapped, NEW c \in Conns, th[c].pc \in LoginSteps
  PROVE  /\ \A d \in Conns : d # c => th[d].pc \notin LoginSteps
         /\ Entering = IF th[c].pc \in {"choose", "enter"} THEN {c} ELSE {}
         /\ Cardinality(Entering) = IF th[c].pc \in {"choose", "enter"} THEN 1 ELSE 0
<1>1. \A d \in Conns : d # c => th[d].pc \notin LoginSteps
  BY DEF SessionInv, InLogin
<1>2. Entering = IF th[c].pc \in {"choose", "enter"} THEN {c} ELSE {}
  BY <1>1 DEF Entering, LoginSteps
<1> QED
  BY <1>1, <1>2, FS_EmptySet, FS_Singleton

LEMMA CreateMap ==
  ASSUME BaseInv, BaseInv', SessionInv, SessionInv', MapInv, NEW c \in Conns, Create(c), ~overlapped
  PROVE  MapInv'
<1> DEFINE n == Len(trader) + 1
           t == [th[c] EXCEPT !.pc = "choose", !.to = n, !.seen = 0]
<1>1. /\ c \in Threads /\ Moves(c, t) /\ th[c] \in Locals /\ th[c].pc = "create"
      /\ Traders' = Traders \cup {n} /\ \A p \in Traders : trader'[p] = trader[p]
      /\ overlapped' = overlapped /\ all_traders' = all_traders /\ count' = th[c].seen + 1
  BY CreateFacts DEF rest
<1>2. t.pc = "choose" /\ t.to = n /\ t.name = th[c].name /\ TypeOK
  BY <1>1 DEF Locals, BaseInv
<1>3. n \notin Traders /\ n # 0 /\ Mapped \subseteq Traders
  BY <1>2, Typing DEF Traders, Mapped
<1>4. trader'[n].name = th[c].name
  <2>1. \E garbage \in Memory :
          trader'[n] = [name |-> th[c].name, ref |-> garbage + NewRefs, fd |-> c, owner |-> Nobody]
    BY CreateFacts
  <2> QED
    BY <2>1
<1> HIDE DEF t, n
<1>5. th'[c] = t
  BY <1>1, <1>2, Moved
<1>6. /\ Entering = {} /\ Cardinality(Entering) = 0
      /\ Entering' = {c} /\ Cardinality(Entering)' = 1
      /\ \A d \in Conns : d # c => th'[d].pc \notin LoginSteps
  <2>1. th[c].pc \in LoginSteps /\ th'[c].pc \in LoginSteps
    BY <1>1, <1>2, <1>5 DEF LoginSteps
  <2>2. Entering = {} /\ Cardinality(Entering) = 0
    BY <1>1, <2>1, OneLogin
  <2>3. \A d \in Conns : d # c => th'[d].pc \notin LoginSteps
    BY <1>1, <1>5, <2>1 DEF SessionInv, InLogin
  <2>4. Entering' = {c}
    BY <1>2, <1>5, <2>3 DEF Entering, LoginSteps
  <2>5. Cardinality({c}) = 1
    BY FS_Singleton
  <2>6. Cardinality(Entering)' = Cardinality(Entering')
    OBVIOUS
  <2> QED
    BY <2>2, <2>3, <2>4, <2>5, <2>6
<1>7. /\ count \in Nat /\ count < MAX_TRADERS /\ th[c].seen = count /\ SlotsOf(th[c].name) = {}
      /\ Traders = Mapped /\ MAX_TRADERS \in Nat
  <2>1. count \in Nat /\ MAX_TRADERS \in Nat
    BY <1>2 DEF TypeOK
  <2>2. count < MAX_TRADERS /\ th[c].seen = count /\ SlotsOf(th[c].name) = {}
        /\ Traders = Mapped \cup {th[d].to : d \in Entering}
    BY <1>1 DEF MapInv
  <2>3. {th[d].to : d \in Entering} = {}
    BY <1>6
  <2> QED
    BY <2>1, <2>2, <2>3
<1>8. count' = count + 1 /\ Filled = count /\ Filled' = count
  BY <1>1, <1>6, <1>7 DEF Filled
<1>9. Mapped' = Mapped /\ FirstEmpty' = FirstEmpty /\ \A m : SlotsOf(m)' = SlotsOf(m)
  BY <1>1, <1>2, SameMap
<1>10. \A i \in Slots : all_traders[i] # 0 <=> i <= count
  BY <1>8, MapInvIs
<1>11. FirstEmpty = count + 1
  BY <1>2, <1>7, <1>10, NextSlot
<1>12. \A i, j \in 1..count : i # j => trader'[all_traders[i]].name # trader'[all_traders[j]].name
  <2>1. \A i \in 1..count : i \in Slots /\ all_traders[i] \in Traders
    <3>1. \A i \in 1..count : i \in Slots /\ all_traders[i] # 0
      BY <1>7, <1>10 DEF Slots
    <3> QED
      BY <1>2, <3>1, Typing
  <2> QED
    BY <1>1, <1>8, <2>1, MapInvIs
<1>13. Packed'
  BY <1>1, <1>6, <1>8, <1>9, <1>10, <1>11, <1>12 DEF Packed, Filled, Entering, LoginSteps
<1>14. \A d \in Conns : d # c => th'[d].pc \notin {"full", "load", "create", "enter"} /\ d \notin Entering'
  BY <1>6 DEF LoginSteps
<1>15. th'[c].to \notin Mapped' /\ SlotsOf(trader[th[c].to].name)' = {}
  BY <1>2, <1>3, <1>4, <1>5, <1>7, <1>9
<1>16. Traders' = Mapped' \cup {th'[d].to : d \in Entering'}
  BY <1>1, <1>2, <1>5, <1>6, <1>7, <1>9
<1>17. count' <= MAX_TRADERS
  BY <1>7, <1>8
<1> QED
  BY <1>2, <1>5, <1>13, <1>14, <1>15, <1>16, <1>17 DEF MapInv

LEMMA EnterMap ==
  ASSUME BaseInv, BaseInv', SessionInv, MapInv, NEW c \in Conns, Enter(c), ~overlapped
  PROVE  MapInv'
<1> DEFINE o == th[c].to
           t == [th[c] EXCEPT !.pc = "send", !.me = o, !.at = 0]
<1>1. /\ c \in Threads /\ Moves(c, t) /\ th[c] \in Locals /\ th[c].pc = "enter" /\ o \in Traders
      /\ th[c].at \in Slots /\ trader' = trader /\ count' = count /\ overlapped' = overlapped
      /\ all_traders' = [all_traders EXCEPT ![th[c].at] = o] /\ TypeOK
  BY EnterFacts DEF rest, BaseInv
<1>2. t.pc = "send" /\ o # 0 /\ all_traders \in [Slots -> Traders \cup {0}]
  BY <1>1, Typing DEF Locals, TypeOK
<1> HIDE DEF t, o
<1>3. /\ Entering = {c} /\ Cardinality(Entering) = 1
      /\ Entering' = {} /\ Cardinality(Entering)' = 0
      /\ \A d \in Conns : th'[d].pc \notin LoginSteps
  <2>1. th[c].pc \in LoginSteps
    BY <1>1 DEF LoginSteps
  <2>2. Entering = {c} /\ Cardinality(Entering) = 1 /\ \A d \in Conns : d # c => th[d].pc \notin LoginSteps
    BY <1>1, <2>1, OneLogin
  <2>3. \A d \in Conns : th'[d].pc \notin LoginSteps
    BY <1>1, <1>2, <2>2, Moved DEF LoginSteps, Threads
  <2>4. Entering' = {}
    BY <2>3 DEF Entering, LoginSteps
  <2>5. Cardinality({}) = 0
    BY FS_EmptySet
  <2>6. Cardinality(Entering)' = Cardinality(Entering')
    OBVIOUS
  <2> QED
    BY <2>2, <2>3, <2>4, <2>5, <2>6
<1>4. /\ count \in Nat /\ count <= MAX_TRADERS /\ FirstEmpty = Filled + 1 /\ th[c].at = FirstEmpty
      /\ o \notin Mapped /\ SlotsOf(trader[o].name) = {} /\ Traders = Mapped \cup {o} /\ MAX_TRADERS \in Nat
  BY <1>1, <1>3, MapInvIs DEF TypeOK, o
<1>5. Filled = count - 1 /\ Filled' = count /\ th[c].at = count
  BY <1>1, <1>3, <1>4 DEF Filled
<1>6. /\ \A i \in Slots : all_traders'[i] = IF i = count THEN o ELSE all_traders[i]
      /\ count \in Slots
  BY <1>1, <1>2, <1>5
<1>7. \A i \in Slots : all_traders[i] # 0 <=> i <= count - 1
  BY <1>5, MapInvIs
<1>8. \A i \in Slots : all_traders'[i] # 0 <=> i <= count
  BY <1>2, <1>4, <1>6, <1>7 DEF Slots
<1>9. ASSUME NEW i \in 1..count, NEW j \in 1..count, i # j
      PROVE  trader[all_traders'[i]].name # trader[all_traders'[j]].name
  <2>1. i \in Slots /\ j \in Slots /\ count \in Int
    BY <1>4 DEF Slots
  <2>2. \A k \in 1..count : k # count => k \in 1..Filled /\ k \in Slots /\ all_traders[k] # 0
    BY <1>4, <1>5, <1>7 DEF Slots
  <2>3. \A k \in 1..count : k # count => trader[all_traders[k]].name # trader[o].name
    BY <1>4, <2>2 DEF SlotsOf
  <2>4. \A a, b \in 1..Filled : a # b => trader[all_traders[a]].name # trader[all_traders[b]].name
    BY MapInvIs
  <2>5. CASE i = count
    <3>1. all_traders'[i] = o /\ all_traders'[j] = all_traders[j] /\ j # count
      BY <1>6, <1>9, <2>1, <2>5
    <3> QED
      BY <2>3, <3>1
  <2>6. CASE j = count
    <3>1. all_traders'[j] = o /\ all_traders'[i] = all_traders[i] /\ i # count
      BY <1>6, <1>9, <2>1, <2>6
    <3> QED
      BY <2>3, <3>1
  <2>7. CASE i # count /\ j # count
    <3>1. all_traders'[j] = all_traders[j] /\ all_traders'[i] = all_traders[i]
      BY <1>6, <2>1, <2>7
    <3>2. i \in 1..Filled /\ j \in 1..Filled
      BY <2>2, <2>7
    <3> QED
      BY <1>9, <2>4, <3>1, <3>2
  <2> QED
    BY <2>5, <2>6, <2>7
<1>10. Mapped' = Mapped \cup {o}
  <2>1. all_traders[count] = 0
    BY <1>4, <1>6, <1>7
  <2> QED
    BY <1>2, <1>6, <2>1 DEF Mapped
<1>11. Packed'
  <2>1. /\ \A i \in Slots : all_traders'[i] # 0 <=> i <= Filled'
        /\ \A i, j \in 1..Filled' : i # j => trader'[all_traders'[i]].name # trader'[all_traders'[j]].name
    BY <1>1, <1>5, <1>8, <1>9
  <2>2. \A d \in Conns : th'[d].pc \notin {"choose", "enter"}
    BY <1>3 DEF LoginSteps
  <2> QED
    BY <2>1, <2>2 DEF Packed, Filled, Entering
<1>12. Traders' = Mapped' \cup {th'[d].to : d \in Entering'}
  BY <1>1, <1>3, <1>4, <1>10 DEF Traders
<1>13. \A d \in Conns : th'[d].pc \notin {"full", "load", "create", "enter"} /\ d \notin Entering'
  BY <1>3 DEF LoginSteps
<1> QED
  BY <1>1, <1>4, <1>11, <1>12, <1>13 DEF MapInv

\* A thread that is not, or no more, at a place where it relies on the map.
LEMMA MapLeft ==
  ASSUME BaseInv, MapInv, NEW x \in Threads, NEW t, Moves(x, t), overlapped' = overlapped,
         th[x].pc \notin {"choose", "enter"}, t.pc \notin LoginSteps \ {"check"},
         t.pc = "check" => x \in Conns,
         ~overlapped => all_traders' = all_traders, count' = count, Len(trader') = Len(trader),
         \A o \in Traders : trader'[o].name = trader[o].name,
         t.pc = "check" => th[x].pc = "ref"
  PROVE  MapInv'
<1>1. CASE overlapped
  BY <1>1 DEF MapInv
<1>2. CASE ~overlapped
  <2>1. SessionKept(x, t) /\ MapSeen(x, t)
    BY <1>2 DEF SessionKept, MapSeen, LoginSteps
  <2>2. t.pc \in LoginSteps => x \in Conns
    BY DEF LoginSteps
  <2> QED
    BY <1>2, <2>1, <2>2, MapFrame
<1> QED
  BY <1>1, <1>2

LEMMA MapStep ==
  ASSUME BaseInv, RefsInv, SessionInv, MapInv, Next \/ UNCHANGED vars
  PROVE  MapInv'
<1>0. BaseInv' /\ TypeOK /\ SessionInv'
  BY BaseKept, SessionStep DEF BaseInv
<1>1. ASSUME NEW x \in Threads, NEW t \in Locals, MovesOn(x, t)
      PROVE  MapInv'
  <2>1. /\ trader' = trader /\ all_traders' = all_traders /\ count' = count
        /\ Moves(x, t) /\ SessionKept(x, t) /\ MapSeen(x, t) /\ Consistent(x, t)
    BY <1>1 DEF MovesOn, Quiet, map
  <2>2. t.pc \in LoginSteps => x \in Conns
    BY <2>1 DEF Consistent
  <2> QED
    BY <2>1, <2>2, MapFrame
<1>2. ASSUME NEW x \in Threads, Send(x) \/ Sent(x) \/ SendFails(x)
      PROVE  MapInv'
  <2>1. PICK t \in Locals : Moves(x, t) /\ t.pc \notin LoginSteps
    BY <1>2, WriteFacts
  <2>2. /\ th[x].pc \notin LoginSteps /\ overlapped' = overlapped /\ all_traders' = all_traders
        /\ count' = count /\ Len(trader') = Len(trader)
        /\ \A p \in Traders : trader'[p].name = trader[p].name
    BY <1>2, WriteFacts DEF rest
  <2> QED
    BY <2>1, <2>2, MapLeft DEF LoginSteps
<1>3. ASSUME NEW c \in Conns, Ref(c) \/ Adopt(c)
      PROVE  MapInv'
  <2> DEFINE o == th[c].to
             t == IF Ref(c) THEN [th[c] EXCEPT !.pc = "check"]
                            ELSE [th[c] EXCEPT !.pc = "send", !.me = o]
  <2>1. /\ c \in Threads /\ Moves(c, t) /\ Len(trader') = Len(trader)
        /\ overlapped' = overlapped /\ all_traders' = all_traders /\ count' = count
        /\ \A p \in Traders :
             trader'[p] = IF p # o THEN trader[p]
                          ELSE IF Ref(c) THEN [trader[o] EXCEPT !.ref = @ + 1]
                                         ELSE [trader[o] EXCEPT !.fd = c]
    BY <1>3, FoundFacts DEF rest
  <2>2. th[c] \in Locals /\ th[c].pc = IF Ref(c) THEN "ref" ELSE "adopt"
    BY <1>0, <1>3, <2>1, Typing DEF Ref, Adopt, Go
  <2>3. t.pc = IF Ref(c) THEN "check" ELSE "send"
    BY <2>2 DEF Locals
  <2>4. \A p \in Traders : trader'[p].name = trader[p].name
    BY <1>0, <2>1, Typing DEF TraderRecords
  <2> HIDE DEF t
  <2> QED
    BY <2>1, <2>2, <2>3, <2>4, MapLeft DEF LoginSteps
<1>4. ASSUME NEW c \in Conns, Logout(c)
      PROVE  MapInv'
  <2> DEFINE t == [Idle EXCEPT !.pc = "done"]
  <2>1. /\ c \in Threads /\ Moves(c, t) /\ th[c].pc = "logout" /\ Len(trader') = Len(trader)
        /\ overlapped' = overlapped /\ count' = count
        /\ \A p \in Traders : trader'[p].name = trader[p].name
    BY <1>4, LogoutFacts
  <2>2. ~overlapped => all_traders' = all_traders
    BY <1>4, LogoutFinds
  <2>3. t.pc = "done"
    BY DEF Idle
  <2> HIDE DEF t
  <2> QED
    BY <2>1, <2>2, <2>3, MapLeft DEF LoginSteps
<1>5. ASSUME NEW c \in Conns, Create(c) \/ Enter(c)
      PROVE  MapInv'
  <2>1. CASE ~overlapped
    BY <1>0, <1>5, <2>1, CreateMap, EnterMap
  <2>2. CASE overlapped
    <3>1. overlapped' = overlapped
      BY <1>5 DEF Create, Enter, rest
    <3> QED
      BY <2>2, <3>1 DEF MapInv
  <2> QED
    BY <2>1, <2>2
<1>6. CASE StartFini \/ FiniStep \/ UNCHANGED vars
  <2>1. trader' = trader /\ all_traders' = all_traders /\ count' = count /\ th' = th
        /\ overlapped' = overlapped
    BY <1>6 DEF StartFini, FiniStep, vars, map, rest
  <2>2. Traders' = Traders /\ Entering' = Entering /\ Filled' = Filled
    BY <2>1 DEF Traders, Entering, Filled
  <2>3. Mapped' = Mapped /\ FirstEmpty' = FirstEmpty /\ \A n : SlotsOf(n)' = SlotsOf(n)
    BY <1>0, <2>1, SameMap
  <2>4. Packed' <=> Packed
    BY <2>1, <2>3 DEF Packed
  <2> QED
    BY <2>1, <2>2, <2>3, <2>4 DEF MapInv
<1> QED
  BY <1>1, <1>2, <1>3, <1>4, <1>5, <1>6, StepCases

-----------------------------------------------------------------------------
(* The theorems.                                                           *)

LEMMA TableInit == Init => TableInv
<1> SUFFICES ASSUME Init
             PROVE  TableInv
  OBVIOUS
<1>1. BaseInv /\ Traders = {}
  BY BaseInit DEF Init, Traders
<1>2. /\ \A x \in Threads : th[x].pc = "idle"
      /\ \A i \in Slots : all_traders[i] = 0
      /\ count = 0
  BY DEF Init, Idle
<1>3. Entering = {} /\ InLogin = {} /\ Mapped = {}
  BY <1>2 DEF Entering, InLogin, Mapped, LoginSteps, Threads
<1>4. RefsInv /\ SessionInv
  BY <1>1, <1>2, <1>3 DEF RefsInv, SessionInv, Threads
<1>5. MapInv
  <2>1. Filled = 0
    BY <1>2, <1>3, FS_EmptySet DEF Filled
  <2>2. /\ \A i \in Slots : all_traders[i] # 0 <=> i <= Filled
        /\ \A i, j \in 1..Filled : FALSE
    BY <1>2, <2>1 DEF Slots
  <2>3. \A c \in Conns : th[c].pc = "idle" /\ c \notin Entering
    BY <1>2, <1>3 DEF Threads
  <2> QED
    BY <1>1, <1>2, <1>3, <2>2, <2>3, MapInvIs
<1> QED
  BY <1>1, <1>4, <1>5 DEF TableInv, BaseInv

LEMMA TableStep ==
  ASSUME Memory \subseteq Nat
  PROVE  TableInv /\ [Next]_vars => TableInv'
<1> SUFFICES ASSUME TableInv, Next \/ UNCHANGED vars
             PROVE  TableInv'
  OBVIOUS
<1>1. BaseInv /\ RefsInv /\ SessionInv /\ MapInv
  BY DEF TableInv, BaseInv
<1>2. BaseInv' /\ RefsInv' /\ SessionInv' /\ MapInv'
  BY <1>1, BaseKept, RefsStep, SessionStep, MapStep
<1> QED
  BY <1>2 DEF TableInv, BaseInv

\* The mutexes, the references, the descriptors and the slots agree with
\* where every thread is, for any number of threads, names and slots, if
\* TRADER.ref never starts below 0.
THEOREM TableInvHolds ==
  ASSUME Memory \subseteq Nat
  PROVE  Spec => []TableInv
<1>1. Init => TableInv
  BY TableInit
<1>2. TableInv /\ [Next]_vars => TableInv'
  BY TableStep
<1> QED
  BY <1>1, <1>2, PTL DEF Spec

\* A trader in the map has a reference for the map, for every session and for
\* every login on its way, so that no logout frees it.
THEOREM ReferencesCover ==
  ASSUME Memory \subseteq Nat
  PROVE  Spec => []RefsCover
<1>1. TableInv => RefsCover
  <2> SUFFICES ASSUME TableInv, NEW o \in Mapped
               PROVE  trader[o].ref >= 1 + Cardinality(Holders(o)) + Cardinality(Claims(o))
    BY DEF RefsCover
  <2>1. BaseInv /\ TypeOK /\ o \in Traders
    BY Typing DEF TableInv, BaseInv, Mapped
  <2>2. o # 0 /\ trader[o].ref \in Int /\ trader[o].ref >= 1 + Cardinality(Users(o))
    BY <2>1, Typing DEF TableInv, RefsInv, TraderRecords
  <2>3. Holders(o) \cap Claims(o) = {}
    <3>1. \A c \in Conns : th[c].pc \in {"check", "adopt"} => th[c].me = 0
      BY <2>1, InTable DEF Threads, LoginSteps
    <3> QED
      BY <2>2, <3>1 DEF Holders, Claims
  <2>4. /\ Holders(o) \in SUBSET Conns /\ Claims(o) \in SUBSET Conns /\ Users(o) \in SUBSET Conns
        /\ Holders(o) \cup Claims(o) \subseteq Users(o)
    BY DEF Holders, Claims, Users
  <2>5. /\ Cardinality(Holders(o) \cup Claims(o)) = Cardinality(Holders(o)) + Cardinality(Claims(o))
        /\ Cardinality(Holders(o)) \in Nat /\ Cardinality(Claims(o)) \in Nat
    <3>1. /\ IsFiniteSet(Holders(o)) /\ IsFiniteSet(Claims(o))
          /\ Cardinality(Holders(o)) \in Nat /\ Cardinality(Claims(o)) \in Nat
      BY <2>4, ConnsFinite
    <3>2. Cardinality(Holders(o) \cap Claims(o)) = 0
      BY <2>3, FS_EmptySet
    <3> DEFINE H == Holders(o)
               C == Claims(o)
    <3> HIDE DEF H, C
    <3>3. Cardinality(H \cup C) = Cardinality(H) + Cardinality(C) - Cardinality(H \cap C)
      BY <3>1, FS_Union DEF H, C
    <3>4. Cardinality(H \cup C) = Cardinality(H) + Cardinality(C)
      BY <3>1, <3>2, <3>3 DEF H, C
    <3> QED
      BY <3>1, <3>4 DEF H, C
  <2>6. Cardinality(Holders(o) \cup Claims(o)) <= Cardinality(Users(o))
    BY <2>4, ConnsFinite, FS_Subset
  <2>7. Cardinality(Users(o)) \in Nat
    BY <2>4, ConnsFinite
  <2> QED
    BY <2>2, <2>5, <2>6, <2>7
<1> QED
  BY <1>1, TableInvHolds, PTL

\* A name is not logged in twice while logins come one at a time.
THEOREM SessionsSingle ==
  ASSUME Memory \subseteq Nat
  PROVE  Spec => []OneSession
<1>1. TableInv => OneSession
  <2> SUFFICES ASSUME TableInv, ~overlapped, NEW o \in Mapped
               PROVE  IF trader[o].fd = NoFd THEN Holders(o) = {} ELSE Holders(o) = {trader[o].fd}
    BY DEF OneSession
  <2>1. o \in Traders /\ trader[o].fd \in Conns \cup {NoFd}
    BY Typing DEF TableInv, Mapped, TraderRecords
  <2>2. \A c \in Conns : trader[o].fd = c <=> th[c].me = o \/ (c \in Entering /\ th[c].to = o)
    BY <2>1 DEF TableInv, SessionInv
  <2>3. \A c \in Entering : th[c].to # o
    BY DEF TableInv, MapInv, Entering
  <2> QED
    BY <2>1, <2>2, <2>3 DEF Holders
<1> QED
  BY <1>1, TableInvHolds, PTL

\* The map is packed, each name once, while logins come one at a time.
THEOREM MapPacked ==
  ASSUME Memory \subseteq Nat
  PROVE  Spec => []Packed
<1>1. TableInv => Packed
  BY DEF TableInv, MapInv, Packed
<1> QED
  BY <1>1, TableInvHolds, PTL

\* No two threads write to a client at once while logins come one at a time.
THEOREM PacketsAreWhole ==
  ASSUME Memory \subseteq Nat
  PROVE  Spec => []PacketsWhole
<1>1. TableInv => PacketsWhole
  <2> SUFFICES ASSUME TableInv, ~overlapped, NEW x \in Threads, NEW y \in Threads, x # y,
                      th[x].pc = "write", th[x].dest # NoFd
               PROVE  /\ ~(th[y].pc = "write" /\ th[y].dest = th[x].dest)
                      /\ ~(th[y].pc = "refused" /\ y = th[x].dest)
    BY DEF PacketsWhole
  <2> DEFINE d == th[x].dest
  <2>1. BaseInv /\ TypeOK /\ LockInv /\ SessionInv /\ ThreadInv
    BY DEF TableInv, BaseInv
  <2>2. d \in Conns /\ d \in Threads
    BY <2>1, Typing DEF Locals, Threads
  <2>3. \A z \in Threads : th[z].pc = "write" => th[z].to \in Traders /\ th[z].to # 0 /\ trader[th[z].to].owner = z
    BY <2>1, InTable, Typing DEF LockInv
  <2>4. \A z \in Threads : th[z].pc = "write" /\ th[z].dest = d =>
          th[d].me = th[z].to \/ (d \in Entering /\ th[d].to = th[z].to)
    BY <2>1, <2>2, <2>3 DEF SessionInv
  <2>5. (d \in Entering => th[d].me = 0) /\ (th[d].pc = "refused" => th[d].me = 0 /\ d \notin Entering)
    BY <2>1, <2>2 DEF ThreadInv, Consistent, Entering, LoginSteps
  <2>6. ASSUME th[y].pc = "write", th[y].dest = d
        PROVE  FALSE
    <3>1. th[x].to = th[y].to
      BY <2>3, <2>4, <2>5, <2>6
    <3> QED
      BY <2>3, <2>6, <3>1
  <2>7. th[d].pc # "refused"
    BY <2>3, <2>4, <2>5
  <2> QED
    BY <2>6, <2>7
<1> QED
  BY <1>1, TableInvHolds, PTL

\* trader_fini frees every trader if logins came one at a time.
THEOREM FiniIsComplete ==
  ASSUME Memory \subseteq Nat
  PROVE  Spec => []FiniFreesAll
<1>1. TableInv => FiniFreesAll
  <2> SUFFICES ASSUME TableInv, Finished, ~overlapped
               PROVE  freed = Traders
    BY DEF FiniFreesAll
  <2>1. TypeOK /\ MapInv /\ FiniInv /\ fini # 0 /\ ~(fini <= count)
    BY DEF TableInv, Finished, FiniLoop
  <2>2. Entering = {} /\ count \in Nat /\ fini \in Nat /\ freed \subseteq Traders
    BY <2>1 DEF FiniInv, Entering, TypeOK
  <2>3. Filled = count
    BY <2>2, FS_EmptySet DEF Filled
  <2>4. \A i \in Slots : all_traders[i] # 0 => i < fini
    <3>1. \A i \in Slots : all_traders[i] # 0 => i <= count
      BY <2>1, <2>3, MapInvIs
    <3> QED
      BY <2>1, <2>2, <3>1 DEF Slots
  <2>5. Mapped \subseteq freed
    BY <2>1, <2>4 DEF Mapped, FiniInv
  <2>6. Traders = Mapped
    <3>1. Traders = Mapped \cup {th[c].to : c \in Entering}
      BY <2>1 DEF MapInv
    <3> QED
      BY <2>2, <3>1
  <2> QED
    BY <2>2, <2>5, <2>6
<1> QED
  BY <1>1, TableInvHolds, PTL
=============================================================================
