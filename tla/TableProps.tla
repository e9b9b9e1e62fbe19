----------------------------- MODULE TableProps -----------------------------
(***************************************************************************)
(* What the traders map keeps true, and what include/trader.h says of it   *)
(* that the code does not keep.                                            *)
(***************************************************************************)
EXTENDS TraderTable

TraderRecords == [name : Names, ref : Int, fd : Conns \cup {NoFd},
                  owner : Threads \cup {Nobody, Ended}]

Locals == [pc : LoginSteps \cup {"idle", "refused", "scan", "send", "write", "logout", "done"},
           me : Traders \cup {0}, name : Names \cup {NoName},
           to : Traders \cup {0}, at : 0..(MAX_TRADERS + 1),
           seen : Nat, dest : Conns \cup {NoFd}]

\* Every variable holds a value of its type, and the slot that trader_login
\* stores into is one of the array (trader.c:114-120).
TypeOK ==
  /\ trader \in Seq(TraderRecords)
  /\ kept \subseteq Traders /\ freed \subseteq Traders
  /\ all_traders \in [Slots -> Traders \cup {0}]
  /\ count \in Nat /\ fini \in Nat /\ reconnects \in Nat
  /\ th \in [Threads -> Locals]
  /\ \A c \in Conns : th[c].pc = "enter" => th[c].at \in Slots
  /\ undef \in BOOLEAN /\ overlapped \in BOOLEAN

Mapped    == {all_traders[i] : i \in Slots} \ {0}
Holders(o) == {c \in Conns : th[c].me = o}
Claims(o)  == {c \in Conns : th[c].pc \in {"check", "adopt"} /\ th[c].to = o}

\* If TRADER.ref starts from 0, a trader in the map has a reference for the map,
\* one for every session and one for every login on its way to one, so that no
\* logout frees it (trader.h:63-66, 74-76), however logins of one name overlap.
RefsCover ==
  \A o \in Mapped : trader[o].ref >= 1 + Cardinality(Holders(o)) + Cardinality(Claims(o))

\* While logins come one at a time a trader's descriptor is that of its one
\* session, and -1 when it has none: a name is not logged in twice
\* (trader.h:58), whatever logouts and broadcasts go on meanwhile.
OneSession ==
  ~overlapped =>
    \A o \in Mapped :
      IF trader[o].fd = NoFd THEN Holders(o) = {} ELSE Holders(o) = {trader[o].fd}

\* While logins come one at a time the map is packed: count traders in the
\* first count slots, each name once; trader_fini looks no further
\* (trader.c:37) and a login that passes the test of count finds a slot.
Packed ==
  ~overlapped =>
    LET n == count - Cardinality({c \in Conns : th[c].pc \in {"choose", "enter"}}) IN
    /\ \A i \in Slots : all_traders[i] # 0 <=> i <= n
    /\ \A i, j \in 1..n : i # j => trader[all_traders[i]].name # trader[all_traders[j]].name
    /\ \A c \in Conns : th[c].pc \in {"choose", "enter"} => FirstEmpty = n + 1

\* Packets are whole on the wire: no two threads write to a descriptor at
\* once ("multiple threads can safely call this function to send to the
\* client, and these calls will be properly serialized", trader.h:118-119),
\* refusals, which take no mutex, included.
PacketsWhole ==
  ~overlapped => \A x, y \in Threads : x # y /\ th[x].pc = "write" /\ th[x].dest # NoFd =>
    /\ ~(th[y].pc = "write" /\ th[y].dest = th[x].dest)
    /\ ~(th[y].pc = "refused" /\ y = th[x].dest)

\* trader_fini frees every trader (trader.h:45), if logins came one at a time.
FiniFreesAll == Finished /\ ~overlapped /\ ~undef => freed = Traders

\* A mutex that is locked is held by a thread that is writing to the trader,
\* or was left locked by a send that failed; and the thread that took it then
\* has it still.  So a thread that waits for a mutex waits for a write to end,
\* or for ever.
LockedOrKept ==
  \A o \in Traders :
    /\ o \in kept => trader[o].owner # Nobody
    /\ trader[o].owner # Nobody /\ o \notin kept =>
         LET x == trader[o].owner IN th[x].pc = "write" /\ th[x].to = o

-----------------------------------------------------------------------------
(* The inductive invariant: what it takes to keep the map packed, the      *)
(* descriptors unique and the references counted through every step.       *)

\* The threads that have made a trader and not yet put it into the map.
Entering == {c \in Conns : th[c].pc \in {"choose", "enter"}}

\* What a thread's program counter says of its locals.
Consistent(x, t) ==
  /\ t.pc \in LoginSteps \cup {"refused", "done"} => x \in Conns /\ t.me = 0
  /\ t.pc = "logout" => x \in Conns /\ t.me # 0
  /\ t.pc \in {"scan", "send", "write"} /\ x \in Conns => t.me # 0
  /\ t.pc \in {"ref", "check", "adopt", "choose", "enter", "send", "write"} => t.to # 0
  /\ t.pc \in {"full", "load", "create"} => t.name \in Names
  /\ t.pc \in {"send", "write"} => t.at <= MAX_TRADERS
  /\ t.pc = "scan" => t.at # 0
  /\ t.pc \in {"idle", "done"} \cup (LoginSteps \ {"enter"}) => t.at = 0

ThreadInv == \A x \in Threads : Consistent(x, th[x])

\* A thread writes with the mutex of its trader; a thread that has ended has
\* none that it could have given back.
LockInv ==
  /\ LockedOrKept
  /\ \A o \in Traders : trader[o].owner = Ended => o \in kept
  /\ \A x \in Threads : th[x].pc = "write" => trader[th[x].to].owner = x

\* Everyone who uses a trader, or has made it, has a reference.
Users(o) == {c \in Conns : \/ th[c].me = o
                           \/ th[c].pc \in {"check", "adopt", "choose", "enter"} /\ th[c].to = o}

RefsInv == \A o \in Traders : trader[o].ref >= 1 + Cardinality(Users(o))

\* While logins come one at a time a descriptor is in the trader of its
\* session, or in the one that its thread has just made, and nowhere else.
SessionInv ==
  ~overlapped =>
    /\ \A c, d \in InLogin : c = d
    /\ \A o \in Traders, c \in Conns :
         trader[o].fd = c <=> th[c].me = o \/ (c \in Entering /\ th[c].to = o)
    /\ \A c \in Conns : th[c].pc = "adopt" => trader[th[c].to].fd = NoFd
    /\ \A x \in Threads : th[x].pc = "write" /\ th[x].dest # NoFd => trader[th[x].to].fd = th[x].dest

\* What a login has seen of the map is still so, and every trader is in the
\* map or about to be.
MapInv ==
  ~overlapped =>
    /\ Packed /\ count <= MAX_TRADERS
    /\ \A c \in Conns :
         /\ th[c].pc \in {"load", "create"} => count < MAX_TRADERS
         /\ th[c].pc = "create" => th[c].seen = count
         /\ th[c].pc \in {"full", "load", "create"} => SlotsOf(th[c].name) = {}
         /\ th[c].pc = "enter" => th[c].at = FirstEmpty
         /\ c \in Entering => th[c].to \notin Mapped /\ SlotsOf(trader[th[c].to].name) = {}
    /\ Traders = Mapped \cup {th[c].to : c \in Entering}

\* While trader_fini runs there is no other thread at work.
FiniInv ==
  fini # 0 =>
    /\ \A c \in Conns : th[c].pc = "done"
    /\ \A x \in Notifiers : th[x].pc = "idle"
    /\ \A i \in Slots : i < fini /\ all_traders[i] # 0 => all_traders[i] \in freed

\* The threads' locals, the mutexes, the references, the descriptors and the
\* map hold together in every state the server can reach: trader_login and
\* trader_logout rely on it, with no lock on the map.
TableInv ==
  TypeOK /\ ThreadInv /\ LockInv /\ RefsInv /\ SessionInv /\ MapInv /\ FiniInv

-----------------------------------------------------------------------------
(* What the repository says of the map and the code does not do.           *)

\* "The other reference is owned by the traders map, and it is retained until
\* server shutdown" (trader.h:64-66): the trader of a session is in the map.
\* Violated: two logins choose the same slot and one trader is overwritten.
SessionsMapped == \A c \in Conns : th[c].me # 0 => th[c].me \in Mapped
=============================================================================
