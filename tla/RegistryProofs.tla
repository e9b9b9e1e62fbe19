--------------------------- MODULE RegistryProofs ---------------------------
(***************************************************************************)
(* The client registry keeps its semaphores, its count and its array in    *)
(* agreement, for any number of clients and slots, and implements a bounded*)
(* set of clients that is closed once.                                     *)
(*                                                                         *)
(* RegistryInv is inductive: it counts the threads between the two ends of *)
(* each semaphore.  A step moves one thread, which adds it to those sets or *)
(* removes it (lemma Counts) as it moves the semaphores.                   *)
(***************************************************************************)
EXTENDS RegistryProps, ListLemmas, FiniteSetTheorems

\* RegistryInv without the bounds of the count and of the counting semaphores,
\* which follow from what they count.
Typed ==
  /\ fds \in [Index -> Conns \cup {Free}]
  /\ count \in Int /\ items \in Int /\ slots \in Nat
  /\ live \in BOOLEAN /\ process \in {"running", "undefined", "aborted"}
  /\ main \in {"setup", "listen", "malloc", "accept", "create", "shutdown_all", "wait_for_empty",
               "fini", "exit", "blocked", "exited"}
  /\ connfdp \in Conns \cup {Null, Fresh}
  /\ pc \in [Conns -> {"none", "accepted", "start", "p_slots", "register", "p_count",
                       "registered", "v_items", "serve", "blocked", "p_items",
                       "unregister",
                       "v_count", "unregistered", "v_slots", "close", "done", "failed"}]
  /\ eof \subseteq Conns /\ kept \in BOOLEAN
  /\ At({"failed"}) = {}

\* Adding or removing one element of a finite set.
LEMMA Counts ==
  ASSUME NEW S, NEW x, IsFiniteSet(S)
  PROVE  /\ Cardinality(S) \in Nat
         /\ Cardinality(S \cup {x}) = IF x \in S THEN Cardinality(S) ELSE Cardinality(S) + 1
         /\ Cardinality(S \ {x}) = IF x \in S THEN Cardinality(S) - 1 ELSE Cardinality(S)
         /\ Cardinality(S) = 0 <=> S = {}
BY FS_CardinalityType, FS_AddElement, FS_RemoveElement, FS_EmptySet

\* The sets of threads are finite, and so is the array.
LEMMA Finite ==
  /\ IsFiniteSet(SlotHolders) /\ IsFiniteSet(Offered) /\ IsFiniteSet(Counted)
  /\ IsFiniteSet(Used) /\ IsFiniteSet(Index) /\ Cardinality(Index) = FD_SETSIZE
<1>1. SlotHolders \in SUBSET Conns /\ Offered \in SUBSET Conns /\ Counted \in SUBSET Conns
  BY DEF At, SlotHolders, Offered, Counted
<1>2. IsFiniteSet(SlotHolders) /\ IsFiniteSet(Offered) /\ IsFiniteSet(Counted)
  BY <1>1, FS_Subset, ConnsAssumption
<1>3. IsFiniteSet(Index) /\ Cardinality(Index) = FD_SETSIZE
  BY FS_Interval, SizeAssumption DEF Index
<1>4. Used \in SUBSET Index
  BY DEF Used
<1>5. IsFiniteSet(Used)
  BY <1>3, <1>4, FS_Subset
<1> QED
  BY <1>2, <1>3, <1>5

\* The bounds of the count and of the semaphores follow.
LEMMA Bounds ==
  Typed /\ SlotsInv /\ ItemsInv /\ CountInv /\ MutexInv /\ CountMutexInv => RegistryInv
<1> SUFFICES ASSUME Typed, SlotsInv, ItemsInv, CountInv, MutexInv, CountMutexInv
             PROVE  RegistryInv
  OBVIOUS
<1>1. Cardinality(SlotHolders) \in Nat /\ Cardinality(Offered) \in Nat /\ Cardinality(Counted) \in Nat
  BY Finite, FS_CardinalityType
<1>2. Cardinality(Counted) <= Cardinality(SlotHolders) /\ Cardinality(Offered) <= Cardinality(SlotHolders)
  <2>1. Counted \in SUBSET SlotHolders /\ Offered \in SUBSET SlotHolders
    BY DEF Counted, SlotHolders, Offered, At
  <2> QED
    BY <2>1, Finite, FS_Subset
<1>3. count \in 0..FD_SETSIZE /\ items \in 0..FD_SETSIZE /\ slots \in 0..FD_SETSIZE
  BY <1>1, <1>2, SizeAssumption DEF Typed, SlotsInv, ItemsInv, CountInv
<1> QED
  BY <1>3 DEF RegistryInv, Typed, TypeOK, MutexInv, CountMutexInv

LEMMA BoundsNext ==
  Typed' /\ SlotsInv' /\ ItemsInv' /\ CountInv' /\ MutexInv' /\ CountMutexInv' => RegistryInv'
BY Bounds, PTL

LEMMA InvTyped == RegistryInv => Typed
BY SizeAssumption DEF RegistryInv, TypeOK, Typed

-----------------------------------------------------------------------------
(* creg_register.                                                          *)

LEMMA PSlotsKeeps ==
  ASSUME NEW c \in Conns, RegistryInv, PSlots(c)
  PROVE  RegistryInv'
<1> USE DEF PSlots, P
<1>1. SlotHolders' = SlotHolders \cup {c} /\ c \notin SlotHolders
  BY InvTyped DEF Typed, SlotHolders, At, Go
<1>2. Offered' = Offered /\ Counted' = Counted /\ Inside' = Inside /\ Members' = Members
  BY InvTyped DEF Typed, Offered, Counted, Inside, Members, At, Go
<1>3. At({"v_count"})' = At({"v_count"}) /\ At({"p_count"})' = At({"p_count"}) /\ Typed'
  BY InvTyped DEF Typed, At, Go
<1>4. SlotsInv'
  BY <1>1, Counts, Finite DEF SlotsInv, RegistryInv, TypeOK
<1>5. ItemsInv' /\ CountInv' /\ MutexInv' /\ CountMutexInv'
  BY <1>2, <1>3 DEF RegistryInv, ItemsInv, CountInv, MutexInv, CountMutexInv, Emptied, Used, Index
<1> QED
  BY <1>3, <1>4, <1>5, BoundsNext

\* A thread that has been let in by P(slots) finds a slot: there are no more
\* counted clients than slot holders, and it is not one of them yet.
LEMMA HasRoom ==
  ASSUME RegistryInv, NEW c \in At({"register"})
  PROVE  count < FD_SETSIZE /\ EmptySlots # {}
<1>1. Counted \in SUBSET (SlotHolders \ {c}) /\ c \in SlotHolders
  BY DEF Counted, SlotHolders, At
<1>2. Cardinality(Counted) <= Cardinality(SlotHolders) - 1
  <2>1. /\ IsFiniteSet(SlotHolders \ {c})
        /\ Cardinality(SlotHolders \ {c}) = Cardinality(SlotHolders) - 1
    BY <1>1, Finite, FS_RemoveElement
  <2> QED
    BY <1>1, <2>1, FS_Subset
<1>3. Cardinality(SlotHolders) \in Nat /\ Cardinality(Used) \in Nat
  BY Finite, Counts
<1>4. Cardinality(Used) < FD_SETSIZE /\ count < FD_SETSIZE
  BY <1>2, <1>3, SizeAssumption DEF RegistryInv, TypeOK, SlotsInv, CountInv
<1>5. Used # Index
  BY <1>4, Finite, SizeAssumption
<1> QED
  BY <1>4, <1>5 DEF Used, EmptySlots

\* The first empty slot is one.
LEMMA FirstEmptySlot ==
  ASSUME EmptySlots # {}
  PROVE  FirstEmpty \in EmptySlots
<1>1. EmptySlots \in SUBSET Nat
  BY DEF EmptySlots, Index
<1>2. \E i \in EmptySlots : \A j \in EmptySlots : i <= j
  BY <1>1, LeastNatural
<1> QED
  BY <1>2 DEF FirstEmpty

\* It stores its connection there and counts it.  Of the clients registered
\* together the one that finds the count 0 is the one that will take
\* count_mutex; the others find that a member has it.
LEMMA StoreKeeps ==
  ASSUME NEW c \in Conns, RegistryInv, Store(c)
  PROVE  RegistryInv'
<1> DEFINE i == FirstEmpty
<1>1. /\ c \in At({"register"}) /\ i \in Index /\ fds[i] = Free /\ c # Free
      /\ fds' = [fds EXCEPT ![i] = c] /\ count' = count + 1
      /\ mutex = 1 /\ mutex' = 0
      /\ Go(c, "register", FirstTakes)
      /\ UNCHANGED <<count_mutex, items, slots, live, main, connfdp, eof, process, kept>>
  <2>1. c \in At({"register"})
    BY DEF Store, Go, At
  <2>2. i \in EmptySlots /\ EmptySlots # {}
    BY <2>1, HasRoom, FirstEmptySlot
  <2> QED
    BY <2>1, <2>2, ConnsAssumption DEF Store, P, EmptySlots, RegistryInv, TypeOK
<1>2. Inside = {}
  BY <1>1 DEF RegistryInv, MutexInv
<1>3. /\ Typed /\ SlotsInv /\ ItemsInv /\ CountInv /\ MutexInv /\ CountMutexInv
      /\ count = 0 \/ count > 0
  BY InvTyped DEF RegistryInv, TypeOK
<1>4. /\ SlotHolders' = SlotHolders /\ Offered' = Offered
      /\ Counted' = Counted \cup {c} /\ c \notin Counted
      /\ Inside' = {c}
      /\ At({"v_count"})' = {} /\ At({"v_count"}) = {} /\ At({"p_count"}) = {}
  BY <1>1, <1>2, <1>3 DEF Typed, FirstTakes, SlotHolders, Offered, Counted, Inside, At, Go
<1>5. Typed'
  BY <1>1, <1>3 DEF Typed, FirstTakes, At, Go
<1>6. SlotsInv' /\ ItemsInv' /\ MutexInv'
  BY <1>1, <1>3, <1>4 DEF SlotsInv, ItemsInv, MutexInv
<1>7. CountInv'
  <2>1. Used' = Used \cup {i} /\ i \notin Used
    BY <1>1, <1>3 DEF Used, Typed, Index
  <2>2. count' = Cardinality(Counted') /\ count' = Cardinality(Used')
    <3>1. Cardinality(Counted') = Cardinality(Counted) + 1
      BY <1>4, Finite, Counts
    <3>2. Cardinality(Used') = Cardinality(Used) + 1
      BY <2>1, Finite, Counts
    <3> QED
      BY <1>1, <1>3, <3>1, <3>2 DEF CountInv
  <2>3. ASSUME NEW d \in Counted'
        PROVE  \E k \in Index : fds'[k] = d
    <3>1. CASE d = c
      BY <1>1, <1>3, <3>1 DEF Typed
    <3>2. CASE d # c
      <4>1. PICK k \in Index : fds[k] = d
        BY <1>3, <1>4, <3>2, <2>3 DEF CountInv
      <4>2. k # i
        BY <1>1, <4>1, <2>3, ConnsAssumption DEF Counted, At
      <4> QED
        BY <1>1, <1>3, <4>1, <4>2 DEF Typed
    <3> QED
      BY <3>1, <3>2
  <2> QED
    BY <2>2, <2>3 DEF CountInv, Index
<1>8. CountMutexInv'
  <2>1. CASE count = 0
    <3>1. Counted = {}
      BY <1>3, <2>1, Finite, FS_EmptySet DEF CountInv
    <3>2. At({"p_count"})' = {c} /\ Members' = Members
      BY <1>1, <1>3, <1>4, <2>1 DEF Typed, FirstTakes, Members, At, Go
    <3> QED
      BY <1>1, <1>3, <1>4, <3>1, <3>2 DEF CountMutexInv, Emptied
  <2>2. CASE count > 0
    <3>1. Counted # {}
      <4>1. Cardinality(Counted) # 0
        BY <1>3, <2>2 DEF CountInv
      <4> QED
        BY <4>1, Finite, Counts
    <3>2. Members # {}
      BY <1>3, <1>4, <3>1 DEF Counted, Members, At, Typed
    <3>3. At({"p_count"})' = {} /\ Members' = Members \cup {c}
      BY <1>1, <1>3, <1>4, <2>2 DEF Typed, FirstTakes, Members, At, Go
    <3> QED
      BY <1>1, <1>3, <1>4, <3>2, <3>3 DEF CountMutexInv, Emptied
  <2> QED
    BY <1>3, <2>1, <2>2
<1> QED
  BY <1>5, <1>6, <1>7, <1>8, BoundsNext

\* The first client gets count_mutex only while nobody is a member and main
\* has not waited for it.
LEMMA PCountKeeps ==
  ASSUME NEW c \in Conns, RegistryInv, PCount(c)
  PROVE  RegistryInv'
<1> USE DEF PCount, P
<1>1. /\ SlotHolders' = SlotHolders /\ Offered' = Offered /\ Counted' = Counted
      /\ Inside' = Inside /\ At({"v_count"})' = At({"v_count"})
      /\ Members' = Members \cup {c} /\ c \in At({"p_count"}) /\ Typed'
  BY InvTyped DEF Typed, SlotHolders, Offered, Counted, Inside, Members, At, Go
<1>2. SlotsInv' /\ ItemsInv' /\ CountInv' /\ MutexInv'
  BY <1>1 DEF RegistryInv, SlotsInv, ItemsInv, CountInv, MutexInv, Used, Index
<1>3. ~Emptied /\ At({"v_count"}) = {} /\ Counted = {c} /\ count_mutex = 1
  BY <1>1 DEF RegistryInv, CountMutexInv
<1>4. At({"p_count"})' = {}
  BY <1>1, <1>3, InvTyped DEF Typed, Counted, At, Go
<1>5. CountMutexInv'
  BY <1>1, <1>3, <1>4 DEF CountMutexInv, Emptied
<1> QED
  BY <1>1, <1>2, <1>5, BoundsNext

LEMMA RegisteredKeeps ==
  ASSUME NEW c \in Conns, RegistryInv, Registered(c)
  PROVE  RegistryInv'
<1> USE DEF Registered, V
<1>1. /\ SlotHolders' = SlotHolders /\ Offered' = Offered /\ Counted' = Counted
      /\ Members' = Members /\ c \in Inside /\ Inside' = Inside \ {c}
      /\ At({"v_count"})' = At({"v_count"}) /\ At({"p_count"})' = At({"p_count"}) /\ Typed'
  BY InvTyped DEF Typed, SlotHolders, Offered, Counted, Inside, Members, At, Go
<1>2. SlotsInv' /\ ItemsInv' /\ CountInv' /\ CountMutexInv'
  BY <1>1 DEF RegistryInv, SlotsInv, ItemsInv, CountInv, CountMutexInv, Used, Index, Emptied
<1>3. MutexInv'
  BY <1>1 DEF RegistryInv, MutexInv
<1> QED
  BY <1>1, <1>2, <1>3, BoundsNext

LEMMA VItemsKeeps ==
  ASSUME NEW c \in Conns, RegistryInv, VItems(c)
  PROVE  RegistryInv'
<1> USE DEF VItems, V
<1>1. /\ SlotHolders' = SlotHolders /\ Counted' = Counted /\ Members' = Members /\ Inside' = Inside
      /\ Offered' = Offered \cup {c} /\ c \notin Offered
      /\ At({"v_count"})' = At({"v_count"}) /\ At({"p_count"})' = At({"p_count"}) /\ Typed'
  BY InvTyped DEF Typed, SlotHolders, Offered, Counted, Inside, Members, At, Go
<1>2. SlotsInv' /\ CountInv' /\ MutexInv' /\ CountMutexInv'
  BY <1>1 DEF RegistryInv, SlotsInv, CountInv, MutexInv, CountMutexInv, Used, Index, Emptied
<1>3. ItemsInv'
  BY <1>1, Finite, Counts DEF RegistryInv, TypeOK, ItemsInv
<1> QED
  BY <1>1, <1>2, <1>3, BoundsNext

-----------------------------------------------------------------------------
(* creg_unregister.                                                        *)

LEMMA PItemsKeeps ==
  ASSUME NEW c \in Conns, RegistryInv, PItems(c)
  PROVE  RegistryInv'
<1> USE DEF PItems, P
<1>1. /\ SlotHolders' = SlotHolders /\ Counted' = Counted /\ Members' = Members /\ Inside' = Inside
      /\ Offered' = Offered \ {c} /\ c \in Offered
      /\ At({"v_count"})' = At({"v_count"}) /\ At({"p_count"})' = At({"p_count"}) /\ Typed'
  BY InvTyped DEF Typed, SlotHolders, Offered, Counted, Inside, Members, At, Go
<1>2. SlotsInv' /\ CountInv' /\ MutexInv' /\ CountMutexInv'
  BY <1>1 DEF RegistryInv, SlotsInv, CountInv, MutexInv, CountMutexInv, Used, Index, Emptied
<1>3. ItemsInv'
  BY <1>1, Finite, Counts DEF RegistryInv, TypeOK, ItemsInv
<1> QED
  BY <1>1, <1>2, <1>3, BoundsNext

\* A thread that leaves finds its connection, in a slot that is its alone: as
\* many slots are used as connections are counted, and the first that holds
\* the connection is freed.
LEMMA Found ==
  ASSUME RegistryInv, NEW c \in At({"unregister"})
  PROVE  LET held == {i \in Index : fds[i] = c}
             i    == CHOOSE x \in held : \A y \in held : x <= y
         IN  held # {} /\ i \in held
<1> DEFINE held == {i \in Index : fds[i] = c}
<1>1. c \in Counted
  BY DEF Counted, At
<1>2. held # {}
  BY <1>1 DEF RegistryInv, CountInv
<1>3. held \in SUBSET Nat
  BY DEF Index
<1>4. \E x \in held : \A y \in held : x <= y
  BY <1>2, <1>3, LeastNatural
<1> QED
  BY <1>2, <1>4

\* The last client counted is the one that gives count_mutex back; any other
\* leaves a member that keeps it.
LEMMA ClearKeeps ==
  ASSUME NEW c \in Conns, RegistryInv, Clear(c)
  PROVE  RegistryInv'
<1>1. PICK i \in Index :
      /\ c \in At({"unregister"}) /\ fds[i] = c /\ c # Free
      /\ fds' = [fds EXCEPT ![i] = Free] /\ count' = count - 1
      /\ mutex = 1 /\ mutex' = 0
      /\ Go(c, "unregister", LastGives)
      /\ UNCHANGED <<count_mutex, items, slots, live, main, connfdp, eof, process, kept>>
  <2>1. c \in At({"unregister"})
    BY DEF Clear, Go, At
  <2> DEFINE held == {x \in Index : fds[x] = c}
             k    == CHOOSE x \in held : \A y \in held : x <= y
  <2>2. held # {} /\ k \in Index /\ fds[k] = c
    BY <2>1, Found
  <2>3. c # Free /\ mutex = 1
    BY ConnsAssumption DEF Clear, RegistryInv, TypeOK
  <2>4. /\ fds' = [fds EXCEPT ![k] = Free] /\ count' = count - 1 /\ mutex' = mutex - 1
        /\ Go(c, "unregister", LastGives)
        /\ UNCHANGED <<count_mutex, items, slots, live, main, connfdp, eof, process, kept>>
    BY <2>2 DEF Clear
  <2> HIDE DEF held, k
  <2>5. mutex' = 0
    BY <2>3, <2>4
  <2> k \in Index
    BY <2>2
  <2> WITNESS k \in Index
  <2> QED
    BY <2>1, <2>2, <2>3, <2>4, <2>5
<1>2. /\ Typed /\ SlotsInv /\ ItemsInv /\ CountInv /\ MutexInv /\ CountMutexInv
      /\ Inside = {}
  BY <1>1, InvTyped DEF RegistryInv, MutexInv
<1>3. /\ SlotHolders' = SlotHolders /\ Offered' = Offered
      /\ Counted' = Counted \ {c} /\ c \in Counted
      /\ Inside' = {c} /\ c \in Members
      /\ At({"p_count"})' = {} /\ At({"v_count"}) = {} /\ At({"p_count"}) = {}
  BY <1>1, <1>2 DEF Typed, LastGives, SlotHolders, Offered, Counted, Inside, Members, At, Go
<1>4. Typed'
  BY <1>1, <1>2 DEF Typed, LastGives, At, Go
<1>5. SlotsInv' /\ ItemsInv' /\ MutexInv'
  BY <1>1, <1>2, <1>3 DEF SlotsInv, ItemsInv, MutexInv
<1>6. /\ Cardinality(Counted') = Cardinality(Counted) - 1 /\ Cardinality(Counted) \in Nat
      /\ Cardinality(Counted') = 0 <=> Counted' = {}
  <2>1. IsFiniteSet(Counted')
    BY <1>3, Finite, FS_RemoveElement
  <2>2. Cardinality(Counted') = 0 <=> Counted' = {}
    BY <2>1, FS_EmptySet
  <2>3. Cardinality(Counted') = Cardinality(Counted) - 1 /\ Cardinality(Counted) \in Nat
    BY <1>3, Finite, Counts
  <2> QED
    BY <2>2, <2>3
<1>7. /\ Cardinality(Counted) = count
       /\ count \in Int
  BY <1>2 DEF CountInv, Typed
<1>8. CountInv'
  <2>1. Used' = Used \ {i} /\ i \in Used
    BY <1>1, <1>2 DEF Used, Typed, Index
  <2>2. Cardinality(Used') = Cardinality(Used) - 1
    BY <2>1, Finite, Counts
  <2>3. ASSUME NEW d \in Counted'
        PROVE  \E k \in Index : fds'[k] = d
    <3>1. PICK k \in Index : fds[k] = d
      BY <1>2, <1>3, <2>3 DEF CountInv
    <3>2. k # i
      BY <1>1, <1>3, <2>3, <3>1
    <3> QED
      BY <1>1, <1>2, <3>1, <3>2 DEF Typed
  <2>4. count' = Cardinality(Counted') /\ count' = Cardinality(Used')
    BY <1>1, <1>2, <1>6, <2>2 DEF CountInv
  <2> QED
    BY <2>3, <2>4 DEF CountInv, Index
<1>9. CountMutexInv'
  <2>1. CASE count = 1
    <3>1. Counted' = {}
      BY <1>6, <1>7, <2>1
    <3>2. Members' = {} /\ At({"v_count"})' = {c}
      BY <1>1, <1>2, <1>3, <2>1, <3>1 DEF Typed, LastGives, Counted, Members, At, Go
    <3> QED
      BY <1>1, <1>2, <1>3, <3>1, <3>2 DEF CountMutexInv, Emptied
  <2>2. CASE count # 1
    <3>1. Counted' # {}
      BY <1>6, <1>7, <2>2
    <3>2. Members' # {} /\ At({"v_count"})' = {}
      BY <1>1, <1>2, <1>3, <2>2, <3>1 DEF Typed, LastGives, Counted, Members, At, Go
    <3> QED
      BY <1>1, <1>2, <1>3, <3>2 DEF CountMutexInv, Emptied
  <2> QED
    BY <2>1, <2>2
<1> QED
  BY <1>4, <1>5, <1>8, <1>9, BoundsNext

LEMMA VCountKeeps ==
  ASSUME NEW c \in Conns, RegistryInv, VCount(c)
  PROVE  RegistryInv'
<1> USE DEF VCount, V
<1>1. /\ SlotHolders' = SlotHolders /\ Offered' = Offered /\ Counted' = Counted
      /\ Inside' = Inside /\ Members' = Members /\ c \in At({"v_count"})
      /\ At({"p_count"})' = At({"p_count"}) /\ Typed'
  BY InvTyped DEF Typed, SlotHolders, Offered, Counted, Inside, Members, At, Go
<1>2. SlotsInv' /\ ItemsInv' /\ CountInv' /\ MutexInv'
  BY <1>1 DEF RegistryInv, SlotsInv, ItemsInv, CountInv, MutexInv, Used, Index
<1>3. At({"v_count"})' = {}
  <2>1. \A d \in At({"v_count"}) : d = c
    BY <1>1 DEF RegistryInv, MutexInv, Inside, At
  <2> QED
    BY <2>1, InvTyped DEF Typed, At, Go
<1>4. Members = {} /\ ~Emptied
  BY <1>1 DEF RegistryInv, CountMutexInv, Counted, Members, At
<1>5. CountMutexInv'
  BY <1>1, <1>3, <1>4 DEF RegistryInv, CountMutexInv, Emptied
<1> QED
  BY <1>1, <1>2, <1>5, BoundsNext

LEMMA UnregisteredKeeps ==
  ASSUME NEW c \in Conns, RegistryInv, Unregistered(c)
  PROVE  RegistryInv'
<1> USE DEF Unregistered, V
<1>1. /\ SlotHolders' = SlotHolders /\ Offered' = Offered /\ Counted' = Counted
      /\ Members' = Members /\ c \in Inside /\ Inside' = Inside \ {c}
      /\ At({"v_count"})' = At({"v_count"}) /\ At({"p_count"})' = At({"p_count"}) /\ Typed'
  BY InvTyped DEF Typed, SlotHolders, Offered, Counted, Inside, Members, At, Go
<1>2. SlotsInv' /\ ItemsInv' /\ CountInv' /\ CountMutexInv'
  BY <1>1 DEF RegistryInv, SlotsInv, ItemsInv, CountInv, CountMutexInv, Used, Index, Emptied
<1>3. MutexInv'
  BY <1>1 DEF RegistryInv, MutexInv
<1> QED
  BY <1>1, <1>2, <1>3, BoundsNext

LEMMA VSlotsKeeps ==
  ASSUME NEW c \in Conns, RegistryInv, VSlots(c)
  PROVE  RegistryInv'
<1> USE DEF VSlots, V
<1>1. SlotHolders' = SlotHolders \ {c} /\ c \in SlotHolders
  BY InvTyped DEF Typed, SlotHolders, At, Go
<1>2. Offered' = Offered /\ Counted' = Counted /\ Inside' = Inside /\ Members' = Members
  BY InvTyped DEF Typed, Offered, Counted, Inside, Members, At, Go
<1>3. At({"v_count"})' = At({"v_count"}) /\ At({"p_count"})' = At({"p_count"}) /\ Typed'
  BY InvTyped DEF Typed, At, Go
<1>4. SlotsInv'
  BY <1>1, Counts, Finite DEF SlotsInv, RegistryInv, TypeOK
<1>5. ItemsInv' /\ CountInv' /\ MutexInv' /\ CountMutexInv'
  BY <1>2, <1>3 DEF RegistryInv, ItemsInv, CountInv, MutexInv, CountMutexInv, Emptied, Used, Index
<1> QED
  BY <1>3, <1>4, <1>5, BoundsNext

-----------------------------------------------------------------------------
(* The main thread, and what a thread does away from the registry.         *)

\* Main moves without a semaphore, and not past its wait.
LEMMA MainKeeps ==
  ASSUME RegistryInv,
         \/ CregInit \/ OpenListenfd \/ CallFails \/ MallocCell
         \/ ShutdownAll \/ CregFini \/ ExitProcess \/ ExitBlocked \/ SendFails
         \/ TerminateEarly \/ Sighup
         \/ UNCHANGED vars
  PROVE  RegistryInv'
<1>1. UNCHANGED creg /\ pc' = pc /\ (Emptied <=> Emptied') /\ Typed'
  BY InvTyped DEF Typed, CregInit, OpenListenfd, CallFails, MallocCell, ShutdownAll, CregFini,
     ExitProcess, ExitBlocked, SendFails, TerminateEarly, Sighup, Main, Abort, Emptied, At, vars, creg, Index
<1>2. SlotsInv' /\ ItemsInv' /\ CountInv' /\ MutexInv' /\ CountMutexInv'
  BY <1>1 DEF RegistryInv, SlotsInv, ItemsInv, CountInv, MutexInv, CountMutexInv, SlotHolders,
     Offered, Counted, Used, Inside, Members, At, Index, creg
<1> QED
  BY <1>1, <1>2, BoundsNext

\* Main's wait takes count_mutex, with nobody left to give it back.
LEMMA WaitKeeps ==
  ASSUME RegistryInv, WaitForEmpty
  PROVE  RegistryInv'
<1> USE DEF WaitForEmpty, P, Main
<1>1. /\ SlotHolders' = SlotHolders /\ Offered' = Offered /\ Counted' = Counted
      /\ Inside' = Inside /\ Members' = Members /\ Typed'
      /\ At({"v_count"})' = At({"v_count"}) /\ At({"p_count"})' = At({"p_count"})
  BY InvTyped DEF Typed, SlotHolders, Offered, Counted, Inside, Members, At
<1>2. SlotsInv' /\ ItemsInv' /\ CountInv' /\ MutexInv'
  BY <1>1 DEF RegistryInv, SlotsInv, ItemsInv, CountInv, MutexInv, Used, Index
<1>3. Members = {} /\ At({"v_count"}) = {} /\ count_mutex = 1
  BY DEF RegistryInv, CountMutexInv
<1>4. CountMutexInv'
  BY <1>1, <1>3 DEF RegistryInv, CountMutexInv, Emptied
<1> QED
  BY <1>1, <1>2, <1>4, BoundsNext

\* Nor does a thread, before p_slots, while it serves and once it has left.
LEMMA ApartKeeps ==
  ASSUME NEW c \in Conns, RegistryInv,
         \/ AcceptConn(c) \/ CreateThread(c) \/ Start(c) \/ EndOfFile(c) \/ Blocked(c)
         \/ CloseConn(c)
         \/ UseFreed(c) \/ ClientCloses(c) \/ SighupAgain(c)
  PROVE  RegistryInv'
<1>1. UNCHANGED creg /\ (Emptied <=> Emptied')
  BY InvTyped DEF Typed, AcceptConn, CreateThread, Start, EndOfFile, Blocked, CloseConn, UseFreed,
     ClientCloses, SighupAgain, Main, Emptied, creg
<1>2. \/ pc' = pc
      \/ Go(c, "none", "accepted") \/ Go(c, "accepted", "start") \/ Go(c, "start", "p_slots")
      \/ Go(c, "serve", "p_items") \/ Go(c, "serve", "blocked") \/ Go(c, "close", "done")
  BY DEF AcceptConn, CreateThread, Start, EndOfFile, Blocked, CloseConn, UseFreed, ClientCloses, SighupAgain
<1>3. /\ SlotHolders' = SlotHolders /\ Offered' = Offered /\ Counted' = Counted
      /\ Inside' = Inside /\ Members' = Members
      /\ At({"v_count"})' = At({"v_count"}) /\ At({"p_count"})' = At({"p_count"})
  BY <1>2, InvTyped DEF Typed, SlotHolders, Offered, Counted, Inside, Members, At, Go
<1>4. Typed'
  BY <1>1, <1>2, InvTyped DEF Typed, AcceptConn, CreateThread, Start, EndOfFile, Blocked, CloseConn,
     UseFreed, ClientCloses, SighupAgain, Main, Abort, Go, At, creg, Index
<1>5. SlotsInv' /\ ItemsInv' /\ CountInv' /\ MutexInv' /\ CountMutexInv'
  BY <1>1, <1>3 DEF RegistryInv, SlotsInv, ItemsInv, CountInv, MutexInv, CountMutexInv, Used,
     Index, creg
<1> QED
  BY <1>4, <1>5, BoundsNext

-----------------------------------------------------------------------------
LEMMA RegistryInit == Init => RegistryInv
<1> SUFFICES ASSUME Init
             PROVE  RegistryInv
  OBVIOUS
<1> USE DEF Init
<1>1. /\ SlotHolders = {} /\ Offered = {} /\ Counted = {} /\ Used = {} /\ Inside = {}
      /\ Members = {} /\ At({"v_count"}) = {} /\ At({"p_count"}) = {}
  BY DEF SlotHolders, Offered, Counted, Used, Inside, Members, At
<1>2. Typed
  <2>1. At({"failed"}) = {}
    BY DEF At
  <2>2. fds \in [Index -> Conns \cup {Free}]
    OBVIOUS
  <2>3. /\ main = "setup" /\ connfdp = Null /\ eof = {} /\ process = "running"
        /\ count = 0 /\ items = 0 /\ slots \in Nat /\ kept \in BOOLEAN
    BY SizeAssumption
  <2>4. live \in BOOLEAN
    OBVIOUS
  <2>5. pc \in [Conns -> {"none", "accepted", "start", "p_slots", "register", "p_count",
                      "registered", "v_items", "serve", "blocked", "p_items",
                       "unregister",
                      "v_count", "unregistered", "v_slots", "close", "done", "failed"}]
    OBVIOUS
  <2> HIDE DEF Init
  <2> QED
    BY <2>1, <2>2, <2>3, <2>4, <2>5 DEF Typed
<1>3. SlotsInv /\ ItemsInv /\ CountInv /\ MutexInv /\ CountMutexInv
  BY <1>1, FS_EmptySet, SizeAssumption DEF SlotsInv, ItemsInv, CountInv, MutexInv, CountMutexInv,
     Emptied
<1> QED
  BY <1>2, <1>3, Bounds

LEMMA UseKeeps ==
  ASSUME NEW c \in Conns, RegistryInv, Use(c)
  PROVE  RegistryInv'
BY PSlotsKeeps, StoreKeeps, PCountKeeps, RegisteredKeeps, VItemsKeeps, PItemsKeeps, ClearKeeps,
   VCountKeeps, UnregisteredKeeps, VSlotsKeeps DEF Use

LEMMA RegistryStep == RegistryInv /\ [Next]_vars => RegistryInv'
<1> SUFFICES ASSUME RegistryInv, Next \/ UNCHANGED vars
             PROVE  RegistryInv'
  OBVIOUS
<1>1. CASE MainLoop \/ TerminateEarly \/ Sighup \/ Shutdown \/ SendFails \/ UNCHANGED vars
  BY <1>1, MainKeeps, WaitKeeps, ApartKeeps DEF MainLoop, Shutdown
<1>2. ASSUME NEW c \in Conns, Service(c) \/ ClientCloses(c) \/ SighupAgain(c)
      PROVE  RegistryInv'
  BY <1>2, UseKeeps, ApartKeeps DEF Service
<1> QED
  BY <1>1, <1>2 DEF Next

\* The semaphores, the count and the array of the registry agree with where
\* the service threads are, whatever the clients and the signals do.
THEOREM RegistryInvHolds == Spec => []RegistryInv
BY RegistryInit, RegistryStep, PTL DEF Spec

THEOREM RegistryTypes == Spec => []TypeOK
<1>1. RegistryInv => TypeOK
  BY DEF RegistryInv
<1> QED
  BY <1>1, RegistryInvHolds, PTL

\* creg_register finds a slot and creg_unregister its connection, for any size
\* of the registry and any number of clients that wait for it.
THEOREM RegisterFindsRoom == Spec => []RegisterHasRoom
<1>1. RegistryInv => RegisterHasRoom
  BY HasRoom DEF RegisterHasRoom, RegistryInv
<1> QED
  BY <1>1, RegistryInvHolds, PTL

\* After creg_wait_for_empty nobody is registered, then or later.
THEOREM WaitIsFinal == Spec => []NobodyServedAfterWait
<1>1. RegistryInv => NobodyServedAfterWait
  BY DEF RegistryInv, CountMutexInv, NobodyServedAfterWait
<1> QED
  BY <1>1, RegistryInvHolds, PTL

-----------------------------------------------------------------------------
(* The registry implements ClientSet.                                      *)

\* The abstract module's cardinality is this one's.
LEMMA SameCardinality == \A S : Set!Cardinality(S) = Cardinality(S)
BY DEF Set!Cardinality, Cardinality

\* A client enters the set when its thread has counted it, or, for the first,
\* when it has count_mutex; it never enters a set that is full or closed.
LEMMA RegisterEnters ==
  ASSUME NEW c \in Conns, RegistryInv, Store(c) \/ PCount(c)
  PROVE  Set!Enter(c) \/ UNCHANGED Set!vars
<1> USE DEF P
<1>1. Typed /\ CountInv /\ MutexInv /\ CountMutexInv /\ count \in Nat
  BY InvTyped DEF RegistryInv, TypeOK
<1>2. CASE PCount(c)
  <2>1. Members' = Members \cup {c} /\ c \notin Members /\ c \in At({"p_count"}) /\ Emptied' = Emptied
    BY <1>1, <1>2 DEF PCount, Typed, Members, At, Go, Emptied
  <2>2. ~Emptied /\ Members = {}
    BY <1>1, <1>2 DEF PCount, CountMutexInv
  <2>3. Cardinality(Members) < FD_SETSIZE
    BY <2>2, FS_EmptySet, SizeAssumption
  <2> QED
    BY <2>1, <2>2, <2>3, SameCardinality DEF Set!Enter
<1>3. CASE Store(c)
  <2>1. /\ c \in At({"register"}) /\ c \notin Members /\ Go(c, "register", FirstTakes)
        /\ Emptied' = Emptied /\ Inside = {}
    <3>1. c \in At({"register"})
      BY <1>3 DEF Store, Go, At
    <3>2. EmptySlots # {}
      BY <3>1, HasRoom
    <3> QED
      BY <1>1, <1>3, <3>1, <3>2 DEF Store, Members, At, Emptied, MutexInv
  <2>2. CASE count = 0
    <3>1. Members' = Members
      BY <1>1, <2>1, <2>2 DEF FirstTakes, Typed, Members, At, Go
    <3> QED
      BY <2>1, <3>1 DEF Set!vars
  <2>3. CASE count # 0
    <3>1. Members' = Members \cup {c} /\ Members = Counted
      BY <1>1, <2>1, <2>3 DEF FirstTakes, Typed, Members, Counted, Inside, At, Go
    <3>2. Cardinality(Members) = count /\ count < FD_SETSIZE
      BY <1>1, <2>1, <3>1, HasRoom DEF CountInv
    <3>3. Members # {}
      BY <2>3, <3>2, FS_EmptySet
    <3>4. ~Emptied /\ Cardinality(Members) < FD_SETSIZE
      BY <1>1, <3>2, <3>3 DEF CountMutexInv
    <3> QED
      BY <2>1, <3>1, <3>4, SameCardinality DEF Set!Enter
  <2> QED
    BY <2>2, <2>3
<1> QED
  BY <1>2, <1>3

\* It leaves when its thread has taken it off the array.
LEMMA UnregisterLeaves ==
  ASSUME NEW c \in Conns, RegistryInv, Clear(c)
  PROVE  Set!Leave(c)
<1>1. c \in At({"unregister"})
  BY DEF Clear, Go, At
<1>2. {i \in Index : fds[i] = c} # {}
  BY <1>1, Found
<1>3. Go(c, "unregister", LastGives) /\ Emptied' = Emptied
  BY <1>2 DEF Clear, Emptied
<1>4. c \in Members /\ Members' = Members \ {c}
  BY <1>1, <1>3, InvTyped DEF Typed, LastGives, Members, At, Go
<1> QED
  BY <1>3, <1>4 DEF Set!Leave

\* Main closes the set when it is empty.
LEMMA WaitCloses ==
  ASSUME RegistryInv, WaitForEmpty
  PROVE  Set!WaitForEmpty
<1>1. Members = {} /\ ~Emptied /\ Emptied' /\ Members' = Members
  BY DEF WaitForEmpty, Main, P, RegistryInv, CountMutexInv, Emptied, Members, At
<1> QED
  BY <1>1 DEF Set!WaitForEmpty

\* Nothing else shows: not the other steps of the two functions, the signals,
\* the end of the process.
LEMMA OthersStutter ==
  ASSUME RegistryInv,
         \/ CregInit \/ OpenListenfd \/ CallFails \/ MallocCell
         \/ ShutdownAll \/ CregFini \/ ExitProcess \/ ExitBlocked \/ SendFails
         \/ TerminateEarly \/ Sighup
         \/ UNCHANGED vars
         \/ \E c \in Conns :
              \/ AcceptConn(c) \/ CreateThread(c) \/ Start(c) \/ EndOfFile(c) \/ Blocked(c)
              \/ CloseConn(c)
              \/ UseFreed(c) \/ ClientCloses(c) \/ SighupAgain(c)
              \/ PSlots(c) \/ Registered(c) \/ VItems(c) \/ PItems(c) \/ VCount(c)
              \/ Unregistered(c) \/ VSlots(c)
  PROVE  UNCHANGED Set!vars
<1>1. CASE \/ CregInit \/ OpenListenfd \/ CallFails \/ MallocCell
           \/ ShutdownAll \/ CregFini \/ ExitProcess \/ ExitBlocked \/ SendFails
           \/ TerminateEarly \/ Sighup
           \/ UNCHANGED vars
  BY <1>1 DEF CregInit, OpenListenfd, CallFails, MallocCell, ShutdownAll, CregFini, ExitProcess, ExitBlocked, SendFails,
     TerminateEarly, Sighup, Main, vars, Members, Emptied, At, Set!vars
<1>2. ASSUME NEW c \in Conns,
              \/ AcceptConn(c) \/ CreateThread(c) \/ Start(c) \/ EndOfFile(c) \/ Blocked(c)
              \/ CloseConn(c)
              \/ UseFreed(c) \/ ClientCloses(c) \/ SighupAgain(c)
      PROVE  UNCHANGED Set!vars
  <2>1. Emptied' = Emptied
    BY <1>2 DEF AcceptConn, CreateThread, Start, EndOfFile, Blocked, CloseConn, UseFreed, ClientCloses,
       SighupAgain, Main, Emptied
  <2>2. \/ pc' = pc
        \/ Go(c, "none", "accepted") \/ Go(c, "accepted", "start") \/ Go(c, "start", "p_slots")
        \/ Go(c, "serve", "p_items") \/ Go(c, "serve", "blocked") \/ Go(c, "close", "done")
    BY <1>2 DEF AcceptConn, CreateThread, Start, EndOfFile, Blocked, CloseConn, UseFreed, ClientCloses,
       SighupAgain
  <2>3. Members' = Members
    BY <2>2, InvTyped DEF Typed, Members, At, Go
  <2> QED
    BY <2>1, <2>3 DEF Set!vars
<1>3. ASSUME NEW c \in Conns,
              \/ PSlots(c) \/ Registered(c) \/ VItems(c) \/ PItems(c) \/ VCount(c)
              \/ Unregistered(c) \/ VSlots(c)
      PROVE  UNCHANGED Set!vars
  <2>1. Emptied' = Emptied
    BY <1>3 DEF PSlots, Registered, VItems, PItems, VCount, Unregistered, VSlots, Emptied
  <2>2. \/ Go(c, "p_slots", "register") \/ Go(c, "registered", "v_items") \/ Go(c, "v_items", "serve")
        \/ Go(c, "p_items", "unregister") \/ Go(c, "v_count", "unregistered")
        \/ Go(c, "unregistered", "v_slots") \/ Go(c, "v_slots", "close")
    BY <1>3 DEF PSlots, Registered, VItems, PItems, VCount, Unregistered, VSlots
  <2>3. Members' = Members
    BY <2>2, InvTyped DEF Typed, Members, At, Go
  <2> QED
    BY <2>1, <2>3 DEF Set!vars
<1> QED
  BY <1>1, <1>2, <1>3

LEMMA RegistrySimulates == RegistryInv /\ [Next]_vars => [Set!Next]_(Set!vars)
<1> SUFFICES ASSUME RegistryInv, Next \/ UNCHANGED vars
             PROVE  Set!Next \/ UNCHANGED Set!vars
  OBVIOUS
<1>1. CASE MainLoop \/ TerminateEarly \/ Sighup \/ Shutdown \/ SendFails \/ UNCHANGED vars
  BY <1>1, WaitCloses, OthersStutter DEF MainLoop, Shutdown, Set!Next
<1>2. ASSUME NEW c \in Conns, Service(c) \/ ClientCloses(c) \/ SighupAgain(c)
      PROVE  Set!Next \/ UNCHANGED Set!vars
  <2>1. CASE Store(c) \/ PCount(c) \/ Clear(c)
    BY <2>1, RegisterEnters, UnregisterLeaves DEF Set!Next
  <2>2. CASE ~(Store(c) \/ PCount(c) \/ Clear(c))
    BY <1>2, <2>2, OthersStutter DEF Service, Use
  <2> QED
    BY <2>1, <2>2
<1> QED
  BY <1>1, <1>2 DEF Next

\* The registry implements a bounded set of clients that main closes when it
\* is empty, and that nobody enters again.
THEOREM RegistryImplements == Spec => ClientSetSpec
<1>1. Init => Set!Init
  BY DEF Init, Set!Init, Members, At, Emptied
<1>2. RegistryInv /\ [Next]_vars => [Set!Next]_(Set!vars)
  BY RegistrySimulates
<1> QED
  BY <1>1, <1>2, RegistryInvHolds, PTL DEF Spec, ClientSetSpec, Set!Spec
=============================================================================
