------------------------------ MODULE ClientSet ------------------------------
(***************************************************************************)
(* What a client registry promises (include/client_registry.h:30-74): a set*)
(* of at most Size clients, and a wait that returns when the set is empty, *)
(* after which the registry is finished with and nobody is a client again. *)
(***************************************************************************)
EXTENDS Naturals, FiniteSets

CONSTANTS Clients, Size

VARIABLES members, closed

vars == <<members, closed>>

Init == members = {} /\ closed = FALSE

Enter(c) ==
  /\ ~closed /\ c \notin members
  /\ Cardinality(members) < Size
  /\ members' = members \cup {c}
  /\ UNCHANGED closed

Leave(c) ==
  /\ c \in members
  /\ members' = members \ {c}
  /\ UNCHANGED closed

WaitForEmpty ==
  /\ members = {} /\ ~closed
  /\ closed' = TRUE
  /\ UNCHANGED members

Next == WaitForEmpty \/ \E c \in Clients : Enter(c) \/ Leave(c)

Spec == Init /\ [][Next]_vars
=============================================================================
