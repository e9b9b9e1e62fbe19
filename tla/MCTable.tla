------------------------------ MODULE MCTable -------------------------------
(* Instances of TraderTable for TLC: a descriptor that is used again, so   *)
(* that three sessions follow and overlap each other, and one name more    *)
(* than there are slots.                                                   *)
EXTENDS TableProps, TLC

CONSTANTS c1, c2, mm, alice, bob, carol

TwoConns   == {c1, c2}
TwoNames   == {alice, bob}
ThreeNames == {alice, bob, carol}
Zeroed     == {0}
NoThreads  == {}
Matchmaker == {mm}
TableSymmetry == Permutations(TwoConns) \cup Permutations(ThreeNames)

\* To keep the run within minutes: once logins have overlapped, a third trader
\* has been made, a descriptor is used again and a send has failed, the service
\* threads go on and the matchmaker sends no more.
Quiet ==
  overlapped /\ Len(trader) > 2 /\ reconnects > 0 /\ kept # {} => th[mm].pc = "idle"
=============================================================================
