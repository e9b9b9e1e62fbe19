----------------------------- MODULE MCRegistry -----------------------------
(* Instances of ClientRegistry for TLC: three clients and two slots, so    *)
(* that one waits for a slot, and registrations and departures overlap     *)
(* with the shutdown.                                                      *)
EXTENDS RegistryProps, TLC

CONSTANTS c1, c2, c3

TwoConns   == {c1, c2}
ThreeConns == {c1, c2, c3}
ConnSymmetry == Permutations(ThreeConns)
=============================================================================
