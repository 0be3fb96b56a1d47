------------------------- MODULE MCConcurrentServer -------------------------
(* Instances of ConcurrentServer for TLC. *)
EXTENDS ConcurrentServer, TLC

CONSTANTS p1, p2, p3, p4

MCPids == {p1, p2, p3, p4}
NoPids == {}
TwoPatient == {p1, p2}
Symmetry == Permutations(MCPids)
=============================================================================
