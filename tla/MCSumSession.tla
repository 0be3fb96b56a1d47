---------------------------- MODULE MCSumSession ----------------------------
(* Instances of SumSession for TLC. *)
EXTENDS SumSession

CONSTANTS c1, c2

MCClients == {c1, c2}
\* With four values: the first overflow; the greatest sum, of a cut operand.
MCTyped == {<<3, 1>>, <<5, 2>>}
=============================================================================
