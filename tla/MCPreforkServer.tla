-------------------------- MODULE MCPreforkServer --------------------------
(* Instances of PreforkServer for TLC. *)
EXTENDS PreforkServer

CONSTANTS c1, c2, c3

MCClients == {c1, c2, c3}
OneIdle == {c1}
=============================================================================
