----------------------------- MODULE MCUdpEcho -----------------------------
(* Instances of UdpEcho for TLC. *)
EXTENDS UdpEcho, TLC

CONSTANTS u1, u2

MCClients == {u1, u2}

\* The second client may get the port of the first, or one of another host.
MCPorts == u1 :> {"a:1"} @@ u2 :> {"a:1", "b:1"}
MCHost == "a:1" :> "a" @@ "b:1" :> "b"
=============================================================================
