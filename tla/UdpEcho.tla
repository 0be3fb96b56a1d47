------------------------------ MODULE UdpEcho ------------------------------
(***************************************************************************)
(* The UDP servers and their clients over a network that loses, doubles    *)
(* and reorders datagrams.                                                 *)
(***************************************************************************)
EXTENDS UdpPool, UdpClient

vars == <<netVars, poolVars, udpClientVars>>

Init == NetInit /\ PoolInit /\ UdpClientInit

Network ==
    /\ \E d \in BagToSet(net) : Lose(d) \/ Double(d)
    /\ UNCHANGED <<poolVars, udpClientVars>>

PoolStep == PoolNext /\ UNCHANGED udpClientVars
ClientStep == UdpClientNext /\ UNCHANGED poolVars

Next == Network \/ PoolStep \/ ClientStep

(***************************************************************************)
(* Some child that can go on does, and some client.  It is less than the   *)
(* kernel gives, which schedules every process, and it is enough, since    *)
(* the datagrams and the waits are finitely many.  No user need type,      *)
(* nothing is assumed of the network, and no child need be forked.         *)
(***************************************************************************)
Fairness ==
    /\ WF_vars((\E j \in Children : Serve(j)) /\ UNCHANGED udpClientVars)
    /\ WF_vars((\E c \in Clients : Proceed(c)) /\ UNCHANGED poolVars)

Spec == Init /\ [][Next]_vars /\ Fairness

-----------------------------------------------------------------------------
(* Properties.                                                             *)

Sending == {"waiting", "ended"}   \* clients that have sent their message

TypeOK ==
    /\ \A d \in BagToSet(net) : d \in Datagrams /\ net[d] \in Nat \ {0}
    /\ dups \in 0 .. MaxDup
    /\ PoolTypeOK
    /\ UdpClientTypeOK

\* What a client prints as its echo (05 client.c:65) was typed into a client of
\* the same host and port: into itself, or, since nothing in a datagram tells
\* an answer from one that is late, into an earlier one with that port.  It is so
\* until a child of the pool writes past its table (03 server.c:109).
EchoOfOwnAddress ==
    wild = {} =>
        \A c \in Clients : \A m \in echo[c] :
            addr[m] = addr[c] /\ uPc[m] \in Sending

\* The datagrams one by one: the i-th of those that are alike.
Copies == UNION {{d} \X (1 .. net[d]) : d \in BagToSet(net)}

Answering == {j \in Children : kPc[j] = "answer"}
Senders == {c \in Clients : uPc[c] \in Sending}

\* However many children share the socket, each datagram that comes in makes
\* at most one go out (03 server.c:170-198).
NoAmplification ==
    Cardinality(Copies) + Cardinality(Answering) <= Cardinality(Senders) + dups

\* "la limitazione è per processo, non è globale" (03 server.c:46): each process
\* with a limiter answers a host MAXTOKEN times at most, whatever is doubled, however
\* many children the datagrams are spread over and whoever else it has counted; in the
\* pool until it writes past its table (03 server.c:109), in es2.2 unless the table was
\* full before the host came (server.c:103).
LimitPerProcess ==
    \A j \in Children, h \in Hosts :
        \/ answered[j][h] <= MaxToken
        \/ protocol = "echo"
        \/ protocol = "limited" /\ j \in wild
        \/ protocol = "single" /\ NoRoom(j, h)

\* Whatever is lost, a client that has sent its message ends (05 client.c:128).
ClientEnds == \A c \in Clients : uPc[c] = "waiting" ~> uPc[c] = "ended"

InFlight(c) == BagIn(Request(c, addr[c]), net)

\* A datagram does not stay in the socket while a child lives: no child leaves its
\* loop for an error of sendto() (03 server.c:198) or is kept by one client.
RequestsTaken ==
    \A c \in Clients :
        InFlight(c) ~> ~InFlight(c) \/ \A j \in Children : ~Alive(j)
=============================================================================
