----------------------------- MODULE UdpNetwork -----------------------------
(***************************************************************************)
(* The datagrams between the clients and the server's socket: they may be  *)
(* lost, doubled and reordered.  The network is not in the repository; it  *)
(* is modelled from the use the UDP programs make of their sockets.        *)
(***************************************************************************)
EXTENDS Naturals, FiniteSets, Bags

CONSTANTS
    Clients,   \* the runs of the client program, each with one message
    Ports,     \* Ports[c]: the addresses, host and port, the socket of c may get
    HostOf,    \* HostOf[a]: the host of address a
    MaxDup     \* bound: datagrams that the network doubles

ASSUME NetworkAssumption ==
    /\ IsFiniteSet(Clients)
    /\ \A c \in Clients : Ports[c] # {}
    /\ MaxDup \in Nat

VARIABLES
    net,    \* a bag of datagrams: in flight, or waiting in a socket
    dups    \* datagrams doubled so far

netVars == <<net, dups>>

Addresses == UNION {Ports[c] : c \in Clients}
Hosts == {HostOf[a] : a \in Addresses}

\* A message is known by the client it was typed into.
Datagrams == [kind : {"request", "reply"}, at : Addresses, data : Clients]
Request(c, a) == [kind |-> "request", at |-> a, data |-> c]

NetInit ==
    /\ net = EmptyBag
    /\ dups = 0

Send(d) == net' = net (+) SetToBag({d})
Take(d) == BagIn(d, net) /\ net' = net (-) SetToBag({d})

Lose(d) ==
    /\ Take(d)
    /\ UNCHANGED dups

Double(d) ==
    /\ BagIn(d, net)
    /\ dups < MaxDup
    /\ dups' = dups + 1
    /\ Send(d)
=============================================================================
