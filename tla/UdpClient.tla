----------------------------- MODULE UdpClient -----------------------------
(***************************************************************************)
(* The UDP client, src/Libraries/05-client_UDP_TRY_TIMEOUT_RECV/client.c   *)
(* and LAB2/es2.2/client_udp: one message, sent once, and up to five waits *)
(* of three seconds for a datagram, from whomever it comes.                *)
(***************************************************************************)
EXTENDS UdpNetwork

CONSTANT Tries    \* retry's first value

ASSUME TriesAssumption == Tries \in Nat \ {0}

VARIABLES
    uPc,     \* each client: "typing", "waiting" or "ended"
    addr,    \* the address of its socket
    retry,   \* waits left
    echo     \* what the client has reported as its echo, as a set

udpClientVars == <<uPc, addr, retry, echo>>

UdpClientTypeOK ==
    /\ uPc \in [Clients -> {"typing", "waiting", "ended"}]
    /\ \A c \in Clients : addr[c] \in Ports[c]
    /\ retry \in [Clients -> 0 .. Tries]
    /\ \A c \in Clients : echo[c] \subseteq Clients /\ Cardinality(echo[c]) <= 1

UdpClientInit ==
    /\ uPc = [c \in Clients |-> "typing"]
    /\ addr = [c \in Clients |-> CHOOSE a \in Ports[c] : TRUE]
    /\ retry = [c \in Clients |-> Tries]
    /\ echo = [c \in Clients |-> {}]

-----------------------------------------------------------------------------
\* The kernel gives the socket an address that no open socket has.  If sendto()
\* fails the program ends: a client that types nothing stands for it.
SendMessage(c, a) ==
    /\ uPc[c] = "typing"
    /\ \A d \in Clients : uPc[d] = "waiting" => addr[d] # a
    /\ uPc' = [uPc EXCEPT ![c] = "waiting"]
    /\ addr' = [addr EXCEPT ![c] = a]
    /\ Send(Request(c, a))
    /\ UNCHANGED <<dups, retry, echo>>

\* Mutant of Waits: the loop ends with an answer only.
WaitsForAnswer(c) == uPc[c] = "waiting" /\ echo[c] = {}

Waits(c) == uPc[c] = "waiting" /\ retry[c] > 0 /\ echo[c] = {}

\* try_recv() with a datagram in the socket: any datagram is the echo.
TryReceives(c, d) ==
    /\ Waits(c)
    /\ d.kind = "reply" /\ d.at = addr[c]
    /\ Take(d)
    /\ echo' = [echo EXCEPT ![c] = {d.data}]
    /\ retry' = [retry EXCEPT ![c] = @ - 1]
    /\ UNCHANGED <<dups, uPc, addr>>

\* Mutant of TryExpires: only an answer counts as a try.
TryExpiresFree(c) ==
    /\ Waits(c)
    /\ UNCHANGED <<netVars, udpClientVars>>

\* exit(-2).
ReceiveFails(c) ==
    /\ Waits(c)
    /\ uPc' = [uPc EXCEPT ![c] = "ended"]
    /\ retry' = [retry EXCEPT ![c] = 0]
    /\ UNCHANGED <<netVars, addr, echo>>

\* Three seconds are over, or select() fails.
TryExpires(c) ==
    /\ Waits(c)
    /\ retry' = [retry EXCEPT ![c] = @ - 1]
    /\ UNCHANGED <<netVars, uPc, addr, echo>>

Finish(c) ==
    /\ uPc[c] = "waiting" /\ ~Waits(c)
    /\ uPc' = [uPc EXCEPT ![c] = "ended"]
    /\ retry' = [retry EXCEPT ![c] = 0]
    /\ UNCHANGED <<netVars, addr, echo>>

\* Everything a client does without its user.
Proceed(c) ==
    \/ \E d \in BagToSet(net) : TryReceives(c, d)
    \/ TryExpires(c)
    \/ Finish(c)

UdpClientNext ==
    \E c \in Clients :
        \/ \E a \in Ports[c] : SendMessage(c, a)
        \/ ReceiveFails(c)
        \/ Proceed(c)
=============================================================================
