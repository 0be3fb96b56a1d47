------------------------------ MODULE UdpPool ------------------------------
(***************************************************************************)
(* The UDP echo servers.  A parent forks children that all receive from    *)
(* one socket, src/Libraries/03-SERVER_UDP_pooling/server.c.  What a child *)
(* runs is chosen in the source, at its "TODO:PROTOCOL":                   *)
(*   "echo"     udp_protocol(), which answers everything;                  *)
(*   "limited"  handle_clients_udp(), which counts the datagrams of a host.*)
(* "single" is the limiter of LAB2/es2.2, one process with no parent.      *)
(***************************************************************************)
EXTENDS UdpNetwork

CONSTANTS
    MaxChilds,   \* MAXCHILDS
    MaxToken,    \* MAXTOKEN, the 3 of es2.2
    MaxClients,  \* MAXCLIENTS, the entries of a table
    MaxCount,    \* the greatest int
    Stale        \* what an address that nobody filled in may read as

ASSUME PoolAssumption ==
    /\ MaxChilds \in Nat \ {0} /\ MaxToken \in Nat \ {0} /\ MaxClients \in Nat
    /\ MaxCount \in Nat /\ MaxToken <= MaxCount

VARIABLES
    protocol,   \* "echo", "limited" or "single"
    kPc,        \* each child: "none", "receive", "answer" or "dead"
    held,       \* the datagram each child is about to answer, as a set
    token,      \* token[j][h]: the count in child j's table, 0 if h is not in it
    wild,       \* children that have written past their table or overflowed a count
    answered    \* history: answers that each child sent to each host

poolVars == <<protocol, kPc, held, token, wild, answered>>

Peers == Hosts \cup {Stale}
Children == 1 .. MaxChilds
Alive(j) == kPc[j] \notin {"none", "dead"}

PoolTypeOK ==
    /\ protocol \in {"echo", "limited", "single"}
    /\ kPc \in [Children -> {"none", "receive", "answer", "dead"}]
    /\ \A j \in Children :
          /\ held[j] \subseteq Datagrams
          /\ Cardinality(held[j]) = IF kPc[j] = "answer" THEN 1 ELSE 0
    /\ token \in [Children -> [Peers -> 0 .. MaxCount]]
    /\ wild \subseteq Children
    /\ answered \in [Children -> [Hosts -> Nat]]

PoolInit ==
    /\ protocol \in {"echo", "limited", "single"}
    /\ kPc = [j \in Children |-> "none"]
    /\ held = [j \in Children |-> {}]
    /\ token = [j \in Children |-> [h \in Peers |-> 0]]
    /\ wild = {}
    /\ answered = [j \in Children |-> [h \in Hosts |-> 0]]

-----------------------------------------------------------------------------
\* The parent forks as many children as it is asked for, and then pauses; a
\* signal or a failing fork() stops it earlier.
ForkChild(j) ==
    /\ kPc[j] = "none"
    /\ j > 1 => kPc[j - 1] # "none" /\ protocol # "single"
    /\ kPc' = [kPc EXCEPT ![j] = "receive"]
    /\ UNCHANGED <<netVars, protocol, held, token, wild, answered>>

Known(j) == {h \in Peers : token[j][h] > 0}

\* h is not in j's table, which is full.
NoRoom(j, h) == h \notin Known(j) /\ ~(Cardinality(Known(j)) < MaxClients)

\* The count of host h in j's table after one more datagram.  The pool's limiter
\* counts on; that of es2.2 stops at the limit, and forgets who finds no room.
Counted(j, h) ==
    CASE protocol = "echo" -> 0
      [] protocol = "limited" -> token[j][h] + 1
      [] OTHER -> IF NoRoom(j, h) THEN 0
                  ELSE IF token[j][h] < MaxToken THEN token[j][h] + 1 ELSE token[j][h]

\* The pool's limiter looks neither at the end of its table, where it enters a new
\* host, nor at the greatest int, to which it counts: C does not define the rest.
Undefined(j, h) == protocol = "limited" /\ (NoRoom(j, h) \/ token[j][h] = MaxCount)

\* Mutant of Blocked: the test comes before the datagram is counted.
BlockedLate(j, h) ==
    h \in Known(j) /\ token[j][h] > MaxToken

\* A host's first datagram is never blocked, a later one is at the limit.
Blocked(j, h) == h \in Known(j) /\ token[j][h] >= MaxToken

Receive(j, d) ==
    /\ kPc[j] = "receive"
    /\ d.kind = "request"
    /\ Take(d)
    /\ LET h == HostOf[d.at] IN
          /\ j \notin wild /\ ~Undefined(j, h)
          /\ token' = [token EXCEPT ![j][h] = Counted(j, h)]
          /\ IF Blocked(j, h)
             THEN UNCHANGED <<kPc, held>>
             ELSE /\ kPc' = [kPc EXCEPT ![j] = "answer"]
                  /\ held' = [held EXCEPT ![j] = {d}]
    /\ UNCHANGED <<dups, protocol, wild, answered>>

\* The host past the end of the table, and all that the child receives from then
\* on.  What lies behind the table in the frame are the strings of the host and the
\* port, the datagram and its address, so that host may be blocked or not, found or
\* not, and the answer may be any text to any address; or ChildDies.  Its counts say
\* nothing any more: they are 0.
ReceiveWild(j, d) ==
    /\ kPc[j] = "receive"
    /\ d.kind = "request"
    /\ Take(d)
    /\ j \in wild \/ Undefined(j, HostOf[d.at])
    /\ wild' = wild \cup {j}
    /\ \/ UNCHANGED <<kPc, held>>
       \/ \E e \in Datagrams :
             /\ e.kind = "request"
             /\ kPc' = [kPc EXCEPT ![j] = "answer"]
             /\ held' = [held EXCEPT ![j] = {e}]
    /\ token' = [token EXCEPT ![j] = [h \in Peers |-> 0]]
    /\ UNCHANGED <<dups, protocol, answered>>

\* The pool's limiter does not answer when getnameinfo() finds no host.
ReceiveNameless(j, d) ==
    /\ kPc[j] = "receive" /\ protocol = "limited"
    /\ d.kind = "request"
    /\ Take(d)
    /\ UNCHANGED <<dups, poolVars>>

\* es2.2 does not look at the result of recvfrom(): it counts whatever the address
\* reads as, and then fails to send a datagram of -1 bytes.
RecvfromFails(j) ==
    /\ kPc[j] = "receive" /\ protocol = "single"
    /\ \E h \in Peers : token' = [token EXCEPT ![j][h] = Counted(j, h)]
    /\ UNCHANGED <<netVars, protocol, kPc, held, wild, answered>>

\* Mutant of Reply: the address is filled in once for all.
ReplyFirstPeer(d) ==
    [d EXCEPT !.kind = "reply", !.at = CHOOSE a \in Addresses : TRUE]

\* To the address that recvfrom() filled in.
Reply(d) == [d EXCEPT !.kind = "reply"]

\* Mutants of Answer: a failed sendto() ends the child; the answer is repeated.
AnswerOrExit(j) ==
    /\ kPc[j] = "answer"
    /\ \E d \in held[j] :
          \/ Send(Reply(d)) /\ answered' = [answered EXCEPT ![j][HostOf[d.at]] = @ + 1]
             /\ kPc' = [kPc EXCEPT ![j] = "receive"]
          \/ UNCHANGED <<net, answered>> /\ kPc' = [kPc EXCEPT ![j] = "exited"]
    /\ held' = [held EXCEPT ![j] = {}]
    /\ UNCHANGED <<dups, protocol, token, wild>>

AnswerAgain(j) ==
    /\ kPc[j] = "answer"
    /\ \E d \in held[j] :
          Send(Reply(d)) /\ answered' = [answered EXCEPT ![j][HostOf[d.at]] = @ + 1]
    /\ \/ kPc' = [kPc EXCEPT ![j] = "receive"] /\ held' = [held EXCEPT ![j] = {}]
       \/ UNCHANGED <<kPc, held>>
    /\ UNCHANGED <<dups, protocol, token, wild>>

\* sendto(); its failure is only reported.
Answer(j) ==
    /\ kPc[j] = "answer"
    /\ \E d \in held[j] :
          \/ Send(Reply(d)) /\ answered' = [answered EXCEPT ![j][HostOf[d.at]] = @ + 1]
          \/ UNCHANGED <<net, answered>>
    /\ kPc' = [kPc EXCEPT ![j] = "receive"]
    /\ held' = [held EXCEPT ![j] = {}]
    /\ UNCHANGED <<dups, protocol, token, wild>>

\* Any signal kills a child, as the parent's sig_int() does; nobody replaces it, and
\* nobody reads its table again.
ChildDies(j) ==
    /\ Alive(j)
    /\ kPc' = [kPc EXCEPT ![j] = "dead"]
    /\ held' = [held EXCEPT ![j] = {}]
    /\ UNCHANGED <<netVars, protocol, token, wild, answered>>

Serve(j) ==
    \/ \E d \in BagToSet(net) : Receive(j, d) \/ ReceiveWild(j, d) \/ ReceiveNameless(j, d)
    \/ Answer(j)

PoolNext == \E j \in Children : ForkChild(j) \/ Serve(j) \/ RecvfromFails(j) \/ ChildDies(j)
=============================================================================
