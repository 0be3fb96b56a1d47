------------------------ MODULE PreforkServerProofs ------------------------
(***************************************************************************)
(* Proofs about PreforkServer, for every size of the pool, every finite    *)
(* set of clients and every length of a file.                              *)
(***************************************************************************)
EXTENDS PreforkServer, FiniteSetTheorems, TLAPS

USE PoolAssumption, BlocksAssumption, IdleAssumption

\* A child holds the one connection of its session, and none outside of one.
ConnectionOfSession ==
    \A j \in Children :
        IF InSession(j) THEN \E c \in Clients : conn[j] = {c} ELSE conn[j] = {}

\* TypeOK with the shape of conn in the place of its cardinality, and a block
\* left for whoever is about to send one.
Typed ==
    /\ nchildren \in 0 .. MaxChilds
    /\ pPc \in {"fork", "install", "pause", "kill", "wait", "exited", "killed"}
    /\ forked \in 0 .. nchildren
    /\ pids \in [Children -> Children \cup {Nobody}]
    /\ next \in 1 .. nchildren + 1
    /\ term \in SUBSET Children
    /\ cPc \in [Children -> {"none", "accept", "command", "block", "zombie", "gone"}]
    /\ conn \in [Children -> SUBSET Clients]
    /\ sigpipe \in [Children -> BOOLEAN]
    /\ left \in [Children -> 0 .. Blocks]
    /\ \A j \in Children : cPc[j] = "block" => left[j] > 0
    /\ queue \in Seq(Clients)
    /\ client \in [Clients -> {"away", "queued", "connected", "closed"}]

\* Who is not forked yet has not run.
NotForked == \A j \in Children : j > forked => cPc[j] = "none"

\* A client has at most one connection: one place in the queue or one child.
OneConnection ==
    /\ \A i, k \in 1 .. Len(queue) : queue[i] = queue[k] => i = k
    /\ \A j \in Children : \A i \in 1 .. Len(queue) : queue[i] \notin conn[j]
    /\ \A j, k \in Children : \A c \in conn[j] : c \in conn[k] => j = k

\* A client that may connect has no connection left.
AwayIsAway ==
    \A c \in Clients :
        client[c] = "away" =>
            /\ \A i \in 1 .. Len(queue) : queue[i] # c
            /\ \A j \in Children : c \notin conn[j]

\* What the proofs carry from step to step.
IndInv ==
    /\ Typed
    /\ ConnectionOfSession
    /\ NotForked
    /\ OneConnection
    /\ AwayIsAway
    /\ AbortIsForThisClient

-----------------------------------------------------------------------------
LEMMA TypeFromInv == IndInv => TypeOK
<1> SUFFICES ASSUME IndInv PROVE TypeOK
  OBVIOUS
<1>1. ASSUME NEW j \in Children
      PROVE  Cardinality(conn[j]) = IF InSession(j) THEN 1 ELSE 0
  <2>1. CASE InSession(j)
    <3>1. PICK c \in Clients : conn[j] = {c}
      BY <2>1 DEF IndInv, ConnectionOfSession
    <3> QED
      BY <2>1, <3>1, FS_Singleton
  <2>2. CASE ~InSession(j)
    <3>1. conn[j] = {}
      BY <2>2 DEF IndInv, ConnectionOfSession
    <3> QED
      BY <2>2, <3>1, FS_EmptySet
  <2> QED
    BY <2>1, <2>2
<1> QED
  BY <1>1 DEF IndInv, Typed, TypeOK

LEMMA InitInv == Init => IndInv
<1> SUFFICES ASSUME Init PROVE IndInv
  OBVIOUS
<1>1. Typed
  BY DEF Init, Typed, Nobody
<1>2. ConnectionOfSession /\ NotForked /\ AbortIsForThisClient
  BY DEF Init, ConnectionOfSession, NotForked, AbortIsForThisClient, InSession
<1>3. OneConnection /\ AwayIsAway
  BY DEF Init, OneConnection, AwayIsAway
<1> QED
  BY <1>1, <1>2, <1>3 DEF IndInv

\* The parent touches no session; what it does to the children keeps who is in
\* a session there.
LEMMA ParentKeeps ==
  ASSUME IndInv, Typed', NotForked',
         UNCHANGED sessionVars,
         \A j \in Children : InSession(j)' <=> InSession(j)
  PROVE  IndInv'
<1>1. ConnectionOfSession'
  BY DEF IndInv, ConnectionOfSession, sessionVars
<1>2. OneConnection' /\ AwayIsAway'
  BY DEF IndInv, OneConnection, AwayIsAway, sessionVars
<1>3. AbortIsForThisClient'
  BY DEF IndInv, AbortIsForThisClient, sessionVars
<1> QED
  BY <1>1, <1>2, <1>3 DEF IndInv

LEMMA ParentInv == IndInv /\ (Parent \/ Interrupt) => IndInv'
<1> SUFFICES ASSUME IndInv, Parent \/ Interrupt PROVE IndInv'
  OBVIOUS
<1> USE DEF Children
<1>1. CASE ForkChild
  <2>1. forked + 1 \in Children /\ cPc[forked + 1] = "none"
    BY <1>1 DEF ForkChild, IndInv, Typed, NotForked
  <2>2. Typed'
    BY <1>1, <2>1 DEF ForkChild, IndInv, Typed, sessionVars
  <2>3. NotForked'
    BY <1>1, <2>1
    DEF ForkChild, IndInv, Typed, NotForked, Alive, sessionVars
  <2>4. \A j \in Children : InSession(j)' <=> InSession(j)
    BY <1>1, <2>1 DEF ForkChild, IndInv, Typed, InSession
  <2> QED
    BY <1>1, <2>2, <2>3, <2>4, ParentKeeps DEF ForkChild
<1>2. CASE WaitAll
  <2>1. Typed'
    BY <1>2 DEF WaitAll, IndInv, Typed, sessionVars
  <2>2. NotForked'
    BY <1>2 DEF WaitAll, IndInv, Typed, NotForked, Alive, sessionVars
  <2>3. \A j \in Children : InSession(j)' <=> InSession(j)
    BY <1>2 DEF WaitAll, IndInv, Typed, InSession, Alive
  <2> QED
    BY <1>2, <2>1, <2>2, <2>3, ParentKeeps DEF WaitAll
<1>3. ASSUME UNCHANGED <<forked, cPc, sessionVars>>, Typed' PROVE IndInv'
  <2>1. NotForked'
    BY <1>3 DEF IndInv, NotForked, Alive, sessionVars
  <2>2. \A j \in Children : InSession(j)' <=> InSession(j)
    BY <1>3 DEF InSession
  <2> QED
    BY <1>3, <2>1, <2>2, ParentKeeps
<1>4. CASE ForkDies \/ ForkedAll \/ InstallSigInt \/ KilledAll
  BY <1>4, <1>3
  DEF ForkDies, ForkedAll, InstallSigInt, KilledAll, IndInv, Typed, sessionVars
<1>5. CASE KillNext
  <2>1. pids[next] \in Children \cup {Nobody}
    BY <1>5 DEF KillNext, IndInv, Typed
  <2>2. term' \in SUBSET Children /\ pPc' \in {pPc, "killed"}
    BY <1>5, <2>1 DEF KillNext, IndInv, Typed
  <2>3. Typed'
    BY <1>5, <2>2 DEF KillNext, IndInv, Typed, sessionVars
  <2> QED
    BY <1>5, <1>3, <2>3 DEF KillNext
<1>6. CASE Interrupt
  BY <1>6, <1>3 DEF Interrupt, IndInv, Typed, sessionVars
<1> QED
  BY <1>1, <1>2, <1>4, <1>5, <1>6 DEF Parent

\* What a child writes to its client sets sigpipe only if that one has closed.
LEMMA WrittenInv ==
  ASSUME IndInv, NEW j \in Children, Written(j)
  PROVE  /\ sigpipe' \in [Children -> BOOLEAN]
         /\ \A k \in Children \ {j} : sigpipe'[k] = sigpipe[k]
         /\ InSession(j) /\ sigpipe'[j] => \A c \in conn[j] : client[c] = "closed"
<1>1. sigpipe' \in [Children -> BOOLEAN] /\ \A k \in Children \ {j} : sigpipe'[k] = sigpipe[k]
  BY DEF Written, IndInv, Typed
<1>2. ASSUME InSession(j), sigpipe'[j] PROVE \A c \in conn[j] : client[c] = "closed"
  <2>1. CASE UNCHANGED sigpipe
    BY <1>2, <2>1 DEF IndInv, AbortIsForThisClient
  <2>2. CASE \E c \in conn[j] : client[c] = "closed"
    BY <1>2, <2>2 DEF IndInv, ConnectionOfSession
  <2> QED
    BY <2>1, <2>2 DEF Written
<1> QED
  BY <1>1, <1>2

LEMMA AcceptClientInv ==
  ASSUME IndInv, NEW j \in Children, AcceptClient(j) PROVE IndInv'
<1>1. PICK c \in Clients : c = Head(queue) /\ c = queue[1]
  BY DEF AcceptClient, IndInv, Typed
<1>2. /\ queue' \in Seq(Clients)
      /\ Len(queue') = Len(queue) - 1
      /\ Len(queue) \in Nat \ {0}
      /\ \A i \in 1 .. Len(queue') : queue'[i] = queue[i + 1]
  BY DEF AcceptClient, IndInv, Typed
<1>3. conn' = [conn EXCEPT ![j] = {c}] /\ conn \in [Children -> SUBSET Clients]
  BY <1>1 DEF AcceptClient, IndInv, Typed
<1>4. \A d \in Clients : client'[d] # "away" \/ client[d] = "away"
  BY <1>1 DEF AcceptClient, IndInv, Typed
<1>5. Typed'
  <2>1. client' \in [Clients -> {"away", "queued", "connected", "closed"}]
    BY <1>1 DEF AcceptClient, IndInv, Typed
  <2>2. conn' \in [Children -> SUBSET Clients]
    BY <1>3
  <2> QED
    BY <1>2, <2>1, <2>2 DEF AcceptClient, parentVars, IndInv, Typed
<1>6. ConnectionOfSession'
  BY <1>3 DEF AcceptClient, IndInv, Typed, ConnectionOfSession, InSession
<1>7. NotForked'
  BY DEF AcceptClient, parentVars, IndInv, Typed, NotForked, Alive
<1>8. \A k \in Children : c \notin conn[k]
  BY <1>1, <1>2 DEF IndInv, OneConnection
<1>9. \A i \in 2 .. Len(queue) : queue[i] # c
  BY <1>1, <1>2 DEF IndInv, OneConnection
<1>10. OneConnection'
  <2>1. \A i, k \in 1 .. Len(queue') : queue'[i] = queue'[k] => i = k
    <3>1. \A i \in 1 .. Len(queue') : i + 1 \in 1 .. Len(queue)
      BY <1>2
    <3> QED
      BY <1>2, <3>1, SMTT(20) DEF IndInv, OneConnection
  <2>2. \A k \in Children : \A i \in 1 .. Len(queue') : queue'[i] \notin conn'[k]
    BY <1>2, <1>3, <1>9 DEF IndInv, OneConnection
  <2>3. \A k, l \in Children : \A d \in conn'[k] : d \in conn'[l] => k = l
    BY <1>3, <1>8 DEF IndInv, OneConnection
  <2> QED
    BY <2>1, <2>2, <2>3 DEF OneConnection
<1>11. client[c] # "away"
  BY <1>1, <1>2 DEF IndInv, AwayIsAway
<1>12. AwayIsAway'
  BY <1>1, <1>2, <1>3, <1>4, <1>11 DEF IndInv, AwayIsAway
<1>13. AbortIsForThisClient'
  <2> SUFFICES ASSUME NEW k \in Children, InSession(k)', sigpipe'[k], NEW d \in conn'[k]
               PROVE  client'[d] = "closed"
    BY DEF AbortIsForThisClient
  <2>1. k # j
    BY DEF AcceptClient, IndInv, Typed
  <2>2. InSession(k) /\ sigpipe[k] /\ d \in conn[k]
    BY <2>1, <1>3 DEF AcceptClient, IndInv, Typed, InSession
  <2>3. client[d] = "closed" /\ d \in Clients
    BY <2>2, <1>3 DEF IndInv, AbortIsForThisClient
  <2> QED
    BY <2>3, <1>1 DEF AcceptClient, IndInv, Typed
<1> QED
  BY <1>5, <1>6, <1>7, <1>10, <1>12, <1>13 DEF IndInv

\* A child that leaves its session gives its client back.
LEMMA SessionEndInv ==
  ASSUME IndInv, NEW j \in Children, NEW s \in {"accept", "zombie"}, Alive(j),
         cPc' = [cPc EXCEPT ![j] = s],
         conn' = [conn EXCEPT ![j] = {}],
         client' = [c \in Clients |-> IF c \in conn[j] THEN "away" ELSE client[c]],
         term' \in SUBSET term,
         UNCHANGED <<nchildren, pPc, forked, pids, next, sigpipe, left, queue>>
  PROVE  IndInv'
<1>1. Typed'
  BY DEF IndInv, Typed
<1>2. ConnectionOfSession'
  BY DEF IndInv, Typed, ConnectionOfSession, InSession
<1>3. NotForked'
  BY DEF IndInv, Typed, NotForked, Alive
<1>4. OneConnection' /\ AwayIsAway'
  BY DEF IndInv, Typed, OneConnection, AwayIsAway
<1>5. AbortIsForThisClient'
  BY DEF IndInv, Typed, OneConnection, AbortIsForThisClient, InSession
<1> QED
  BY <1>1, <1>2, <1>3, <1>4, <1>5 DEF IndInv

LEMMA ChildInv == ASSUME IndInv, NEW j \in Children, Child(j) PROVE IndInv'
<1>1. CASE AcceptClient(j)
  BY <1>1, AcceptClientInv
<1>2. CASE AcceptDies(j)
  <2>1. Typed'
    BY <1>2 DEF AcceptDies, parentVars, IndInv, Typed
  <2>2. ConnectionOfSession' /\ AbortIsForThisClient'
    BY <1>2 DEF AcceptDies, IndInv, Typed, ConnectionOfSession, AbortIsForThisClient, InSession
  <2>3. /\ \A k \in Children \ {j} : cPc'[k] = cPc[k]
        /\ cPc'[j] = "zombie" /\ cPc[j] = "accept"
        /\ forked' = forked
    BY <1>2 DEF AcceptDies, parentVars, IndInv, Typed
  <2>5. NotForked'
    BY <2>3 DEF IndInv, NotForked
  <2>4. OneConnection' /\ AwayIsAway'
    BY <1>2 DEF AcceptDies, IndInv, OneConnection, AwayIsAway
  <2> QED
    BY <2>1, <2>2, <2>4, <2>5 DEF IndInv
<1>3. CASE Command(j) \/ SendBlock(j)
  <2>1. /\ Written(j) /\ InSession(j)
        /\ UNCHANGED <<parentVars, conn, queue, client>>
    BY <1>3 DEF Command, SendBlock, InSession
  <2>2. /\ cPc' \in [Children -> {"none", "accept", "command", "block", "zombie", "gone"}]
        /\ cPc'[j] \in {"command", "block"}
        /\ \A k \in Children \ {j} : cPc'[k] = cPc[k]
    BY <1>3 DEF Command, SendBlock, IndInv, Typed
  <2>3. /\ left' \in [Children -> 0 .. Blocks]
        /\ \A k \in Children : cPc'[k] = "block" => left'[k] > 0
    <3>1. CASE Command(j)
      <4>1. CASE left' = [left EXCEPT ![j] = Blocks] /\ cPc' = [cPc EXCEPT ![j] = "block"]
        BY <4>1 DEF IndInv, Typed
      <4>2. CASE UNCHANGED <<left, cPc>>
        BY <4>2 DEF IndInv, Typed
      <4> QED
        BY <3>1, <4>1, <4>2 DEF Command
    <3>2. CASE SendBlock(j)
      <4>1. left[j] \in 1 .. Blocks
        BY <3>2 DEF SendBlock, IndInv, Typed
      <4> DEFINE n == IF sigpipe'[j] THEN 0 ELSE left[j] - 1
      <4>2. n \in 0 .. Blocks /\ left' = [left EXCEPT ![j] = n]
        BY <3>2, <4>1 DEF SendBlock
      <4> HIDE DEF n
      <4>3. cPc' = [cPc EXCEPT ![j] = IF n = 0 THEN "command" ELSE "block"]
        BY <3>2, <4>2 DEF SendBlock, IndInv, Typed
      <4> QED
        BY <4>2, <4>3 DEF IndInv, Typed
    <3> QED
      BY <1>3, <3>1, <3>2
  <2>4. Typed'
    BY <2>1, <2>2, <2>3, WrittenInv DEF parentVars, IndInv, Typed
  <2>5. /\ forked' = forked /\ conn' = conn
        /\ j <= forked
        /\ \A k \in Children : Alive(k)' <=> Alive(k)
        /\ \A k \in Children : InSession(k)' <=> InSession(k)
    BY <2>1, <2>2 DEF parentVars, IndInv, Typed, NotForked, InSession, Alive, Children
  <2>8. ConnectionOfSession'
    BY <2>5 DEF IndInv, ConnectionOfSession
  <2>9. NotForked'
    BY <2>2, <2>5 DEF IndInv, Typed, NotForked, Children
  <2>6. OneConnection' /\ AwayIsAway'
    BY <2>1 DEF IndInv, OneConnection, AwayIsAway
  <2>7. AbortIsForThisClient'
    BY <2>1, <2>2, WrittenInv DEF IndInv, AbortIsForThisClient, InSession
  <2> QED
    BY <2>4, <2>6, <2>7, <2>8, <2>9 DEF IndInv
<1>4. CASE EndSession(j)
  <2>1. PICK c \in conn[j] : client' = [client EXCEPT ![c] = "away"]
    BY <1>4 DEF EndSession
  <2>2. conn[j] = {c}
    BY <1>4, <2>1 DEF EndSession, IndInv, ConnectionOfSession, InSession
  <2>3. client' = [d \in Clients |-> IF d \in conn[j] THEN "away" ELSE client[d]]
    BY <2>1, <2>2 DEF IndInv, Typed
  <2> QED
    BY <1>4, <2>3, SessionEndInv DEF EndSession, parentVars, Alive
<1>5. CASE ChildKilled(j)
  <2>1. /\ Alive(j)
        /\ cPc' = [cPc EXCEPT ![j] = "zombie"]
        /\ conn' = [conn EXCEPT ![j] = {}]
        /\ client' = [c \in Clients |-> IF c \in conn[j] THEN "away" ELSE client[c]]
        /\ term' \in SUBSET term
        /\ UNCHANGED <<nchildren, pPc, forked, pids, next, sigpipe, left, queue>>
    BY <1>5 DEF ChildKilled
  <2> QED
    BY <2>1, SessionEndInv
<1> QED
  BY <1>1, <1>2, <1>3, <1>4, <1>5 DEF Child

LEMMA ClientInv ==
  ASSUME IndInv, NEW c \in Clients, Connect(c) \/ Disconnect(c) PROVE IndInv'
<1>1. Typed'
  <2>1. CASE Connect(c)
    BY <2>1 DEF Connect, parentVars, IndInv, Typed
  <2>2. CASE Disconnect(c)
    BY <2>2 DEF Disconnect, parentVars, IndInv, Typed
  <2> QED
    BY <2>1, <2>2
<1>2. ConnectionOfSession' /\ NotForked'
  BY DEF Connect, Disconnect, parentVars, IndInv, ConnectionOfSession, NotForked,
         InSession, Alive
<1>3. CASE Connect(c)
  <2>1. Len(queue') = Len(queue) + 1
    BY <1>3 DEF Connect, IndInv, Typed
  <2>2. \A i \in 1 .. Len(queue') : 
           queue'[i] = IF i = Len(queue) + 1 THEN c ELSE queue[i]
    BY <1>3 DEF Connect, IndInv, Typed
  <2>3. /\ \A i \in 1 .. Len(queue) : queue[i] # c
        /\ \A j \in Children : c \notin conn[j]
    BY <1>3 DEF Connect, IndInv, AwayIsAway
  <2>4. OneConnection'
    BY <1>3, <2>1, <2>2, <2>3 DEF Connect, IndInv, Typed, OneConnection
  <2>5. AwayIsAway'
    BY <1>3, <2>1, <2>2, <2>3 DEF Connect, IndInv, Typed, AwayIsAway
  <2>6. AbortIsForThisClient'
    BY <1>3, <2>3 DEF Connect, IndInv, Typed, AbortIsForThisClient, InSession
  <2> QED
    BY <1>1, <1>2, <2>4, <2>5, <2>6 DEF IndInv
<1>4. CASE Disconnect(c)
  <2>1. OneConnection' /\ AwayIsAway'
    BY <1>4 DEF Disconnect, IndInv, Typed, OneConnection, AwayIsAway
  <2>2. AbortIsForThisClient'
    BY <1>4 DEF Disconnect, IndInv, Typed, AbortIsForThisClient, InSession
  <2> QED
    BY <1>1, <1>2, <2>1, <2>2 DEF IndInv
<1> QED
  BY <1>3, <1>4

LEMMA Invariance == Spec => []IndInv
<1>1. IndInv /\ [Next]_vars => IndInv'
  <2>1. IndInv /\ UNCHANGED vars => IndInv'
    BY DEF vars, IndInv, Typed, ConnectionOfSession, NotForked,
           OneConnection, AwayIsAway, AbortIsForThisClient, InSession, Alive
  <2> QED
    BY <2>1, ParentInv, ChildInv, ClientInv DEF Next
<1> QED
  BY <1>1, InitInv, PTL DEF Spec

-----------------------------------------------------------------------------
\* Every variable keeps its type; in particular a child that serves is connected
\* to exactly one client.
THEOREM TypeCorrect == Spec => []TypeOK
BY Invariance, TypeFromInv, PTL

\* No child gives up a file because of the SIGPIPE of an earlier client: when
\* sigpipe is set in a session, the client of that very session has closed.
THEOREM NoInheritedAbort == Spec => []AbortIsForThisClient
BY Invariance, PTL DEF IndInv

\* The kernel's queue and the children never share a connection.
THEOREM ConnectionsAreSeparate == Spec => []OneConnection
BY Invariance, PTL DEF IndInv
=============================================================================
