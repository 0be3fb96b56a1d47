--------------------------- MODULE UdpEchoProofs ---------------------------
(***************************************************************************)
(* Proofs about UdpEcho, for any clients and addresses, any number of      *)
(* children, and every limit.                                              *)
(***************************************************************************)
EXTENDS UdpEcho, FiniteSetTheorems, TLAPS

\* Until a child is wild, d was sent by the client that its text was typed into,
\* whose socket had, and has, the address it carries.
Genuine(d) ==
    /\ d \in Datagrams
    /\ wild = {} => uPc[d.data] \in Sending /\ addr[d.data] = d.at

NetTyped ==
    /\ \A d \in BagToSet(net) : net[d] \in Nat \ {0}
    /\ dups \in 0 .. MaxDup

\* Every datagram is genuine, in the network or in a child's hands.
AllGenuine ==
    /\ \A d \in BagToSet(net) : Genuine(d)
    /\ \A j \in Children : \A d \in held[j] : Genuine(d)

PoolTyped ==
    /\ protocol \in {"echo", "limited", "single"}
    /\ kPc \in [Children -> {"none", "receive", "answer", "dead"}]
    /\ held \in [Children -> SUBSET Datagrams]
    /\ \A j \in Children :
          IF kPc[j] = "answer" THEN \E d \in Datagrams : held[j] = {d} ELSE held[j] = {}
    /\ token \in [Children -> [Peers -> 0 .. MaxCount]]
    /\ wild \subseteq Children /\ (wild # {} => protocol = "limited")
    /\ answered \in [Children -> [Hosts -> Nat]]

UsersTyped ==
    /\ uPc \in [Clients -> {"typing", "waiting", "ended"}]
    /\ addr \in [Clients -> Addresses] /\ \A c \in Clients : addr[c] \in Ports[c]
    /\ retry \in [Clients -> 0 .. Tries]
    /\ echo \in [Clients -> SUBSET Clients]

\* A client that has not sent its message has no echo; what any other has was
\* typed into a client with its own address, until a child is wild.
EchoesRight ==
    \A c \in Clients :
        \/ echo[c] = {}
        \/ /\ uPc[c] \in Sending
           /\ \E m \in Clients :
                 /\ echo[c] = {m}
                 /\ wild = {} => addr[m] = addr[c] /\ uPc[m] \in Sending

\* What child j has answered host h, and is about to.
HeldFrom(j, h) == \E d \in held[j] : HostOf[d.at] = h
Given(j, h) == answered[j][h] + IF HeldFrom(j, h) THEN 1 ELSE 0

\* No answer without a count, and none past the limit.
Limited(j, h) ==
    \/ protocol = "echo"
    \/ protocol = "limited" /\ j \in wild
    \/ protocol = "single" /\ NoRoom(j, h)
    \/ Given(j, h) <= token[j][h] /\ Given(j, h) <= MaxToken

IndInv ==
    /\ NetTyped /\ AllGenuine /\ PoolTyped /\ UsersTyped /\ EchoesRight
    /\ \A j \in Children, h \in Hosts : Limited(j, h)

-----------------------------------------------------------------------------
(* Datagrams and their addresses.                                          *)

LEMMA Sent ==
  ASSUME \A e \in BagToSet(net) : net[e] \in Nat \ {0}, NEW d, Send(d)
  PROVE  /\ BagToSet(net') = BagToSet(net) \cup {d}
         /\ \A e \in BagToSet(net') : net'[e] \in Nat \ {0}
<1>1. /\ DOMAIN net' = DOMAIN net \cup {d}
      /\ \A e \in DOMAIN net \cup {d} :
            net'[e] = (IF e \in DOMAIN net THEN net[e] ELSE 0) + (IF e \in {d} THEN 1 ELSE 0)
  BY DEF Send, SetToBag, (+)
<1>2. ASSUME NEW e \in DOMAIN net' PROVE net'[e] \in Nat \ {0}
  <2>1. CASE e \in DOMAIN net /\ e = d
    <3>1. net'[e] = net[e] + 1 /\ net[e] \in Nat
      BY <1>1, <2>1 DEF BagToSet
    <3> QED
      BY <3>1
  <2>2. CASE e \in DOMAIN net /\ e # d
    <3>1. net'[e] = net[e] + 0 /\ net[e] \in Nat \ {0}
      BY <1>1, <2>2 DEF BagToSet
    <3> QED
      BY <3>1
  <2>3. CASE e \notin DOMAIN net
    <3>1. net'[e] = 0 + 1
      BY <1>1, <1>2, <2>3
    <3> QED
      BY <3>1
  <2> QED
    BY <2>1, <2>2, <2>3
<1> QED
  BY <1>1, <1>2 DEF BagToSet

LEMMA Taken ==
  ASSUME \A e \in BagToSet(net) : net[e] \in Nat \ {0}, NEW d, Take(d)
  PROVE  /\ d \in BagToSet(net)
         /\ BagToSet(net') \subseteq BagToSet(net)
         /\ \A e \in BagToSet(net') : net'[e] \in Nat \ {0}
<1> DEFINE left == [e \in DOMAIN net |-> IF e \in {d} THEN net[e] - 1 ELSE net[e]]
<1>1. d \in DOMAIN net /\ net' = net (-) [e \in {d} |-> 1]
  BY DEF Take, BagIn, BagToSet, SetToBag
<1>2. net' = [e \in {x \in DOMAIN left : left[x] > 0} |-> left[e]]
  BY <1>1 DEF (-)
<1>3. ASSUME NEW e \in DOMAIN net, left[e] > 0 PROVE left[e] \in Nat \ {0}
  <2>1. net[e] \in Nat
    BY DEF BagToSet
  <2>2. left[e] = net[e] - 1 \/ left[e] = net[e]
    OBVIOUS
  <2> HIDE DEF left
  <2> QED
    BY <1>3, <2>1, <2>2
<1> QED
  BY <1>1, <1>2, <1>3 DEF BagToSet

LEMMA RepliesAreGenuine ==
  ASSUME NEW d \in Datagrams
  PROVE  /\ Reply(d) \in Datagrams /\ Reply(d).data = d.data /\ Reply(d).at = d.at
         /\ d.data \in Clients /\ d.at \in Addresses /\ HostOf[d.at] \in Hosts
BY DEF Reply, Datagrams, Hosts

\* A client that has sent its message keeps its address, and who is wild stays so.
Remembered ==
    /\ \A c \in Clients : uPc[c] \in Sending => uPc'[c] \in Sending /\ addr'[c] = addr[c]
    /\ wild' = {} => wild = {}

LEMMA StillGenuine ==
  ASSUME Remembered, NEW d, Genuine(d) PROVE Genuine(d)'
BY DEF Remembered, Genuine, Datagrams

LEMMA StillRight ==
  ASSUME Remembered, EchoesRight, NEW c \in Clients, echo'[c] = echo[c]
  PROVE  \/ echo'[c] = {}
         \/ /\ uPc'[c] \in Sending
            /\ \E m \in Clients :
                  /\ echo'[c] = {m}
                  /\ wild' = {} => addr'[m] = addr'[c] /\ uPc'[m] \in Sending
<1>1. CASE echo[c] = {}
  BY <1>1
<1>2. ASSUME uPc[c] \in Sending, NEW m \in Clients, echo[c] = {m},
             wild = {} => addr[m] = addr[c] /\ uPc[m] \in Sending
      PROVE  /\ uPc'[c] \in Sending /\ echo'[c] = {m}
             /\ wild' = {} => addr'[m] = addr'[c] /\ uPc'[m] \in Sending
  BY <1>2 DEF Remembered
<1> QED
  BY <1>1, <1>2 DEF EchoesRight

\* Nor does the table of es2.2 lose a host or, once it is full, gain one.
LEMMA RoomStays ==
  ASSUME PoolTyped, protocol = "single", NEW j \in Children, NEW g \in Peers,
         token' = [token EXCEPT ![j][g] = Counted(j, g)],
         NEW i \in Children, NEW h \in Hosts, NoRoom(i, h)
  PROVE  NoRoom(i, h)'
<1>1. CASE i # j
  <2>1. token'[i] = token[i]
    BY <1>1 DEF PoolTyped
  <2> QED
    BY <2>1 DEF NoRoom, Known
<1>2. CASE i = j
  <2>1. Counted(j, g) = IF NoRoom(j, g) THEN 0
                        ELSE IF token[j][g] < MaxToken THEN token[j][g] + 1 ELSE token[j][g]
    BY DEF Counted
  <2>2. g \in Known(j) <=> token[j][g] > 0
    BY DEF Known
  <2>3. NoRoom(j, g) <=> ~(token[j][g] > 0)
    BY <1>2, <2>2 DEF NoRoom
  <2>4. token[j][g] \in Nat
    BY PoolAssumption DEF PoolTyped
  <2>5. Counted(j, g) > 0 <=> token[j][g] > 0
    BY <2>1, <2>3, <2>4
  <2>6. /\ token'[j][g] = Counted(j, g)
        /\ \A e \in Peers : e # g => token'[j][e] = token[j][e]
    BY DEF PoolTyped
  <2>7. Known(j)' = Known(j)
    BY <2>5, <2>6 DEF Known
  <2> QED
    BY <1>2, <2>7 DEF NoRoom
<1> QED
  BY <1>1, <1>2

\* When a child gives a host no more, and its count does not go down.
LEMMA LimitStays ==
  ASSUME NEW j \in Children, NEW h \in Hosts, Limited(j, h), protocol' = protocol,
         wild \subseteq wild',
         protocol = "single" /\ NoRoom(j, h) => NoRoom(j, h)',
         Given(j, h) \in Nat, Given(j, h)' \in Nat, Given(j, h)' <= Given(j, h),
         token[j][h] \in Nat, token'[j][h] \in Nat, token[j][h] <= token'[j][h]
  PROVE  Limited(j, h)'
<1>1. MaxToken \in Nat
  BY PoolAssumption
<1>2. CASE protocol = "echo" \/ (protocol = "limited" /\ j \in wild)
           \/ (protocol = "single" /\ NoRoom(j, h))
  BY <1>2, Zenon DEF Limited
<1>3. CASE Given(j, h) <= token[j][h] /\ Given(j, h) <= MaxToken
  <2>1. Given(j, h)' <= token'[j][h] /\ Given(j, h)' <= MaxToken
    BY <1>1, <1>3
  <2> QED
    BY <2>1, Zenon DEF Limited
<1> QED
  BY <1>2, <1>3 DEF Limited

LEMMA CountsFit ==
  ASSUME PoolTyped, NEW j \in Children, NEW h \in Peers, ~Undefined(j, h)
  PROVE  Counted(j, h) \in 0 .. MaxCount
<1>1. token[j][h] \in 0 .. MaxCount
  BY DEF PoolTyped
<1>2. MaxToken \in Nat /\ 1 <= MaxToken /\ MaxCount \in Nat /\ MaxToken <= MaxCount
  BY PoolAssumption
<1>3. CASE protocol = "limited"
  BY <1>1, <1>2, <1>3 DEF Counted, Undefined
<1>4. CASE protocol # "limited"
  BY <1>1, <1>2, <1>4 DEF Counted
<1> QED
  BY <1>3, <1>4

LEMMA Numbers ==
  ASSUME PoolTyped, NEW j \in Children, NEW h \in Hosts
  PROVE  /\ answered[j][h] \in Nat /\ token[j][h] \in Nat /\ token[j][h] \in 0 .. MaxCount
         /\ Given(j, h) \in Nat
         /\ HeldFrom(j, h) => Given(j, h) = answered[j][h] + 1
         /\ ~HeldFrom(j, h) => Given(j, h) = answered[j][h]
<1>1. answered[j][h] \in Nat /\ token[j][h] \in 0 .. MaxCount /\ MaxCount \in Nat
  BY PoolAssumption DEF PoolTyped, Peers
<1> QED
  BY <1>1 DEF Given

LEMMA NumbersNext ==
  ASSUME PoolTyped', NEW j \in Children, NEW h \in Hosts
  PROVE  /\ answered'[j][h] \in Nat /\ token'[j][h] \in Nat
         /\ Given(j, h)' \in Nat
         /\ HeldFrom(j, h)' => Given(j, h)' = answered'[j][h] + 1
         /\ ~HeldFrom(j, h)' => Given(j, h)' = answered'[j][h]
<1>1. answered'[j][h] \in Nat /\ token'[j][h] \in 0 .. MaxCount /\ MaxCount \in Nat
  BY PoolAssumption DEF PoolTyped, Peers
<1> QED
  BY <1>1 DEF Given

-----------------------------------------------------------------------------
(* The initial states.                                                     *)

LEMMA InitInv == Init => IndInv
<1> SUFFICES ASSUME Init PROVE IndInv
  OBVIOUS
<1> USE DEF Init, NetInit, PoolInit, UdpClientInit
<1>1. BagToSet(net) = {}
  BY DEF EmptyBag, SetToBag, BagToSet
<1>2. NetTyped
  BY <1>1, NetworkAssumption DEF NetTyped
<1>3. AllGenuine
  BY <1>1 DEF AllGenuine
<1>4. PoolTyped
  BY PoolAssumption DEF PoolTyped
<1>5. UsersTyped /\ EchoesRight
  <2>1. ASSUME NEW c \in Clients PROVE addr[c] \in Ports[c] /\ addr[c] \in Addresses
    <3>1. \E a \in Ports[c] : TRUE
      BY NetworkAssumption
    <3>2. addr[c] = CHOOSE a \in Ports[c] : TRUE
      OBVIOUS
    <3>3. addr[c] \in Ports[c]
      BY <3>1, <3>2, Zenon
    <3> QED
      BY <3>3 DEF Addresses
  <2>2. addr \in [Clients -> Addresses]
    <3>1. addr = [c \in Clients |-> addr[c]]
      OBVIOUS
    <3> QED
      BY <2>1, <3>1
  <2>3. Tries \in 0 .. Tries
    BY TriesAssumption
  <2> QED
    BY <2>1, <2>2, <2>3 DEF UsersTyped, EchoesRight
<1>6. ASSUME NEW j \in Children, NEW h \in Hosts PROVE Limited(j, h)
  <2>1. /\ ~HeldFrom(j, h) /\ answered[j][h] = 0 /\ token[j][h] = 0
        /\ MaxToken \in Nat
    BY PoolAssumption DEF HeldFrom, Peers
  <2> QED
    BY <2>1 DEF Limited, Given
<1> QED
  BY <1>2, <1>3, <1>4, <1>5, <1>6 DEF IndInv

-----------------------------------------------------------------------------
(* What a step leaves alone.                                               *)

LEMMA PoolKeeps ==
  ASSUME UNCHANGED poolVars, IndInv
  PROVE  PoolTyped' /\ \A j \in Children, h \in Hosts : Limited(j, h)'
<1>1. /\ protocol' = protocol /\ kPc' = kPc /\ held' = held /\ token' = token
      /\ wild' = wild /\ answered' = answered
  BY DEF poolVars
<1>2. PoolTyped'
  BY <1>1 DEF IndInv, PoolTyped
<1>3. ASSUME NEW j \in Children, NEW h \in Hosts PROVE Limited(j, h)'
  <2>1. NoRoom(j, h)' <=> NoRoom(j, h)
    BY <1>1 DEF NoRoom, Known
  <2>2. Given(j, h)' = Given(j, h)
    BY <1>1 DEF Given, HeldFrom
  <2> QED
    BY <1>1, <2>1, <2>2 DEF IndInv, Limited
<1> QED
  BY <1>2, <1>3

LEMMA UsersKeep ==
  ASSUME UNCHANGED udpClientVars, wild \subseteq wild', IndInv
  PROVE  Remembered /\ UsersTyped' /\ EchoesRight'
<1>1. uPc' = uPc /\ addr' = addr /\ retry' = retry /\ echo' = echo
  BY DEF udpClientVars
<1>2. Remembered /\ UsersTyped'
  BY <1>1 DEF IndInv, Remembered, UsersTyped
<1>3. EchoesRight'
  BY <1>1, <1>2, StillRight DEF IndInv, EchoesRight
<1> QED
  BY <1>2, <1>3

-----------------------------------------------------------------------------
(* Steps of the network and of the clients.                                *)

LEMMA NetworkStep ==
  ASSUME IndInv, Network PROVE IndInv'
<1>1. NetTyped /\ AllGenuine /\ PoolTyped
  BY DEF IndInv
<1>2. UNCHANGED poolVars /\ UNCHANGED udpClientVars
  BY DEF Network
<1>3. /\ PoolTyped' /\ \A j \in Children, h \in Hosts : Limited(j, h)'
      /\ Remembered /\ UsersTyped' /\ EchoesRight'
  BY <1>2, PoolKeeps, UsersKeep DEF poolVars
<1>4. NetTyped' /\ BagToSet(net') \subseteq BagToSet(net)
  <2>1. PICK d \in BagToSet(net) : Lose(d) \/ Double(d)
    BY DEF Network
  <2>2. CASE Lose(d)
    BY <1>1, <2>2, Taken DEF Lose, NetTyped
  <2>3. CASE Double(d)
    <3>1. dups' \in 0 .. MaxDup
      BY <1>1, <2>3, NetworkAssumption DEF Double, NetTyped
    <3>2. BagToSet(net') = BagToSet(net) \cup {d} /\ d \in BagToSet(net)
          /\ \A e \in BagToSet(net') : net'[e] \in Nat \ {0}
      BY <1>1, <2>3, Sent DEF Double, NetTyped
    <3> QED
      BY <3>1, <3>2 DEF NetTyped
  <2> QED
    BY <2>1, <2>2, <2>3
<1>5. AllGenuine'
  <2>1. held' = held
    BY <1>2 DEF poolVars
  <2> QED
    BY <1>1, <1>3, <1>4, <2>1, StillGenuine DEF AllGenuine
<1> QED
  BY <1>3, <1>4, <1>5 DEF IndInv

LEMMA ClientSteps ==
  ASSUME IndInv, UdpClientNext, UNCHANGED poolVars PROVE IndInv'
<1>1. NetTyped /\ AllGenuine /\ UsersTyped /\ EchoesRight
  BY DEF IndInv
<1>2. /\ PoolTyped' /\ (\A j \in Children, h \in Hosts : Limited(j, h)')
      /\ held' = held /\ wild' = wild
  BY PoolKeeps DEF poolVars
<1>3. SUFFICES NetTyped' /\ AllGenuine' /\ UsersTyped' /\ EchoesRight'
  BY <1>2 DEF IndInv
<1>4. PICK c \in Clients :
         \/ \E a \in Ports[c] : SendMessage(c, a)
         \/ ReceiveFails(c)
         \/ Proceed(c)
  BY DEF UdpClientNext
<1>5. retry[c] > 0 => retry[c] - 1 \in 0 .. Tries
  BY <1>1, TriesAssumption DEF UsersTyped
<1>6. 0 \in 0 .. Tries
  BY TriesAssumption
<1>7. CASE ReceiveFails(c) \/ Finish(c) \/ TryExpires(c)
  <2>1. /\ net' = net /\ dups' = dups /\ addr' = addr /\ echo' = echo
        /\ uPc[c] = "waiting"
        /\ uPc' = uPc \/ uPc' = [uPc EXCEPT ![c] = "ended"]
    BY <1>7 DEF ReceiveFails, Finish, TryExpires, Waits, netVars
  <2>2. retry' \in [Clients -> 0 .. Tries]
    <3>1. retry' = [retry EXCEPT ![c] = 0] \/
          (retry[c] > 0 /\ retry' = [retry EXCEPT ![c] = retry[c] - 1])
      BY <1>7 DEF ReceiveFails, Finish, TryExpires, Waits
    <3> QED
      BY <1>1, <1>5, <1>6, <3>1 DEF UsersTyped
  <2>3. uPc' \in [Clients -> {"typing", "waiting", "ended"}] /\ Remembered
    <3>1. CASE uPc' = uPc
      BY <1>1, <1>2, <2>1, <3>1 DEF UsersTyped, Remembered
    <3>2. CASE uPc' = [uPc EXCEPT ![c] = "ended"]
      BY <1>1, <1>2, <2>1, <3>2 DEF UsersTyped, Remembered, Sending
    <3> QED
      BY <2>1, <3>1, <3>2
  <2>4. UsersTyped' /\ NetTyped'
    BY <1>1, <2>1, <2>2, <2>3 DEF UsersTyped, NetTyped
  <2>5. EchoesRight'
    BY <1>1, <2>1, <2>3, StillRight DEF EchoesRight
  <2>6. AllGenuine'
    BY <1>1, <1>2, <2>1, <2>3, StillGenuine DEF AllGenuine
  <2> QED
    BY <2>4, <2>5, <2>6
<1>8. ASSUME NEW a \in Ports[c], SendMessage(c, a)
      PROVE  NetTyped' /\ AllGenuine' /\ UsersTyped' /\ EchoesRight'
  <2>1. /\ uPc[c] = "typing" /\ uPc' = [uPc EXCEPT ![c] = "waiting"]
        /\ addr' = [addr EXCEPT ![c] = a] /\ Send(Request(c, a))
        /\ dups' = dups /\ retry' = retry /\ echo' = echo
    BY <1>8 DEF SendMessage
  <2>2. a \in Addresses
    BY DEF Addresses
  <2>3. UsersTyped' /\ Remembered
    BY <1>1, <1>2, <2>1, <2>2 DEF UsersTyped, Remembered, Sending
  <2>4. /\ BagToSet(net') = BagToSet(net) \cup {Request(c, a)}
        /\ \A e \in BagToSet(net') : net'[e] \in Nat \ {0}
    BY <1>1, <2>1, Sent DEF NetTyped
  <2>5. NetTyped'
    BY <1>1, <2>1, <2>4 DEF NetTyped
  <2>6. Genuine(Request(c, a))'
    BY <1>1, <2>1, <2>2 DEF Genuine, Request, Datagrams, UsersTyped, Sending
  <2>7. AllGenuine'
    BY <1>1, <1>2, <2>3, <2>4, <2>6, StillGenuine DEF AllGenuine
  <2>8. EchoesRight'
    BY <1>1, <2>1, <2>3, StillRight DEF EchoesRight
  <2> QED
    BY <2>3, <2>5, <2>7, <2>8
<1>9. ASSUME NEW d \in BagToSet(net), TryReceives(c, d)
      PROVE  NetTyped' /\ AllGenuine' /\ UsersTyped' /\ EchoesRight'
  <2>1. /\ uPc[c] = "waiting" /\ retry[c] > 0 /\ d.at = addr[c] /\ Take(d)
        /\ echo' = [echo EXCEPT ![c] = {d.data}]
        /\ retry' = [retry EXCEPT ![c] = retry[c] - 1]
        /\ dups' = dups /\ uPc' = uPc /\ addr' = addr
    BY <1>9 DEF TryReceives, Waits
  <2>2. /\ d.data \in Clients
        /\ wild = {} => uPc[d.data] \in Sending /\ addr[d.data] = d.at
    BY <1>1 DEF AllGenuine, Genuine, Datagrams
  <2>3. UsersTyped' /\ Remembered
    BY <1>1, <1>2, <1>5, <2>1, <2>2 DEF UsersTyped, Remembered
  <2>4. /\ BagToSet(net') \subseteq BagToSet(net)
        /\ \A e \in BagToSet(net') : net'[e] \in Nat \ {0}
    BY <1>1, <2>1, Taken DEF NetTyped
  <2>5. NetTyped' /\ AllGenuine'
    BY <1>1, <1>2, <2>1, <2>3, <2>4, StillGenuine DEF NetTyped, AllGenuine
  <2>6. ASSUME NEW b \in Clients
        PROVE  \/ echo'[b] = {}
               \/ /\ uPc'[b] \in Sending
                  /\ \E m \in Clients :
                        /\ echo'[b] = {m}
                        /\ wild' = {} => addr'[m] = addr'[b] /\ uPc'[m] \in Sending
    <3>1. CASE b = c
      <4>1. /\ echo'[c] = {d.data} /\ uPc'[c] \in Sending
            /\ wild' = {} => addr'[d.data] = addr'[c] /\ uPc'[d.data] \in Sending
        BY <1>1, <1>2, <2>1, <2>2 DEF UsersTyped, Sending
      <4> QED
        BY <2>2, <3>1, <4>1
    <3>2. CASE b # c
      <4>1. echo'[b] = echo[b]
        BY <1>1, <2>1, <3>2 DEF UsersTyped
      <4> QED
        BY <1>1, <2>3, <4>1, StillRight
    <3> QED
      BY <3>1, <3>2
  <2>7. EchoesRight'
    BY <2>6 DEF EchoesRight
  <2> QED
    BY <2>3, <2>5, <2>7
<1> QED
  BY <1>4, <1>7, <1>8, <1>9 DEF Proceed

-----------------------------------------------------------------------------
(* Steps of the pool.                                                      *)

\* All but the counting.
LEMMA PoolTypes ==
  ASSUME IndInv, UNCHANGED udpClientVars, NEW j \in Children,
         ForkChild(j) \/ Serve(j) \/ RecvfromFails(j) \/ ChildDies(j)
  PROVE  NetTyped' /\ AllGenuine' /\ PoolTyped' /\ wild \subseteq wild'
<1>1. NetTyped /\ AllGenuine /\ PoolTyped
  BY DEF IndInv
<1>2. wild' = wild => Remembered
  BY UsersKeep
<1>3. CASE ForkChild(j)
  <2>1. /\ net' = net /\ dups' = dups /\ protocol' = protocol /\ held' = held
        /\ token' = token /\ wild' = wild /\ answered' = answered
        /\ kPc[j] = "none" /\ kPc' = [kPc EXCEPT ![j] = "receive"]
    BY <1>3 DEF ForkChild, netVars
  <2>2. PoolTyped'
    BY <1>1, <2>1 DEF PoolTyped
  <2> QED
    BY <1>1, <1>2, <2>1, <2>2, StillGenuine DEF NetTyped, AllGenuine
<1>4. CASE ChildDies(j)
  <2>1. /\ net' = net /\ dups' = dups /\ protocol' = protocol /\ token' = token
        /\ wild' = wild /\ answered' = answered /\ held' = [held EXCEPT ![j] = {}]
        /\ kPc' = [kPc EXCEPT ![j] = "dead"]
    BY <1>4 DEF ChildDies, netVars
  <2>2. PoolTyped'
    BY <1>1, <2>1 DEF PoolTyped
  <2>3. \A i \in Children : held'[i] \subseteq held[i]
    BY <1>1, <2>1 DEF PoolTyped
  <2> QED
    BY <1>1, <1>2, <2>1, <2>2, <2>3, StillGenuine DEF NetTyped, AllGenuine
<1>5. ASSUME NEW d \in BagToSet(net), Receive(j, d)
      PROVE  NetTyped' /\ AllGenuine' /\ PoolTyped' /\ wild \subseteq wild'
  <2>1. /\ kPc[j] = "receive" /\ Take(d) /\ dups' = dups /\ protocol' = protocol
        /\ wild' = wild /\ answered' = answered
        /\ token' = [token EXCEPT ![j][HostOf[d.at]] = Counted(j, HostOf[d.at])]
        /\ \/ UNCHANGED <<kPc, held>>
           \/ kPc' = [kPc EXCEPT ![j] = "answer"] /\ held' = [held EXCEPT ![j] = {d}]
        /\ ~Undefined(j, HostOf[d.at])
    BY <1>5 DEF Receive
  <2>2. Genuine(d) /\ d \in Datagrams /\ HostOf[d.at] \in Hosts /\ HostOf[d.at] \in Peers
    BY <1>1, RepliesAreGenuine DEF AllGenuine, Genuine, Peers
  <2>3. Counted(j, HostOf[d.at]) \in 0 .. MaxCount
    BY <1>1, <2>1, <2>2, CountsFit
  <2>4. token' \in [Children -> [Peers -> 0 .. MaxCount]]
    BY <1>1, <2>1, <2>2, <2>3 DEF PoolTyped
  <2>5. /\ BagToSet(net') \subseteq BagToSet(net)
        /\ \A e \in BagToSet(net') : net'[e] \in Nat \ {0}
    BY <1>1, <2>1, Taken DEF NetTyped
  <2>6. CASE UNCHANGED <<kPc, held>>
    <3>1. PoolTyped'
      BY <1>1, <2>1, <2>4, <2>6 DEF PoolTyped
    <3> QED
      BY <1>1, <1>2, <2>1, <2>5, <2>6, <3>1, StillGenuine DEF NetTyped, AllGenuine
  <2>7. CASE kPc' = [kPc EXCEPT ![j] = "answer"] /\ held' = [held EXCEPT ![j] = {d}]
    <3>1. PoolTyped'
      BY <1>1, <2>1, <2>2, <2>4, <2>7 DEF PoolTyped
    <3>2. \A i \in Children : held'[i] \subseteq held[i] \cup {d}
      BY <1>1, <2>7 DEF PoolTyped
    <3> QED
      BY <1>1, <1>2, <2>1, <2>2, <2>5, <3>1, <3>2, StillGenuine DEF NetTyped, AllGenuine
  <2> QED
    BY <2>1, <2>6, <2>7
<1>6. ASSUME NEW d \in BagToSet(net), ReceiveWild(j, d)
      PROVE  NetTyped' /\ AllGenuine' /\ PoolTyped' /\ wild \subseteq wild'
  <2>1. /\ kPc[j] = "receive" /\ Take(d) /\ dups' = dups /\ protocol' = protocol
        /\ wild' = wild \cup {j} /\ answered' = answered
        /\ token' = [token EXCEPT ![j] = [h \in Peers |-> 0]]
        /\ j \in wild \/ Undefined(j, HostOf[d.at])
    BY <1>6 DEF ReceiveWild
  <2>2. PICK e \in Datagrams :
           \/ UNCHANGED <<kPc, held>>
           \/ kPc' = [kPc EXCEPT ![j] = "answer"] /\ held' = [held EXCEPT ![j] = {e}]
    <3>1. d \in Datagrams
      BY <1>1 DEF AllGenuine, Genuine
    <3> QED
      BY <1>6, <3>1 DEF ReceiveWild
  <2>3. protocol = "limited" /\ wild' # {} /\ wild' \subseteq Children
    BY <1>1, <2>1 DEF PoolTyped, Undefined
  <2>4. PoolTyped'
    <3> token' \in [Children -> [Peers -> 0 .. MaxCount]]
      BY <1>1, <2>1, PoolAssumption DEF PoolTyped
    <3>1. CASE UNCHANGED <<kPc, held>>
      BY <1>1, <2>1, <2>3, <3>1 DEF PoolTyped
    <3>2. CASE kPc' = [kPc EXCEPT ![j] = "answer"] /\ held' = [held EXCEPT ![j] = {e}]
      BY <1>1, <2>1, <2>2, <2>3, <3>2 DEF PoolTyped
    <3> QED
      BY <2>2, <3>1, <3>2
  <2>5. /\ BagToSet(net') \subseteq BagToSet(net)
        /\ \A x \in BagToSet(net') : net'[x] \in Nat \ {0}
    BY <1>1, <2>1, Taken DEF NetTyped
  <2>6. NetTyped' /\ wild \subseteq wild'
    BY <1>1, <2>1, <2>5 DEF NetTyped
  <2>7. AllGenuine'
    <3>1. \A x : x \in Datagrams => Genuine(x)'
      BY <2>3 DEF Genuine
    <3>2. \A i \in Children : held'[i] \subseteq Datagrams
      BY <2>4 DEF PoolTyped
    <3>3. BagToSet(net') \subseteq Datagrams
      BY <1>1, <2>5 DEF AllGenuine, Genuine
    <3> QED
      BY <3>1, <3>2, <3>3 DEF AllGenuine
  <2> QED
    BY <2>4, <2>6, <2>7
<1>7. ASSUME NEW d \in BagToSet(net), ReceiveNameless(j, d)
      PROVE  NetTyped' /\ AllGenuine' /\ PoolTyped' /\ wild \subseteq wild'
  <2>1. /\ Take(d) /\ dups' = dups /\ protocol' = protocol /\ held' = held
        /\ token' = token /\ wild' = wild /\ answered' = answered /\ kPc' = kPc
    BY <1>7 DEF ReceiveNameless, poolVars
  <2>2. PoolTyped'
    BY <1>1, <2>1 DEF PoolTyped
  <2>3. /\ BagToSet(net') \subseteq BagToSet(net)
        /\ \A e \in BagToSet(net') : net'[e] \in Nat \ {0}
    BY <1>1, <2>1, Taken DEF NetTyped
  <2> QED
    BY <1>1, <1>2, <2>1, <2>2, <2>3, StillGenuine DEF NetTyped, AllGenuine
<1>8. CASE RecvfromFails(j)
  <2>1. PICK h \in Peers : token' = [token EXCEPT ![j][h] = Counted(j, h)]
    BY <1>8 DEF RecvfromFails
  <2>2. /\ net' = net /\ dups' = dups /\ protocol' = protocol /\ held' = held
        /\ wild' = wild /\ answered' = answered /\ kPc' = kPc /\ protocol = "single"
    BY <1>8 DEF RecvfromFails, netVars
  <2>3. Counted(j, h) \in 0 .. MaxCount
    BY <1>1, <2>2, CountsFit DEF Undefined
  <2>4. token' \in [Children -> [Peers -> 0 .. MaxCount]]
    BY <1>1, <2>1, <2>3 DEF PoolTyped
  <2>5. PoolTyped'
    BY <1>1, <2>2, <2>4 DEF PoolTyped
  <2> QED
    BY <1>1, <1>2, <2>2, <2>5, StillGenuine DEF NetTyped, AllGenuine
<1>9. CASE Answer(j)
  <2>1. PICK d \in held[j] :
            \/ /\ Send(Reply(d))
               /\ answered' = [answered EXCEPT
                     ![j][HostOf[d.at]] = answered[j][HostOf[d.at]] + 1]
            \/ UNCHANGED <<net, answered>>
    BY <1>9 DEF Answer
  <2>2. /\ kPc' = [kPc EXCEPT ![j] = "receive"] /\ held' = [held EXCEPT ![j] = {}]
        /\ dups' = dups /\ protocol' = protocol /\ token' = token /\ wild' = wild
    BY <1>9 DEF Answer
  <2>3. Genuine(d) /\ d \in Datagrams
    BY <1>1 DEF AllGenuine, Genuine
  <2>4. /\ Reply(d) \in Datagrams /\ Genuine(Reply(d)) /\ HostOf[d.at] \in Hosts
    BY <2>3, RepliesAreGenuine DEF Genuine
  <2>5. answered' \in [Children -> [Hosts -> Nat]]
    <3> DEFINE h0 == HostOf[d.at]  more == answered[j][h0] + 1
    <3>1. h0 \in Hosts /\ answered \in [Children -> [Hosts -> Nat]]
      BY <1>1, <2>4 DEF PoolTyped
    <3>2. more \in Nat
      BY <3>1
    <3>3. answered' = [answered EXCEPT ![j][h0] = more] \/ answered' = answered
      BY <2>1
    <3> HIDE DEF h0, more
    <3> QED
      BY <3>1, <3>2, <3>3
  <2>6. PoolTyped'
    BY <1>1, <2>2, <2>5 DEF PoolTyped
  <2>7. \A i \in Children : held'[i] \subseteq held[i]
    BY <1>1, <2>2 DEF PoolTyped
  <2>8. /\ BagToSet(net') \subseteq BagToSet(net) \cup {Reply(d)}
        /\ \A e \in BagToSet(net') : net'[e] \in Nat \ {0}
    BY <1>1, <2>1, Sent DEF NetTyped
  <2> QED
    BY <1>1, <1>2, <2>2, <2>4, <2>6, <2>7, <2>8, StillGenuine DEF NetTyped, AllGenuine
<1> QED
  BY <1>3, <1>4, <1>5, <1>6, <1>7, <1>8, <1>9, Zenon DEF Serve

\* Child j takes a datagram of host g into its count, or a failed recvfrom().
LEMMA CountLimit ==
  ASSUME IndInv, PoolTyped', NEW j \in Children, NEW g \in Peers,
         ~Undefined(j, g), protocol' = protocol, wild' = wild, answered' = answered,
         token' = [token EXCEPT ![j][g] = Counted(j, g)],
         \A i \in Children, h \in Hosts :
            HeldFrom(i, h)' =>
               HeldFrom(i, h) \/ (i = j /\ h = g /\ ~Blocked(j, g)),
         NEW i \in Children, NEW h \in Hosts
  PROVE  Limited(i, h)'
<1>1. PoolTyped /\ Limited(i, h)
  BY DEF IndInv
<1>2. MaxToken \in Nat /\ 1 <= MaxToken
  BY PoolAssumption
<1>3. protocol = "single" /\ NoRoom(i, h) => NoRoom(i, h)'
  BY <1>1, RoomStays
<1>4. h \in Peers
  BY DEF Peers
<1>5. /\ answered[i][h] \in Nat /\ token[i][h] \in Nat /\ Given(i, h) \in Nat
      /\ HeldFrom(i, h) => Given(i, h) = answered[i][h] + 1
      /\ ~HeldFrom(i, h) => Given(i, h) = answered[i][h]
  BY <1>1, Numbers
<1>6. /\ answered'[i][h] \in Nat /\ token'[i][h] \in Nat /\ Given(i, h)' \in Nat
      /\ HeldFrom(i, h)' => Given(i, h)' = answered'[i][h] + 1
      /\ ~HeldFrom(i, h)' => Given(i, h)' = answered'[i][h]
      /\ answered'[i][h] = answered[i][h]
  BY NumbersNext
<1>7. CASE protocol = "echo" \/ (protocol = "limited" /\ i \in wild)
           \/ (protocol = "single" /\ NoRoom(i, h))
  BY <1>3, <1>7, Zenon DEF Limited
<1>8. CASE /\ Given(i, h) <= token[i][h] /\ Given(i, h) <= MaxToken
           /\ protocol \in {"limited", "single"}
           /\ ~(protocol = "single" /\ NoRoom(i, h))
  <2>1. CASE i = j /\ h = g
    <3> DEFINE t == token[j][g]
    <3>1. t \in Nat /\ token'[i][h] = Counted(j, g)
      BY <1>1, <1>4, <1>5, <2>1 DEF PoolTyped
    <3>2. h \in Known(i) <=> t > 0
      BY <1>4, <2>1 DEF Known
    <3>3. Blocked(j, g) <=> t > 0 /\ t >= MaxToken
      BY <2>1, <3>2 DEF Blocked
    <3>4. /\ protocol = "limited" => Counted(j, g) = t + 1
          /\ protocol = "single" => Counted(j, g) = IF t < MaxToken THEN t + 1 ELSE t
      BY <1>8, <2>1 DEF Counted
    <3>5. Given(i, h) <= t /\ Given(i, h)' <= Given(i, h) + 1
      BY <1>5, <1>6, <1>8, <2>1
    <3> HIDE DEF t
    <3>6. CASE Blocked(j, g)
      <4>1. Given(i, h)' <= Given(i, h)
        BY <1>5, <1>6, <2>1, <3>6
      <4>2. t <= Counted(j, g)
        BY <1>8, <3>1, <3>4
      <4>3. Given(i, h)' <= token'[i][h] /\ Given(i, h)' <= MaxToken
        BY <1>2, <1>5, <1>6, <1>8, <3>1, <3>5, <4>1, <4>2
      <4> QED
        BY <4>3, Zenon DEF Limited
    <3>7. CASE ~Blocked(j, g)
      <4>1. t < MaxToken
        BY <1>2, <3>1, <3>3, <3>7
      <4>2. Counted(j, g) = t + 1
        BY <1>8, <3>4, <4>1
      <4>3. Given(i, h)' <= token'[i][h] /\ Given(i, h)' <= MaxToken
        BY <1>2, <1>5, <1>6, <3>1, <3>5, <4>1, <4>2
      <4> QED
        BY <4>3, Zenon DEF Limited
    <3> QED
      BY <3>6, <3>7
  <2>2. CASE ~(i = j /\ h = g)
    <3>1. token'[i][h] = token[i][h]
      BY <1>1, <1>4, <2>2 DEF PoolTyped
    <3>2. Given(i, h)' <= Given(i, h)
      BY <1>5, <1>6, <2>2
    <3> QED
      BY <1>1, <1>3, <1>5, <1>6, <3>1, <3>2, LimitStays
  <2> QED
    BY <2>1, <2>2
<1> QED
  BY <1>1, <1>7, <1>8 DEF Limited, PoolTyped

\* Child j goes on with its tables as they are, or has lost its own.
LEMMA OtherLimit ==
  ASSUME IndInv, PoolTyped', NEW j \in Children,
         ForkChild(j) \/ ChildDies(j) \/ Answer(j)
            \/ \E d \in BagToSet(net) : ReceiveWild(j, d),
         NEW i \in Children, NEW h \in Hosts
  PROVE  Limited(i, h)'
<1>1. PoolTyped /\ Limited(i, h)
  BY DEF IndInv
<1>2. protocol' = protocol /\ wild \subseteq wild'
  BY DEF ForkChild, ChildDies, Answer, ReceiveWild
<1>3. token'[i] = token[i] /\ NoRoom(i, h) => NoRoom(i, h)'
  BY DEF NoRoom, Known
<1>4. /\ answered[i][h] \in Nat /\ token[i][h] \in Nat /\ Given(i, h) \in Nat
      /\ HeldFrom(i, h) => Given(i, h) = answered[i][h] + 1
      /\ ~HeldFrom(i, h) => Given(i, h) = answered[i][h]
  BY <1>1, Numbers
<1>5. /\ answered'[i][h] \in Nat /\ token'[i][h] \in Nat /\ Given(i, h)' \in Nat
      /\ HeldFrom(i, h)' => Given(i, h)' = answered'[i][h] + 1
      /\ ~HeldFrom(i, h)' => Given(i, h)' = answered'[i][h]
  BY NumbersNext
<1>6. ASSUME token'[i] = token[i], Given(i, h)' <= Given(i, h) PROVE Limited(i, h)'
  <2>1. token[i][h] <= token'[i][h]
    BY <1>4, <1>6
  <2> QED
    BY <1>1, <1>2, <1>3, <1>4, <1>5, <1>6, <2>1, LimitStays
<1>7. CASE ForkChild(j) \/ ChildDies(j)
  <2>1. /\ answered' = answered /\ token' = token
        /\ held' = held \/ held' = [held EXCEPT ![j] = {}]
    BY <1>7 DEF ForkChild, ChildDies
  <2>2. held'[i] \subseteq held[i]
    BY <1>1, <2>1 DEF PoolTyped
  <2>3. HeldFrom(i, h)' => HeldFrom(i, h)
    BY <2>2 DEF HeldFrom
  <2> QED
    BY <1>4, <1>5, <1>6, <2>1, <2>3
<1>8. CASE Answer(j)
  <2>1. PICK d \in held[j] :
           \/ answered' = [answered EXCEPT
                 ![j][HostOf[d.at]] = answered[j][HostOf[d.at]] + 1]
           \/ answered' = answered
    BY <1>8 DEF Answer
  <2>2. held' = [held EXCEPT ![j] = {}] /\ token' = token
    BY <1>8 DEF Answer
  <2>3. CASE i = j
    <3>1. ~HeldFrom(i, h)'
      BY <1>1, <2>2, <2>3 DEF PoolTyped, HeldFrom
    <3>2. h = HostOf[d.at] => HeldFrom(i, h)
      BY <2>3 DEF HeldFrom
    <3>3. HostOf[d.at] \in Hosts
      BY <1>1, RepliesAreGenuine DEF PoolTyped
    <3>4. answered'[i][h] = answered[i][h]
          \/ (h = HostOf[d.at] /\ answered'[i][h] = answered[i][h] + 1)
      BY <1>1, <2>1, <2>3, <3>3 DEF PoolTyped
    <3> QED
      BY <1>4, <1>5, <1>6, <2>2, <3>1, <3>2, <3>4
  <2>4. CASE i # j
    <3>1. held'[i] = held[i] /\ answered'[i] = answered[i]
      BY <1>1, <2>1, <2>2, <2>4 DEF PoolTyped
    <3>2. HeldFrom(i, h)' <=> HeldFrom(i, h)
      BY <3>1 DEF HeldFrom
    <3> QED
      BY <1>4, <1>5, <1>6, <2>2, <3>1, <3>2
  <2> QED
    BY <2>3, <2>4
<1>9. ASSUME NEW d \in BagToSet(net), ReceiveWild(j, d) PROVE Limited(i, h)'
  <2>1. /\ answered' = answered /\ protocol = "limited" /\ j \in wild'
        /\ held' = held \/ \E e \in Datagrams : held' = [held EXCEPT ![j] = {e}]
        /\ token' = [token EXCEPT ![j] = [g \in Peers |-> 0]]
    BY <1>1, <1>9 DEF ReceiveWild, Undefined, PoolTyped
  <2>2. CASE i = j
    BY <1>2, <2>1, <2>2 DEF Limited
  <2>3. CASE i # j
    <3>1. held'[i] = held[i] /\ token'[i] = token[i]
      BY <1>1, <2>1, <2>3 DEF PoolTyped
    <3>2. HeldFrom(i, h)' <=> HeldFrom(i, h)
      BY <3>1 DEF HeldFrom
    <3> QED
      BY <1>4, <1>5, <1>6, <2>1, <3>1, <3>2
  <2> QED
    BY <2>2, <2>3
<1> QED
  BY <1>7, <1>8, <1>9

-----------------------------------------------------------------------------
(* The inductive invariant.                                                *)

LEMMA PoolSteps ==
  ASSUME IndInv, PoolNext, UNCHANGED udpClientVars PROVE IndInv'
<1>1. PICK j \in Children :
         ForkChild(j) \/ Serve(j) \/ RecvfromFails(j) \/ ChildDies(j)
  BY DEF PoolNext
<1>2. NetTyped' /\ AllGenuine' /\ PoolTyped' /\ wild \subseteq wild'
  BY <1>1, PoolTypes
<1>3. UsersTyped' /\ EchoesRight'
  BY <1>2, UsersKeep
<1>4. \A i \in Children, h \in Hosts : Limited(i, h)'
  <2>1. ASSUME NEW d \in BagToSet(net), Receive(j, d)
        PROVE  \A i \in Children, h \in Hosts : Limited(i, h)'
    <3>1. HostOf[d.at] \in Peers
      BY RepliesAreGenuine DEF IndInv, AllGenuine, Genuine, Peers
    <3>2. ASSUME NEW i \in Children, NEW h \in Hosts, HeldFrom(i, h)'
          PROVE  HeldFrom(i, h) \/ (i = j /\ h = HostOf[d.at] /\ ~Blocked(j, HostOf[d.at]))
      <4>1. held' = held \/ (held' = [held EXCEPT ![j] = {d}] /\ ~Blocked(j, HostOf[d.at]))
        BY <2>1 DEF Receive
      <4>2. held \in [Children -> SUBSET Datagrams]
        BY DEF IndInv, PoolTyped
      <4> QED
        BY <3>2, <4>1, <4>2 DEF HeldFrom
    <3>3. /\ ~Undefined(j, HostOf[d.at]) /\ protocol' = protocol /\ wild' = wild
          /\ answered' = answered
          /\ token' = [token EXCEPT ![j][HostOf[d.at]] = Counted(j, HostOf[d.at])]
      BY <2>1 DEF Receive
    <3> QED
      BY <1>2, <3>1, <3>2, <3>3, CountLimit
  <2>2. ASSUME NEW d \in BagToSet(net), ReceiveNameless(j, d)
        PROVE  \A i \in Children, h \in Hosts : Limited(i, h)'
    BY <2>2, PoolKeeps DEF ReceiveNameless
  <2>3. CASE RecvfromFails(j)
    <3>1. PICK g \in Peers : token' = [token EXCEPT ![j][g] = Counted(j, g)]
      BY <2>3 DEF RecvfromFails
    <3>2. /\ ~Undefined(j, g) /\ protocol' = protocol /\ wild' = wild
          /\ answered' = answered /\ held' = held
      BY <2>3 DEF RecvfromFails, Undefined
    <3>3. \A i \in Children, h \in Hosts : HeldFrom(i, h)' => HeldFrom(i, h)
      BY <3>2 DEF HeldFrom
    <3> QED
      BY <1>2, <3>1, <3>2, <3>3, CountLimit
  <2> QED
    BY <1>1, <1>2, <2>1, <2>2, <2>3, OtherLimit DEF Serve
<1> QED
  BY <1>2, <1>3, <1>4 DEF IndInv

LEMMA Invariance == Spec => []IndInv
<1>1. IndInv /\ [Next]_vars => IndInv'
  <2> SUFFICES ASSUME IndInv, [Next]_vars PROVE IndInv'
    OBVIOUS
  <2>1. CASE Network
    BY <2>1, NetworkStep
  <2>2. CASE PoolStep
    BY <2>2, PoolSteps DEF PoolStep
  <2>3. CASE ClientStep
    BY <2>3, ClientSteps DEF ClientStep
  <2>4. CASE UNCHANGED vars
    <3>1. net' = net /\ dups' = dups /\ UNCHANGED poolVars /\ UNCHANGED udpClientVars
      BY <2>4 DEF vars, netVars
    <3>2. held' = held /\ wild' = wild
      BY <3>1 DEF poolVars
    <3>3. NetTyped' /\ AllGenuine'
      BY <3>1, <3>2, UsersKeep, StillGenuine DEF IndInv, NetTyped, AllGenuine
    <3> QED
      BY <3>1, <3>2, <3>3, PoolKeeps, UsersKeep DEF IndInv
  <2> QED
    BY <2>1, <2>2, <2>3, <2>4 DEF Next
<1> QED
  BY <1>1, InitInv, PTL DEF Spec

-----------------------------------------------------------------------------
(* Results.                                                                *)

\* The network holds datagrams that some program sent; the servers' tables, the
\* waits that are left and the echoes keep to their types.
THEOREM TypeCorrect == Spec => []TypeOK
<1>1. IndInv => TypeOK
  <2> SUFFICES ASSUME IndInv PROVE TypeOK
    OBVIOUS
  <2>1. NetTyped /\ AllGenuine /\ PoolTyped /\ UsersTyped /\ EchoesRight
    BY DEF IndInv
  <2>2. PoolTypeOK
    <3>1. ASSUME NEW j \in Children
          PROVE  /\ held[j] \subseteq Datagrams
                 /\ Cardinality(held[j]) = IF kPc[j] = "answer" THEN 1 ELSE 0
      <4>1. CASE kPc[j] = "answer"
        <5>1. PICK d \in Datagrams : held[j] = {d}
          BY <2>1, <4>1 DEF PoolTyped
        <5> QED
          BY <4>1, <5>1, FS_Singleton
      <4>2. CASE kPc[j] # "answer"
        <5>1. held[j] = {}
          BY <2>1, <4>2 DEF PoolTyped
        <5> QED
          BY <4>2, <5>1, FS_EmptySet
      <4> QED
        BY <4>1, <4>2
    <3> QED
      BY <2>1, <3>1 DEF PoolTyped, PoolTypeOK
  <2>3. UdpClientTypeOK
    <3>1. ASSUME NEW c \in Clients PROVE Cardinality(echo[c]) <= 1
      <4>1. echo[c] = {} \/ \E m \in Clients : echo[c] = {m}
        BY <2>1 DEF EchoesRight
      <4>2. Cardinality(echo[c]) = 0 \/ Cardinality(echo[c]) = 1
        BY <4>1, FS_EmptySet, FS_Singleton
      <4> QED
        BY <4>2
    <3> QED
      BY <2>1, <3>1 DEF UsersTyped, UdpClientTypeOK
  <2> QED
    BY <2>1, <2>2, <2>3 DEF TypeOK, NetTyped, AllGenuine, Genuine
<1> QED
  BY <1>1, Invariance, PTL

\* Whatever is lost, doubled or late, what a client takes for its echo was typed
\* into a client with its own address, until a child of the pool writes past its table.
THEOREM EchoesAreOfOwnAddress == Spec => []EchoOfOwnAddress
<1>1. IndInv => EchoOfOwnAddress
  BY DEF IndInv, EchoesRight, EchoOfOwnAddress
<1> QED
  BY <1>1, Invariance, PTL

\* Whatever is doubled and whoever else it has counted, a process answers a host
\* MAXTOKEN times at most: that of es2.2 unless its table was full before the host
\* came, a child of the pool until it writes past its table or overflows a count. The
\* plain echo has no limit.
THEOREM LimitHolds == Spec => []LimitPerProcess
<1>1. IndInv => LimitPerProcess
  <2> SUFFICES ASSUME IndInv, NEW j \in Children, NEW h \in Hosts, Given(j, h) <= MaxToken
               PROVE  answered[j][h] <= MaxToken
    BY DEF IndInv, Limited, LimitPerProcess
  <2>1. answered[j][h] \in Nat /\ (Given(j, h) = answered[j][h]
                                   \/ Given(j, h) = answered[j][h] + 1)
    BY Numbers DEF IndInv
  <2> QED
    BY <2>1, PoolAssumption
<1> QED
  BY <1>1, Invariance, PTL

-----------------------------------------------------------------------------
(* Nothing is amplified.  Each step is looked at for the copies it adds or *)
(* takes away.                                                             *)

LEMMA CopiesAre ==
  /\ \A x : x \in Copies <=> \E e \in DOMAIN net : \E i \in 1 .. net[e] : x = <<e, i>>
  /\ \A x : x \in Copies' <=> \E e \in DOMAIN net' : \E i \in 1 .. net'[e] : x = <<e, i>>
<1>1. \A e, S, x : x \in {e} \X S <=> \E i \in S : x = <<e, i>>
  OBVIOUS
<1>2. \A x : x \in Copies <=> \E e \in DOMAIN net : \E i \in 1 .. net[e] : x = <<e, i>>
  <2>1. \A x : x \in Copies <=> \E e \in DOMAIN net : x \in {e} \X (1 .. net[e])
    BY DEF Copies, BagToSet
  <2> QED
    BY <1>1, <2>1
<1>3. \A x : x \in Copies' <=> \E e \in DOMAIN net' : \E i \in 1 .. net'[e] : x = <<e, i>>
  <2>1. \A x : x \in Copies' <=> \E e \in DOMAIN net' : x \in {e} \X (1 .. net'[e])
    BY DEF Copies, BagToSet
  <2> QED
    BY <1>1, <2>1
<1> QED
  BY <1>2, <1>3

LEMMA CopyOf ==
  ASSUME NEW d, NEW i
  PROVE  <<d, i>> \in Copies <=> d \in BagToSet(net) /\ i \in 1 .. net[d]
<1>1. \A e, k : <<d, i>> = <<e, k>> <=> d = e /\ i = k
  OBVIOUS
<1> QED
  BY <1>1, CopiesAre, Zenon DEF BagToSet

\* A datagram more is a copy more.
LEMMA SentCopies ==
  ASSUME NetTyped, IsFiniteSet(Copies), NEW d, Send(d)
  PROVE  IsFiniteSet(Copies') /\ Cardinality(Copies') = Cardinality(Copies) + 1
<1> DEFINE n == IF d \in DOMAIN net THEN net[d] ELSE 0
           new == <<d, n + 1>>
<1>1. /\ DOMAIN net' = DOMAIN net \cup {d}
      /\ \A e \in DOMAIN net \cup {d} :
            net'[e] = (IF e \in DOMAIN net THEN net[e] ELSE 0) + (IF e \in {d} THEN 1 ELSE 0)
  BY DEF Send, SetToBag, (+)
<1>2. n \in Nat
  BY DEF NetTyped, BagToSet
<1>3. /\ net'[d] = n + 1
      /\ \A e \in DOMAIN net : e # d => net'[e] = net[e]
  <2>1. ASSUME NEW e \in DOMAIN net, e # d PROVE net'[e] = net[e]
    <3>1. net'[e] = net[e] + 0 /\ net[e] \in Nat
      BY <1>1, <2>1 DEF NetTyped, BagToSet
    <3> QED
      BY <3>1
  <2> QED
    BY <1>1, <2>1
<1>4. new \notin Copies
  <2>1. ~(d \in DOMAIN net /\ n + 1 \in 1 .. net[d])
    BY <1>2
  <2> QED
    BY <2>1, CopyOf DEF BagToSet
<1>5. Copies' = Copies \cup {new}
  <2>1. ASSUME NEW x \in Copies' PROVE x \in Copies \cup {new}
    <3>1. PICK e \in DOMAIN net' : \E i \in 1 .. net'[e] : x = <<e, i>>
      BY CopiesAre, Zenon
    <3>i. PICK i \in 1 .. net'[e] : x = <<e, i>>
      BY <3>1
    <3>2. CASE e = d
      <4>1. i \in 1 .. n \/ i = n + 1
        BY <1>2, <1>3, <3>2
      <4>2. i \in 1 .. n => d \in DOMAIN net /\ n = net[d]
        OBVIOUS
      <4> QED
        BY <3>1, <3>i, <3>2, <4>1, <4>2, CopyOf, Zenon DEF BagToSet
    <3>3. CASE e # d
      <4>1. e \in DOMAIN net /\ i \in 1 .. net[e]
        BY <1>1, <1>3, <3>3
      <4> QED
        BY <3>1, <3>i, <4>1, CopyOf, Zenon DEF BagToSet
    <3> QED
      BY <3>2, <3>3
  <2>2. ASSUME NEW x \in Copies PROVE x \in Copies'
    <3>1. PICK e \in DOMAIN net : \E i \in 1 .. net[e] : x = <<e, i>>
      BY CopiesAre, Zenon
    <3>i. PICK i \in 1 .. net[e] : x = <<e, i>>
      BY <3>1
    <3>2. e \in DOMAIN net' /\ i \in 1 .. net'[e]
      <4>1. e # d => net'[e] = net[e]
        BY <1>3
      <4>2. e = d => net'[e] = net[e] + 1 /\ net[e] \in Nat
        BY <1>2, <1>3
      <4> QED
        BY <1>1, <4>1, <4>2
    <3> QED
      BY <3>1, <3>i, <3>2, CopiesAre, Zenon
  <2>3. new \in Copies'
    <3>1. d \in DOMAIN net' /\ n + 1 \in 1 .. net'[d]
      BY <1>1, <1>2, <1>3
    <3> QED
      BY <3>1, CopiesAre, Zenon
  <2> QED
    BY <2>1, <2>2, <2>3, Zenon
<1> HIDE DEF new
<1> QED
  BY <1>4, <1>5, FS_AddElement

\* A datagram that is taken was a copy.
LEMMA TakenCopies ==
  ASSUME NetTyped, IsFiniteSet(Copies), NEW d, Take(d)
  PROVE  IsFiniteSet(Copies') /\ Cardinality(Copies') = Cardinality(Copies) - 1
<1> DEFINE left == [e \in DOMAIN net |-> IF e \in {d} THEN net[e] - 1 ELSE net[e]]
           last == <<d, net[d]>>
<1>1. d \in DOMAIN net /\ net' = net (-) [e \in {d} |-> 1]
  BY DEF Take, BagIn, BagToSet, SetToBag
<1>2. net' = [e \in {x \in DOMAIN left : left[x] > 0} |-> left[e]]
  BY <1>1 DEF (-)
<1>3. \A e \in DOMAIN net : net[e] \in Nat \ {0}
  BY DEF NetTyped, BagToSet
<1>4. ASSUME NEW e, e # d
      PROVE  /\ e \in DOMAIN net' <=> e \in DOMAIN net
             /\ e \in DOMAIN net => net'[e] = net[e]
  <2>1. e \in DOMAIN net => left[e] = net[e] /\ left[e] > 0
    BY <1>3, <1>4
  <2>2. DOMAIN left = DOMAIN net
    OBVIOUS
  <2> HIDE DEF left
  <2> QED
    BY <1>2, <2>1, <2>2
<1>5. \A i : (d \in DOMAIN net' /\ i \in 1 .. net'[d]) <=> i \in 1 .. net[d] - 1
  <2>1. left[d] = net[d] - 1 /\ DOMAIN left = DOMAIN net /\ net[d] \in Nat \ {0}
    BY <1>1, <1>3
  <2> HIDE DEF left
  <2>2. d \in DOMAIN net' <=> net[d] - 1 > 0
    BY <1>1, <1>2, <2>1
  <2>3. d \in DOMAIN net' => net'[d] = net[d] - 1
    BY <1>2, <2>1
  <2> QED
    BY <2>1, <2>2, <2>3
<1>6. last \in Copies
  <2>1. net[d] \in 1 .. net[d]
    BY <1>1, <1>3
  <2> QED
    BY <1>1, <2>1, CopyOf, Zenon DEF BagToSet
<1>7. Copies' = Copies \ {last}
  <2>1. ASSUME NEW x \in Copies' PROVE x \in Copies \ {last}
    <3>1. PICK e \in DOMAIN net' : \E i \in 1 .. net'[e] : x = <<e, i>>
      BY CopiesAre, Zenon
    <3>i. PICK i \in 1 .. net'[e] : x = <<e, i>>
      BY <3>1
    <3>2. CASE e = d
      <4>1. i \in 1 .. net[d] - 1
        BY <1>5, <3>1, <3>i, <3>2
      <4>2. i \in 1 .. net[d] /\ i # net[d]
        BY <1>1, <1>3, <4>1
      <4> QED
        BY <1>1, <3>1, <3>i, <3>2, <4>2, CopyOf DEF BagToSet
    <3>3. CASE e # d
      <4>1. e \in DOMAIN net /\ i \in 1 .. net[e] /\ x # last
        BY <1>4, <3>1, <3>i, <3>3
      <4> QED
        BY <3>1, <3>i, <4>1, CopyOf, Zenon DEF BagToSet
    <3> QED
      BY <3>2, <3>3
  <2>2. ASSUME NEW x \in Copies, x # last PROVE x \in Copies'
    <3>1. PICK e \in DOMAIN net : \E i \in 1 .. net[e] : x = <<e, i>>
      BY CopiesAre, Zenon
    <3>i. PICK i \in 1 .. net[e] : x = <<e, i>>
      BY <3>1
    <3>2. e \in DOMAIN net' /\ i \in 1 .. net'[e]
      <4>1. CASE e = d
        <5>1. i # net[d] /\ net[d] \in Nat \ {0}
          BY <1>3, <2>2, <3>1, <3>i, <4>1
        <5>2. i \in 1 .. net[d] - 1
          BY <3>1, <3>i, <4>1, <5>1
        <5> QED
          BY <1>5, <4>1, <5>2, Zenon
      <4>2. CASE e # d
        BY <1>4, <4>2
      <4> QED
        BY <4>1, <4>2
    <3> QED
      BY <3>1, <3>i, <3>2, CopiesAre, Zenon
  <2> QED
    BY <2>1, <2>2, Zenon
<1> HIDE DEF last
<1> QED
  BY <1>6, <1>7, FS_RemoveElement

\* The set of the children that are about to answer, when child j begins or ends.
LEMMA AnsweringChange ==
  ASSUME kPc \in [Children -> {"none", "receive", "answer", "dead"}],
         NEW j \in Children, NEW pc, kPc' = [kPc EXCEPT ![j] = pc]
  PROVE  /\ IsFiniteSet(Answering) /\ Cardinality(Answering) \in Nat
         /\ pc = "answer" => Cardinality(Answering') <= Cardinality(Answering) + 1
         /\ pc # "answer" => Cardinality(Answering') <= Cardinality(Answering)
         /\ pc # "answer" /\ kPc[j] = "answer" =>
               Cardinality(Answering') = Cardinality(Answering) - 1
<1>1. IsFiniteSet(Children)
  BY PoolAssumption, FS_Interval DEF Children
<1>2. IsFiniteSet(Answering)
  BY <1>1, FS_Subset DEF Answering
<1>3. Cardinality(Answering) \in Nat
  BY <1>2, FS_CardinalityType
<1>4. pc = "answer" => Answering' = Answering \cup {j}
  BY DEF Answering
<1>5. pc # "answer" => Answering' = Answering \ {j}
  BY DEF Answering
<1>6. j \in Answering <=> kPc[j] = "answer"
  BY DEF Answering
<1>7. pc = "answer" => Cardinality(Answering') <= Cardinality(Answering) + 1
  BY <1>2, <1>3, <1>4, FS_AddElement
<1>8. pc # "answer" => Cardinality(Answering') =
         IF j \in Answering THEN Cardinality(Answering) - 1 ELSE Cardinality(Answering)
  BY <1>2, <1>5, FS_RemoveElement
<1> QED
  BY <1>2, <1>3, <1>6, <1>7, <1>8

\* What is counted, and that the count is in order.
Balanced == IsFiniteSet(Copies) /\ NoAmplification

LEMMA BalanceCounts ==
  ASSUME IndInv, Balanced
  PROVE  /\ Cardinality(Copies) \in Nat /\ IsFiniteSet(Answering) /\ Cardinality(Answering) \in Nat
         /\ IsFiniteSet(Senders) /\ Cardinality(Senders) \in Nat /\ dups \in Nat
         /\ Cardinality(Copies) + Cardinality(Answering) <= Cardinality(Senders) + dups
<1>1. IsFiniteSet(Answering) /\ IsFiniteSet(Senders)
  <2>1. IsFiniteSet(Children) /\ IsFiniteSet(Clients)
    BY NetworkAssumption, PoolAssumption, FS_Interval DEF Children
  <2> QED
    BY <2>1, FS_Subset DEF Answering, Senders
<1>2. dups \in Nat
  BY NetworkAssumption DEF IndInv, NetTyped
<1> QED
  BY <1>1, <1>2, FS_CardinalityType DEF Balanced, NoAmplification

\* The copies stay, or one goes.
LEMMA FewerCopies ==
  ASSUME IndInv, Balanced, UNCHANGED net \/ \E d : Take(d)
  PROVE  /\ IsFiniteSet(Copies') /\ Cardinality(Copies') \in Nat
         /\ Cardinality(Copies') <= Cardinality(Copies)
         /\ (\E d : Take(d)) => Cardinality(Copies') + 1 = Cardinality(Copies)
<1>1. NetTyped /\ IsFiniteSet(Copies) /\ Cardinality(Copies) \in Nat
  BY BalanceCounts DEF IndInv, Balanced
<1>2. CASE \E d : Take(d)
  <2>1. IsFiniteSet(Copies') /\ Cardinality(Copies') = Cardinality(Copies) - 1
    BY <1>1, <1>2, TakenCopies
  <2>2. Cardinality(Copies') \in Nat
    BY <2>1, FS_CardinalityType
  <2> QED
    BY <1>1, <2>1, <2>2
<1>3. CASE UNCHANGED net /\ ~\E d : Take(d)
  <2>1. Copies' = Copies
    BY <1>3 DEF Copies
  <2> QED
    BY <1>1, <1>3, <2>1
<1> QED
  BY <1>2, <1>3

LEMMA BalanceStep == ASSUME IndInv, Balanced, [Next]_vars PROVE Balanced'
<1>0. /\ Cardinality(Copies) \in Nat /\ IsFiniteSet(Copies)
      /\ IsFiniteSet(Answering) /\ Cardinality(Answering) \in Nat
      /\ IsFiniteSet(Senders) /\ Cardinality(Senders) \in Nat /\ dups \in Nat
      /\ Cardinality(Copies) + Cardinality(Answering) <= Cardinality(Senders) + dups
      /\ NetTyped /\ kPc \in [Children -> {"none", "receive", "answer", "dead"}]
      /\ uPc \in [Clients -> {"typing", "waiting", "ended"}]
  BY BalanceCounts DEF IndInv, Balanced, PoolTyped, UsersTyped
<1>n. ASSUME NEW a \in Nat, NEW s \in Nat, NEW u \in Nat, IsFiniteSet(Copies'),
             Cardinality(Answering') <= a, Cardinality(Answering') \in Nat,
             Cardinality(Senders') = s, dups' = u,
             Cardinality(Copies') \in Nat, Cardinality(Copies') + a <= s + u
      PROVE  Balanced'
  BY <1>n DEF Balanced, NoAmplification
<1>a. Cardinality(Answering') \in Nat
  <2>1. IsFiniteSet(Children) /\ Answering' \subseteq Children
    BY PoolAssumption, FS_Interval DEF Children, Answering
  <2> QED
    BY <2>1, FS_Subset, FS_CardinalityType
<1>k. /\ kPc' = kPc => Answering' = Answering
      /\ (\A c \in Clients : uPc'[c] \in Sending <=> uPc[c] \in Sending) => Senders' = Senders
  BY DEF Answering, Senders
<1>1. CASE Network
  <2>1. PICK d \in BagToSet(net) : Lose(d) \/ Double(d)
    BY <1>1 DEF Network
  <2>2. Answering' = Answering /\ Senders' = Senders
    BY <1>1, <1>k DEF Network, poolVars, udpClientVars
  <2>3. CASE Lose(d)
    <3>1. Take(d) /\ dups' = dups
      BY <2>3 DEF Lose
    <3>2. /\ IsFiniteSet(Copies') /\ Cardinality(Copies') \in Nat
          /\ Cardinality(Copies') <= Cardinality(Copies)
      BY <3>1, FewerCopies
    <3> QED
      BY <1>0, <1>n, <2>2, <3>1, <3>2
  <2>4. CASE Double(d)
    <3>1. Send(d) /\ dups' = dups + 1
      BY <2>4 DEF Double
    <3>2. IsFiniteSet(Copies') /\ Cardinality(Copies') = Cardinality(Copies) + 1
      BY <1>0, <3>1, SentCopies
    <3> QED
      BY <1>0, <1>n, <2>2, <3>1, <3>2
  <2> QED
    BY <2>1, <2>3, <2>4
<1>2. ASSUME NEW j \in Children,
             ForkChild(j) \/ Serve(j) \/ RecvfromFails(j) \/ ChildDies(j),
             UNCHANGED udpClientVars
      PROVE  Balanced'
  <2>1. Senders' = Senders
    BY <1>2, <1>k DEF udpClientVars
  <2>2. CASE ForkChild(j) \/ ChildDies(j)
    <3>1. \E pc \in {"receive", "dead"} : kPc' = [kPc EXCEPT ![j] = pc]
      BY <2>2 DEF ForkChild, ChildDies
    <3>2. UNCHANGED <<net, dups>>
      BY <2>2 DEF ForkChild, ChildDies, netVars
    <3>3. Cardinality(Answering') <= Cardinality(Answering)
      BY <1>0, <3>1, AnsweringChange
    <3>4. /\ IsFiniteSet(Copies') /\ Cardinality(Copies') \in Nat
          /\ Cardinality(Copies') <= Cardinality(Copies)
      BY <3>2, FewerCopies
    <3> QED
      BY <1>0, <1>a, <1>n, <2>1, <3>2, <3>3, <3>4
  <2>3. ASSUME NEW d \in BagToSet(net), Receive(j, d) \/ ReceiveWild(j, d) \/ ReceiveNameless(j, d)
        PROVE  Balanced'
    <3>1. Take(d) /\ dups' = dups
      BY <2>3 DEF Receive, ReceiveWild, ReceiveNameless
    <3>2. kPc' = kPc \/ kPc' = [kPc EXCEPT ![j] = "answer"]
      BY <2>3 DEF Receive, ReceiveWild, ReceiveNameless, poolVars
    <3>3. Cardinality(Answering') <= Cardinality(Answering) + 1
      <4>1. CASE kPc' = kPc
        BY <1>0, <1>k, <4>1
      <4>2. CASE kPc' = [kPc EXCEPT ![j] = "answer"]
        BY <1>0, <4>2, AnsweringChange
      <4> QED
        BY <3>2, <4>1, <4>2
    <3>4. /\ IsFiniteSet(Copies') /\ Cardinality(Copies') \in Nat
          /\ Cardinality(Copies') + 1 = Cardinality(Copies)
      BY <3>1, FewerCopies
    <3> QED
      BY <1>0, <1>a, <1>n, <2>1, <3>1, <3>3, <3>4
  <2>4. CASE Answer(j)
    <3>1. /\ kPc[j] = "answer" /\ kPc' = [kPc EXCEPT ![j] = "receive"] /\ dups' = dups
          /\ net' = net \/ \E d : Send(d)
      BY <2>4 DEF Answer
    <3>2. Cardinality(Answering') = Cardinality(Answering) - 1
      <4>1. kPc \in [Children -> {"none", "receive", "answer", "dead"}]
        BY <1>0
      <4>2. kPc[j] = "answer" /\ kPc' = [kPc EXCEPT ![j] = "receive"] /\ "receive" # "answer"
        BY <3>1
      <4> QED
        BY <4>1, <4>2, AnsweringChange
    <3>3. /\ IsFiniteSet(Copies') /\ Cardinality(Copies') \in Nat
          /\ Cardinality(Copies') <= Cardinality(Copies) + 1
      <4>1. CASE net' = net
        BY <1>0, <4>1, FewerCopies
      <4>2. CASE \E d : Send(d)
        BY <1>0, <4>2, SentCopies
      <4> QED
        BY <3>1, <4>1, <4>2
    <3> QED
      BY <1>0, <1>a, <1>n, <2>1, <3>1, <3>2, <3>3
  <2>5. CASE RecvfromFails(j)
    <3>1. net' = net /\ dups' = dups /\ kPc' = kPc
      BY <2>5 DEF RecvfromFails, netVars
    <3>2. /\ IsFiniteSet(Copies') /\ Cardinality(Copies') \in Nat
          /\ Cardinality(Copies') <= Cardinality(Copies)
      BY <3>1, FewerCopies
    <3> QED
      BY <1>0, <1>k, <1>n, <2>1, <3>1, <3>2
  <2> QED
    BY <1>2, <2>2, <2>3, <2>4, <2>5 DEF Serve
<1>3. ASSUME NEW c \in Clients, UNCHANGED poolVars,
             \/ \E a \in Ports[c] : SendMessage(c, a)
             \/ ReceiveFails(c)
             \/ Proceed(c)
      PROVE  Balanced'
  <2>1. Answering' = Answering
    BY <1>3, <1>k DEF poolVars
  <2>2. ASSUME NEW a \in Ports[c], SendMessage(c, a) PROVE Balanced'
    <3>1. /\ uPc[c] = "typing" /\ uPc' = [uPc EXCEPT ![c] = "waiting"]
          /\ Send(Request(c, a)) /\ dups' = dups
      BY <2>2 DEF SendMessage
    <3>2. Senders' = Senders \cup {c} /\ c \notin Senders
      BY <1>0, <3>1 DEF Senders, Sending
    <3>3. Cardinality(Senders') = Cardinality(Senders) + 1
      BY <1>0, <3>2, FS_AddElement
    <3>4. IsFiniteSet(Copies') /\ Cardinality(Copies') = Cardinality(Copies) + 1
      BY <1>0, <3>1, SentCopies
    <3> QED
      BY <1>0, <1>n, <2>1, <3>1, <3>3, <3>4
  <2>3. ASSUME ReceiveFails(c) \/ Proceed(c) PROVE Balanced'
    <3>1. /\ dups' = dups /\ (net' = net \/ \E d : Take(d))
          /\ uPc' = uPc \/ (uPc[c] = "waiting" /\ uPc' = [uPc EXCEPT ![c] = "ended"])
      BY <2>3 DEF ReceiveFails, Proceed, TryReceives, TryExpires, Finish, Waits, netVars
    <3>2. Senders' = Senders
      BY <1>0, <3>1 DEF Senders, Sending
    <3>3. /\ IsFiniteSet(Copies') /\ Cardinality(Copies') \in Nat
          /\ Cardinality(Copies') <= Cardinality(Copies)
      BY <3>1, FewerCopies
    <3> QED
      BY <1>0, <1>n, <2>1, <3>1, <3>2, <3>3
  <2> QED
    BY <1>3, <2>2, <2>3
<1>4. CASE UNCHANGED vars
  <2>1. net' = net /\ dups' = dups /\ kPc' = kPc /\ uPc' = uPc
    BY <1>4 DEF vars, netVars, poolVars, udpClientVars
  <2>2. Copies' = Copies /\ Answering' = Answering /\ Senders' = Senders
    BY <2>1 DEF Copies, Answering, Senders
  <2> QED
    BY <2>1, <2>2 DEF Balanced, NoAmplification
<1> QED
  BY <1>1, <1>2, <1>3, <1>4 DEF Next, PoolStep, PoolNext, ClientStep, UdpClientNext

LEMMA InitBalanced == Init => Balanced
<1> SUFFICES ASSUME Init PROVE Balanced
  OBVIOUS
<1>1. BagToSet(net) = {} /\ dups = 0
  BY DEF Init, NetInit, EmptyBag, SetToBag, BagToSet
<1>2. Copies = {} /\ Answering = {} /\ Senders = {}
  BY <1>1 DEF Copies, Answering, Senders, Sending, Init, PoolInit, UdpClientInit
<1>3. Cardinality({}) = 0 /\ IsFiniteSet({})
  BY FS_EmptySet
<1> QED
  BY <1>1, <1>2, <1>3 DEF Balanced, NoAmplification

\* However many children share the socket, no more datagrams are under way, or about to
\* be, than the clients sent and the network doubled (03 server.c:170-198).
THEOREM NothingIsAmplified == Spec => []NoAmplification
<1>1. IndInv /\ Balanced /\ [Next]_vars => Balanced'
  BY BalanceStep
<1>2. Balanced => NoAmplification
  BY DEF Balanced
<1> QED
  BY InitBalanced, Invariance, <1>1, <1>2, PTL DEF Spec
=============================================================================
