----------------------------- MODULE XdrSession -----------------------------
(***************************************************************************)
(* One XDR session: ftp_sender_xdr() in the server's child and             *)
(* ftp_receiver_xdr() at the two ends of a connection.                     *)
(***************************************************************************)
EXTENDS XdrServer, XdrClient

vars == <<channelVars, xdrServerVars, xdrClientVars>>

Init == ChannelInit /\ ServerInit /\ ClientInit

Terminated ==
    /\ yPc = "ended" /\ xPc \in {"ended", "killed"}
    /\ UNCHANGED vars

ServerStep == ServerNext /\ UNCHANGED xdrClientVars
ClientStep == ClientNext /\ UNCHANGED xdrServerVars

Next == ServerStep \/ ClientStep \/ Terminated

\* Both processes are scheduled; the user need not type anything.
Fairness ==
    /\ WF_vars(ServerRuns /\ UNCHANGED xdrClientVars)
    /\ WF_vars(Receive /\ UNCHANGED xdrServerVars)

Spec == Init /\ [][Next]_vars /\ Fairness

-----------------------------------------------------------------------------
(* Properties.                                                             *)

TypeOK ==
    /\ ServerTypeOK
    /\ ClientTypeOK
    /\ \A i \in DOMAIN c2s : c2s[i] \in Commands
    /\ cEnd \in {"open", "closed"}
    /\ sEnd \in {"open", "closed"}

\* Each side makes a new stream for every message (server.c:102, client.c:112),
\* and a stream reads ahead: that loses nothing as long as no message comes
\* behind the one that is being read, and no response before it is asked for.
NothingReadAhead ==
    /\ Len(c2s) <= 1
    /\ s2c # <<>> => yPc # "keyboard"
    /\ Complete /\ yPc # "ended" => Len(s2c) = IF Head(s2c) = Ok THEN 2 + s2c[2][2] ELSE 1

Prefix(f, n) == [i \in 1 .. n |-> Byte(f, i)]

\* n bytes, of which the file had only k when they were read.
Padded(f, k, n) ==
    [i \in 1 .. n |-> IF i <= k THEN Byte(f, i) ELSE IF k = 0 THEN Junk ELSE Byte(f, k)]

Copies(f) ==
    IF f \in Shrinking
    THEN {Download(Padded(f, k, n)) : k, n \in 0 .. MaxSize}
    ELSE {Download(Prefix(f, n)) : n \in FileSize[f] .. MaxSize}

\* What may come of the n-th request: all the bytes that the file had, or an
\* error.  A file that is not there ends the service (server.c:177-190).
Answer(fs, n) ==
    IF Kind[fs[n]] # "regular" \/ \E i \in 1 .. n - 1 : Kind[fs[i]] = "absent"
    THEN {Failure}
    ELSE Copies(fs[n])

Delivery ==
    INSTANCE FileDelivery
    WITH MaxRequests <- MaxGets,
         Refusal <- Failure,
         down <- xPc = "killed",
         over <- yPc = "ended"

\* Every request is answered in its turn, and neither the end of the service nor
\* the child's death in mid-response leaves part of a file behind (client.c:133).
InOrderDelivery == Delivery!Spec

\* Every GET is answered unless the user leaves first, though the client waits
\* without a timeout and the server may end, or be killed, in mid-response.
GetAnswered ==
    \A n \in 1 .. MaxGets : Len(asked) >= n ~> Len(results) >= n \/ yPc = "ended"

\* The child ends once its client is gone, also if that was in mid-response.
ServerEnds == yPc = "ended" ~> xPc \in {"ended", "killed"}
=============================================================================
