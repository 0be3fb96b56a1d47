----------------------------- MODULE FtpSession -----------------------------
(***************************************************************************)
(* One session: ftp_sender() in the server's child and the interactive     *)
(* client at the two ends of a connection.                                 *)
(***************************************************************************)
EXTENDS FtpSender, MultiplexClient

vars == <<channelVars, serverVars, clientVars>>

Init == ChannelInit /\ ServerInit /\ ClientInit

Terminated ==
    /\ cPc = "ended" /\ sPc = "ended"
    /\ UNCHANGED vars

ServerStep == ServerNext /\ UNCHANGED clientVars
ClientStep == ClientNext /\ UNCHANGED serverVars

Next == ServerStep \/ ClientStep \/ Terminated

(***************************************************************************)
(* The kernel schedules both processes.  The server may live for ever.     *)
(* The client is not held to take a step that waits for the user: only     *)
(* when the socket is readable or the loop may be left does Select count.  *)
(***************************************************************************)
ClientMustMove == cPc = "select" => ClientReadable \/ stdinEof \/ (flagEnd /\ ~reading)

Fairness ==
    /\ WF_vars(ServerRuns /\ UNCHANGED clientVars)
    /\ WF_vars(ClientStep /\ ClientMustMove)

Spec == Init /\ [][Next]_vars /\ Fairness

-----------------------------------------------------------------------------
(* Properties.                                                             *)

TypeOK ==
    /\ ServerTypeOK
    /\ ClientTypeOK
    /\ \A i \in DOMAIN c2s : c2s[i] \in Commands
    /\ cEnd \in {"open", "shut", "closed"}
    /\ sEnd \in {"open", "closed"}

\* The first n bytes of a file.
Prefix(f, n) == [i \in 1 .. n |-> Byte(f, i)]

\* Two programs that share no framing but the announced size stay in step: the
\* next token to read is the one the client's state asks for, in the middle of
\* a file the very next byte (ftp.c:420, "counter that at the end of transfer
\* must be equal to size of the file").
StreamAligned ==
    s2c # <<>> /\ cPc # "ended" =>
        IF reading THEN \E f \in Files : Head(s2c) = Byte(f, Len(got) + 1)
        ELSE IF cPc = "header" THEN \E n \in 0 .. MaxSize : Head(s2c) = Size(n)
        ELSE Head(s2c) \in {Ok, Err}

\* What the client reports as "received and wrote file" (ftp.c:454) is a file's
\* bytes in their order from the first, nothing missing or foreign in between.
Intact ==
    \A i \in DOMAIN results :
        results[i].ok =>
            \E f \in Files : results[i].data = Prefix(f, Len(results[i].data))

\* What may come of the n-th request: an error, or all the bytes the file had at
\* first and no others than its own, with what has been added to it or without.
Answer(fs, n) ==
    IF Kind[fs[n]] = "regular"
    THEN {Download(Prefix(fs[n], k)) : k \in FileSize[fs[n]] .. MaxSize}
    ELSE {Failure}

Delivery ==
    INSTANCE FileDelivery
    WITH MaxRequests <- MaxGets,
         Refusal <- Failure,
         down <- FALSE,
         over <- cPc = "ended"

\* A command typed ahead is answered once and in its turn, whatever else is in
\* flight (ftp.c:211, ftp.c:377).
InOrderDelivery == Delivery!Spec

\* Every GET is answered, unless the client ends first.
GetAnswered ==
    \A n \in 1 .. MaxGets :
        Len(asked) >= n ~> Len(results) >= n \/ cPc = "ended"

\* After Q the client ends, whatever file is still being received (ftp.c:360).
QuitEnds == flagEnd ~> cPc = "ended"

\* The child ends once its client is gone, however it went: after Q, after A
\* in the middle of a file, or by an error.
ServerEnds == cPc = "ended" ~> sPc = "ended"

\* A server that is gone is noticed: the client does not wait for it for ever.
ServerGoneNoticed == sEnd = "closed" ~> cPc = "ended"
=============================================================================
