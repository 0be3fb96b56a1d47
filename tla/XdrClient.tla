----------------------------- MODULE XdrClient -----------------------------
(***************************************************************************)
(* The XDR client, ftp_receiver_xdr() of                                   *)
(* src/Libraries/XDR/XDR_FILE-client_TCP_file_getaddrinfo/client.c: one    *)
(* request, then its response, until the user types QUIT.                  *)
(***************************************************************************)
EXTENDS FtpChannel

CONSTANT MaxGets    \* bound: requests in a session

ASSUME MaxGetsAssumption == MaxGets \in Nat

VARIABLES
    yPc,      \* "keyboard", "response" or "ended"
    asked,    \* history: the files asked for
    results   \* history: what came of each request

xdrClientVars == <<yPc, asked, results>>

Download(data) == [ok |-> TRUE, data |-> data]
Failure == [ok |-> FALSE, data |-> <<>>]

ClientTypeOK ==
    /\ yPc \in {"keyboard", "response", "ended"}
    /\ \A i \in DOMAIN asked : asked[i] \in Files
    /\ Len(asked) <= MaxGets /\ Len(results) <= Len(asked)

ClientInit ==
    /\ yPc = "keyboard"
    /\ asked = <<>>
    /\ results = <<>>

-----------------------------------------------------------------------------
\* What is written to a socket whose other end is closed is lost.
SendMessage(m) == c2s' = IF sEnd = "open" THEN Append(c2s, m) ELSE c2s

\* Mutant of Get: the response is left for later.
GetAhead(f) ==
    /\ yPc = "keyboard"
    /\ Len(asked) < MaxGets
    /\ SendMessage(<<"GET", f>>)
    /\ asked' = Append(asked, f)
    /\ UNCHANGED <<s2c, cEnd, sEnd, yPc, results>>

\* GET, also the one that is repeated when the input is at its end or a name is
\* missing.  An invalid command does nothing.
Get(f) ==
    /\ yPc = "keyboard"
    /\ Len(asked) < MaxGets
    /\ SendMessage(<<"GET", f>>)
    /\ asked' = Append(asked, f)
    /\ yPc' = "response"
    /\ UNCHANGED <<s2c, cEnd, sEnd, results>>

Quit ==
    /\ yPc = "keyboard"
    /\ SendMessage(<<"QUIT">>)
    /\ cEnd' = "closed"
    /\ yPc' = "ended"
    /\ UNCHANGED <<s2c, sEnd, asked, results>>

-----------------------------------------------------------------------------
\* A response that is complete, and so can be decoded.
Complete ==
    /\ s2c # <<>>
    /\ Head(s2c) = Ok => Len(s2c) >= 2 /\ Len(s2c) >= 2 + s2c[2][2]

\* Mutant of ReceiveFile: what has come is saved, complete or not.
ReceiveFilePart ==
    /\ yPc = "response"
    /\ s2c # <<>> /\ Head(s2c) = Ok
    /\ sEnd = "closed" \/ Complete
    /\ results' = Append(results, Download(SubSeq(s2c, 3, Len(s2c))))
    /\ s2c' = <<>>
    /\ yPc' = "keyboard"
    /\ UNCHANGED <<c2s, cEnd, sEnd, asked>>

\* OK: the file is written as a whole.  Whatever else the stream has read ahead
\* is lost with it, since every turn makes a new one.
ReceiveFile ==
    /\ yPc = "response"
    /\ Complete /\ Head(s2c) = Ok
    /\ results' = Append(results, Download(SubSeq(s2c, 3, 2 + s2c[2][2])))
    /\ s2c' = <<>>
    /\ yPc' = "keyboard"
    /\ UNCHANGED <<c2s, cEnd, sEnd, asked>>

\* The copy cannot be opened: exit(1).
ReceiveNoCopy ==
    /\ yPc = "response"
    /\ Complete /\ Head(s2c) = Ok
    /\ s2c' = <<>>
    /\ cEnd' = "closed"
    /\ yPc' = "ended"
    /\ UNCHANGED <<c2s, sEnd, asked, results>>

ReceiveErr ==
    /\ yPc = "response"
    /\ Complete /\ Head(s2c) = Err
    /\ results' = Append(results, Failure)
    /\ s2c' = <<>>
    /\ yPc' = "keyboard"
    /\ UNCHANGED <<c2s, cEnd, sEnd, asked>>

\* The stream ends before the response does: it cannot be decoded; go on.
ReceiveFails ==
    /\ yPc = "response"
    /\ ~Complete /\ sEnd = "closed"
    /\ results' = Append(results, Failure)
    /\ s2c' = <<>>
    /\ yPc' = "keyboard"
    /\ UNCHANGED <<c2s, cEnd, sEnd, asked>>

Receive == ReceiveFile \/ ReceiveNoCopy \/ ReceiveErr \/ ReceiveFails

\* The user kills the program.
ClientDies ==
    /\ yPc # "ended"
    /\ cEnd' = "closed"
    /\ yPc' = "ended"
    /\ UNCHANGED <<c2s, s2c, sEnd, asked, results>>

ClientNext ==
    \/ \E f \in Files : Get(f)
    \/ Quit \/ Receive \/ ClientDies
=============================================================================
