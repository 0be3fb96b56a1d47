----------------------------- MODULE XdrServer -----------------------------
(***************************************************************************)
(* The XDR file server's side of a session: ftp_sender_xdr() of            *)
(* src/Libraries/XDR/XDR_FILE-SERVER_TCP_concorrente/server.c.  A response *)
(* with a file is its tag, its length and its bytes; the time of the last  *)
(* change goes with them.  Large ones leave the stream's buffer in parts.  *)
(***************************************************************************)
EXTENDS FtpChannel, Integers

CONSTANTS
    Kind,         \* Kind[f]: "absent", "locked" (fopen "r" fails) or "regular"
    FileSize,     \* FileSize[f]: bytes of f when the session starts
    MaxSize,      \* bound: no file becomes longer
    Shrinking     \* the files that another process may also truncate

ASSUME XdrFilesAssumption ==
    /\ Files # {}
    /\ Kind \in [Files -> {"absent", "locked", "regular"}]
    /\ MaxSize \in Nat
    /\ FileSize \in [Files -> 0 .. MaxSize]
    /\ Shrinking \subseteq Files

VARIABLES
    size,    \* the present size of each file
    xPc,     \* the server's next step
    xFile,   \* the file asked for
    xSize,   \* fsize: what stat() said
    xOut     \* obuf while the file is read, then the response still to be sent

xdrServerVars == <<size, xPc, xFile, xSize, xOut>>

ServerTypeOK ==
    /\ size \in [Files -> 0 .. MaxSize]
    /\ xPc \in {"message", "open", "read", "respond", "leave", "ended", "killed"}
    /\ xFile \in Files
    /\ xSize \in 0 .. MaxSize
    /\ Len(xOut) <= IF xPc = "read" THEN xSize ELSE MaxSize + 2

ServerInit ==
    /\ size = FileSize
    /\ xPc = "message"
    /\ xFile = CHOOSE f \in Files : TRUE
    /\ xSize = 0
    /\ xOut = <<>>

-----------------------------------------------------------------------------
Send(tokens) == s2c' = IF cEnd = "closed" THEN s2c ELSE s2c \o tokens

\* The session is over: the child exits and its socket is closed.
Exit ==
    /\ xPc' = "ended"
    /\ sEnd' = "closed"

ReadGet ==
    /\ xPc = "message"
    /\ c2s # <<>> /\ Head(c2s)[1] = "GET"
    /\ c2s' = Tail(c2s)
    /\ xFile' = Head(c2s)[2]
    /\ xPc' = "open"
    /\ UNCHANGED <<s2c, cEnd, sEnd, size, xSize, xOut>>

\* QUIT.  The client never sends the tags of a response.
ReadQuit ==
    /\ xPc = "message"
    /\ c2s # <<>> /\ Head(c2s)[1] = "QUIT"
    /\ c2s' = Tail(c2s)
    /\ Exit
    /\ UNCHANGED <<s2c, cEnd, size, xFile, xSize, xOut>>

\* Mutant of ReadFails: what cannot be decoded is ignored.
ReadFailsAgain ==
    /\ xPc = "message"
    /\ ServerAtEof
    /\ UNCHANGED <<channelVars, xdrServerVars>>

\* No message can be decoded: the client is gone.
ReadFails ==
    /\ xPc = "message"
    /\ ServerAtEof
    /\ Exit
    /\ UNCHANGED <<c2s, s2c, cEnd, size, xFile, xSize, xOut>>

\* stat() and fopen() succeed.
OpenOk ==
    /\ xPc = "open"
    /\ Kind[xFile] = "regular"
    /\ xSize' = size[xFile]
    /\ xOut' = <<>>
    /\ xPc' = "read"
    /\ UNCHANGED <<channelVars, size, xFile>>

\* fopen() fails: ERR, and the session goes on.
OpenLocked ==
    /\ xPc = "open"
    /\ Kind[xFile] = "locked"
    /\ Send(<<Err>>)
    /\ xPc' = "message"
    /\ UNCHANGED <<c2s, cEnd, sEnd, size, xFile, xSize, xOut>>

\* Mutant of OpenAbsent: nothing is sent.
OpenAbsentSilent ==
    /\ xPc = "open"
    /\ Kind[xFile] = "absent"
    /\ xPc' = "message"
    /\ UNCHANGED <<channelVars, size, xFile, xSize, xOut>>

\* stat() fails: ERR, and the session is left.
OpenAbsent ==
    /\ xPc = "open"
    /\ Kind[xFile] = "absent"
    /\ Send(<<Err>>)
    /\ xPc' = "leave"
    /\ UNCHANGED <<c2s, cEnd, sEnd, size, xFile, xSize, xOut>>

Leave ==
    /\ xPc = "leave"
    /\ Exit
    /\ UNCHANGED <<c2s, s2c, cEnd, size, xFile, xSize, xOut>>

\* Where the file now ends before the byte to be read, or ended before (a stream
\* at its end stays there), fread() leaves c as it was: the byte read last, or
\* whatever c held.
Stale == Len(xOut) >= size[xFile] \/ (xOut # <<>> /\ xOut[Len(xOut)] # Byte(xFile, Len(xOut)))

NextByte ==
    IF ~Stale THEN Byte(xFile, Len(xOut) + 1)
    ELSE IF xOut = <<>> THEN Junk ELSE xOut[Len(xOut)]

\* Mutant of ReadByte: i <= fsize.
ReadByteOneMore ==
    /\ xPc = "read"
    /\ Len(xOut) <= xSize
    /\ xOut' = Append(xOut, NextByte)
    /\ UNCHANGED <<channelVars, size, xPc, xFile, xSize>>

\* One turn of the loop.
ReadByte ==
    /\ xPc = "read"
    /\ Len(xOut) < xSize
    /\ xOut' = Append(xOut, NextByte)
    /\ UNCHANGED <<channelVars, size, xPc, xFile, xSize>>

ReadDone ==
    /\ xPc = "read"
    /\ Len(xOut) = xSize
    /\ xOut' = <<Ok, Size(xSize)>> \o xOut
    /\ xPc' = "respond"
    /\ UNCHANGED <<channelVars, size, xFile, xSize>>

\* Some of the response leaves the buffer, the rest at the latest by fflush().
Flush ==
    /\ xPc = "respond"
    /\ \E n \in 1 .. Len(xOut) :
          /\ Send(SubSeq(xOut, 1, n))
          /\ xOut' = SubSeq(xOut, n + 1, Len(xOut))
    /\ xPc' = IF xOut' = <<>> THEN "message" ELSE "respond"
    /\ UNCHANGED <<c2s, cEnd, sEnd, size, xFile, xSize>>

\* The client is gone: SIGPIPE is caught, xdr_message() fails and exit(1) follows.
FlushFails ==
    /\ xPc = "respond"
    /\ cEnd = "closed"
    /\ Exit
    /\ UNCHANGED <<c2s, s2c, cEnd, size, xFile, xSize, xOut>>

ServerRuns ==
    \/ ReadGet \/ ReadQuit \/ ReadFails
    \/ OpenOk \/ OpenLocked \/ OpenAbsent \/ Leave
    \/ ReadByte \/ ReadDone \/ Flush \/ FlushFails

\* The child is killed; the kernel closes its socket.
ServerDies ==
    /\ xPc \notin {"ended", "killed"}
    /\ xPc' = "killed"
    /\ sEnd' = "closed"
    /\ UNCHANGED <<c2s, s2c, cEnd, size, xFile, xSize, xOut>>

\* Another process appends to a file, or truncates it.
Resize(f) ==
    /\ Kind[f] = "regular"
    /\ \/ size[f] < MaxSize /\ size' = [size EXCEPT ![f] = @ + 1]
       \/ f \in Shrinking /\ \E n \in 0 .. size[f] - 1 : size' = [size EXCEPT ![f] = n]
    /\ UNCHANGED <<channelVars, xPc, xFile, xSize, xOut>>

ServerNext ==
    \/ ServerRuns
    \/ ServerDies
    \/ \E f \in Files : Resize(f)
=============================================================================
