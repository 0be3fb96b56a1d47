----------------------------- MODULE FtpSender -----------------------------
(***************************************************************************)
(* The server's side of a session: ftp_sender() and file_socket_send() of  *)
(* src/Libraries/librerie/ftp.c, run by the child a server forks for the   *)
(* connection.                                                             *)
(***************************************************************************)
EXTENDS FtpChannel, Integers

CONSTANTS
    Kind,         \* Kind[f]: "absent", "locked" (fopen "r+" fails) or "regular"
    FileSize,     \* FileSize[f]: bytes of f when the session starts
    MinSize,      \* bounds: another process leaves a file no shorter and
    MaxSize,      \* no longer than this
    SizeChange,   \* what another process may add to a file's size at any time
    Chunk,        \* CHUNK
    ServerMayDie  \* may the child be killed?

ASSUME FilesAssumption ==
    /\ Files # {}
    /\ Kind \in [Files -> {"absent", "locked", "regular"}]
    /\ MinSize \in Nat /\ MaxSize \in Nat
    /\ FileSize \in [Files -> 0 .. MaxSize]
    /\ SizeChange \subseteq Int
ASSUME ChunkAssumption == Chunk \in Nat \ {0}
ASSUME ServerMayDieAssumption == ServerMayDie \in BOOLEAN

VARIABLES
    size,      \* the present size of each file
    sPc,       \* the server's next step
    sFile,     \* the file asked for
    sLeft,     \* file_size of file_socket_send: bytes announced and not sent
    sPos,      \* the position of its stream
    sigpipe    \* the global sigpipe

serverVars == <<size, sPc, sFile, sLeft, sPos, sigpipe>>

ServerTypeOK ==
    /\ size \in [Files -> 0 .. MaxSize]
    /\ sPc \in {"command", "open", "header", "chunk", "ended"}
    /\ sFile \in Files
    /\ sLeft \in 0 .. MaxSize
    /\ sPos \in 0 .. MaxSize
    /\ sigpipe \in BOOLEAN

ServerInit ==
    /\ size = FileSize
    /\ sPc = "command"
    /\ sFile = CHOOSE f \in Files : TRUE
    /\ sLeft = 0
    /\ sPos = 0
    /\ sigpipe = FALSE

-----------------------------------------------------------------------------
\* write().  Once the client has closed, the tokens are lost; the first write
\* only provokes a reset, a later one raises SIGPIPE and its handler runs.
Send(tokens) ==
    /\ s2c' = IF cEnd = "closed" THEN s2c ELSE s2c \o tokens
    /\ \/ sigpipe' = sigpipe
       \/ cEnd = "closed" /\ sigpipe' = TRUE

\* read_socket_message() returned a line that asks for a file.
ReadGet ==
    /\ sPc = "command"
    /\ c2s # <<>> /\ Head(c2s)[1] = "GET"
    /\ c2s' = Tail(c2s)
    /\ sFile' = Head(c2s)[2]
    /\ sPc' = "open"
    /\ UNCHANGED <<s2c, cEnd, sEnd, size, sLeft, sPos, sigpipe>>

\* Any other line, QUIT too: the test for QUIT asks for nread >= 4, and nread
\* is 0 from its initialisation on.
ReadOther ==
    /\ sPc = "command"
    /\ c2s # <<>> /\ Head(c2s)[1] # "GET"
    /\ c2s' = Tail(c2s)
    /\ Send(<<Err>>)
    /\ UNCHANGED <<cEnd, sEnd, size, sPc, sFile, sLeft, sPos>>

\* Mutant of ReadEof: a read that returns nothing is simply repeated.
ReadEofAgain ==
    /\ sPc = "command"
    /\ ServerAtEof
    /\ UNCHANGED <<channelVars, serverVars>>

\* Nothing to read: ftp_sender() returns 0 and the child exits.
ReadEof ==
    /\ sPc = "command"
    /\ ServerAtEof
    /\ sPc' = "ended"
    /\ sEnd' = "closed"
    /\ UNCHANGED <<c2s, s2c, cEnd, size, sFile, sLeft, sPos, sigpipe>>

\* stat() and fopen() succeed: +OK.  The size is the one stat() found.
OpenOk ==
    /\ sPc = "open"
    /\ Kind[sFile] = "regular"
    /\ Send(<<Ok>>)
    /\ sLeft' = size[sFile]
    /\ sPos' = 0
    /\ sPc' = "header"
    /\ UNCHANGED <<c2s, cEnd, sEnd, size, sFile>>

\* fopen() fails: file_socket_send() returns -1 and nobody answers the client.
OpenLocked ==
    /\ sPc = "open"
    /\ Kind[sFile] = "locked"
    /\ sPc' = "command"
    /\ UNCHANGED <<c2s, s2c, cEnd, sEnd, size, sFile, sLeft, sPos, sigpipe>>

\* Mutant of OpenAbsent: no answer for a file that is not there.
OpenAbsentSilent ==
    /\ sPc = "open"
    /\ Kind[sFile] = "absent"
    /\ sPc' = "command"
    /\ UNCHANGED <<c2s, s2c, cEnd, sEnd, size, sFile, sLeft, sPos, sigpipe>>

\* stat() fails: -ERR.
OpenAbsent ==
    /\ sPc = "open"
    /\ Kind[sFile] = "absent"
    /\ Send(<<Err>>)
    /\ sPc' = "command"
    /\ UNCHANGED <<c2s, cEnd, sEnd, size, sFile, sLeft, sPos>>

SendHeader ==
    /\ sPc = "header"
    /\ Send(<<Size(sLeft)>>)
    /\ sPc' = "chunk"
    /\ UNCHANGED <<c2s, cEnd, sEnd, size, sFile, sLeft, sPos>>

\* What fread() returns of the at most min(CHUNK, file_size) bytes asked for.
Available == IF size[sFile] > sPos THEN size[sFile] - sPos ELSE 0

\* Mutant of ChunkLength: the last block is not cut to the size announced.
ChunkLengthFull ==
    CHOOSE n \in {Chunk, Available} : \A k \in {Chunk, Available} : n <= k

ChunkLength ==
    CHOOSE n \in {Chunk, sLeft, Available} :
        \A k \in {Chunk, sLeft, Available} : n <= k

\* One turn of the loop, up to the test of sigpipe.
SendChunk ==
    /\ sPc = "chunk"
    /\ ChunkLength > 0
    /\ Send([i \in 1 .. ChunkLength |-> Byte(sFile, sPos + i)])
    /\ IF sigpipe'
       THEN sPc' = "command" /\ UNCHANGED <<sLeft, sPos>>
       ELSE /\ sLeft' = sLeft - ChunkLength
            /\ sPos' = sPos + ChunkLength
            /\ UNCHANGED sPc
    /\ UNCHANGED <<c2s, cEnd, sEnd, size, sFile>>

SendDone ==
    /\ sPc = "chunk"
    /\ ChunkLength = 0
    /\ sPc' = "command"
    /\ UNCHANGED <<c2s, s2c, cEnd, sEnd, size, sFile, sLeft, sPos, sigpipe>>

ServerRuns ==
    \/ ReadGet \/ ReadOther \/ ReadEof
    \/ OpenOk \/ OpenLocked \/ OpenAbsent
    \/ SendHeader \/ SendChunk \/ SendDone

\* The child is killed; the kernel closes its socket.
ServerDies ==
    /\ ServerMayDie
    /\ sPc # "ended"
    /\ sPc' = "ended"
    /\ sEnd' = "closed"
    /\ UNCHANGED <<c2s, s2c, cEnd, size, sFile, sLeft, sPos, sigpipe>>

\* Another process writes to or truncates a file.
Resize(f) ==
    /\ Kind[f] = "regular"
    /\ \E d \in SizeChange :
          /\ size[f] + d \in MinSize .. MaxSize
          /\ size' = [size EXCEPT ![f] = @ + d]
    /\ UNCHANGED <<channelVars, sPc, sFile, sLeft, sPos, sigpipe>>

ServerNext ==
    \/ ServerRuns
    \/ ServerDies
    \/ \E f \in Files : Resize(f)
=============================================================================
