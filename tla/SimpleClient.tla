---------------------------- MODULE SimpleClient ----------------------------
(***************************************************************************)
(* The one-shot client, ftp_receiver() with file_socket_receive() of       *)
(* src/Libraries/librerie/ftp.c: one command, one answer awaited for at    *)
(* most TIMEOUT seconds, then the file in blocks.  Its loop never turns    *)
(* twice: every path returns.                                              *)
(*                                                                         *)
(* Its own sigpipe is left out: it can only be set by the one write(), to  *)
(* a server that is gone and sends nothing the flag could stop.            *)
(***************************************************************************)
EXTENDS FtpChannel, Integers

CONSTANTS
    Block,       \* CHUNK
    NoHeader     \* the size read from a header that never came

ASSUME BlockAssumption == Block \in Nat \ {0}
ASSUME NoHeaderAssumption == NoHeader \in Nat

VARIABLES
    rPc,      \* the client's next step
    rFile,    \* the file asked for
    rLeft,    \* file_size: bytes still to come
    rGot,     \* what the copy on disk holds
    rSaved,   \* has a copy been opened?
    rRet      \* the value returned

receiverVars == <<rPc, rFile, rLeft, rGot, rSaved, rRet>>

ReceiverTypeOK ==
    /\ rPc \in {"keyboard", "select", "reply", "header", "data", "ended"}
    /\ rFile \in Files
    /\ rLeft \in Nat
    /\ rSaved \in BOOLEAN
    /\ rRet \in {"none", "0", "-1"}

ReceiverInit ==
    /\ rPc = "keyboard"
    /\ rFile = CHOOSE f \in Files : TRUE
    /\ rLeft = 0
    /\ rGot = <<>>
    /\ rSaved = FALSE
    /\ rRet = "none"

\* The function returns, main() ends and the kernel closes the socket.
Return(ret) ==
    /\ rPc' = "ended"
    /\ rRet' = ret
    /\ cEnd' = "closed"

-----------------------------------------------------------------------------
\* GET: the result of write() is not looked at.
CommandGet(f) ==
    /\ rPc = "keyboard"
    /\ c2s' = IF sEnd = "open" THEN Append(c2s, <<"GET", f>>) ELSE c2s
    /\ rFile' = f
    /\ rPc' = "select"
    /\ UNCHANGED <<s2c, cEnd, sEnd, rLeft, rGot, rSaved, rRet>>

\* QUIT is not sent; an invalid command is reported.  Both return.
CommandQuit ==
    /\ rPc = "keyboard"
    /\ Return("0")
    /\ UNCHANGED <<c2s, s2c, sEnd, rFile, rLeft, rGot, rSaved>>

CommandInvalid ==
    /\ rPc = "keyboard"
    /\ Return("-1")
    /\ UNCHANGED <<c2s, s2c, sEnd, rFile, rLeft, rGot, rSaved>>

AnswerComes ==
    /\ rPc = "select"
    /\ ClientReadable
    /\ rPc' = "reply"
    /\ UNCHANGED <<channelVars, rFile, rLeft, rGot, rSaved, rRet>>

\* TIMEOUT seconds without an answer: an answer may be on its way.
TimeoutExpires ==
    /\ rPc = "select"
    /\ s2c = <<>> /\ sEnd = "open"
    /\ Return("-1")
    /\ UNCHANGED <<c2s, s2c, sEnd, rFile, rLeft, rGot, rSaved>>

AnswerOk ==
    /\ rPc = "reply"
    /\ s2c # <<>> /\ Head(s2c) = Ok
    /\ s2c' = Tail(s2c)
    /\ rPc' = "header"
    /\ UNCHANGED <<c2s, cEnd, sEnd, rFile, rLeft, rGot, rSaved, rRet>>

\* -ERR, or nothing because the server's end is closed.
AnswerNotOk ==
    /\ rPc = "reply"
    /\ \/ s2c # <<>> /\ Head(s2c) # Ok /\ s2c' = Tail(s2c)
       \/ s2c = <<>> /\ UNCHANGED s2c
    /\ Return("-1")
    /\ UNCHANGED <<c2s, sEnd, rFile, rLeft, rGot, rSaved>>

\* Size and time.  fopen() of the copy may fail.
ReceiveHeader ==
    /\ rPc = "header"
    /\ \/ s2c # <<>> /\ rLeft' = Head(s2c)[2] /\ s2c' = Tail(s2c)
       \/ s2c = <<>> /\ sEnd = "closed" /\ rLeft' = NoHeader /\ UNCHANGED s2c
    /\ \/ /\ rSaved' = TRUE
          /\ rPc' = "data"
          /\ UNCHANGED <<cEnd, rRet>>
       \/ Return("-1") /\ UNCHANGED rSaved
    /\ UNCHANGED <<c2s, sEnd, rFile, rGot>>

\* read() returns some of the bytes that are there, at most a block, and never
\* more than the file has left.
ReceiveBlock ==
    /\ rPc = "data"
    /\ \E n \in 1 .. Block :
          /\ n <= rLeft /\ n <= Len(s2c)
          /\ rGot' = rGot \o SubSeq(s2c, 1, n)
          /\ s2c' = SubSeq(s2c, n + 1, Len(s2c))
          /\ rLeft' = rLeft - n
    /\ UNCHANGED <<c2s, cEnd, sEnd, rPc, rFile, rSaved, rRet>>

\* Mutants of ReceiveEnds: only the end of the stream ends the loop; an empty
\* socket does.
ReceiveEndsAtEof ==
    /\ rPc = "data"
    /\ s2c = <<>> /\ sEnd = "closed"
    /\ Return("0")
    /\ UNCHANGED <<c2s, s2c, sEnd, rFile, rLeft, rGot, rSaved>>

ReceiveEndsOnShortBlock ==
    /\ rPc = "data"
    /\ rLeft = 0 \/ s2c = <<>>
    /\ Return("0")
    /\ UNCHANGED <<c2s, s2c, sEnd, rFile, rLeft, rGot, rSaved>>

\* read() returns 0: nothing left to ask for, or the end of the stream; or -1
\* on a reset connection.  The copy is closed and counts as received.
ReceiveEnds ==
    /\ rPc = "data"
    /\ rLeft = 0 \/ (s2c = <<>> /\ sEnd = "closed")
    /\ Return("0")
    /\ UNCHANGED <<c2s, s2c, sEnd, rFile, rLeft, rGot, rSaved>>

ReceiverNext ==
    \/ \E f \in Files : CommandGet(f)
    \/ CommandQuit \/ CommandInvalid
    \/ AnswerComes \/ TimeoutExpires \/ AnswerOk \/ AnswerNotOk
    \/ ReceiveHeader \/ ReceiveBlock \/ ReceiveEnds
=============================================================================
