-------------------------- MODULE MultiplexClient --------------------------
(***************************************************************************)
(* The interactive client, ftp_receiver_multiplexing() of                  *)
(* src/Libraries/librerie/ftp.c: one select() over the connection and the  *)
(* keyboard, so that the user may type while a file is being received.     *)
(*                                                                         *)
(* The client's own sigpipe is left out: a write() that raises SIGPIPE     *)
(* fails, and Write ends the program before the flag is ever read.         *)
(***************************************************************************)
EXTENDS FtpChannel, Integers

CONSTANTS
    MaxGets,   \* bound: GET commands the user types
    MaxGot,    \* bound: bytes kept of a file that is being received
    Garbage    \* the size read from a header that never came

ASSUME ClientBoundsAssumption ==
    MaxGets \in Nat /\ MaxGot \in Nat /\ Garbage \in Nat

VARIABLES
    cPc,        \* the client's next step
    kbd,        \* did select() report the keyboard in this turn?
    reading,    \* flag_reading_file
    flagEnd,    \* flag_end
    noFile,     \* flag_no_file
    fileBytes,  \* file_bytes
    got,        \* what the last download opened holds; file_ptr is its length
                \* (until the byte that completes it)
    stdinEof,   \* the keyboard is at its end of file
    asked,      \* the files the user asked for, in order
    results,    \* what the user got: a finished download or an error, in order
    cRet        \* how the client ended

clientVars == <<cPc, kbd, reading, flagEnd, noFile, fileBytes, got, stdinEof,
                asked, results, cRet>>

Failure == [ok |-> FALSE, data |-> <<>>]
Download(data) == [ok |-> TRUE, data |-> data]

ClientTypeOK ==
    /\ cPc \in {"select", "reply", "header", "byte", "keyboard", "ended"}
    /\ kbd \in BOOLEAN /\ reading \in BOOLEAN
    /\ flagEnd \in BOOLEAN /\ noFile \in BOOLEAN /\ stdinEof \in BOOLEAN
    /\ fileBytes \in Nat
    /\ Len(got) <= MaxGot
    /\ asked \in Seq(Files) /\ Len(asked) <= MaxGets
    /\ \A i \in DOMAIN results : results[i].ok \in BOOLEAN
    /\ cRet \in {"none", "0", "-1", "exit", "crash"}

ClientInit ==
    /\ cPc = "select"
    /\ kbd = FALSE
    /\ reading = FALSE
    /\ flagEnd = FALSE
    /\ noFile = FALSE
    /\ fileBytes = 0
    /\ got = <<>>
    /\ stdinEof = FALSE
    /\ asked = <<>>
    /\ results = <<>>
    /\ cRet = "none"

-----------------------------------------------------------------------------
\* The function or the program ends; the kernel closes the socket.
End(ret) ==
    /\ cPc' = "ended"
    /\ cRet' = ret
    /\ cEnd' = "closed"

\* The keyboard's turn follows the socket's, if select() reported both.
AfterSocket == IF kbd THEN "keyboard" ELSE "select"

\* Top of the loop.
Leave ==
    /\ cPc = "select"
    /\ ~reading /\ flagEnd
    /\ End("0")
    /\ UNCHANGED <<c2s, s2c, sEnd, kbd, reading, flagEnd, noFile, fileBytes, got,
                   stdinEof, asked, results>>

\* Select().  The user may have typed a line; an end of file stays readable.
Select ==
    /\ cPc = "select"
    /\ reading \/ ~flagEnd
    /\ \E typed \in BOOLEAN :
          /\ stdinEof => typed
          /\ ClientReadable \/ typed
          /\ kbd' = typed
    /\ cPc' = IF ~ClientReadable THEN "keyboard"
              ELSE IF reading THEN "byte" ELSE "reply"
    /\ UNCHANGED <<channelVars, reading, flagEnd, noFile, fileBytes, got, stdinEof,
                   asked, results, cRet>>

\* Read() fails on a reset connection and ends the program.
ReadDies ==
    /\ cPc \in {"reply", "header", "byte"}
    /\ ClientAtReset
    /\ End("exit")
    /\ UNCHANGED <<c2s, s2c, sEnd, kbd, reading, flagEnd, noFile, fileBytes, got,
                   stdinEof, asked, results>>

ReplyOk ==
    /\ cPc = "reply"
    /\ s2c # <<>> /\ Head(s2c) = Ok
    /\ s2c' = Tail(s2c)
    /\ noFile' = FALSE
    /\ cPc' = "header"
    /\ UNCHANGED <<c2s, cEnd, sEnd, kbd, reading, flagEnd, fileBytes, got, stdinEof,
                   asked, results, cRet>>

ReplyErr ==
    /\ cPc = "reply"
    /\ s2c # <<>> /\ Head(s2c) = Err
    /\ s2c' = Tail(s2c)
    /\ noFile' = TRUE
    /\ results' = Append(results, Failure)
    /\ cPc' = AfterSocket
    /\ UNCHANGED <<c2s, cEnd, sEnd, kbd, reading, flagEnd, fileBytes, got, stdinEof,
                   asked, cRet>>

\* Mutant of ReplyUnknown: the client goes on after a protocol error.
ReplyUnknownIgnored ==
    /\ cPc = "reply"
    /\ \/ s2c # <<>> /\ Head(s2c) \notin {Ok, Err} /\ s2c' = Tail(s2c)
       \/ ClientAtEof /\ UNCHANGED s2c
    /\ noFile' = TRUE
    /\ cPc' = AfterSocket
    /\ UNCHANGED <<c2s, cEnd, sEnd, kbd, reading, flagEnd, fileBytes, got, stdinEof,
                   asked, results, cRet>>

\* Anything else, the end of the stream included, is a protocol error.
ReplyUnknown ==
    /\ cPc = "reply"
    /\ \/ s2c # <<>> /\ Head(s2c) \notin {Ok, Err} /\ s2c' = Tail(s2c)
       \/ ClientAtEof /\ UNCHANGED s2c
    /\ noFile' = TRUE
    /\ End("-1")
    /\ UNCHANGED <<c2s, sEnd, kbd, reading, flagEnd, fileBytes, got, stdinEof,
                   asked, results>>

\* Mutant of ReadHeader: file_ptr keeps counting from the last download.
ReadHeaderKeepsCount ==
    /\ cPc = "header"
    /\ \/ /\ s2c # <<>>
          /\ fileBytes' = IF Head(s2c)[1] = "size" THEN Head(s2c)[2] ELSE Garbage
          /\ s2c' = Tail(s2c)
       \/ ClientAtEof /\ fileBytes' = Garbage /\ UNCHANGED s2c
    /\ reading' = TRUE
    /\ cPc' = AfterSocket
    /\ UNCHANGED <<c2s, cEnd, sEnd, kbd, flagEnd, noFile, got, stdinEof, asked, results,
                   cRet>>

\* Size, time, and fopen() of the next download.  At the end of the stream the
\* size is whatever the buffer held: the error is only reported.
ReadHeader ==
    /\ cPc = "header"
    /\ \/ /\ s2c # <<>>
          /\ fileBytes' = IF Head(s2c)[1] = "size" THEN Head(s2c)[2] ELSE Garbage
          /\ s2c' = Tail(s2c)
       \/ ClientAtEof /\ fileBytes' = Garbage /\ UNCHANGED s2c
    /\ got' = <<>>
    /\ reading' = TRUE
    /\ cPc' = AfterSocket
    /\ UNCHANGED <<c2s, cEnd, sEnd, kbd, flagEnd, noFile, stdinEof, asked, results, cRet>>

\* fopen() of the next download fails and ends the program.
OpenDies ==
    /\ cPc = "header"
    /\ s2c # <<>> \/ ClientAtEof
    /\ s2c' = IF s2c = <<>> THEN s2c ELSE Tail(s2c)
    /\ End("exit")
    /\ UNCHANGED <<c2s, sEnd, kbd, reading, flagEnd, noFile, fileBytes, got, stdinEof,
                   asked, results>>

\* Mutant of ReadByte: flag_reading_file is not cleared after the last byte.
ReadByteKeepsReading ==
    /\ cPc = "byte"
    /\ s2c = <<>> => ClientAtEof
    /\ s2c' = IF s2c = <<>> THEN s2c ELSE Tail(s2c)
    /\ got' = IF Len(got) < MaxGot
              THEN Append(got, IF s2c = <<>> THEN Junk ELSE Head(s2c)) ELSE got
    /\ cPc' = AfterSocket
    /\ UNCHANGED <<c2s, cEnd, sEnd, kbd, reading, flagEnd, noFile, fileBytes, stdinEof,
                   asked, results, cRet>>

\* One byte, or nothing: the return value of Read() is not looked at, and the
\* byte written at the end of the stream is the one the variable held.
ReadByte ==
    /\ cPc = "byte"
    /\ \E b \in {IF s2c = <<>> THEN Junk ELSE Head(s2c)} :
          /\ s2c = <<>> => ClientAtEof
          /\ s2c' = IF s2c = <<>> THEN s2c ELSE Tail(s2c)
          /\ IF Len(got) + 1 = fileBytes
             THEN /\ results' = Append(results, Download(Append(got, b)))
                  /\ reading' = FALSE
                  /\ UNCHANGED got
             ELSE /\ got' = IF Len(got) < MaxGot THEN Append(got, b) ELSE got
                  /\ UNCHANGED <<reading, results>>
    /\ cPc' = AfterSocket
    /\ UNCHANGED <<c2s, cEnd, sEnd, kbd, flagEnd, noFile, fileBytes, stdinEof, asked, cRet>>

-----------------------------------------------------------------------------
(* The keyboard.                                                           *)

\* Write().  It succeeds while the server's end is open; once that is closed
\* the first one may still succeed, and its data is lost.
WriteCommand(command) ==
    /\ cEnd = "open"
    /\ c2s' = IF sEnd = "open" THEN Append(c2s, command) ELSE c2s

\* It fails after a shutdown, and may fail once the server's end is closed.
WriteFails == cEnd = "shut" \/ sEnd = "closed"

TypeGet(f) ==
    /\ cPc = "keyboard" /\ ~stdinEof
    /\ Len(asked) < MaxGets
    /\ WriteCommand(<<"GET", f>>)
    /\ asked' = Append(asked, f)
    /\ cPc' = "select"
    /\ UNCHANGED <<s2c, cEnd, sEnd, kbd, reading, flagEnd, noFile, fileBytes, got,
                   stdinEof, results, cRet>>

TypeQuit ==
    /\ cPc = "keyboard" /\ ~stdinEof
    /\ WriteCommand(<<"QUIT">>)
    /\ cEnd' = "shut"
    /\ flagEnd' = TRUE
    /\ cPc' = "select"
    /\ UNCHANGED <<s2c, sEnd, kbd, reading, noFile, fileBytes, got, stdinEof,
                   asked, results, cRet>>

\* GET or Q on a socket that takes no more data: Write() ends the program.
TypeDies ==
    /\ cPc = "keyboard" /\ ~stdinEof
    /\ WriteFails
    /\ End("exit")
    /\ UNCHANGED <<c2s, s2c, sEnd, kbd, reading, flagEnd, noFile, fileBytes, got,
                   stdinEof, asked, results>>

\* A closes everything at once.  fclose() of a stream that was never opened, or
\* that the last download closed, is undefined.
TypeAbort ==
    /\ cPc = "keyboard" /\ ~stdinEof
    /\ \/ End("0")
       \/ ~noFile /\ ~reading /\ End("crash")
    /\ UNCHANGED <<c2s, s2c, sEnd, kbd, reading, flagEnd, noFile, fileBytes, got,
                   stdinEof, asked, results>>

TypeInvalid ==
    /\ cPc = "keyboard" /\ ~stdinEof
    /\ cPc' = "select"
    /\ UNCHANGED <<channelVars, kbd, reading, flagEnd, noFile, fileBytes, got, stdinEof,
                   asked, results, cRet>>

\* fgets() returns NULL: the command becomes "Q", and nothing is done with it.
TypeEof ==
    /\ cPc = "keyboard"
    /\ stdinEof' = TRUE
    /\ cPc' = "select"
    /\ UNCHANGED <<channelVars, kbd, reading, flagEnd, noFile, fileBytes, got,
                   asked, results, cRet>>

Keyboard ==
    \/ \E f \in Files : TypeGet(f)
    \/ TypeQuit \/ TypeDies \/ TypeAbort \/ TypeInvalid \/ TypeEof

ClientNext ==
    \/ Leave \/ Select \/ ReadDies
    \/ ReplyOk \/ ReplyErr \/ ReplyUnknown
    \/ ReadHeader \/ OpenDies \/ ReadByte
    \/ Keyboard
=============================================================================
