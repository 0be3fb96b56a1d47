-------------------------- MODULE FtpSessionProofs --------------------------
(***************************************************************************)
(* Proofs about FtpSession, for every set of files, every block size and   *)
(* any number of commands typed ahead: its types, that client and server   *)
(* stay in step, and that a session implements FileDelivery.               *)
(***************************************************************************)
EXTENDS FtpSession, FtpSenderProofs

USE FilesAssumption, ChunkAssumption, ServerMayDieAssumption, ClientBoundsAssumption

Received == Tokens \cup {Junk}
Results == [ok : BOOLEAN, data : Seq(Received)]

Live == cPc # "ended"

DataTyped ==
    /\ CommandsTyped
    /\ s2c \in Seq(Tokens)
    /\ cPc \in {"select", "reply", "header", "byte", "keyboard", "ended"}
    /\ fileBytes \in Nat
    /\ got \in Seq(Received) /\ Len(got) <= MaxGot
    /\ asked \in Seq(Files) /\ Len(asked) <= MaxGets
    /\ results \in Seq(Results)
    /\ cRet \in {"none", "0", "-1", "exit", "crash"}
    /\ cEnd \in {"open", "shut", "closed"}
    /\ sEnd \in {"open", "closed"}

FlagsTyped ==
    /\ kbd \in BOOLEAN /\ reading \in BOOLEAN
    /\ flagEnd \in BOOLEAN /\ noFile \in BOOLEAN /\ stdinEof \in BOOLEAN

Typed == ServerTypeOK /\ DataTyped /\ FlagsTyped

-----------------------------------------------------------------------------
(* Where the two programs are.   A place in the server's output is a      *)
(* request k, counted from 1, a position j in the answer to it (0 the      *)
(* reply, 1 the header, 1 + i the i-th byte) and the size n announced.  The *)
(* QUIT counts as a request behind the others.                             *)

HasFile(k) == k <= Len(asked) /\ Kind[asked[k]] = "regular"

TokenAt(k, j, n) ==
    IF j = 0 THEN IF HasFile(k) THEN Ok ELSE Err
    ELSE IF j = 1 THEN Size(n) ELSE Byte(asked[k], j - 1)

\* The places there are.
Place(k, j, n) ==
    /\ k >= 1
    /\ j # 0 => HasFile(k) /\ n \in FileSize[asked[k]] .. MaxSize /\ j <= n + 1

\* The answer to k ends at j.
LastAt(k, j, n) == IF j = 0 THEN ~HasFile(k) ELSE j = n + 1

\* The place (kk, jj, nn) is the one behind (k, j, n).
Follows(k, j, n, kk, jj, nn) ==
    IF LastAt(k, j, n) THEN kk = k + 1 /\ jj = 0
    ELSE kk = k /\ jj = j + 1 /\ (j # 0 => nn = n)

Places == [Nat -> Nat]

\* The stream holds the tokens at the places (req[i], pos[i], sz[i]), one behind
\* the other, all of them answers to the first p requests.
Path(p, req, pos, sz) ==
    /\ \A i \in 1 .. Len(s2c) :
          /\ req[i] <= p
          /\ s2c[i] = TokenAt(req[i], pos[i], sz[i])
          /\ Follows(req[i], pos[i], sz[i], req[i + 1], pos[i + 1], sz[i + 1])
    /\ \A i \in 1 .. Len(s2c) + 1 : Place(req[i], pos[i], sz[i])

\* It leads from the place (k, j, n) to the place (kk, jj, nn).
Leads(p, k, j, n, kk, jj, nn) ==
    \E req \in Places, pos \in Places, sz \in Places :
        /\ Path(p, req, pos, sz)
        /\ k = req[1] /\ j = pos[1] /\ n = sz[1]
        /\ kk = req[Len(s2c) + 1] /\ jj = pos[Len(s2c) + 1] /\ nn = sz[Len(s2c) + 1]

\* The requests that the user made, and those that the server has read.
Made == Len(asked) + (IF flagEnd THEN 1 ELSE 0)
Command(k) == IF k <= Len(asked) THEN <<"GET", asked[k]>> ELSE <<"QUIT">>
CommandsFollow(p) ==
    /\ p + Len(c2s) = Made
    /\ \A i \in 1 .. Len(c2s) : c2s[i] = Command(p + i)

ClientAt(k, j, n) ==
    /\ k = Len(results) + 1
    /\ j = IF reading THEN 2 + Len(got) ELSE IF cPc = "header" THEN 1 ELSE 0
    /\ reading => n = fileBytes

ServerAt(p, k, j, n) ==
    IF sPc = "open" THEN k = p /\ j = 0
    ELSE IF sPc = "header" THEN k = p /\ j = 1 /\ n = sLeft
    ELSE IF sPc = "chunk" /\ sLeft > 0 THEN k = p /\ j = 2 + sPos /\ n = sPos + sLeft
    ELSE k = p + 1 /\ j = 0

\* The client is where the stream begins, the server where it ends.
InStep(p) ==
    \E k \in Nat, j \in Nat, n \in Nat, kk \in Nat, jj \in Nat, nn \in Nat :
        /\ Leads(p, k, j, n, kk, jj, nn)
        /\ ClientAt(k, j, n)
        /\ ServerAt(p, kk, jj, nn)

\* The file that is being sent is the one asked for by the last request read.
\* It does not become shorter, and all of what was announced is there.
SendingAsked(p) ==
    /\ sPc \in {"open", "header", "chunk"} =>
          p \in 1 .. Len(asked) /\ sFile = asked[p]
    /\ sPc \in {"header", "chunk"} =>
          /\ Kind[sFile] = "regular"
          /\ sPos + sLeft \in FileSize[sFile] .. size[sFile]
    /\ sPc = "header" => sPos = 0

\* What the client has of a file is the beginning of it.
Receiving ==
    reading => \A i \in 1 .. Len(got) : got[i] = Byte(asked[Len(results) + 1], i)

SocketsFollow ==
    /\ cEnd = IF flagEnd THEN "shut" ELSE "open"
    /\ sEnd = IF sPc = "ended" THEN "closed" ELSE "open"
    /\ sPc = "ended" => flagEnd
    /\ ~sigpipe

TurnFollows ==
    /\ cPc \in {"reply", "header"} => ~reading /\ ~flagEnd
    /\ cPc = "byte" => reading

InSession ==
    /\ SocketsFollow
    /\ TurnFollows
    /\ Receiving
    /\ \E p \in Nat : CommandsFollow(p) /\ SendingAsked(p) /\ InStep(p)

FilesGrow == \A f \in Files : Kind[f] = "regular" => FileSize[f] <= size[f]

\* What the proofs carry from step to step.
IndInv ==
    /\ Typed
    /\ FilesGrow
    /\ Live => InSession

\* Where files neither are locked nor empty nor become shorter, and the child is
\* not killed: the sessions that the code can keep in step.
OrdinaryFiles ==
    /\ \A f \in Files : Kind[f] # "locked"
    /\ \A f \in Files : Kind[f] = "regular" => FileSize[f] >= 1
    /\ SizeChange \subseteq Nat
    /\ MaxSize <= MaxGot
    /\ ~ServerMayDie

-----------------------------------------------------------------------------
LEMMA TokenTypes ==
  /\ Ok \in Tokens /\ Err \in Tokens
  /\ \A t \in Tokens : t[1] = "size" => t[2] \in Nat
<1>1. Ok \in Tokens /\ Err \in Tokens
  BY DEF Tokens
<1>2. Ok[1] # "size" /\ Err[1] # "size"
  BY DEF Ok, Err
<1>3. \A t \in Sizes : t[2] \in Nat
  BY DEF Sizes, Size
<1>4. \A t \in Bytes : t[1] # "size"
  BY DEF Bytes, Byte
<1> QED
  BY <1>1, <1>2, <1>3, <1>4 DEF Tokens

LEMMA TypedInit == Init => Typed
<1> SUFFICES ASSUME Init PROVE Typed
  OBVIOUS
<1>1. ServerTypeOK
  BY ServerTypeInit DEF Init
<1>2. /\ c2s = <<>> /\ s2c = <<>> /\ cEnd = "open" /\ sEnd = "open"
      /\ cPc = "select" /\ fileBytes = 0 /\ got = <<>> /\ asked = <<>> /\ results = <<>>
      /\ cRet = "none"
  BY Zenon DEF Init, ChannelInit, ClientInit
<1>3. FlagsTyped
  BY Zenon DEF Init, ClientInit, FlagsTyped
<1>4. CommandsTyped
  BY <1>2 DEF CommandsTyped
<1>5. DataTyped
  BY <1>2, <1>4 DEF DataTyped
<1> QED
  BY <1>1, <1>3, <1>5 DEF Typed

\* The tokens that a write() of the server adds to the stream.
LEMMA SendTyped ==
  ASSUME s2c \in Seq(Tokens), NEW tokens \in Seq(Tokens), Send(tokens)
  PROVE  s2c' \in Seq(Tokens)
BY DEF Send

LEMMA ServerTyped == ASSUME Typed, ServerStep PROVE Typed'
<1>1. ServerNext /\ UNCHANGED clientVars
  BY DEF ServerStep
<1>t. ServerTypeOK /\ CommandsTyped /\ s2c \in Seq(Tokens)
  BY DEF Typed, DataTyped
<1>2. ServerTypeOK' /\ CommandsTyped'
  BY <1>1, <1>t, ServerTypeStep
<1>3. sEnd' \in {"open", "closed"} /\ cEnd' = cEnd
  <2>1. sEnd' \in {sEnd, "closed"} /\ cEnd' = cEnd
    BY <1>1
    DEF ServerNext, ServerRuns, ReadGet, ReadOther, ReadEof, OpenOk, OpenLocked,
        OpenAbsent, SendHeader, SendChunk, SendDone, ServerDies, Resize, channelVars
  <2> QED
    BY <2>1 DEF Typed, DataTyped
<1>4. s2c' \in Seq(Tokens)
  <2>1. CASE ReadGet \/ ReadEof \/ OpenLocked \/ SendDone \/ ServerDies
    BY <2>1, <1>t DEF ReadGet, ReadEof, OpenLocked, SendDone, ServerDies
  <2>2. CASE ReadOther \/ OpenAbsent \/ OpenOk
    <3>1. <<Err>> \in Seq(Tokens) /\ <<Ok>> \in Seq(Tokens)
      BY TokenTypes
    <3> QED
      BY <2>2, <1>t, <3>1, SendTyped DEF ReadOther, OpenAbsent, OpenOk
  <2>3. CASE SendHeader
    <3>1. sLeft \in Nat
      BY <1>t DEF ServerTypeOK
    <3>2. Size(sLeft) \in Tokens
      BY <3>1 DEF Tokens, Sizes
    <3>3. <<Size(sLeft)>> \in Seq(Tokens)
      BY <3>2
    <3> QED
      BY <2>3, <1>t, <3>3, SendTyped DEF SendHeader
  <2>4. CASE SendChunk
    <3> DEFINE block == [i \in 1 .. ChunkLength |-> Byte(sFile, sPos + i)]
    <3>1. block \in Seq(Tokens)
      BY <1>t, BlockTokens
    <3>2. Send(block)
      BY <2>4 DEF SendChunk
    <3> HIDE DEF block
    <3> QED
      BY <1>t, <3>1, <3>2, SendTyped
  <2>5. ASSUME NEW f \in Files, Resize(f) PROVE s2c' \in Seq(Tokens)
    BY <2>5, <1>t DEF Resize, channelVars
  <2> QED
    BY <1>1, <2>1, <2>2, <2>3, <2>4, <2>5 DEF ServerNext, ServerRuns
<1>5. FlagsTyped'
  BY <1>1, Zenon DEF Typed, FlagsTyped, clientVars
<1>6. DataTyped'
  BY <1>1, <1>2, <1>3, <1>4 DEF Typed, DataTyped, clientVars
<1> QED
  BY <1>2, <1>5, <1>6 DEF Typed

LEMMA FailureTyped == Failure \in Results
<1>1. <<>> \in Seq(Received)
  OBVIOUS
<1> QED
  BY <1>1 DEF Failure, Results

\* A byte is read: it is kept, or completes the download.
LEMMA ByteTyped ==
  ASSUME DataTyped, ReadByte
  PROVE  /\ got' \in Seq(Received) /\ Len(got') <= MaxGot
         /\ results' \in Seq(Results)
<1>1. PICK b \in {IF s2c = <<>> THEN Junk ELSE Head(s2c)} :
          IF Len(got) + 1 = fileBytes
          THEN /\ results' = Append(results, Download(Append(got, b)))
               /\ UNCHANGED got
          ELSE /\ got' = IF Len(got) < MaxGot THEN Append(got, b) ELSE got
               /\ UNCHANGED results
  BY DEF ReadByte
<1>2. b \in Received
  BY DEF DataTyped, Received
<1>3. /\ Append(got, b) \in Seq(Received) /\ Len(Append(got, b)) = Len(got) + 1
      /\ got \in Seq(Received) /\ Len(got) \in Nat /\ Len(got) <= MaxGot
  BY <1>2 DEF DataTyped
<1>4. got' \in Seq(Received) /\ Len(got') <= MaxGot
  BY <1>1, <1>3
<1>5. results' = results \/ results' = Append(results, Download(Append(got, b)))
  BY <1>1
<1> DEFINE d == Download(Append(got, b))
<1>6. d \in Results
  BY <1>3 DEF Download, Results
<1>7. results \in Seq(Results)
  BY DEF DataTyped
<1> HIDE DEF d
<1>8. Append(results, d) \in Seq(Results)
  BY <1>6, <1>7
<1> QED
  BY <1>4, <1>5, <1>7, <1>8 DEF d

LEMMA ClientDataTyped == ASSUME Typed, ClientNext PROVE DataTyped'
<1>0. /\ s2c \in Seq(Tokens) /\ c2s \in Seq(Commands) /\ results \in Seq(Results)
      /\ asked \in Seq(Files) /\ Len(asked) <= MaxGets
      /\ DataTyped
  BY DEF Typed, DataTyped, CommandsTyped
<1>a. AfterSocket \in {"keyboard", "select"}
  BY DEF AfterSocket
<1>1. CASE Leave \/ ReadDies \/ TypeDies \/ TypeAbort \/ TypeInvalid \/ TypeEof
  BY <1>0, <1>1
  DEF DataTyped, CommandsTyped, Leave, ReadDies, TypeDies, TypeAbort, TypeInvalid,
      TypeEof, End, channelVars
<1>2. CASE Select
  <2>1. cPc' \in {"keyboard", "byte", "reply"}
    BY <1>2 DEF Select
  <2> QED
    BY <1>0, <1>2, <2>1 DEF DataTyped, CommandsTyped, Select, channelVars
<1>t. ASSUME s2c' = s2c \/ (s2c # <<>> /\ s2c' = Tail(s2c)) PROVE s2c' \in Seq(Tokens)
  <2>1. s2c # <<>> => Tail(s2c) \in Seq(Tokens)
    BY <1>0
  <2> QED
    BY <1>0, <1>t, <2>1
<1>3. CASE ReplyOk \/ ReplyUnknown \/ OpenDies
  <2>1. s2c' \in Seq(Tokens)
    BY <1>3, <1>t DEF ReplyOk, ReplyUnknown, OpenDies
  <2> QED
    BY <1>0, <1>3, <2>1 DEF DataTyped, CommandsTyped, ReplyOk, ReplyUnknown, OpenDies, End
<1>4. CASE ReplyErr
  <2>1. s2c' \in Seq(Tokens)
    BY <1>4, <1>t DEF ReplyErr
  <2>2. results' \in Seq(Results)
    BY <1>0, <1>4, FailureTyped DEF ReplyErr
  <2> QED
    BY <1>0, <1>4, <1>a, <2>1, <2>2 DEF DataTyped, CommandsTyped, ReplyErr
<1>5. CASE ReadHeader
  <2>1. s2c' \in Seq(Tokens)
    BY <1>5, <1>t DEF ReadHeader
  <2>2. fileBytes' \in Nat
    <3>1. s2c # <<>> => Head(s2c) \in Tokens
      BY <1>0
    <3> QED
      BY <1>5, <3>1, TokenTypes DEF ReadHeader
  <2>3. got' = <<>> /\ got' \in Seq(Received) /\ Len(got') = 0
    BY <1>5 DEF ReadHeader
  <2> QED
    BY <1>0, <1>5, <1>a, <2>1, <2>2, <2>3 DEF DataTyped, CommandsTyped, ReadHeader
<1>6. CASE ReadByte
  <2>1. s2c' = s2c \/ (s2c # <<>> /\ s2c' = Tail(s2c))
    BY <1>6 DEF ReadByte
  <2>2. s2c' \in Seq(Tokens)
    BY <2>1, <1>t
  <2>3. /\ got' \in Seq(Received) /\ Len(got') <= MaxGot
        /\ results' \in Seq(Results)
    BY <1>0, <1>6, ByteTyped
  <2>4. cPc' = AfterSocket /\ UNCHANGED <<c2s, cEnd, sEnd, fileBytes, asked, cRet>>
    BY <1>6 DEF ReadByte
  <2> QED
    BY <1>0, <1>a, <2>2, <2>3, <2>4 DEF DataTyped, CommandsTyped
<1>7. ASSUME NEW f \in Files, TypeGet(f) PROVE DataTyped'
  <2> DEFINE get == <<"GET", f>>
  <2>1. get \in Commands
    BY CommandKinds
  <2>2. /\ c2s' = c2s \/ c2s' = Append(c2s, get)
        /\ asked' = Append(asked, f) /\ Len(asked) < MaxGets /\ cPc' = "select"
        /\ UNCHANGED <<s2c, cEnd, sEnd, fileBytes, got, results, cRet>>
    BY <1>7 DEF TypeGet, WriteCommand
  <2> HIDE DEF get
  <2>3. c2s' \in Seq(Commands)
    <3>1. Append(c2s, get) \in Seq(Commands)
      BY <1>0, <2>1
    <3> QED
      BY <1>0, <2>2, <3>1
  <2>4. asked' \in Seq(Files) /\ Len(asked') <= MaxGets
    BY <1>0, <2>2
  <2> QED
    BY <1>0, <2>2, <2>3, <2>4 DEF DataTyped, CommandsTyped
<1>8. CASE TypeQuit
  <2> DEFINE quit == <<"QUIT">>
  <2>1. quit \in Commands
    BY CommandKinds
  <2>2. /\ c2s' = c2s \/ c2s' = Append(c2s, quit)
        /\ cEnd' = "shut" /\ cPc' = "select"
        /\ UNCHANGED <<s2c, sEnd, fileBytes, got, asked, results, cRet>>
    BY <1>8 DEF TypeQuit, WriteCommand
  <2> HIDE DEF quit
  <2>3. c2s' \in Seq(Commands)
    <3>1. Append(c2s, quit) \in Seq(Commands)
      BY <1>0, <2>1
    <3> QED
      BY <1>0, <2>2, <3>1
  <2> QED
    BY <1>0, <2>2, <2>3 DEF DataTyped, CommandsTyped
<1> QED
  BY <1>1, <1>2, <1>3, <1>4, <1>5, <1>6, <1>7, <1>8 DEF ClientNext, Keyboard

LEMMA ClientFlagsTyped == ASSUME FlagsTyped, ClientNext PROVE FlagsTyped'
<1>1. CASE Leave \/ ReadDies \/ TypeDies \/ TypeAbort \/ TypeInvalid \/ OpenDies
  BY <1>1, Zenon
  DEF FlagsTyped, Leave, ReadDies, TypeDies, TypeAbort, TypeInvalid, OpenDies, clientVars
<1>2. CASE Select
  BY <1>2, Zenon DEF FlagsTyped, Select
<1>3. CASE ReplyOk \/ ReplyErr \/ ReplyUnknown
  BY <1>3, Zenon DEF FlagsTyped, ReplyOk, ReplyErr, ReplyUnknown
<1>4. CASE ReadHeader
  BY <1>4, Zenon DEF FlagsTyped, ReadHeader
<1>5. CASE ReadByte
  <2>1. reading' = FALSE \/ reading' = reading
    BY <1>5, Zenon DEF ReadByte
  <2> QED
    BY <1>5, <2>1, Zenon DEF FlagsTyped, ReadByte
<1>6. ASSUME NEW f \in Files, TypeGet(f) PROVE FlagsTyped'
  BY <1>6, Zenon DEF FlagsTyped, TypeGet
<1>7. CASE TypeQuit
  BY <1>7, Zenon DEF FlagsTyped, TypeQuit
<1>8. CASE TypeEof
  BY <1>8, Zenon DEF FlagsTyped, TypeEof
<1> QED
  BY <1>1, <1>2, <1>3, <1>4, <1>5, <1>6, <1>7, <1>8 DEF ClientNext, Keyboard

LEMMA ClientTyped == ASSUME Typed, ClientStep PROVE Typed'
<1>1. ServerTypeOK'
  BY DEF ClientStep, serverVars, Typed, ServerTypeOK
<1>2. DataTyped'
  BY ClientDataTyped DEF ClientStep
<1>3. FlagsTyped'
  BY ClientFlagsTyped DEF ClientStep, Typed
<1> QED
  BY <1>1, <1>2, <1>3 DEF Typed

LEMMA StutterTyped == ASSUME Typed, UNCHANGED vars PROVE Typed'
<1>1. ServerTypeOK' /\ DataTyped'
  BY DEF Typed, ServerTypeOK, DataTyped, CommandsTyped, vars, channelVars, serverVars,
         clientVars
<1>2. FlagsTyped'
  BY Zenon DEF Typed, FlagsTyped, vars, clientVars
<1> QED
  BY <1>1, <1>2 DEF Typed

LEMMA TypedInvariance == Spec => []Typed
<1>1. Typed /\ [Next]_vars => Typed'
  BY ServerTyped, ClientTyped, StutterTyped DEF Next, Terminated
<1> QED
  BY TypedInit, <1>1, PTL DEF Spec

\* Types, whatever the files do and wherever either side dies: the client keeps no
\* more of a file than it may, and what it takes for a size is one (ftp.c:440).
THEOREM TypeCorrect == Spec => []TypeOK
<1>1. ASSUME Typed PROVE TypeOK
  <2>1. ServerTypeOK /\ (\A i \in DOMAIN c2s : c2s[i] \in Commands)
    BY <1>1 DEF Typed, DataTyped, CommandsTyped
  <2>2. results \in Seq(Results)
    BY <1>1 DEF Typed, DataTyped
  <2>3. \A i \in DOMAIN results : results[i] \in Results
    BY <2>2
  <2>4. \A i \in DOMAIN results : results[i].ok \in BOOLEAN
    BY <2>3 DEF Results
  <2>5. ClientTypeOK
    BY <1>1, <2>4, Zenon DEF Typed, DataTyped, FlagsTyped, ClientTypeOK
  <2>6. cEnd \in {"open", "shut", "closed"} /\ sEnd \in {"open", "closed"}
    BY <1>1 DEF Typed, DataTyped
  <2> QED
    BY <2>1, <2>5, <2>6 DEF TypeOK
<1> QED
  BY TypedInvariance, <1>1, PTL

-----------------------------------------------------------------------------
(* How places move on: the client's when it reads, the server's when it    *)
(* writes.                                                                 *)

LEMMA PlacesStay ==
  ASSUME asked' = asked, NEW k, NEW j, NEW n, NEW kk, NEW jj, NEW nn
  PROVE  /\ TokenAt(k, j, n)' = TokenAt(k, j, n)
         /\ Place(k, j, n)' <=> Place(k, j, n)
         /\ Follows(k, j, n, kk, jj, nn)' <=> Follows(k, j, n, kk, jj, nn)
BY DEF TokenAt, Place, Follows, LastAt, HasFile

\* Where nothing is in the stream the places are the same; they are places.
LEMMA Ends ==
  ASSUME s2c \in Seq(Tokens), NEW p \in Nat,
         NEW k \in Nat, NEW j \in Nat, NEW n \in Nat,
         NEW kk \in Nat, NEW jj \in Nat, NEW nn \in Nat,
         Leads(p, k, j, n, kk, jj, nn)
  PROVE  /\ Place(k, j, n) /\ Place(kk, jj, nn)
         /\ s2c = <<>> => k = kk /\ j = jj /\ n = nn
         /\ s2c # <<>> => k <= p /\ Head(s2c) = TokenAt(k, j, n)
<1>1. PICK req \in Places, pos \in Places, sz \in Places :
        /\ Path(p, req, pos, sz)
        /\ k = req[1] /\ j = pos[1] /\ n = sz[1]
        /\ kk = req[Len(s2c) + 1] /\ jj = pos[Len(s2c) + 1] /\ nn = sz[Len(s2c) + 1]
  BY Zenon DEF Leads
<1>2. Len(s2c) \in Nat /\ 1 \in 1 .. Len(s2c) + 1 /\ Len(s2c) + 1 \in 1 .. Len(s2c) + 1
  OBVIOUS
<1>3. Place(k, j, n) /\ Place(kk, jj, nn)
  BY <1>1, <1>2, Zenon DEF Path
<1>4. s2c = <<>> => Len(s2c) + 1 = 1
  OBVIOUS
<1>5. s2c # <<>> => 1 \in 1 .. Len(s2c) /\ Head(s2c) = s2c[1]
  OBVIOUS
<1>6. s2c # <<>> => k <= p /\ Head(s2c) = TokenAt(k, j, n)
  BY <1>1, <1>5, Zenon DEF Path
<1> QED
  BY <1>1, <1>3, <1>4, <1>6, Zenon

\* More requests may have been read.
LEMMA LeadsMore ==
  ASSUME NEW p \in Nat, NEW q \in Nat, p <= q, UNCHANGED <<s2c, asked>>,
         NEW k \in Nat, NEW j \in Nat, NEW n \in Nat,
         NEW kk \in Nat, NEW jj \in Nat, NEW nn \in Nat,
         Leads(p, k, j, n, kk, jj, nn), s2c \in Seq(Tokens)
  PROVE  Leads(q, k, j, n, kk, jj, nn)'
<1>1. PICK req \in Places, pos \in Places, sz \in Places :
        /\ Path(p, req, pos, sz)
        /\ k = req[1] /\ j = pos[1] /\ n = sz[1]
        /\ kk = req[Len(s2c) + 1] /\ jj = pos[Len(s2c) + 1] /\ nn = sz[Len(s2c) + 1]
  BY Zenon DEF Leads
<1>2. ASSUME NEW i \in 1 .. Len(s2c')
      PROVE  /\ req[i] <= q
             /\ s2c'[i] = TokenAt(req[i], pos[i], sz[i])'
             /\ Follows(req[i], pos[i], sz[i], req[i + 1], pos[i + 1], sz[i + 1])'
  <2>1. i \in 1 .. Len(s2c) /\ s2c'[i] = s2c[i]
    BY <1>2
  <2>2. /\ req[i] <= p
        /\ s2c[i] = TokenAt(req[i], pos[i], sz[i])
        /\ Follows(req[i], pos[i], sz[i], req[i + 1], pos[i + 1], sz[i + 1])
    BY <1>1, <2>1, Zenon DEF Path
  <2>3. req[i] <= q
    <3>1. req[i] \in Nat
      BY <2>1 DEF Places
    <3> QED
      BY <2>2, <3>1
  <2> QED
    BY <2>1, <2>2, <2>3, PlacesStay
<1>3. ASSUME NEW i \in 1 .. Len(s2c') + 1 PROVE Place(req[i], pos[i], sz[i])'
  <2>1. Place(req[i], pos[i], sz[i])
    BY <1>1, <1>3 DEF Path
  <2> QED
    BY <2>1, PlacesStay
<1>4. Path(q, req, pos, sz)'
  BY <1>2, <1>3 DEF Path
<1>5. Len(s2c') = Len(s2c)
  OBVIOUS
<1> QED
  BY <1>1, <1>4, <1>5, Zenon DEF Leads

\* One token less at the beginning.
LEMMA ReadOne ==
  ASSUME s2c \in Seq(Tokens), s2c # <<>>, s2c' = Tail(s2c), asked' = asked,
         NEW p \in Nat, NEW k \in Nat, NEW j \in Nat, NEW n \in Nat,
         NEW kk \in Nat, NEW jj \in Nat, NEW nn \in Nat,
         Leads(p, k, j, n, kk, jj, nn)
  PROVE  \E k2 \in Nat, j2 \in Nat, n2 \in Nat :
            /\ Follows(k, j, n, k2, j2, n2)
            /\ Leads(p, k2, j2, n2, kk, jj, nn)'
<1>0. PICK req \in Places, pos \in Places, sz \in Places :
        /\ Path(p, req, pos, sz)
        /\ k = req[1] /\ j = pos[1] /\ n = sz[1]
        /\ kk = req[Len(s2c) + 1] /\ jj = pos[Len(s2c) + 1] /\ nn = sz[Len(s2c) + 1]
  BY Zenon DEF Leads
<1> DEFINE r == [i \in Nat |-> req[i + 1]]
           x == [i \in Nat |-> pos[i + 1]]
           y == [i \in Nat |-> sz[i + 1]]
<1>1. r \in Places /\ x \in Places /\ y \in Places
  <2>1. ASSUME NEW i \in Nat
        PROVE  req[i + 1] \in Nat /\ pos[i + 1] \in Nat /\ sz[i + 1] \in Nat
    <3>1. i + 1 \in Nat
      OBVIOUS
    <3> QED
      BY <3>1, Zenon DEF Places
  <2> QED
    BY <2>1, Zenon DEF Places
<1>2. \A i \in Nat : r[i] = req[i + 1] /\ x[i] = pos[i + 1] /\ y[i] = sz[i + 1]
  OBVIOUS
<1> HIDE DEF r, x, y
<1>3. /\ Len(s2c) \in Nat /\ Len(s2c') = Len(s2c) - 1 /\ Len(s2c') \in Nat
      /\ \A i \in 1 .. Len(s2c') : s2c'[i] = s2c[i + 1]
  OBVIOUS
<1>4. ASSUME NEW i \in 1 .. Len(s2c')
      PROVE  /\ r[i] <= p
             /\ s2c'[i] = TokenAt(r[i], x[i], y[i])'
             /\ Follows(r[i], x[i], y[i], r[i + 1], x[i + 1], y[i + 1])'
  <2>1. i + 1 \in 1 .. Len(s2c) /\ i \in Nat /\ i + 1 \in Nat
    BY <1>3
  <2>2. /\ req[i + 1] <= p
        /\ s2c[i + 1] = TokenAt(req[i + 1], pos[i + 1], sz[i + 1])
        /\ Follows(req[i + 1], pos[i + 1], sz[i + 1],
                   req[i + 1 + 1], pos[i + 1 + 1], sz[i + 1 + 1])
    BY <1>0, <2>1, Zenon DEF Path
  <2>3. /\ r[i] <= p
        /\ s2c'[i] = TokenAt(r[i], x[i], y[i])
        /\ Follows(r[i], x[i], y[i], r[i + 1], x[i + 1], y[i + 1])
    BY <1>2, <1>3, <2>1, <2>2
  <2> QED
    BY <2>3, PlacesStay
<1>5. ASSUME NEW i \in 1 .. Len(s2c') + 1 PROVE Place(r[i], x[i], y[i])'
  <2>1. i + 1 \in 1 .. Len(s2c) + 1 /\ i \in Nat
    BY <1>3
  <2>2. Place(req[i + 1], pos[i + 1], sz[i + 1])
    BY <1>0, <2>1, Zenon DEF Path
  <2>3. Place(r[i], x[i], y[i])
    BY <1>2, <2>1, <2>2
  <2> QED
    BY <2>3, PlacesStay
<1>6. Path(p, r, x, y)'
  BY <1>4, <1>5 DEF Path
<1>7. /\ r[1] = req[2] /\ x[1] = pos[2] /\ y[1] = sz[2]
      /\ r[Len(s2c') + 1] = kk /\ x[Len(s2c') + 1] = jj /\ y[Len(s2c') + 1] = nn
  <2>1. Len(s2c') + 1 \in Nat /\ Len(s2c') + 1 + 1 = Len(s2c) + 1 /\ 1 + 1 = 2
    BY <1>3
  <2> QED
    BY <1>0, <1>2, <2>1
<1>8. Leads(p, req[2], pos[2], sz[2], kk, jj, nn)'
  BY <1>1, <1>6, <1>7, Zenon DEF Leads
<1>9. Follows(k, j, n, req[2], pos[2], sz[2])
  <2>1. 1 \in 1 .. Len(s2c) /\ 1 + 1 = 2
    BY <1>3
  <2> QED
    BY <1>0, <2>1, Zenon DEF Path
<1>10. req[2] \in Nat /\ pos[2] \in Nat /\ sz[2] \in Nat
  BY DEF Places
<1> QED
  BY <1>8, <1>9, <1>10, Zenon

\* The tokens stand at the places (req[i], pos[i], sz[i]) of answers to the first q
\* requests.
StandAt(tokens, q, req, pos, sz) ==
    /\ \A i \in 1 .. Len(tokens) :
          /\ req[i] <= q
          /\ tokens[i] = TokenAt(req[i], pos[i], sz[i])
          /\ Follows(req[i], pos[i], sz[i], req[i + 1], pos[i + 1], sz[i + 1])
    /\ \A i \in 1 .. Len(tokens) + 1 : Place(req[i], pos[i], sz[i])

\* Some tokens more at the end, with the places (k, j, n) that they stand for.
LEMMA Write ==
  ASSUME s2c \in Seq(Tokens), NEW tokens \in Seq(Tokens), s2c' = s2c \o tokens,
         asked' = asked, NEW p \in Nat, NEW q \in Nat, p <= q,
         NEW k0 \in Nat, NEW j0 \in Nat, NEW n0 \in Nat,
         NEW k \in Places, NEW j \in Places, NEW n \in Places,
         Leads(p, k0, j0, n0, k[1], j[1], n[1]),
         StandAt(tokens, q, k, j, n)
  PROVE  Leads(q, k0, j0, n0, k[Len(tokens) + 1], j[Len(tokens) + 1], n[Len(tokens) + 1])'
<1>p. PICK req \in Places, pos \in Places, sz \in Places :
        /\ Path(p, req, pos, sz)
        /\ k0 = req[1] /\ j0 = pos[1] /\ n0 = sz[1]
        /\ k[1] = req[Len(s2c) + 1] /\ j[1] = pos[Len(s2c) + 1] /\ n[1] = sz[Len(s2c) + 1]
  BY Zenon DEF Leads
<1>m. PICK m \in Nat : m = Len(s2c)
  OBVIOUS
<1> DEFINE w == Len(tokens)
           r == [i \in Nat |-> IF i <= m THEN req[i] ELSE k[i - m]]
           x == [i \in Nat |-> IF i <= m THEN pos[i] ELSE j[i - m]]
           y == [i \in Nat |-> IF i <= m THEN sz[i] ELSE n[i - m]]
<1>0. m \in Nat /\ w \in Nat
  OBVIOUS
<1>1. /\ Len(s2c') = m + w
      /\ \A i \in 1 .. m + w : s2c'[i] = IF i <= m THEN s2c[i] ELSE tokens[i - m]
  BY <1>m, ConcatProperties
<1>2. /\ \A i \in 1 .. m :
            /\ req[i] <= p
            /\ s2c[i] = TokenAt(req[i], pos[i], sz[i])
            /\ Follows(req[i], pos[i], sz[i], req[i + 1], pos[i + 1], sz[i + 1])
      /\ \A i \in 1 .. m + 1 : Place(req[i], pos[i], sz[i])
  BY <1>m, <1>p, Zenon DEF Path
<1>3. /\ \A i \in 1 .. w :
            /\ k[i] <= q
            /\ tokens[i] = TokenAt(k[i], j[i], n[i])
            /\ Follows(k[i], j[i], n[i], k[i + 1], j[i + 1], n[i + 1])
      /\ \A i \in 1 .. w + 1 : Place(k[i], j[i], n[i])
      /\ k[1] = req[m + 1] /\ j[1] = pos[m + 1] /\ n[1] = sz[m + 1]
  BY <1>m, <1>p, Zenon DEF StandAt
<1> HIDE DEF w
<1>4. r \in Places /\ x \in Places /\ y \in Places
  <2>1. \A i \in Nat : ~(i <= m) => i - m \in Nat
    BY <1>0
  <2> QED
    BY <2>1 DEF Places
<1>5. \A i \in Nat : i <= m => r[i] = req[i] /\ x[i] = pos[i] /\ y[i] = sz[i]
  BY Zenon
<1>a. \A i \in Nat :
        ~(i <= m) => r[i] = k[i - m] /\ x[i] = j[i - m] /\ y[i] = n[i - m]
  OBVIOUS
<1> HIDE DEF r, x, y
<1>b. ASSUME NEW l \in Nat, 1 <= l
      PROVE  r[m + l] = k[l] /\ x[m + l] = j[l] /\ y[m + l] = n[l]
  <2>1. m + l \in Nat /\ ~(m + l <= m) /\ (m + l) - m = l
    BY <1>0, <1>b
  <2> QED
    BY <1>a, <2>1, Zenon
<1>6. r[m + 1] = req[m + 1] /\ x[m + 1] = pos[m + 1] /\ y[m + 1] = sz[m + 1]
  <2>1. 1 \in Nat /\ 1 <= 1
    OBVIOUS
  <2> QED
    BY <1>3, <1>b, <2>1, Zenon
<1>7. ASSUME NEW i \in 1 .. m + w
      PROVE  /\ r[i] <= q
             /\ s2c'[i] = TokenAt(r[i], x[i], y[i])
             /\ Follows(r[i], x[i], y[i], r[i + 1], x[i + 1], y[i + 1])
  <2>1. CASE i <= m
    <3>1. i \in 1 .. m /\ i \in Nat /\ (i + 1 <= m \/ i + 1 = m + 1) /\ i + 1 \in Nat
      BY <1>0, <2>1
    <3>2. r[i] = req[i] /\ x[i] = pos[i] /\ y[i] = sz[i]
      BY <1>5, <2>1, <3>1
    <3>3. r[i + 1] = req[i + 1] /\ x[i + 1] = pos[i + 1] /\ y[i + 1] = sz[i + 1]
      BY <1>5, <1>6, <3>1
    <3>4. req[i] \in Nat
      BY <3>1 DEF Places
    <3>5. r[i] <= q
      <4>1. req[i] <= p
        BY <1>2, <3>1, Zenon
      <4> QED
        BY <3>2, <3>4, <4>1
    <3>6. s2c'[i] = s2c[i]
      BY <1>1, <2>1
    <3>7. /\ s2c[i] = TokenAt(req[i], pos[i], sz[i])
          /\ Follows(req[i], pos[i], sz[i], req[i + 1], pos[i + 1], sz[i + 1])
      BY <1>2, <3>1, Zenon
    <3> QED
      BY <3>2, <3>3, <3>5, <3>6, <3>7, Zenon
  <2>2. CASE ~(i <= m)
    <3>1. PICK l \in 1 .. w : i = m + l
      <4>1. i - m \in 1 .. w /\ i = m + (i - m)
        BY <1>0, <2>2
      <4> QED
        BY <4>1
    <3>2. l \in Nat /\ 1 <= l /\ l + 1 \in Nat /\ 1 <= l + 1 /\ i + 1 = m + (l + 1) /\ i - m = l
      BY <1>0, <3>1
    <3>3. r[i] = k[l] /\ x[i] = j[l] /\ y[i] = n[l]
      BY <1>b, <3>1, <3>2, Zenon
    <3>4. r[i + 1] = k[l + 1] /\ x[i + 1] = j[l + 1] /\ y[i + 1] = n[l + 1]
      BY <1>b, <3>2, Zenon
    <3>5. s2c'[i] = tokens[l]
      BY <1>1, <2>2, <3>2, Zenon
    <3>6. /\ k[l] <= q
          /\ tokens[l] = TokenAt(k[l], j[l], n[l])
          /\ Follows(k[l], j[l], n[l], k[l + 1], j[l + 1], n[l + 1])
      BY <1>3, <3>1
    <3> QED
      BY <3>3, <3>4, <3>5, <3>6, Zenon
  <2> QED
    BY <2>1, <2>2
<1>8. ASSUME NEW i \in 1 .. m + w + 1 PROVE Place(r[i], x[i], y[i])
  <2>1. CASE i <= m
    <3>1. i \in 1 .. m + 1 /\ i \in Nat
      BY <1>0, <2>1
    <3> QED
      BY <1>2, <1>5, <2>1, <3>1
  <2>2. CASE ~(i <= m)
    <3>1. PICK l \in 1 .. w + 1 : i = m + l
      <4>1. i - m \in 1 .. w + 1 /\ i = m + (i - m)
        BY <1>0, <2>2
      <4> QED
        BY <4>1
    <3>2. l \in Nat /\ 1 <= l
      BY <1>0, <3>1
    <3>3. r[i] = k[l] /\ x[i] = j[l] /\ y[i] = n[l]
      BY <1>b, <3>1, <3>2, Zenon
    <3> QED
      BY <1>3, <3>1, <3>3, Zenon
  <2> QED
    BY <2>1, <2>2
<1>9. Path(q, r, x, y)'
  <2>1. ASSUME NEW i \in 1 .. Len(s2c')
        PROVE  /\ r[i] <= q
               /\ s2c'[i] = TokenAt(r[i], x[i], y[i])'
               /\ Follows(r[i], x[i], y[i], r[i + 1], x[i + 1], y[i + 1])'
    <3>1. i \in 1 .. m + w
      BY <1>1, <2>1
    <3>2. /\ r[i] <= q
          /\ s2c'[i] = TokenAt(r[i], x[i], y[i])
          /\ Follows(r[i], x[i], y[i], r[i + 1], x[i + 1], y[i + 1])
      BY <1>7, <3>1
    <3> QED
      BY <3>2, PlacesStay
  <2>2. ASSUME NEW i \in 1 .. Len(s2c') + 1 PROVE Place(r[i], x[i], y[i])'
    <3>1. i \in 1 .. m + w + 1
      BY <1>1, <2>2
    <3>2. Place(r[i], x[i], y[i])
      BY <1>8, <3>1
    <3> QED
      BY <3>2, PlacesStay
  <2> QED
    BY <2>1, <2>2 DEF Path
<1>10. r[1] = req[1] /\ x[1] = pos[1] /\ y[1] = sz[1]
  <2>1. m = 0 \/ 1 <= m
    BY <1>0
  <2>2. m = 0 => m + 1 = 1
    OBVIOUS
  <2> QED
    BY <1>5, <1>6, <2>1, <2>2
<1>11. /\ r[Len(s2c') + 1] = k[w + 1] /\ x[Len(s2c') + 1] = j[w + 1]
       /\ y[Len(s2c') + 1] = n[w + 1]
  <2>1. Len(s2c') + 1 = m + (w + 1) /\ w + 1 \in Nat /\ 1 <= w + 1
    BY <1>0, <1>1
  <2> QED
    BY <1>b, <2>1, Zenon
<1>12. /\ k[w + 1] = r[Len(s2c') + 1] /\ j[w + 1] = x[Len(s2c') + 1]
       /\ n[w + 1] = y[Len(s2c') + 1] /\ k0 = r[1] /\ j0 = x[1] /\ n0 = y[1]
  BY <1>p, <1>10, <1>11, Zenon
<1> QED
  BY <1>4, <1>9, <1>12, Zenon DEF Leads, w

\* One token more.
LEMMA WriteOne ==
  ASSUME s2c \in Seq(Tokens), NEW t \in Tokens, s2c' = s2c \o <<t>>,
         asked' = asked, NEW p \in Nat, NEW q \in Nat, p <= q,
         NEW k0 \in Nat, NEW j0 \in Nat, NEW n0 \in Nat,
         NEW k \in Nat, NEW j \in Nat, NEW n \in Nat,
         Leads(p, k0, j0, n0, k, j, n),
         k <= q, t = TokenAt(k, j, n),
         NEW kk \in Nat, NEW jj \in Nat, NEW nn \in Nat,
         Follows(k, j, n, kk, jj, nn), Place(kk, jj, nn)
  PROVE  Leads(q, k0, j0, n0, kk, jj, nn)'
<1> DEFINE ks == [i \in Nat |-> IF i = 1 THEN k ELSE kk]
           js == [i \in Nat |-> IF i = 1 THEN j ELSE jj]
           ns == [i \in Nat |-> IF i = 1 THEN n ELSE nn]
           tokens == <<t>>
<1>1. ks \in Places /\ js \in Places /\ ns \in Places
  BY DEF Places
<1>2. /\ ks[1] = k /\ js[1] = j /\ ns[1] = n
      /\ ks[2] = kk /\ js[2] = jj /\ ns[2] = nn
  OBVIOUS
<1>3. tokens \in Seq(Tokens) /\ Len(tokens) = 1 /\ tokens[1] = t
  OBVIOUS
<1>4. s2c' = s2c \o tokens
  OBVIOUS
<1>5. Place(k, j, n)
  BY Ends
<1> HIDE DEF ks, js, ns, tokens
<1>6. \A i \in 1 .. Len(tokens) :
        /\ ks[i] <= q
        /\ tokens[i] = TokenAt(ks[i], js[i], ns[i])
        /\ Follows(ks[i], js[i], ns[i], ks[i + 1], js[i + 1], ns[i + 1])
  <2>1. \A i \in 1 .. Len(tokens) : i = 1 /\ i + 1 = 2
    BY <1>3
  <2> QED
    BY <1>2, <1>3, <2>1
<1>7. \A i \in 1 .. Len(tokens) + 1 : Place(ks[i], js[i], ns[i])
  <2>1. \A i \in 1 .. Len(tokens) + 1 : i = 1 \/ i = 2
    BY <1>3
  <2> QED
    BY <1>2, <1>5, <2>1
<1>8. StandAt(tokens, q, ks, js, ns)
  BY <1>6, <1>7, Zenon DEF StandAt
<1>9. Leads(p, k0, j0, n0, ks[1], js[1], ns[1])
  BY <1>2, Zenon
<1>10. Leads(q, k0, j0, n0, ks[Len(tokens) + 1], js[Len(tokens) + 1], ns[Len(tokens) + 1])'
  BY <1>1, <1>3, <1>4, <1>8, <1>9, Write
<1>11. Len(tokens) + 1 = 2
  BY <1>3
<1> QED
  BY <1>2, <1>10, <1>11, Zenon

\* A block of w bytes of the file of request p, behind its first s.
BlockOf(block, p, s, w) ==
    Len(block) = w /\ \A i \in 1 .. w : block[i] = Byte(asked[p], s + i)

\* The places from its first byte to the one behind it, where l bytes were left.
BlockPlaces(p, s, l, w, k, j, n) ==
    /\ k[1] = p /\ j[1] = 2 + s /\ n[1] = s + l
    /\ IF w < l THEN k[w + 1] = p /\ j[w + 1] = 2 + (s + w) /\ n[w + 1] = s + l
       ELSE k[w + 1] = p + 1 /\ j[w + 1] = 0

LEMMA BlockStands ==
  ASSUME NEW p \in Nat, NEW s \in Nat, NEW l \in Nat, NEW w \in Nat, 1 <= w, w <= l,
         Place(p, 1, s + l), NEW block \in Seq(Tokens), BlockOf(block, p, s, w)
  PROVE  \E k \in Places, j \in Places, n \in Places :
            StandAt(block, p, k, j, n) /\ BlockPlaces(p, s, l, w, k, j, n)
<1>0. Len(block) = w /\ \A i \in 1 .. w : block[i] = Byte(asked[p], s + i)
  BY DEF BlockOf
<1>1. PICK kk \in Nat, jj \in Nat :
        IF w < l THEN kk = p /\ jj = 2 + (s + w) ELSE kk = p + 1 /\ jj = 0
  <2>1. p \in Nat /\ 2 + (s + w) \in Nat /\ p + 1 \in Nat /\ 0 \in Nat
    OBVIOUS
  <2> QED
    BY <2>1, Zenon
<1> DEFINE k == [i \in Nat |-> IF i <= w THEN p ELSE kk]
           j == [i \in Nat |-> IF i <= w THEN 1 + (s + i) ELSE jj]
           n == [i \in Nat |-> s + l]
<1>2. k \in Places /\ j \in Places /\ n \in Places
  BY DEF Places
<1>3. /\ \A i \in Nat : i <= w => k[i] = p /\ j[i] = 1 + (s + i)
      /\ k[w + 1] = kk /\ j[w + 1] = jj
      /\ \A i \in Nat : n[i] = s + l
  OBVIOUS
<1> HIDE DEF k, j, n
<1>4. /\ p >= 1 /\ HasFile(p) /\ s + l \in FileSize[asked[p]] .. MaxSize
  BY DEF Place
<1>5. ASSUME NEW i \in 1 .. w
      PROVE  /\ k[i] <= p
             /\ block[i] = TokenAt(k[i], j[i], n[i])
             /\ Follows(k[i], j[i], n[i], k[i + 1], j[i + 1], n[i + 1])
  <2>1. /\ i \in Nat /\ i + 1 \in Nat /\ i <= w
        /\ k[i] = p /\ j[i] = 1 + (s + i) /\ n[i] = s + l /\ n[i + 1] = s + l
    BY <1>3
  <2>2. block[i] = TokenAt(p, 1 + (s + i), s + l)
    <3>1. 1 + (s + i) # 0 /\ 1 + (s + i) # 1 /\ (1 + (s + i)) - 1 = s + i
      BY <2>1
    <3>2. TokenAt(p, 1 + (s + i), s + l) = Byte(asked[p], s + i)
      BY <3>1, Zenon DEF TokenAt
    <3> QED
      BY <1>0, <3>2
  <2>3. LastAt(p, 1 + (s + i), s + l) <=> i = l
    BY <2>1 DEF LastAt
  <2>4. Follows(p, 1 + (s + i), s + l, k[i + 1], j[i + 1], s + l)
    <3>1. CASE i < w
      <4>1. i + 1 <= w /\ i # l
        BY <3>1
      <4>2. k[i + 1] = p /\ j[i + 1] = 1 + (s + (i + 1))
        BY <1>3, <2>1, <4>1
      <4> QED
        BY <2>3, <4>1, <4>2 DEF Follows
    <3>2. CASE i = w
      <4>1. k[i + 1] = kk /\ j[i + 1] = jj
        BY <1>3, <3>2
      <4> QED
        BY <1>1, <2>3, <3>2, <4>1 DEF Follows
    <3> QED
      BY <3>1, <3>2
  <2> QED
    BY <2>1, <2>2, <2>4
<1>6. ASSUME NEW i \in 1 .. w + 1 PROVE Place(k[i], j[i], n[i])
  <2>1. i \in Nat /\ (i <= w \/ i = w + 1)
    OBVIOUS
  <2>2. CASE i <= w
    <3>1. 1 + (s + i) <= s + l + 1
      BY <2>2
    <3>2. Place(p, 1 + (s + i), s + l)
      BY <1>4, <3>1 DEF Place
    <3> QED
      BY <1>3, <2>1, <2>2, <3>2, Zenon
  <2>3. CASE i = w + 1
    <3>1. w < l => 2 + (s + w) <= s + l + 1
      OBVIOUS
    <3>2. Place(kk, jj, s + l)
      BY <1>1, <1>4, <3>1 DEF Place
    <3> QED
      BY <1>3, <2>1, <2>3, <3>2, Zenon
  <2> QED
    BY <2>1, <2>2, <2>3
<1>7. StandAt(block, p, k, j, n)
  BY <1>0, <1>5, <1>6 DEF StandAt
<1>8. k[1] = p /\ j[1] = 2 + s /\ n[1] = s + l /\ n[w + 1] = s + l
  BY <1>3
<1>9. IF w < l THEN k[w + 1] = p /\ j[w + 1] = 2 + (s + w) /\ n[w + 1] = s + l
      ELSE k[w + 1] = p + 1 /\ j[w + 1] = 0
  BY <1>1, <1>3, <1>8, Zenon
<1>10. BlockPlaces(p, s, l, w, k, j, n)
  BY <1>8, <1>9, Zenon DEF BlockPlaces
<1> QED
  BY <1>2, <1>7, <1>10, Zenon

-----------------------------------------------------------------------------
(* The server's steps, while the client is there.                          *)

LEMMA MadeBounds ==
  ASSUME DataTyped, FlagsTyped
  PROVE  Made \in Nat /\ Len(asked) <= Made /\ Made <= Len(asked) + 1 /\ Len(asked) \in Nat
<1>1. Made = Len(asked) + 1 \/ Made = Len(asked) + 0
  BY Zenon DEF FlagsTyped, Made
<1>2. Len(asked) \in Nat
  BY DEF DataTyped
<1> HIDE DEF Made
<1> QED
  BY <1>1, <1>2

\* The next command to read is that of the next request.
LEMMA NextCommand ==
  ASSUME DataTyped, FlagsTyped, c2s # <<>>, c2s' = Tail(c2s),
         UNCHANGED <<asked, flagEnd>>, NEW p \in Nat, CommandsFollow(p)
  PROVE  /\ CommandsFollow(p + 1)'
         /\ Head(c2s) = Command(p + 1)
         /\ Head(c2s)[1] = "GET" => p + 1 \in 1 .. Len(asked) /\ Head(c2s)[2] = asked[p + 1]
         /\ Head(c2s)[1] # "GET" => p + 1 > Len(asked)
<1>1. /\ c2s \in Seq(Commands) /\ Len(c2s) \in Nat /\ Len(c2s') \in Nat
      /\ Len(c2s') = Len(c2s) - 1 /\ Head(c2s) = c2s[1] /\ Len(c2s) >= 1
      /\ \A i \in 1 .. Len(c2s') : c2s'[i] = c2s[i + 1]
  BY DEF DataTyped, CommandsTyped
<1>2. Made' = Made /\ (\A i : Command(i)' = Command(i))
  BY Zenon DEF Made, Command
<1>m. Made \in Nat /\ Len(asked) \in Nat
  BY MadeBounds
<1>3. /\ p + Len(c2s) = Made
      /\ \A i \in 1 .. Len(c2s) : c2s[i] = Command(p + i)
  BY DEF CommandsFollow
<1>4. p + 1 + Len(c2s') = Made'
  <2>1. \A x, y, z \in Nat : p + x = z /\ y = x - 1 => p + 1 + y = z
    OBVIOUS
  <2> QED
    BY <1>1, <1>2, <1>3, <1>m, <2>1, Zenon
<1>5. ASSUME NEW i \in 1 .. Len(c2s') PROVE c2s'[i] = Command(p + 1 + i)'
  <2>1. i + 1 \in 1 .. Len(c2s) /\ p + (i + 1) = p + 1 + i
    BY <1>1
  <2>2. c2s'[i] = Command(p + (i + 1))
    BY <1>1, <1>3, <2>1, Zenon
  <2> QED
    BY <1>2, <2>1, <2>2, Zenon
<1>6. CommandsFollow(p + 1)'
  BY <1>4, <1>5 DEF CommandsFollow
<1>7. Head(c2s) = Command(p + 1)
  BY <1>1, <1>3
<1>8. <<"QUIT">>[1] # "GET"
  OBVIOUS
<1>9. /\ p + 1 <= Len(asked) => Head(c2s) = <<"GET", asked[p + 1]>>
      /\ ~(p + 1 <= Len(asked)) => Head(c2s) = <<"QUIT">>
  BY <1>7, Zenon DEF Command
<1>10. <<"GET", asked[p + 1]>>[1] = "GET" /\ <<"GET", asked[p + 1]>>[2] = asked[p + 1]
  OBVIOUS
<1>11. (p + 1 <= Len(asked) => p + 1 \in 1 .. Len(asked)) /\ (~(p + 1 <= Len(asked)) => p + 1 > Len(asked))
  BY <1>m
<1> QED
  BY <1>6, <1>7, <1>8, <1>9, <1>10, <1>11, Zenon

\* Send() while the client is there: nothing is lost and no signal raised.
LEMMA SendArrives ==
  ASSUME SocketsFollow, NEW tokens, Send(tokens)
  PROVE  s2c' = s2c \o tokens /\ ~sigpipe'
<1>1. cEnd = "shut" \/ cEnd = "open"
  BY Zenon DEF SocketsFollow
<1>2. cEnd # "closed"
  BY <1>1
<1>3. s2c' = s2c \o tokens
  BY <1>2 DEF Send
<1>4. sigpipe' = sigpipe /\ ~sigpipe
  BY <1>2, Zenon DEF Send, SocketsFollow
<1> QED
  BY <1>3, <1>4, Zenon

LEMMA SessionGoesOn ==
  ASSUME InSession, UNCHANGED clientVars, SocketsFollow',
         NEW k \in Nat, NEW j \in Nat, NEW n \in Nat, ClientAt(k, j, n),
         NEW q \in Nat, NEW kk \in Nat, NEW jj \in Nat, NEW nn \in Nat,
         CommandsFollow(q)', SendingAsked(q)',
         Leads(q, k, j, n, kk, jj, nn)', ServerAt(q, kk, jj, nn)'
  PROVE  InSession'
<1>1. TurnFollows' /\ Receiving'
  BY Zenon DEF InSession, TurnFollows, Receiving, clientVars
<1>2. ClientAt(k, j, n)'
  BY Zenon DEF ClientAt, clientVars
<1>3. InStep(q)'
  BY <1>2, Zenon DEF InStep
<1> QED
  BY <1>1, <1>3, Zenon DEF InSession

LEMMA ServerInSession ==
  ASSUME OrdinaryFiles, IndInv, Live, ServerStep
  PROVE  InSession'
<1>0. /\ Typed /\ FilesGrow /\ InSession /\ SocketsFollow
      /\ ServerTypeOK /\ DataTyped /\ FlagsTyped /\ s2c \in Seq(Tokens) /\ Len(asked) \in Nat
  BY DEF IndInv, Typed, DataTyped, InSession
<1>r. /\ ServerNext /\ UNCHANGED clientVars /\ asked' = asked
      /\ UNCHANGED <<asked, flagEnd>>
  BY DEF ServerStep, clientVars
<1>1. PICK p \in Nat : CommandsFollow(p) /\ SendingAsked(p) /\ InStep(p)
  BY <1>0, Zenon DEF InSession
<1>2. PICK k0 \in Nat, j0 \in Nat, n0 \in Nat, k \in Nat, j \in Nat, n \in Nat :
        Leads(p, k0, j0, n0, k, j, n) /\ ClientAt(k0, j0, n0) /\ ServerAt(p, k, j, n)
  BY <1>1, Zenon DEF InStep
<1>3. Place(k, j, n)
  BY <1>0, <1>2, Ends
<1>g. ASSUME NEW q \in Nat, NEW kk \in Nat, NEW jj \in Nat, NEW nn \in Nat,
             SocketsFollow', CommandsFollow(q)', SendingAsked(q)',
             Leads(q, k0, j0, n0, kk, jj, nn)', ServerAt(q, kk, jj, nn)'
      PROVE  InSession'
  BY <1>0, <1>r, <1>2, <1>g, SessionGoesOn
<1>k. ASSUME sPc # "ended", sPc' # "ended", UNCHANGED <<cEnd, sEnd>>, ~sigpipe'
      PROVE  SocketsFollow'
  BY <1>0, <1>r, <1>k, Zenon DEF SocketsFollow
<1>d. ASSUME UNCHANGED c2s PROVE CommandsFollow(p)'
  <2>1. Made' = Made /\ (\A i : Command(i)' = Command(i))
    BY <1>r, Zenon DEF Made, Command
  <2> QED
    BY <1>1, <1>d, <2>1, Zenon DEF CommandsFollow
<1>f. /\ p + 1 \in Nat /\ p <= p + 1 /\ p <= p
  OBVIOUS
<1>l. ASSUME UNCHANGED s2c PROVE Leads(p, k0, j0, n0, k, j, n)'
  BY <1>0, <1>r, <1>2, <1>f, <1>l, LeadsMore
<1>4. CASE ReadGet
  <2>1. /\ sPc = "command" /\ c2s # <<>> /\ Head(c2s)[1] = "GET" /\ c2s' = Tail(c2s)
        /\ sFile' = Head(c2s)[2] /\ sPc' = "open"
        /\ UNCHANGED <<s2c, cEnd, sEnd, size, sLeft, sPos, sigpipe>>
    BY <1>4 DEF ReadGet
  <2>2. /\ CommandsFollow(p + 1)' /\ p + 1 \in 1 .. Len(asked) /\ sFile' = asked[p + 1]
    BY <1>0, <1>r, <1>1, <2>1, NextCommand
  <2>3. SocketsFollow'
    <3>1. ~sigpipe'
      BY <1>0, <2>1, Zenon DEF SocketsFollow
    <3> QED
      BY <1>k, <2>1, <3>1
  <2>4. SendingAsked(p + 1)'
    BY <1>r, <2>1, <2>2 DEF SendingAsked
  <2>5. ServerAt(p + 1, k, j, n)'
    BY <1>2, <2>1 DEF ServerAt
  <2>6. Leads(p + 1, k0, j0, n0, k, j, n)'
    BY <1>0, <1>r, <1>2, <1>f, <2>1, LeadsMore
  <2> QED
    BY <1>f, <1>g, <2>2, <2>3, <2>4, <2>5, <2>6
<1>5. CASE ReadOther
  <2>1. /\ sPc = "command" /\ c2s # <<>> /\ Head(c2s)[1] # "GET" /\ c2s' = Tail(c2s)
        /\ Send(<<Err>>) /\ UNCHANGED <<cEnd, sEnd, size, sPc, sFile, sLeft, sPos>>
    BY <1>5 DEF ReadOther
  <2>2. CommandsFollow(p + 1)' /\ p + 1 > Len(asked)
    BY <1>0, <1>r, <1>1, <2>1, NextCommand
  <2>3. s2c' = s2c \o <<Err>> /\ ~sigpipe'
    BY <1>0, <2>1, SendArrives
  <2>4. SocketsFollow'
    BY <1>k, <2>1, <2>3
  <2>5. SendingAsked(p + 1)'
    BY <2>1 DEF SendingAsked
  <2>6. k = p + 1 /\ j = 0
    BY <1>2, <2>1 DEF ServerAt
  <2>7. ~HasFile(k)
    BY <1>0, <2>2, <2>6 DEF HasFile
  <2>8. /\ Err = TokenAt(k, j, n) /\ Follows(k, j, n, p + 1 + 1, 0, 0)
        /\ Place(p + 1 + 1, 0, 0)
    BY <2>6, <2>7 DEF TokenAt, Follows, LastAt, Place
  <2>9. Leads(p + 1, k0, j0, n0, p + 1 + 1, 0, 0)'
    <3>1. k <= p + 1 /\ p + 1 + 1 \in Nat /\ 0 \in Nat /\ p + 1 \in Nat /\ p <= p + 1
      BY <2>6
    <3> QED
      BY <1>0, <1>r, <1>2, <2>3, <2>8, <3>1, TokenTypes, WriteOne
  <2>10. ServerAt(p + 1, p + 1 + 1, 0, 0)'
    BY <2>1 DEF ServerAt
  <2> QED
    BY <1>g, <2>2, <2>4, <2>5, <2>9, <2>10
<1>6. CASE ReadEof
  <2>1. /\ sPc = "command" /\ cEnd # "open" /\ sPc' = "ended" /\ sEnd' = "closed"
        /\ UNCHANGED <<c2s, s2c, cEnd, size, sFile, sLeft, sPos, sigpipe>>
    BY <1>6 DEF ReadEof, ServerAtEof
  <2>2. SocketsFollow'
    BY <1>0, <1>r, <2>1, Zenon DEF SocketsFollow
  <2>3. SendingAsked(p)'
    BY <2>1 DEF SendingAsked
  <2>4. ServerAt(p, k, j, n)'
    BY <1>2, <2>1 DEF ServerAt
  <2> QED
    BY <1>d, <1>g, <1>l, <2>1, <2>2, <2>3, <2>4
<1>7. CASE OpenOk
  <2>1. /\ sPc = "open" /\ Kind[sFile] = "regular" /\ Send(<<Ok>>)
        /\ sLeft' = size[sFile] /\ sPos' = 0 /\ sPc' = "header"
        /\ UNCHANGED <<c2s, cEnd, sEnd, size, sFile>>
    BY <1>7 DEF OpenOk
  <2>2. p \in 1 .. Len(asked) /\ sFile = asked[p] /\ sFile \in Files
    BY <1>0, <1>1, <2>1 DEF SendingAsked, ServerTypeOK
  <2>3. /\ sLeft' \in Nat /\ sLeft' \in FileSize[sFile] .. MaxSize /\ FileSize[sFile] >= 1
        /\ FileSize[sFile] <= size[sFile] /\ size[sFile] \in 0 .. MaxSize
        /\ FileSize[sFile] \in Nat
    BY <1>0, <2>1, <2>2 DEF FilesGrow, OrdinaryFiles, ServerTypeOK
  <2>4. s2c' = s2c \o <<Ok>> /\ ~sigpipe'
    BY <1>0, <2>1, SendArrives
  <2>5. SocketsFollow'
    BY <1>k, <2>1, <2>4
  <2>6. SendingAsked(p)'
    BY <1>r, <2>1, <2>2, <2>3 DEF SendingAsked
  <2>7. k = p /\ j = 0 /\ HasFile(p)
    BY <1>2, <2>1, <2>2 DEF ServerAt, HasFile
  <2>8. PICK left \in Nat : left = sLeft'
    BY <2>3
  <2>9. Ok = TokenAt(k, j, n) /\ Follows(k, j, n, p, 1, left)
    BY <2>7 DEF TokenAt, Follows, LastAt
  <2>10. Place(p, 1, left)
    <3>1. p >= 1 /\ 1 <= left + 1
      BY <2>2
    <3>2. left \in FileSize[asked[p]] .. MaxSize
      BY <2>2, <2>3, <2>8, Zenon
    <3> QED
      BY <2>7, <3>1, <3>2, Zenon DEF Place
  <2>11. Leads(p, k0, j0, n0, p, 1, left)'
    <3>1. k <= p /\ 1 \in Nat /\ p <= p
      BY <2>7
    <3> QED
      BY <1>0, <1>r, <1>2, <2>4, <2>9, <2>10, <3>1, TokenTypes, WriteOne
  <2>12. ServerAt(p, p, 1, left)'
    BY <2>1, <2>8 DEF ServerAt
  <2> QED
    BY <1>d, <1>g, <2>1, <2>5, <2>6, <2>11, <2>12
<1>8. CASE OpenLocked
  BY <1>0, <1>8 DEF OpenLocked, OrdinaryFiles, ServerTypeOK
<1>9. CASE OpenAbsent
  <2>1. /\ sPc = "open" /\ Kind[sFile] = "absent" /\ Send(<<Err>>) /\ sPc' = "command"
        /\ UNCHANGED <<c2s, cEnd, sEnd, size, sFile, sLeft, sPos>>
    BY <1>9 DEF OpenAbsent
  <2>2. p \in 1 .. Len(asked) /\ sFile = asked[p]
    BY <1>1, <2>1 DEF SendingAsked
  <2>3. s2c' = s2c \o <<Err>> /\ ~sigpipe'
    BY <1>0, <2>1, SendArrives
  <2>4. SocketsFollow'
    BY <1>k, <2>1, <2>3
  <2>5. SendingAsked(p)'
    BY <2>1 DEF SendingAsked
  <2>6. k = p /\ j = 0 /\ ~HasFile(p)
    BY <1>2, <2>1, <2>2 DEF ServerAt, HasFile
  <2>7. /\ Err = TokenAt(k, j, n) /\ Follows(k, j, n, p + 1, 0, 0) /\ Place(p + 1, 0, 0)
    BY <2>6 DEF TokenAt, Follows, LastAt, Place
  <2>8. Leads(p, k0, j0, n0, p + 1, 0, 0)'
    <3>1. k <= p /\ 0 \in Nat /\ p + 1 \in Nat /\ p <= p
      BY <2>6
    <3> QED
      BY <1>0, <1>r, <1>2, <2>3, <2>7, <3>1, TokenTypes, WriteOne
  <2>9. ServerAt(p, p + 1, 0, 0)'
    BY <2>1 DEF ServerAt
  <2> QED
    BY <1>d, <1>g, <2>1, <2>4, <2>5, <2>8, <2>9
<1>10. CASE SendHeader
  <2>1. /\ sPc = "header" /\ Send(<<Size(sLeft)>>) /\ sPc' = "chunk"
        /\ UNCHANGED <<c2s, cEnd, sEnd, size, sFile, sLeft, sPos>>
    BY <1>10 DEF SendHeader
  <2>2. /\ p \in 1 .. Len(asked) /\ sFile = asked[p] /\ sPos = 0 /\ Kind[sFile] = "regular"
        /\ sPos + sLeft \in FileSize[sFile] .. size[sFile]
    BY <1>1, <2>1 DEF SendingAsked
  <2>3. sFile \in Files /\ FileSize[sFile] \in Nat /\ FileSize[sFile] >= 1 /\ sLeft \in Nat
    BY <1>0, <2>2 DEF ServerTypeOK, OrdinaryFiles
  <2>4. s2c' = s2c \o <<Size(sLeft)>> /\ ~sigpipe'
    BY <1>0, <2>1, SendArrives
  <2>5. SocketsFollow'
    BY <1>k, <2>1, <2>4
  <2>6. SendingAsked(p)'
    BY <1>r, <2>1, <2>2 DEF SendingAsked
  <2>7. k = p /\ j = 1 /\ n = sLeft /\ n >= 1
    BY <1>2, <2>1, <2>2, <2>3 DEF ServerAt
  <2>8. Size(n) = TokenAt(k, j, n) /\ Follows(k, j, n, p, 2, n)
    BY <2>7 DEF TokenAt, Follows, LastAt
  <2>9. Place(p, 2, n)
    BY <1>3, <2>7 DEF Place
  <2>10. Leads(p, k0, j0, n0, p, 2, n)'
    <3>1. k <= p /\ 2 \in Nat /\ p <= p
      BY <2>7
    <3>2. Size(n) \in Tokens
      BY DEF Tokens, Sizes
    <3>3. s2c' = s2c \o <<Size(n)>>
      BY <2>4, <2>7
    <3> QED
      BY <1>0, <1>r, <1>2, <2>8, <2>9, <3>1, <3>2, <3>3, WriteOne
  <2>11. ServerAt(p, p, 2, n)'
    BY <2>1, <2>2, <2>7 DEF ServerAt
  <2> QED
    BY <1>d, <1>g, <2>1, <2>5, <2>6, <2>10, <2>11
<1>11. CASE SendChunk
  <2>0. PICK w \in Nat, s \in Nat, l \in Nat : w = ChunkLength /\ s = sPos /\ l = sLeft
    BY <1>0, ChunkLengthIsMin DEF ServerTypeOK
  <2>b. PICK block \in Seq(Tokens) :
            /\ block = [i \in 1 .. w |-> Byte(sFile, s + i)]
            /\ Len(block) = w
            /\ \A i \in 1 .. w : block[i] = Byte(sFile, s + i)
    <3> DEFINE bytes == [i \in 1 .. ChunkLength |-> Byte(sFile, sPos + i)]
    <3>1. /\ bytes \in Seq(Tokens) /\ Len(bytes) = ChunkLength
          /\ \A i \in 1 .. ChunkLength : bytes[i] = Byte(sFile, sPos + i)
      BY <1>0, BlockTokens
    <3>2. bytes = [i \in 1 .. w |-> Byte(sFile, s + i)]
      BY <2>0
    <3> HIDE DEF bytes
    <3> QED
      BY <2>0, <3>1, <3>2, Zenon
  <2>1. /\ sPc = "chunk" /\ w > 0 /\ Send(block)
        /\ UNCHANGED <<c2s, cEnd, sEnd, size, sFile>>
    <3>1. /\ sPc = "chunk" /\ ChunkLength > 0
          /\ Send([i \in 1 .. ChunkLength |-> Byte(sFile, sPos + i)])
          /\ UNCHANGED <<c2s, cEnd, sEnd, size, sFile>>
      BY <1>11 DEF SendChunk
    <3> QED
      BY <2>0, <2>b, <3>1
  <2>3. s2c' = s2c \o block /\ ~sigpipe'
    BY <1>0, <2>1, SendArrives
  <2>4. /\ sLeft' = l - w /\ sPos' = s + w /\ sPc' = "chunk"
    BY <1>11, <2>0, <2>1, <2>3 DEF SendChunk
  <2>5. w <= l
    BY <1>0, <2>0, ChunkLengthIsMin
  <2>6. /\ p \in 1 .. Len(asked) /\ sFile = asked[p] /\ Kind[sFile] = "regular"
        /\ s + l \in FileSize[sFile] .. size[sFile]
    BY <1>1, <2>0, <2>1 DEF SendingAsked
  <2>7. SocketsFollow'
    BY <1>k, <2>1, <2>3, <2>4
  <2>8. SendingAsked(p)'
    <3>1. (s + w) + (l - w) = s + l
      BY <2>5
    <3> QED
      BY <1>r, <2>1, <2>4, <2>6, <3>1 DEF SendingAsked
  <2>9. k = p /\ j = 2 + s /\ n = s + l
    BY <1>2, <2>0, <2>1, <2>5 DEF ServerAt
  <2>10. Place(p, 1, s + l)
    BY <1>3, <2>9 DEF Place
  <2>11. 1 <= w /\ p <= p /\ \A i \in 1 .. w : block[i] = Byte(asked[p], s + i)
    BY <2>1, <2>b, <2>6
  <2>12. PICK ks \in Places, js \in Places, ns \in Places :
            /\ StandAt(block, p, ks, js, ns)
            /\ ks[1] = p /\ js[1] = 2 + s /\ ns[1] = s + l
            /\ IF w < l THEN ks[w + 1] = p /\ js[w + 1] = 2 + (s + w) /\ ns[w + 1] = s + l
               ELSE ks[w + 1] = p + 1 /\ js[w + 1] = 0
    <3>1. BlockOf(block, p, s, w)
      BY <2>b, <2>11, Zenon DEF BlockOf
    <3>2. PICK ks \in Places, js \in Places, ns \in Places :
              StandAt(block, p, ks, js, ns) /\ BlockPlaces(p, s, l, w, ks, js, ns)
      BY <2>5, <2>10, <2>11, <3>1, BlockStands
    <3> QED
      BY <3>2, Zenon DEF BlockPlaces
  <2>13. Leads(p, k0, j0, n0, ks[1], js[1], ns[1])
    BY <1>2, <2>9, <2>12, Zenon
  <2>14. Leads(p, k0, j0, n0, ks[Len(block) + 1], js[Len(block) + 1], ns[Len(block) + 1])'
    BY <1>0, <1>r, <2>3, <2>11, <2>12, <2>13, Write
  <2>15. PICK kk \in Nat, jj \in Nat, nn \in Nat :
            kk = ks[w + 1] /\ jj = js[w + 1] /\ nn = ns[w + 1]
    <3>1. w + 1 \in Nat
      OBVIOUS
    <3> QED
      BY <3>1 DEF Places
  <2>16. Leads(p, k0, j0, n0, kk, jj, nn)'
    BY <2>b, <2>14, <2>15, Zenon
  <2>17. ServerAt(p, kk, jj, nn)'
    <3>1. CASE w < l
      <4>1. sLeft' > 0 /\ (s + w) + (l - w) = s + l
        BY <2>4, <3>1
      <4>2. kk = p /\ jj = 2 + sPos' /\ nn = sPos' + sLeft'
        BY <2>4, <2>12, <2>15, <3>1, <4>1
      <4> QED
        BY <2>4, <4>1, <4>2, Zenon DEF ServerAt
    <3>2. CASE w = l
      <4>1. ~(sLeft' > 0)
        BY <2>4, <3>2
      <4>2. kk = p + 1 /\ jj = 0
        BY <2>12, <2>15, <3>2
      <4> QED
        BY <2>4, <4>1, <4>2 DEF ServerAt
    <3> QED
      BY <2>5, <3>1, <3>2
  <2> QED
    BY <1>d, <1>g, <2>1, <2>7, <2>8, <2>16, <2>17
<1>12. CASE SendDone
  <2>1. /\ sPc = "chunk" /\ ChunkLength = 0 /\ sPc' = "command"
        /\ UNCHANGED <<c2s, s2c, cEnd, sEnd, size, sFile, sLeft, sPos, sigpipe>>
    BY <1>12 DEF SendDone
  <2>2. sLeft = 0
    <3>1. sPos + sLeft <= size[sFile] /\ sPos \in Nat /\ sLeft \in Nat /\ size[sFile] \in Nat
      BY <1>0, <1>1, <2>1 DEF SendingAsked, ServerTypeOK
    <3>2. sLeft > 0 => Available > 0
      BY <3>1 DEF Available
    <3>3. ChunkLength \in {Chunk, sLeft, Available} /\ Available \in Nat
      BY <1>0, ChunkLengthIsMin, AvailableType
    <3> QED
      BY <2>1, <3>1, <3>2, <3>3
  <2>3. SocketsFollow'
    <3>1. ~sigpipe'
      BY <1>0, <2>1, Zenon DEF SocketsFollow
    <3> QED
      BY <1>k, <2>1, <3>1
  <2>4. SendingAsked(p)'
    BY <2>1 DEF SendingAsked
  <2>5. ServerAt(p, k, j, n)'
    BY <1>2, <2>1, <2>2 DEF ServerAt
  <2> QED
    BY <1>d, <1>g, <1>l, <2>1, <2>3, <2>4, <2>5
<1>13. CASE ServerDies
  BY <1>13, Zenon DEF ServerDies, OrdinaryFiles
<1>14. ASSUME NEW f \in Files, Resize(f) PROVE InSession'
  <2>1. UNCHANGED <<c2s, s2c, cEnd, sEnd, sPc, sFile, sLeft, sPos, sigpipe>>
    BY <1>14 DEF Resize, channelVars
  <2>2. size'[sFile] >= size[sFile] /\ size'[sFile] \in Nat /\ size[sFile] \in Nat
    BY <1>0, <1>14 DEF Resize, OrdinaryFiles, ServerTypeOK
  <2>3. SocketsFollow'
    BY <1>0, <1>r, <2>1, Zenon DEF SocketsFollow
  <2>4. SendingAsked(p)'
    <3>1. ASSUME sPos + sLeft \in FileSize[sFile] .. size[sFile]
          PROVE  sPos + sLeft \in FileSize[sFile] .. size'[sFile]
      BY <1>0, <2>2, <3>1 DEF ServerTypeOK
    <3> QED
      BY <1>1, <1>r, <2>1, <3>1 DEF SendingAsked
  <2>5. ServerAt(p, k, j, n)'
    BY <1>2, <2>1 DEF ServerAt
  <2> QED
    BY <1>d, <1>g, <1>l, <2>1, <2>3, <2>4, <2>5
<1> QED
  BY <1>r, <1>4, <1>5, <1>6, <1>7, <1>8, <1>9, <1>10, <1>11, <1>12, <1>13, <1>14
  DEF ServerNext, ServerRuns

-----------------------------------------------------------------------------
(* The client's steps.                                                     *)

\* Another request leaves the answers to the earlier ones as they are.
LEMMA AskMore ==
  ASSUME DataTyped, NEW f \in Files, asked' = Append(asked, f), s2c' = s2c,
         NEW p \in Nat, p <= Len(asked),
         NEW k \in Nat, NEW j \in Nat, NEW n \in Nat,
         NEW kk \in Nat, NEW jj \in Nat, NEW nn \in Nat,
         Leads(p, k, j, n, kk, jj, nn)
  PROVE  Leads(p, k, j, n, kk, jj, nn)'
<1>0. /\ asked \in Seq(Files) /\ Len(asked) \in Nat /\ Len(asked') = Len(asked) + 1
      /\ \A i \in 1 .. Len(asked) : asked'[i] = asked[i]
      /\ s2c \in Seq(Tokens)
  BY DEF DataTyped
<1>1. PICK req \in Places, pos \in Places, sz \in Places :
        /\ Path(p, req, pos, sz)
        /\ k = req[1] /\ j = pos[1] /\ n = sz[1]
        /\ kk = req[Len(s2c) + 1] /\ jj = pos[Len(s2c) + 1] /\ nn = sz[Len(s2c) + 1]
  BY Zenon DEF Leads
<1>2. ASSUME NEW a \in Nat, 1 <= a, a <= Len(asked)
      PROVE  (HasFile(a)' <=> HasFile(a)) /\ asked'[a] = asked[a]
  <2>1. a \in 1 .. Len(asked) /\ a <= Len(asked')
    BY <1>0, <1>2
  <2> QED
    BY <1>0, <1>2, <2>1 DEF HasFile
<1>3. ASSUME NEW a \in Nat, NEW b \in Nat, NEW c \in Nat, Place(a, b, c)
      PROVE  Place(a, b, c)'
  <2>1. CASE b = 0
    BY <1>3, <2>1 DEF Place
  <2>2. CASE b # 0
    <3>1. 1 <= a /\ a <= Len(asked) /\ HasFile(a)
      BY <1>3, <2>2 DEF Place, HasFile
    <3>2. HasFile(a)' /\ asked'[a] = asked[a]
      BY <1>2, <3>1
    <3> QED
      BY <1>3, <2>2, <3>2, Zenon DEF Place
  <2> QED
    BY <2>1, <2>2
<1>4. ASSUME NEW i \in 1 .. Len(s2c')
      PROVE  /\ req[i] <= p
             /\ s2c'[i] = TokenAt(req[i], pos[i], sz[i])'
             /\ Follows(req[i], pos[i], sz[i], req[i + 1], pos[i + 1], sz[i + 1])'
  <2>1. /\ i \in 1 .. Len(s2c) /\ i \in 1 .. Len(s2c) + 1 /\ s2c'[i] = s2c[i]
        /\ req[i] \in Nat /\ pos[i] \in Nat /\ sz[i] \in Nat
    BY <1>0 DEF Places
  <2>2. /\ req[i] <= p
        /\ s2c[i] = TokenAt(req[i], pos[i], sz[i])
        /\ Follows(req[i], pos[i], sz[i], req[i + 1], pos[i + 1], sz[i + 1])
        /\ Place(req[i], pos[i], sz[i])
    BY <1>1, <2>1, Zenon DEF Path
  <2>3. 1 <= req[i]
    BY <2>1, <2>2 DEF Place
  <2>4. req[i] <= Len(asked)
    <3>1. \A x, y \in Nat : x <= p /\ p <= y => x <= y
      OBVIOUS
    <3>2. req[i] \in Nat /\ Len(asked) \in Nat /\ req[i] <= p /\ p <= Len(asked)
      BY <1>0, <2>1, <2>2
    <3> QED
      BY <3>1, <3>2, Zenon
  <2>5. (HasFile(req[i])' <=> HasFile(req[i])) /\ asked'[req[i]] = asked[req[i]]
    BY <1>2, <2>1, <2>3, <2>4
  <2>6. TokenAt(req[i], pos[i], sz[i])' = TokenAt(req[i], pos[i], sz[i])
    BY <2>5, Zenon DEF TokenAt
  <2>7. Follows(req[i], pos[i], sz[i], req[i + 1], pos[i + 1], sz[i + 1])'
    BY <2>2, <2>5, Zenon DEF Follows, LastAt
  <2> QED
    BY <2>1, <2>2, <2>6, <2>7, Zenon
<1>5. ASSUME NEW i \in 1 .. Len(s2c') + 1 PROVE Place(req[i], pos[i], sz[i])'
  <2>0. i \in 1 .. Len(s2c) + 1 /\ i \in Nat
    BY <1>0, <1>5
  <2>1. req[i] \in Nat /\ pos[i] \in Nat /\ sz[i] \in Nat
    BY <2>0 DEF Places
  <2>2. Place(req[i], pos[i], sz[i])
    BY <1>1, <2>0, Zenon DEF Path
  <2> QED
    BY <1>3, <2>1, <2>2
<1>6. Path(p, req, pos, sz)'
  BY <1>4, <1>5 DEF Path
<1>7. Len(s2c') = Len(s2c)
  OBVIOUS
<1> QED
  BY <1>1, <1>6, <1>7, Zenon DEF Leads

\* While the client has room to read, the server that is gone said all it had to.
LEMMA NotAtEof ==
  ASSUME SocketsFollow, TurnFollows, NEW p \in Nat, s2c \in Seq(Tokens),
         NEW k \in Nat, NEW j \in Nat, NEW n \in Nat,
         NEW kk \in Nat, NEW jj \in Nat, NEW nn \in Nat,
         Leads(p, k, j, n, kk, jj, nn), ServerAt(p, kk, jj, nn), j # 0,
         s2c = <<>>
  PROVE  ~ClientAtEof
<1> SUFFICES ASSUME ClientAtEof PROVE FALSE
  OBVIOUS
<1>1. sEnd = "closed"
  BY DEF ClientAtEof
<1>2. sPc = "ended"
  <2>1. sPc # "ended" => sEnd = "open"
    BY Zenon DEF SocketsFollow
  <2> QED
    BY <1>1, <2>1
<1>3. jj = 0
  BY <1>2 DEF ServerAt
<1> QED
  BY <1>3, Ends

LEMMA ClientReads ==
  ASSUME InSession, UNCHANGED serverVars, UNCHANGED <<c2s, cEnd, sEnd, asked, flagEnd>>,
         TurnFollows', Receiving',
         NEW p \in Nat, CommandsFollow(p), SendingAsked(p),
         NEW k \in Nat, NEW j \in Nat, NEW n \in Nat, ClientAt(k, j, n)',
         NEW kk \in Nat, NEW jj \in Nat, NEW nn \in Nat,
         Leads(p, k, j, n, kk, jj, nn)', ServerAt(p, kk, jj, nn)
  PROVE  InSession'
<1>1. SocketsFollow'
  BY Zenon DEF InSession, SocketsFollow, serverVars
<1>2. Made' = Made /\ (\A i : Command(i)' = Command(i))
  BY Zenon DEF Made, Command
<1>3. CommandsFollow(p)'
  BY <1>2, Zenon DEF CommandsFollow
<1>4. SendingAsked(p)' /\ ServerAt(p, kk, jj, nn)'
  BY DEF SendingAsked, ServerAt, serverVars
<1>5. InStep(p)'
  BY <1>4, Zenon DEF InStep
<1> QED
  BY <1>1, <1>3, <1>4, <1>5, Zenon DEF InSession

LEMMA SelectInSession ==
  ASSUME InSession, DataTyped, Select, UNCHANGED serverVars
  PROVE  InSession'
<1>0. s2c \in Seq(Tokens) /\ UNCHANGED <<c2s, cEnd, sEnd, asked, flagEnd>> /\ UNCHANGED s2c
  BY DEF DataTyped, Select, channelVars
<1>1. PICK p \in Nat : CommandsFollow(p) /\ SendingAsked(p) /\ InStep(p)
  BY Zenon DEF InSession
<1>2. PICK k \in Nat, j \in Nat, n \in Nat, kk \in Nat, jj \in Nat, nn \in Nat :
        Leads(p, k, j, n, kk, jj, nn) /\ ClientAt(k, j, n) /\ ServerAt(p, kk, jj, nn)
  BY <1>1, Zenon DEF InStep
<1>3. Leads(p, k, j, n, kk, jj, nn)'
  <2>1. p <= p
    OBVIOUS
  <2> QED
    BY <1>0, <1>2, <2>1, LeadsMore
<1>4. /\ cPc = "select"
      /\ cPc' = "keyboard" \/ (cPc' = "byte" /\ reading) \/ (cPc' = "reply" /\ ~reading)
  BY Zenon DEF Select
<1>5. cPc' # "header" /\ cPc # "header"
  BY <1>4
<1>6. ClientAt(k, j, n)'
  BY <1>2, <1>5, Zenon DEF ClientAt, Select
<1>7. Receiving'
  BY Zenon DEF InSession, Receiving, Select
<1>8. TurnFollows'
  <2>1. (reading \/ ~flagEnd) /\ UNCHANGED <<reading, flagEnd>>
    BY Zenon DEF Select
  <2>2. (cPc' \in {"reply", "header"} => ~reading) /\ (cPc' = "byte" => reading)
    BY <1>4
  <2> QED
    BY <2>1, <2>2, Zenon DEF TurnFollows
<1> QED
  BY <1>0, <1>1, <1>2, <1>3, <1>6, <1>7, <1>8, ClientReads

LEMMA ReplyInSession ==
  ASSUME InSession, DataTyped, ReplyOk \/ ReplyErr, UNCHANGED serverVars
  PROVE  InSession'
<1>0. /\ s2c \in Seq(Tokens) /\ UNCHANGED <<c2s, cEnd, sEnd, asked, flagEnd>>
      /\ asked' = asked /\ s2c # <<>> /\ s2c' = Tail(s2c) /\ cPc = "reply"
      /\ Head(s2c) \in {Ok, Err}
  BY DEF DataTyped, ReplyOk, ReplyErr
<1>1. PICK p \in Nat : CommandsFollow(p) /\ SendingAsked(p) /\ InStep(p)
  BY Zenon DEF InSession
<1>2. PICK k \in Nat, j \in Nat, n \in Nat, kk \in Nat, jj \in Nat, nn \in Nat :
        Leads(p, k, j, n, kk, jj, nn) /\ ClientAt(k, j, n) /\ ServerAt(p, kk, jj, nn)
  BY <1>1, Zenon DEF InStep
<1>3. ~reading /\ ~flagEnd /\ ~reading'
  <2>1. cPc \in {"reply", "header"}
    BY <1>0
  <2>2. reading' = reading
    BY Zenon DEF ReplyOk, ReplyErr
  <2> QED
    BY <2>1, <2>2, Zenon DEF InSession, TurnFollows
<1>4. k = Len(results) + 1 /\ j = 0
  <2>1. cPc # "header"
    BY <1>0
  <2> QED
    BY <1>2, <1>3, <2>1, Zenon DEF ClientAt
<1>5. Head(s2c) = TokenAt(k, j, n)
  BY <1>0, <1>2, Ends
<1>6. PICK k2 \in Nat, j2 \in Nat, n2 \in Nat :
        Follows(k, j, n, k2, j2, n2) /\ Leads(p, k2, j2, n2, kk, jj, nn)'
  BY <1>0, <1>2, ReadOne
<1>7. Receiving'
  BY <1>3, Zenon DEF Receiving
<1>8. CASE ReplyOk
  <2>1. Head(s2c) = Ok /\ cPc' = "header" /\ UNCHANGED <<results, flagEnd>>
    BY <1>8 DEF ReplyOk
  <2>2. HasFile(k)
    BY <1>4, <1>5, <2>1, TokenKinds DEF TokenAt
  <2>3. k2 = k /\ j2 = 1
    BY <1>4, <1>6, <2>2 DEF Follows, LastAt
  <2>4. ClientAt(k2, j2, n2)'
    BY <1>3, <1>4, <2>1, <2>3, Zenon DEF ClientAt
  <2>5. TurnFollows'
    <3>1. cPc' # "byte"
      BY <2>1
    <3>2. ~flagEnd'
      BY <1>3, <2>1, Zenon
    <3> QED
      BY <1>3, <3>1, <3>2, Zenon DEF TurnFollows
  <2> QED
    BY <1>0, <1>1, <1>2, <1>6, <1>7, <2>4, <2>5, ClientReads
<1>9. CASE ReplyErr
  <2>1. /\ Head(s2c) = Err /\ cPc' \in {"keyboard", "select"}
        /\ results' = Append(results, Failure)
    BY <1>9 DEF ReplyErr, AfterSocket
  <2>2. ~HasFile(k)
    BY <1>4, <1>5, <2>1, TokenKinds DEF TokenAt
  <2>3. k2 = k + 1 /\ j2 = 0
    BY <1>4, <1>6, <2>2 DEF Follows, LastAt
  <2>4. Len(results') + 1 = k + 1
    <3>1. Len(results') = Len(results) + 1
      BY <2>1, FailureTyped DEF DataTyped
    <3> QED
      BY <1>4, <3>1
  <2>5. cPc' # "header" /\ cPc' # "byte" /\ cPc' \notin {"reply", "header"}
    BY <2>1
  <2>6. ClientAt(k2, j2, n2)'
    BY <1>3, <2>3, <2>4, <2>5, Zenon DEF ClientAt
  <2>7. TurnFollows'
    BY <2>5, Zenon DEF TurnFollows
  <2> QED
    BY <1>0, <1>1, <1>2, <1>6, <1>7, <2>6, <2>7, ClientReads
<1> QED
  BY <1>8, <1>9

LEMMA HeaderInSession ==
  ASSUME OrdinaryFiles, InSession, DataTyped, ReadHeader, UNCHANGED serverVars
  PROVE  InSession'
<1>0. /\ s2c \in Seq(Tokens) /\ UNCHANGED <<c2s, cEnd, sEnd, asked, flagEnd>>
      /\ asked' = asked /\ cPc = "header" /\ cPc' \in {"keyboard", "select"}
      /\ got' = <<>> /\ asked \in Seq(Files)
  BY DEF DataTyped, ReadHeader, AfterSocket
<1>1. PICK p \in Nat : CommandsFollow(p) /\ SendingAsked(p) /\ InStep(p)
  BY Zenon DEF InSession
<1>2. PICK k \in Nat, j \in Nat, n \in Nat, kk \in Nat, jj \in Nat, nn \in Nat :
        Leads(p, k, j, n, kk, jj, nn) /\ ClientAt(k, j, n) /\ ServerAt(p, kk, jj, nn)
  BY <1>1, Zenon DEF InStep
<1>3. ~reading /\ ~flagEnd /\ reading' /\ UNCHANGED results
  <2>1. cPc \in {"reply", "header"}
    BY <1>0
  <2>2. reading' = TRUE /\ UNCHANGED results
    BY Zenon DEF ReadHeader
  <2> QED
    BY <2>1, <2>2, Zenon DEF InSession, TurnFollows
<1>4. k = Len(results) + 1 /\ j = 1
  BY <1>0, <1>2, <1>3, Zenon DEF ClientAt
<1>5. s2c # <<>>
  <2>1. s2c # <<>> \/ ClientAtEof
    BY DEF ReadHeader
  <2>2. j # 0 /\ SocketsFollow /\ TurnFollows
    BY <1>4 DEF InSession
  <2> QED
    BY <1>0, <1>2, <2>1, <2>2, NotAtEof
<1>6. Head(s2c) = Size(n) /\ Place(k, 1, n)
  <2>1. Head(s2c) = TokenAt(k, j, n) /\ Place(k, j, n)
    BY <1>0, <1>2, <1>5, Ends
  <2>2. TokenAt(k, 1, n) = Size(n)
    BY DEF TokenAt
  <2> QED
    BY <1>4, <2>1, <2>2
<1>7. s2c' = Tail(s2c) /\ fileBytes' = n
  <2>1. Head(s2c)[1] = "size" /\ Head(s2c)[2] = n
    BY <1>6, TokenKinds
  <2>2. /\ s2c' = Tail(s2c)
        /\ fileBytes' = IF Head(s2c)[1] = "size" THEN Head(s2c)[2] ELSE Garbage
    BY <1>5 DEF ReadHeader, ClientAtEof
  <2> QED
    BY <2>1, <2>2
<1>8. n >= 1
  <2>1. HasFile(k) /\ n \in FileSize[asked[k]] .. MaxSize /\ k >= 1
    BY <1>6 DEF Place
  <2>2. k \in 1 .. Len(asked) /\ Kind[asked[k]] = "regular"
    BY <1>0, <2>1 DEF HasFile
  <2>3. asked[k] \in Files
    BY <1>0, <2>2
  <2>4. FileSize[asked[k]] \in Nat /\ FileSize[asked[k]] >= 1
    BY <2>2, <2>3 DEF OrdinaryFiles
  <2> QED
    BY <2>1, <2>4
<1>9. PICK k2 \in Nat, j2 \in Nat, n2 \in Nat :
        Follows(k, j, n, k2, j2, n2) /\ Leads(p, k2, j2, n2, kk, jj, nn)'
  BY <1>0, <1>2, <1>5, <1>7, ReadOne
<1>10. k2 = k /\ j2 = 2 /\ n2 = n
  BY <1>4, <1>8, <1>9 DEF Follows, LastAt
<1>11. ClientAt(k2, j2, n2)'
  <2>1. 2 + Len(got') = 2
    BY <1>0
  <2> QED
    BY <1>3, <1>4, <1>7, <1>10, <2>1, Zenon DEF ClientAt
<1>12. Receiving'
  <2>1. \A i \in 1 .. Len(got') : FALSE
    BY <1>0
  <2> QED
    BY <2>1, Zenon DEF Receiving
<1>13. TurnFollows'
  <2>1. cPc' \notin {"reply", "header"}
    BY <1>0
  <2> QED
    BY <1>3, <2>1, Zenon DEF TurnFollows
<1> QED
  BY <1>0, <1>1, <1>2, <1>9, <1>11, <1>12, <1>13, ClientReads

\* The byte to be read is there, and it is the next one of the file asked for.
LEMMA NextByteIsThere ==
  ASSUME InSession, DataTyped, reading,
         NEW p \in Nat, NEW k \in Nat, NEW j \in Nat, NEW n \in Nat,
         NEW kk \in Nat, NEW jj \in Nat, NEW nn \in Nat,
         Leads(p, k, j, n, kk, jj, nn), ClientAt(k, j, n), ServerAt(p, kk, jj, nn)
  PROVE  /\ k = Len(results) + 1 /\ j = 2 + Len(got) /\ n = fileBytes
         /\ k \in 1 .. Len(asked) /\ Kind[asked[k]] = "regular" /\ asked[k] \in Files
         /\ n \in FileSize[asked[k]] .. MaxSize
         /\ Len(got) + 1 <= n
         /\ s2c # <<>> => Head(s2c) = Byte(asked[k], Len(got) + 1)
         /\ s2c = <<>> => ~ClientAtEof
<1>0. s2c \in Seq(Tokens) /\ asked \in Seq(Files) /\ Len(got) \in Nat /\ Len(results) \in Nat
  BY DEF DataTyped
<1>1. k = Len(results) + 1 /\ j = 2 + Len(got) /\ n = fileBytes
  BY Zenon DEF ClientAt
<1>2. Place(k, j, n) /\ (s2c # <<>> => Head(s2c) = TokenAt(k, j, n))
  BY <1>0, Ends
<1>3. j # 0 /\ j # 1 /\ j - 1 = Len(got) + 1
  BY <1>0, <1>1
<1>4. k >= 1 /\ HasFile(k) /\ n \in FileSize[asked[k]] .. MaxSize /\ j <= n + 1
  BY <1>2, <1>3 DEF Place
<1>5. k \in 1 .. Len(asked) /\ Kind[asked[k]] = "regular"
  BY <1>0, <1>4 DEF HasFile
<1>6. asked[k] \in Files
  BY <1>0, <1>5
<1>7. Len(got) + 1 <= n
  BY <1>0, <1>1, <1>4
<1>8. TokenAt(k, j, n) = Byte(asked[k], Len(got) + 1)
  <2>1. TokenAt(k, j, n) = Byte(asked[k], j - 1)
    BY <1>3, Zenon DEF TokenAt
  <2> QED
    BY <1>3, <2>1
<1>9. s2c = <<>> => ~ClientAtEof
  <2>1. SocketsFollow /\ TurnFollows
    BY DEF InSession
  <2> QED
    BY <1>0, <1>3, <2>1, NotAtEof
<1> QED
  BY <1>1, <1>2, <1>4, <1>5, <1>6, <1>7, <1>8, <1>9

LEMMA ByteInSession ==
  ASSUME OrdinaryFiles, InSession, DataTyped, ReadByte, UNCHANGED serverVars
  PROVE  InSession'
<1>0. /\ s2c \in Seq(Tokens) /\ UNCHANGED <<c2s, cEnd, sEnd, asked, flagEnd, fileBytes>>
      /\ asked' = asked /\ cPc = "byte" /\ cPc' \in {"keyboard", "select"}
      /\ Len(got) \in Nat /\ Len(results) \in Nat
  BY DEF DataTyped, ReadByte, AfterSocket
<1>1. PICK p \in Nat : CommandsFollow(p) /\ SendingAsked(p) /\ InStep(p)
  BY Zenon DEF InSession
<1>2. PICK k \in Nat, j \in Nat, n \in Nat, kk \in Nat, jj \in Nat, nn \in Nat :
        Leads(p, k, j, n, kk, jj, nn) /\ ClientAt(k, j, n) /\ ServerAt(p, kk, jj, nn)
  BY <1>1, Zenon DEF InStep
<1>3. reading
  BY <1>0, Zenon DEF InSession, TurnFollows
<1>4. /\ k = Len(results) + 1 /\ j = 2 + Len(got) /\ n = fileBytes
      /\ k \in 1 .. Len(asked) /\ Kind[asked[k]] = "regular" /\ asked[k] \in Files
      /\ n \in FileSize[asked[k]] .. MaxSize
      /\ Len(got) + 1 <= n
      /\ s2c # <<>> => Head(s2c) = Byte(asked[k], Len(got) + 1)
      /\ s2c = <<>> => ~ClientAtEof
  BY <1>2, <1>3, NextByteIsThere
<1>5. s2c # <<>> /\ s2c' = Tail(s2c) /\ Head(s2c) = Byte(asked[k], Len(got) + 1)
  <2>1. s2c = <<>> => ClientAtEof
    BY DEF ReadByte
  <2>2. s2c' = IF s2c = <<>> THEN s2c ELSE Tail(s2c)
    BY DEF ReadByte
  <2> QED
    BY <1>4, <2>1, <2>2
<1>6. PICK k2 \in Nat, j2 \in Nat, n2 \in Nat :
        Follows(k, j, n, k2, j2, n2) /\ Leads(p, k2, j2, n2, kk, jj, nn)'
  BY <1>0, <1>2, <1>5, ReadOne
<1>7. TurnFollows' /\ cPc' # "header"
  <2>1. cPc' \notin {"reply", "header"} /\ cPc' # "byte" /\ cPc' # "header"
    BY <1>0
  <2> QED
    BY <2>1, Zenon DEF TurnFollows
<1>8. CASE Len(got) + 1 = fileBytes
  <2>1. /\ results' = Append(results, Download(Append(got, Head(s2c))))
        /\ reading' = FALSE
    BY <1>5, <1>8 DEF ReadByte
  <2>2. ~reading'
    BY <2>1, Zenon
  <2>3. Len(results') = Len(results) + 1
    <3>1. results' \in Seq(Results)
      BY ByteTyped
    <3>2. results \in Seq(Results)
      BY DEF DataTyped
    <3> QED
      BY <2>1, <3>2
  <2>4. k2 = k + 1 /\ j2 = 0
    <3>1. j # 0 /\ j = n + 1
      BY <1>0, <1>4, <1>8
    <3>2. LastAt(k, j, n)
      BY <3>1, Zenon DEF LastAt
    <3> QED
      BY <1>6, <3>2, Zenon DEF Follows
  <2>5. k2 = Len(results') + 1
    BY <1>0, <1>4, <2>3, <2>4
  <2>6. ClientAt(k2, j2, n2)'
    BY <1>7, <2>2, <2>4, <2>5, Zenon DEF ClientAt
  <2>7. Receiving'
    BY <2>2, Zenon DEF Receiving
  <2> QED
    BY <1>0, <1>1, <1>2, <1>6, <1>7, <2>6, <2>7, ClientReads
<1>9. CASE Len(got) + 1 # fileBytes
  <2>1. Len(got) < MaxGot
    <3>1. n <= MaxSize /\ n \in Int /\ Len(got) + 1 < n
      BY <1>0, <1>4, <1>9
    <3> QED
      BY <1>0, <3>1 DEF OrdinaryFiles
  <2>2. got' = Append(got, Head(s2c)) /\ UNCHANGED <<reading, results>>
    BY <1>5, <1>9, <2>1 DEF ReadByte
  <2>3. reading' = reading
    BY <2>2
  <2>4. /\ Len(got') = Len(got) + 1
        /\ \A i \in 1 .. Len(got) : got'[i] = got[i]
        /\ got'[Len(got) + 1] = Head(s2c)
    <3>1. got \in Seq(Received) /\ Head(s2c) \in Received
      BY <1>0, <1>5 DEF DataTyped, Received
    <3> QED
      BY <2>2, <3>1, AppendProperties
  <2>5. k2 = k /\ j2 = j + 1 /\ n2 = n
    <3>1. j # 0 /\ j # n + 1
      BY <1>0, <1>4, <1>9
    <3>2. ~LastAt(k, j, n)
      BY <3>1, Zenon DEF LastAt
    <3> QED
      BY <1>6, <3>1, <3>2, Zenon DEF Follows
  <2>6. j2 = 2 + Len(got') /\ k2 = Len(results') + 1 /\ n2 = fileBytes'
    BY <1>0, <1>4, <2>2, <2>4, <2>5
  <2>7. ClientAt(k2, j2, n2)'
    BY <1>3, <2>3, <2>6, Zenon DEF ClientAt
  <2>8. Receiving'
    <3>1. ASSUME NEW i \in 1 .. Len(got') PROVE got'[i] = Byte(asked[k], i)
      <4>1. \A i2 \in 1 .. Len(got) : got[i2] = Byte(asked[k], i2)
        BY <1>3, <1>4, Zenon DEF InSession, Receiving
      <4>2. i \in 1 .. Len(got) \/ i = Len(got) + 1
        BY <1>0, <2>4
      <4> QED
        BY <1>5, <2>4, <4>1, <4>2, Zenon
    <3>2. asked'[Len(results') + 1] = asked[k]
      BY <1>0, <1>4, <2>2
    <3> QED
      BY <3>1, <3>2, Zenon DEF Receiving
  <2> QED
    BY <1>0, <1>1, <1>2, <1>6, <1>7, <2>7, <2>8, ClientReads
<1> QED
  BY <1>8, <1>9

-----------------------------------------------------------------------------
(* The keyboard's steps.                                                   *)

\* While the user may type, the server listens.
LEMMA MayWrite ==
  ASSUME InSession, cEnd = "open"
  PROVE  ~flagEnd /\ sEnd = "open"
<1>1. ~flagEnd
  <2>1. flagEnd => cEnd = "shut"
    BY Zenon DEF InSession, SocketsFollow
  <2> QED
    BY <2>1
<1>2. sPc # "ended"
  BY <1>1, Zenon DEF InSession, SocketsFollow
<1>3. sPc # "ended" => sEnd = "open"
  BY Zenon DEF InSession, SocketsFollow
<1> QED
  BY <1>1, <1>2, <1>3

LEMMA GetInSession ==
  ASSUME InSession, Typed, NEW f \in Files, TypeGet(f), UNCHANGED serverVars
  PROVE  InSession'
<1>0. /\ s2c \in Seq(Tokens) /\ c2s \in Seq(Commands) /\ asked \in Seq(Files)
      /\ Len(asked) \in Nat /\ Len(c2s) \in Nat /\ Len(results) \in Nat /\ DataTyped
      /\ cPc = "keyboard" /\ cPc' = "select" /\ asked' = Append(asked, f)
      /\ UNCHANGED <<s2c, cEnd, sEnd, fileBytes, got, results>>
      /\ cEnd = "open"
      /\ c2s' = IF sEnd = "open" THEN Append(c2s, <<"GET", f>>) ELSE c2s
  BY DEF Typed, DataTyped, CommandsTyped, TypeGet, WriteCommand
<1>r. UNCHANGED <<reading, flagEnd>>
  BY Zenon DEF TypeGet
<1>1. PICK p \in Nat : CommandsFollow(p) /\ SendingAsked(p) /\ InStep(p)
  BY Zenon DEF InSession
<1>2. PICK k \in Nat, j \in Nat, n \in Nat, kk \in Nat, jj \in Nat, nn \in Nat :
        Leads(p, k, j, n, kk, jj, nn) /\ ClientAt(k, j, n) /\ ServerAt(p, kk, jj, nn)
  BY <1>1, Zenon DEF InStep
<1>3. ~flagEnd /\ sEnd = "open"
  BY <1>0, MayWrite
<1>4. /\ Len(asked') = Len(asked) + 1 /\ asked'[Len(asked) + 1] = f
      /\ \A i \in 1 .. Len(asked) : asked'[i] = asked[i]
  BY <1>0, AppendProperties
<1>5. Made = Len(asked) /\ Made' = Len(asked) + 1
  <2>1. Made = Len(asked) + 0 /\ Made' = Len(asked') + 0
    BY <1>3, <1>r, Zenon DEF Made
  <2> QED
    BY <1>0, <1>4, <2>1
<1>6. p + Len(c2s) = Len(asked) /\ p <= Len(asked)
  BY <1>0, <1>1, <1>5 DEF CommandsFollow
<1>7. Leads(p, k, j, n, kk, jj, nn)'
  BY <1>0, <1>2, <1>6, AskMore
<1>8. CommandsFollow(p)'
  <2> DEFINE get == <<"GET", f>>
  <2>1. get \in Commands /\ c2s \in Seq(Commands) /\ c2s' = Append(c2s, get)
    BY <1>0, <1>3, CommandKinds
  <2> HIDE DEF get
  <2>2. /\ Len(c2s') = Len(c2s) + 1 /\ c2s'[Len(c2s) + 1] = get
        /\ \A i \in 1 .. Len(c2s) : c2s'[i] = c2s[i]
    BY <2>1, AppendProperties
  <2>3. ASSUME NEW i \in 1 .. Len(c2s') PROVE c2s'[i] = Command(p + i)'
    <3>1. CASE i \in 1 .. Len(c2s)
      <4>1. p + i \in 1 .. Len(asked) /\ p + i <= Len(asked')
        <5>1. Len(asked) \in Nat /\ Len(c2s) \in Nat /\ Len(asked') = Len(asked) + 1
          BY <1>0, <1>4
        <5> QED
          BY <1>6, <3>1, <5>1
      <4>2. c2s[i] = Command(p + i)
        BY <1>1, <3>1 DEF CommandsFollow
      <4>3. Command(p + i)' = Command(p + i)
        BY <1>4, <4>1 DEF Command
      <4> QED
        BY <2>2, <3>1, <4>2, <4>3
    <3>2. CASE i = Len(c2s) + 1
      <4>1. p + i = Len(asked) + 1 /\ p + i <= Len(asked')
        BY <1>0, <1>4, <1>6, <3>2
      <4>2. Command(p + i)' = get
        BY <1>4, <4>1 DEF Command, get
      <4> QED
        BY <2>2, <3>2, <4>2
    <3>3. i \in 1 .. Len(c2s) \/ i = Len(c2s) + 1
      <4>1. Len(c2s) \in Nat /\ Len(c2s') = Len(c2s) + 1
        BY <1>0, <2>2
      <4> QED
        BY <4>1
    <3> QED
      BY <3>1, <3>2, <3>3
  <2>4. p + Len(c2s') = Made'
    <3>1. Len(c2s) \in Nat /\ Len(asked) \in Nat /\ Len(c2s') = Len(c2s) + 1
      BY <1>0, <2>2
    <3> QED
      BY <1>5, <1>6, <3>1
  <2> QED
    BY <2>3, <2>4 DEF CommandsFollow
<1>9. SendingAsked(p)'
  <2>1. UNCHANGED <<sPc, sFile, sLeft, sPos, size>>
    BY DEF serverVars
  <2>2. sPc \in {"open", "header", "chunk"} =>
          p \in 1 .. Len(asked') /\ sFile = asked'[p]
    BY <1>0, <1>1, <1>4 DEF SendingAsked
  <2> QED
    BY <1>1, <2>1, <2>2 DEF SendingAsked
<1>10. Receiving'
  <2>1. ASSUME reading, NEW i \in 1 .. Len(got)
        PROVE  got[i] = Byte(asked'[Len(results) + 1], i)
    <3>1. Len(results) + 1 \in 1 .. Len(asked)
      <4>1. reading /\ DataTyped
        BY <1>0, <2>1
      <4>2. k = Len(results) + 1 /\ k \in 1 .. Len(asked)
        BY <1>2, <4>1, NextByteIsThere
      <4> QED
        BY <4>2
    <3>2. got[i] = Byte(asked[Len(results) + 1], i)
      BY <2>1 DEF InSession, Receiving
    <3> QED
      BY <1>4, <3>1, <3>2
  <2>2. Len(got') = Len(got) /\ Len(results') = Len(results) /\ got' = got
    BY <1>0
  <2> QED
    BY <1>r, <2>1, <2>2, Zenon DEF Receiving
<1>11. ClientAt(k, j, n)' /\ ServerAt(p, kk, jj, nn)'
  <2>1. cPc # "header" /\ cPc' # "header"
    BY <1>0
  <2>2. ClientAt(k, j, n)'
    BY <1>0, <1>2, <1>r, <2>1, Zenon DEF ClientAt
  <2> QED
    BY <1>2, <2>2 DEF ServerAt, serverVars
<1>12. SocketsFollow'
  BY <1>0, <1>r, Zenon DEF InSession, SocketsFollow, serverVars
<1>13. TurnFollows'
  <2>1. cPc' \notin {"reply", "header"} /\ cPc' # "byte"
    BY <1>0
  <2> QED
    BY <2>1, Zenon DEF TurnFollows
<1>14. InStep(p)'
  BY <1>7, <1>11, Zenon DEF InStep
<1> QED
  BY <1>8, <1>9, <1>10, <1>12, <1>13, <1>14, Zenon DEF InSession

\* A step from the keyboard that leaves the requests for files as they are.
LEMMA KeyInSession ==
  ASSUME InSession, Typed, UNCHANGED serverVars, cPc = "keyboard", cPc' = "select",
         UNCHANGED <<s2c, asked, reading, fileBytes, got, results>>,
         SocketsFollow', \A p \in Nat : CommandsFollow(p) => CommandsFollow(p)'
  PROVE  InSession'
<1>1. PICK p \in Nat : CommandsFollow(p) /\ SendingAsked(p) /\ InStep(p)
  BY Zenon DEF InSession
<1>2. PICK k \in Nat, j \in Nat, n \in Nat, kk \in Nat, jj \in Nat, nn \in Nat :
        Leads(p, k, j, n, kk, jj, nn) /\ ClientAt(k, j, n) /\ ServerAt(p, kk, jj, nn)
  BY <1>1, Zenon DEF InStep
<1>3. Leads(p, k, j, n, kk, jj, nn)'
  <2>1. p <= p /\ s2c \in Seq(Tokens) /\ UNCHANGED <<s2c, asked>>
    BY DEF Typed, DataTyped
  <2> QED
    BY <1>2, <2>1, LeadsMore
<1>4. cPc # "header" /\ cPc' # "header" /\ cPc' \notin {"reply", "header"} /\ cPc' # "byte"
  OBVIOUS
<1>5. ClientAt(k, j, n)'
  BY <1>2, <1>4, Zenon DEF ClientAt
<1>6. ServerAt(p, kk, jj, nn)' /\ SendingAsked(p)'
  BY <1>1, <1>2 DEF ServerAt, SendingAsked, serverVars
<1>7. InStep(p)'
  BY <1>3, <1>5, <1>6, Zenon DEF InStep
<1>8. Receiving' /\ TurnFollows'
  BY <1>4, Zenon DEF InSession, Receiving, TurnFollows
<1> QED
  BY <1>1, <1>6, <1>7, <1>8, Zenon DEF InSession

LEMMA QuitInSession ==
  ASSUME InSession, Typed, TypeQuit, UNCHANGED serverVars
  PROVE  InSession'
<1>0. /\ c2s \in Seq(Commands) /\ Len(asked) \in Nat /\ Len(c2s) \in Nat
      /\ cPc = "keyboard" /\ cPc' = "select" /\ cEnd = "open" /\ cEnd' = "shut"
      /\ UNCHANGED <<s2c, sEnd, fileBytes, got, asked, results>>
      /\ c2s' = IF sEnd = "open" THEN Append(c2s, <<"QUIT">>) ELSE c2s
  BY DEF Typed, DataTyped, CommandsTyped, TypeQuit, WriteCommand
<1>r. flagEnd' = TRUE /\ UNCHANGED reading
  BY Zenon DEF TypeQuit
<1>3. ~flagEnd /\ sEnd = "open"
  BY <1>0, MayWrite
<1>5. Made = Len(asked) /\ Made' = Len(asked) + 1
  <2>1. Made = Len(asked) + 0 /\ Made' = Len(asked') + 1
    BY <1>3, <1>r, Zenon DEF Made
  <2> QED
    BY <1>0, <2>1
<1>8. ASSUME NEW p \in Nat, CommandsFollow(p) PROVE CommandsFollow(p)'
  <2> DEFINE quit == <<"QUIT">>
  <2>1. quit \in Commands /\ c2s \in Seq(Commands) /\ c2s' = Append(c2s, quit)
    BY <1>0, <1>3, CommandKinds
  <2>5. p + Len(c2s) = Len(asked)
    BY <1>5, <1>8 DEF CommandsFollow
  <2> HIDE DEF quit
  <2>2. /\ Len(c2s') = Len(c2s) + 1 /\ c2s'[Len(c2s) + 1] = quit
        /\ \A i \in 1 .. Len(c2s) : c2s'[i] = c2s[i]
    BY <2>1, AppendProperties
  <2>3. ASSUME NEW i \in 1 .. Len(c2s') PROVE c2s'[i] = Command(p + i)'
    <3>0. Command(p + i)' = Command(p + i)
      BY <1>0, Zenon DEF Command
    <3>1. CASE i \in 1 .. Len(c2s)
      BY <1>8, <2>2, <3>0, <3>1 DEF CommandsFollow
    <3>2. CASE i = Len(c2s) + 1
      <4>1. ~(p + i <= Len(asked))
        BY <1>0, <2>5, <3>2
      <4>2. Command(p + i) = quit
        BY <4>1 DEF Command, quit
      <4> QED
        BY <2>2, <3>0, <3>2, <4>2
    <3>3. i \in 1 .. Len(c2s) \/ i = Len(c2s) + 1
      <4>1. Len(c2s) \in Nat /\ Len(c2s') = Len(c2s) + 1
        BY <1>0, <2>2
      <4> QED
        BY <4>1
    <3> QED
      BY <3>1, <3>2, <3>3
  <2>4. p + Len(c2s') = Made'
    <3>1. Len(c2s) \in Nat /\ Len(asked) \in Nat /\ Len(c2s') = Len(c2s) + 1
      BY <1>0, <2>2
    <3> QED
      BY <1>5, <2>5, <3>1
  <2> QED
    BY <2>3, <2>4 DEF CommandsFollow
<1>9. SocketsFollow'
  BY <1>0, <1>r, Zenon DEF InSession, SocketsFollow, serverVars
<1> QED
  BY <1>0, <1>r, <1>8, <1>9, KeyInSession

LEMMA OtherKeyInSession ==
  ASSUME InSession, Typed, TypeInvalid \/ TypeEof, UNCHANGED serverVars
  PROVE  InSession'
<1>0. cPc = "keyboard" /\ cPc' = "select"
  BY DEF TypeInvalid, TypeEof
<1>1. /\ UNCHANGED <<c2s, s2c, cEnd, sEnd>>
      /\ UNCHANGED <<asked, reading, flagEnd, fileBytes, got, results>>
  BY Zenon DEF TypeInvalid, TypeEof, channelVars
<1>2. Made' = Made /\ (\A i : Command(i)' = Command(i))
  BY <1>1, Zenon DEF Made, Command
<1>3. \A p \in Nat : CommandsFollow(p) => CommandsFollow(p)'
  BY <1>1, <1>2, Zenon DEF CommandsFollow
<1>4. SocketsFollow'
  BY <1>1, Zenon DEF InSession, SocketsFollow, serverVars
<1> QED
  BY <1>0, <1>1, <1>3, <1>4, KeyInSession

LEMMA ClientInSession ==
  ASSUME OrdinaryFiles, IndInv, ClientStep, Live'
  PROVE  InSession'
<1>0. ClientNext /\ UNCHANGED serverVars
  BY DEF ClientStep
<1>1. cPc # "ended"
  BY <1>0
  DEF ClientNext, Leave, Select, ReadDies, ReplyOk, ReplyErr, ReplyUnknown, ReadHeader,
      OpenDies, ReadByte, Keyboard, TypeGet, TypeQuit, TypeDies, TypeAbort, TypeInvalid,
      TypeEof
<1>2. InSession /\ Typed /\ DataTyped
  BY <1>1 DEF IndInv, Live, Typed
<1>3. CASE Leave \/ ReadDies \/ ReplyUnknown \/ OpenDies \/ TypeDies \/ TypeAbort
  <2>1. cPc' = "ended"
    BY <1>3 DEF Leave, ReadDies, ReplyUnknown, OpenDies, TypeDies, TypeAbort, End
  <2> QED
    BY <2>1 DEF Live
<1>4. CASE Select
  BY <1>0, <1>2, <1>4, SelectInSession
<1>5. CASE ReplyOk \/ ReplyErr
  BY <1>0, <1>2, <1>5, ReplyInSession
<1>6. CASE ReadHeader
  BY <1>0, <1>2, <1>6, HeaderInSession
<1>7. CASE ReadByte
  BY <1>0, <1>2, <1>7, ByteInSession
<1>8. ASSUME NEW f \in Files, TypeGet(f) PROVE InSession'
  BY <1>0, <1>2, <1>8, GetInSession
<1>9. CASE TypeQuit
  BY <1>0, <1>2, <1>9, QuitInSession
<1>10. CASE TypeInvalid \/ TypeEof
  BY <1>0, <1>2, <1>10, OtherKeyInSession
<1> QED
  BY <1>0, <1>3, <1>4, <1>5, <1>6, <1>7, <1>8, <1>9, <1>10 DEF ClientNext, Keyboard

-----------------------------------------------------------------------------
(* The invariant.                                                          *)

LEMMA FilesGrowStep ==
  ASSUME OrdinaryFiles, ServerTypeOK, FilesGrow, [Next]_vars
  PROVE  FilesGrow'
<1>1. CASE UNCHANGED size
  BY <1>1 DEF FilesGrow
<1>2. ASSUME NEW f \in Files, Resize(f) PROVE FilesGrow'
  <2>1. PICK d \in SizeChange : size' = [size EXCEPT ![f] = @ + d]
    BY <1>2 DEF Resize
  <2>2. d \in Nat /\ size \in [Files -> 0 .. MaxSize]
    BY DEF OrdinaryFiles, ServerTypeOK
  <2>3. \A g \in Files : size'[g] >= size[g] /\ size'[g] \in Nat /\ size[g] \in Nat
    BY <2>1, <2>2
  <2>4. \A g \in Files : FileSize[g] \in Nat
    BY DEF FilesGrow
  <2> QED
    BY <2>3, <2>4 DEF FilesGrow
<1>3. UNCHANGED size \/ \E f \in Files : Resize(f)
  BY DEF Next, ServerStep, ClientStep, Terminated, vars, serverVars, ServerNext, ServerRuns,
         ReadGet, ReadOther, ReadEof, OpenOk, OpenLocked, OpenAbsent, SendHeader,
         SendChunk, SendDone, ServerDies
<1> QED
  BY <1>1, <1>2, <1>3

LEMMA InitInv == Init => IndInv
<1> SUFFICES ASSUME Init PROVE IndInv
  OBVIOUS
<1>0. Typed
  BY TypedInit
<1>1. /\ c2s = <<>> /\ s2c = <<>> /\ cEnd = "open" /\ sEnd = "open"
      /\ cPc = "select" /\ asked = <<>> /\ results = <<>> /\ sPc = "command"
  BY Zenon DEF Init, ChannelInit, ClientInit, ServerInit
<1>2. ~reading /\ ~flagEnd /\ ~sigpipe
  BY Zenon DEF Init, ClientInit, ServerInit
<1>3. cPc \notin {"reply", "header"} /\ cPc # "byte" /\ cPc # "header" /\ sPc # "ended"
  BY <1>1
<1>4. SocketsFollow /\ TurnFollows /\ Receiving
  BY <1>1, <1>2, <1>3, Zenon DEF SocketsFollow, TurnFollows, Receiving
<1>5. FilesGrow
  <2>1. size = FileSize
    BY DEF Init, ServerInit
  <2>2. \A f \in Files : FileSize[f] <= FileSize[f]
    OBVIOUS
  <2> QED
    BY <2>1, <2>2, Zenon DEF FilesGrow
<1>6. Len(asked) = 0 /\ Len(c2s) = 0 /\ Len(results) = 0 /\ Len(s2c) = 0
  BY <1>1
<1>7. CommandsFollow(0) /\ SendingAsked(0)
  <2>1. Made = 0 + 0
    BY <1>2, <1>6, Zenon DEF Made
  <2> QED
    BY <1>1, <1>6, <2>1 DEF CommandsFollow, SendingAsked
<1>8. Leads(0, 1, 0, 0, 1, 0, 0)
  <2> DEFINE one == [i \in Nat |-> 1]
             zero == [i \in Nat |-> 0]
  <2>1. one \in Places /\ zero \in Places
    BY DEF Places
  <2>2. one[1] = 1 /\ zero[1] = 0 /\ Len(s2c) + 1 = 1
    BY <1>6
  <2>3. Place(1, 0, 0)
    BY DEF Place
  <2>4. Path(0, one, zero, zero)
    <3>1. \A i \in 1 .. Len(s2c) : FALSE
      BY <1>6
    <3>2. \A i \in 1 .. Len(s2c) + 1 : i = 1
      BY <2>2
    <3> HIDE DEF one, zero
    <3> QED
      BY <2>2, <2>3, <3>1, <3>2, Zenon DEF Path
  <2> HIDE DEF one, zero
  <2> QED
    BY <2>1, <2>2, <2>4, Zenon DEF Leads
<1>9. ClientAt(1, 0, 0)
  <2>1. Len(results) + 1 = 1
    BY <1>6
  <2> QED
    BY <1>2, <1>3, <2>1, Zenon DEF ClientAt
<1>10. ServerAt(0, 1, 0, 0)
  BY <1>1 DEF ServerAt
<1>11. InStep(0)
  <2>1. 0 \in Nat /\ 1 \in Nat
    OBVIOUS
  <2> QED
    BY <1>8, <1>9, <1>10, <2>1, Zenon DEF InStep
<1>12. InSession
  <2>1. 0 \in Nat
    OBVIOUS
  <2> QED
    BY <1>4, <1>7, <1>11, <2>1, Zenon DEF InSession
<1> QED
  BY <1>0, <1>5, <1>12 DEF IndInv

LEMMA StutterInSession == ASSUME InSession, Typed, UNCHANGED vars PROVE InSession'
<1>1. UNCHANGED <<c2s, s2c, cEnd, sEnd>> /\ UNCHANGED serverVars /\ UNCHANGED clientVars
  BY Zenon DEF vars, channelVars
<1>2. PICK p \in Nat : CommandsFollow(p) /\ SendingAsked(p) /\ InStep(p)
  BY Zenon DEF InSession
<1>3. PICK k \in Nat, j \in Nat, n \in Nat, kk \in Nat, jj \in Nat, nn \in Nat :
        Leads(p, k, j, n, kk, jj, nn) /\ ClientAt(k, j, n) /\ ServerAt(p, kk, jj, nn)
  BY <1>2, Zenon DEF InStep
<1>4. Leads(p, k, j, n, kk, jj, nn)'
  <2>1. UNCHANGED <<s2c, asked>> /\ s2c \in Seq(Tokens) /\ p <= p
    BY <1>1 DEF Typed, DataTyped, clientVars
  <2> QED
    BY <1>3, <2>1, LeadsMore
<1>5. CommandsFollow(p)'
  <2>1. Made' = Made /\ (\A i : Command(i)' = Command(i))
    BY <1>1, Zenon DEF Made, Command, clientVars
  <2> QED
    BY <1>1, <1>2, <2>1, Zenon DEF CommandsFollow
<1>6. SendingAsked(p)' /\ ServerAt(p, kk, jj, nn)'
  <2>1. asked' = asked
    BY <1>1 DEF clientVars
  <2> QED
    BY <1>1, <1>2, <1>3, <2>1 DEF SendingAsked, ServerAt, serverVars
<1>7. ClientAt(k, j, n)'
  BY <1>1, <1>3, Zenon DEF ClientAt, clientVars
<1>8. SocketsFollow' /\ TurnFollows' /\ Receiving'
  BY <1>1, Zenon DEF InSession, SocketsFollow, TurnFollows, Receiving, clientVars, serverVars
<1>9. InStep(p)'
  BY <1>4, <1>6, <1>7, Zenon DEF InStep
<1> QED
  BY <1>5, <1>6, <1>8, <1>9, Zenon DEF InSession

LEMMA Inductive == ASSUME OrdinaryFiles, IndInv, [Next]_vars PROVE IndInv'
<1>1. Typed'
  BY ServerTyped, ClientTyped, StutterTyped DEF IndInv, Next, Terminated
<1>2. FilesGrow'
  BY FilesGrowStep DEF IndInv, Typed
<1>3. ASSUME Live' PROVE InSession'
  <2>1. CASE ServerStep
    <3>1. Live
      BY <1>3, <2>1 DEF ServerStep, clientVars, Live
    <3> QED
      BY <2>1, <3>1, ServerInSession
  <2>2. CASE ClientStep
    BY <1>3, <2>2, ClientInSession
  <2>3. CASE UNCHANGED vars
    <3>1. Live
      BY <1>3, <2>3 DEF vars, clientVars, Live
    <3> QED
      BY <2>3, <3>1, StutterInSession DEF IndInv
  <2> QED
    BY <2>1, <2>2, <2>3 DEF Next, Terminated
<1> QED
  BY <1>1, <1>2, <1>3 DEF IndInv

LEMMA Invariance == ASSUME OrdinaryFiles PROVE Spec => []IndInv
<1>1. IndInv /\ [Next]_vars => IndInv'
  BY Inductive
<1> QED
  BY InitInv, <1>1, PTL DEF Spec

\* Where the files are ordinary, the next token to read is always the one that the
\* client's state asks for, in the middle of a file the very next byte: however many
\* commands were typed ahead, and whatever the blocks the server writes (ftp.c:420).
THEOREM StaysAligned == ASSUME OrdinaryFiles PROVE Spec => []StreamAligned
<1>1. ASSUME IndInv PROVE StreamAligned
  <2> SUFFICES ASSUME s2c # <<>>, cPc # "ended"
               PROVE  IF reading THEN \E f \in Files : Head(s2c) = Byte(f, Len(got) + 1)
                      ELSE IF cPc = "header" THEN \E n \in 0 .. MaxSize : Head(s2c) = Size(n)
                      ELSE Head(s2c) \in {Ok, Err}
    BY Zenon DEF StreamAligned
  <2>0. InSession /\ DataTyped /\ s2c \in Seq(Tokens)
    BY <1>1 DEF IndInv, Live, Typed, DataTyped
  <2>1. PICK p \in Nat : CommandsFollow(p) /\ SendingAsked(p) /\ InStep(p)
    BY <2>0, Zenon DEF InSession
  <2>2. PICK k \in Nat, j \in Nat, n \in Nat, kk \in Nat, jj \in Nat, nn \in Nat :
          Leads(p, k, j, n, kk, jj, nn) /\ ClientAt(k, j, n) /\ ServerAt(p, kk, jj, nn)
    BY <2>1, Zenon DEF InStep
  <2>3. Place(k, j, n) /\ Head(s2c) = TokenAt(k, j, n)
    BY <2>0, <2>2, Ends
  <2>4. CASE reading
    <3>1. asked[k] \in Files /\ Head(s2c) = Byte(asked[k], Len(got) + 1)
      BY <2>0, <2>2, <2>4, NextByteIsThere
    <3> QED
      BY <2>4, <3>1, Zenon
  <2>5. CASE ~reading /\ cPc = "header"
    <3>1. j = 1
      BY <2>2, <2>5, Zenon DEF ClientAt
    <3>2. TokenAt(k, 1, n) = Size(n)
      BY DEF TokenAt
    <3>3. HasFile(k) /\ n <= MaxSize /\ k >= 1
      BY <2>3, <3>1 DEF Place
    <3>4. n \in 0 .. MaxSize
      BY <3>3
    <3> QED
      BY <2>3, <2>5, <3>1, <3>2, <3>4, Zenon
  <2>6. CASE ~reading /\ cPc # "header"
    <3>1. j = 0
      BY <2>2, <2>6, Zenon DEF ClientAt
    <3>2. TokenAt(k, 0, n) \in {Ok, Err}
      BY DEF TokenAt
    <3> QED
      BY <2>3, <2>6, <3>1, <3>2, Zenon
  <2> QED
    BY <2>4, <2>5, <2>6, Zenon
<1> QED
  BY Invariance, <1>1, PTL

-----------------------------------------------------------------------------
(* A session implements FileDelivery.                                      *)

LEMMA DeliveryInit == Init => Delivery!Init
<1> SUFFICES ASSUME Init PROVE Delivery!Init
  OBVIOUS
<1>1. asked = <<>> /\ results = <<>> /\ cPc = "select"
  BY Zenon DEF Init, ClientInit
<1> QED
  BY <1>1 DEF Delivery!Init

LEMMA ServerRefines == ASSUME ServerStep PROVE UNCHANGED Delivery!vars
BY DEF ServerStep, clientVars, Delivery!vars

\* An error is read: the file asked for in that turn is not there.
LEMMA ErrorIsRight ==
  ASSUME OrdinaryFiles, IndInv, ReplyErr
  PROVE  Len(results) < Len(asked) /\ Failure \in Answer(asked, Len(results) + 1)
<1>0. /\ InSession /\ Typed /\ DataTyped /\ FlagsTyped /\ s2c \in Seq(Tokens)
      /\ asked \in Seq(Files) /\ Len(results) \in Nat /\ Len(asked) \in Nat
      /\ s2c # <<>> /\ Head(s2c) = Err /\ cPc = "reply"
  BY DEF ReplyErr, IndInv, Live, Typed, DataTyped
<1>1. PICK p \in Nat : CommandsFollow(p) /\ SendingAsked(p) /\ InStep(p)
  BY <1>0, Zenon DEF InSession
<1>2. PICK k \in Nat, j \in Nat, n \in Nat, kk \in Nat, jj \in Nat, nn \in Nat :
        Leads(p, k, j, n, kk, jj, nn) /\ ClientAt(k, j, n) /\ ServerAt(p, kk, jj, nn)
  BY <1>1, Zenon DEF InStep
<1>3. ~reading /\ ~flagEnd
  <2>1. cPc \in {"reply", "header"}
    BY <1>0
  <2> QED
    BY <1>0, <2>1, Zenon DEF InSession, TurnFollows
<1>4. k = Len(results) + 1 /\ j = 0
  <2>1. cPc # "header"
    BY <1>0
  <2> QED
    BY <1>2, <1>3, <2>1, Zenon DEF ClientAt
<1>5. k <= p /\ Err = TokenAt(k, j, n)
  BY <1>0, <1>2, Ends
<1>6. ~HasFile(k)
  BY <1>4, <1>5, TokenKinds DEF TokenAt
<1>7. Made = Len(asked)
  <2>1. Made = Len(asked) + 0
    BY <1>3, Zenon DEF Made
  <2> QED
    BY <1>0, <2>1
<1>8. p <= Len(asked)
  <2>1. p + Len(c2s) = Len(asked) /\ Len(c2s) \in Nat
    BY <1>0, <1>1, <1>7 DEF CommandsFollow, DataTyped, CommandsTyped
  <2> QED
    BY <1>0, <2>1
<1>9. k <= Len(asked) /\ Kind[asked[k]] # "regular"
  BY <1>0, <1>5, <1>6, <1>8 DEF HasFile
<1> QED
  BY <1>0, <1>4, <1>9 DEF Answer

\* The byte that completes a download: it is all the file, in its order.
LEMMA DownloadIsRight ==
  ASSUME OrdinaryFiles, IndInv, ReadByte, Len(got) + 1 = fileBytes
  PROVE  /\ Len(results) < Len(asked)
         /\ Download(Append(got, Head(s2c))) \in Answer(asked, Len(results) + 1)
         /\ results' = Append(results, Download(Append(got, Head(s2c))))
<1>0. /\ InSession /\ Typed /\ DataTyped /\ s2c \in Seq(Tokens) /\ got \in Seq(Received)
      /\ asked \in Seq(Files) /\ Len(results) \in Nat /\ Len(asked) \in Nat
      /\ Len(got) \in Nat /\ cPc = "byte"
  BY DEF ReadByte, IndInv, Live, Typed, DataTyped
<1>1. PICK p \in Nat : CommandsFollow(p) /\ SendingAsked(p) /\ InStep(p)
  BY <1>0, Zenon DEF InSession
<1>2. PICK k \in Nat, j \in Nat, n \in Nat, kk \in Nat, jj \in Nat, nn \in Nat :
        Leads(p, k, j, n, kk, jj, nn) /\ ClientAt(k, j, n) /\ ServerAt(p, kk, jj, nn)
  BY <1>1, Zenon DEF InStep
<1>3. reading
  BY <1>0, Zenon DEF InSession, TurnFollows
<1>4. /\ k = Len(results) + 1 /\ n = fileBytes
      /\ k \in 1 .. Len(asked) /\ Kind[asked[k]] = "regular" /\ asked[k] \in Files
      /\ n \in FileSize[asked[k]] .. MaxSize
      /\ s2c # <<>> => Head(s2c) = Byte(asked[k], Len(got) + 1)
      /\ s2c = <<>> => ~ClientAtEof
  BY <1>0, <1>2, <1>3, NextByteIsThere
<1>5. s2c # <<>> /\ Head(s2c) = Byte(asked[k], Len(got) + 1)
  <2>1. s2c = <<>> => ClientAtEof
    BY DEF ReadByte
  <2> QED
    BY <1>4, <2>1
<1>6. results' = Append(results, Download(Append(got, Head(s2c))))
  BY <1>5 DEF ReadByte
<1>7. Append(got, Head(s2c)) = Prefix(asked[k], n)
  <2> DEFINE data == Append(got, Head(s2c))
             prefix == Prefix(asked[k], n)
  <2>0. Head(s2c) \in Received /\ n \in Nat
    BY <1>0, <1>5 DEF Received
  <2>1. /\ data \in Seq(Received) /\ Len(data) = n
        /\ data[n] = Head(s2c)
        /\ \A i \in 1 .. Len(got) : data[i] = got[i]
    BY <1>0, <1>4, <2>0, AppendProperties
  <2>2. prefix = [i \in 1 .. n |-> Byte(asked[k], i)]
    BY DEF Prefix
  <2>3. \A i \in 1 .. Len(got) : got[i] = Byte(asked[k], i)
    BY <1>0, <1>3, <1>4, Zenon DEF InSession, Receiving
  <2>4. ASSUME NEW i \in 1 .. n PROVE data[i] = Byte(asked[k], i)
    <3>1. i \in 1 .. Len(got) \/ i = n
      BY <1>0, <1>4
    <3> HIDE DEF data
    <3> QED
      BY <1>4, <1>5, <2>1, <2>3, <3>1
  <2> HIDE DEF data, prefix
  <2>5. data = [i \in 1 .. n |-> data[i]]
    BY <2>1
  <2> QED
    BY <2>2, <2>4, <2>5 DEF data, prefix
<1>8. Download(Append(got, Head(s2c))) \in Answer(asked, k)
  BY <1>4, <1>7 DEF Answer
<1> QED
  BY <1>0, <1>4, <1>6, <1>8

LEMMA ClientRefines ==
  ASSUME OrdinaryFiles, IndInv, ClientStep
  PROVE  [Delivery!Next]_Delivery!vars
<1>0. ClientNext
  BY DEF ClientStep
<1>1. CASE Leave \/ ReadDies \/ ReplyUnknown \/ OpenDies \/ TypeDies \/ TypeAbort
  <2>1. cPc # "ended" /\ cPc' = "ended" /\ UNCHANGED <<asked, results>>
    BY <1>1 DEF Leave, ReadDies, ReplyUnknown, OpenDies, TypeDies, TypeAbort, End
  <2> QED
    BY <2>1 DEF Delivery!Next, Delivery!Finish
<1>2. CASE Select \/ ReplyOk \/ ReadHeader \/ TypeQuit \/ TypeInvalid \/ TypeEof
  <2>1. cPc # "ended" /\ cPc' # "ended"
    BY <1>2 DEF Select, ReplyOk, ReadHeader, TypeQuit, TypeInvalid, TypeEof, AfterSocket
  <2>2. UNCHANGED <<asked, results>>
    BY <1>2, Zenon DEF Select, ReplyOk, ReadHeader, TypeQuit, TypeInvalid, TypeEof
  <2> QED
    BY <2>1, <2>2 DEF Delivery!vars
<1>3. ASSUME NEW f \in Files, TypeGet(f) PROVE Delivery!Next
  <2>1. /\ cPc # "ended" /\ cPc' # "ended" /\ Len(asked) < MaxGets
        /\ asked' = Append(asked, f) /\ UNCHANGED results
    BY <1>3 DEF TypeGet
  <2> QED
    BY <2>1 DEF Delivery!Next, Delivery!Ask
<1>d. ASSUME NEW result \in Answer(asked, Len(results) + 1), Len(results) < Len(asked),
             cPc # "ended", cPc' # "ended", UNCHANGED asked,
             results' = Append(results, result)
      PROVE  Delivery!Next
  BY <1>d DEF Delivery!Next, Delivery!Deliver
<1>4. CASE ReplyErr
  <2>1. /\ cPc # "ended" /\ cPc' # "ended" /\ UNCHANGED asked
        /\ results' = Append(results, Failure)
    BY <1>4 DEF ReplyErr, AfterSocket
  <2>2. Len(results) < Len(asked) /\ Failure \in Answer(asked, Len(results) + 1)
    BY <1>4, ErrorIsRight
  <2> QED
    BY <1>d, <2>1, <2>2
<1>5. CASE ReadByte
  <2>1. cPc # "ended" /\ cPc' # "ended" /\ UNCHANGED asked
    BY <1>5 DEF ReadByte, AfterSocket
  <2>2. CASE Len(got) + 1 = fileBytes
    <3>1. /\ Len(results) < Len(asked)
          /\ Download(Append(got, Head(s2c))) \in Answer(asked, Len(results) + 1)
          /\ results' = Append(results, Download(Append(got, Head(s2c))))
      BY <1>5, <2>2, DownloadIsRight
    <3> QED
      BY <1>d, <2>1, <3>1
  <2>3. CASE Len(got) + 1 # fileBytes
    <3>1. UNCHANGED results
      BY <1>5, <2>3 DEF ReadByte
    <3> QED
      BY <2>1, <3>1 DEF Delivery!vars
  <2> QED
    BY <2>2, <2>3
<1> QED
  BY <1>0, <1>1, <1>2, <1>3, <1>4, <1>5 DEF ClientNext, Keyboard

LEMMA StutterRefines == ASSUME UNCHANGED vars PROVE UNCHANGED Delivery!vars
BY DEF vars, clientVars, Delivery!vars

\* Where the files are ordinary, a session implements FileDelivery: a command typed
\* ahead is answered once and in its turn, by an error if the file is not there and by
\* all its bytes if it is, and by nothing else (ftp.c:211, ftp.c:377, ftp.c:454).
THEOREM SessionDelivers == ASSUME OrdinaryFiles PROVE Spec => InOrderDelivery
<1>1. IndInv /\ [Next]_vars => [Delivery!Next]_Delivery!vars
  BY ServerRefines, ClientRefines, StutterRefines DEF Next, Terminated
<1> QED
  BY DeliveryInit, Invariance, <1>1, PTL DEF Spec, InOrderDelivery, Delivery!Spec
=============================================================================
