------------------------ MODULE SimpleSessionProofs ------------------------
(***************************************************************************)
(* Proofs about SimpleSession, for every set of files, however they grow   *)
(* or shrink, and every size of the blocks on either side.                 *)
(***************************************************************************)
EXTENDS SimpleSession, FtpSenderProofs

USE FilesAssumption, ChunkAssumption, ServerMayDieAssumption, BlockAssumption,
    NoHeaderAssumption

\* The k-th token of the answer that is a file: the length is the one announced.
AnswerToken(k) ==
    IF k = 1 THEN Ok ELSE IF k = 2 THEN Size(sPos + sLeft) ELSE Byte(sFile, k - 2)

\* The tokens of the answer that the client has taken out of the stream, and
\* those that the server has put into it.
Taken ==
    CASE rPc \in {"keyboard", "select", "reply"} -> 0
      [] rPc = "header" -> 1
      [] OTHER -> 2 + Len(rGot)
Emitted == Taken + Len(s2c)

Request == <<"GET", rFile>>

SocketsFollow ==
    /\ cEnd = IF rPc = "ended" THEN "closed" ELSE "open"
    /\ sEnd = IF sPc = "ended" THEN "closed" ELSE "open"
    /\ rPc # "ended" => ~sigpipe

\* One request, and it is the client's.
OneRequest ==
    /\ c2s = <<>> \/ c2s = <<Request>>
    /\ rPc = "keyboard" => c2s = <<>>
    /\ c2s # <<>> => sPc \in {"command", "ended"}

\* How much of the answer there is when the server is at a step.
EmittedAtStep ==
    rPc # "ended" =>
        /\ rPc = "keyboard" \/ c2s # <<>> => Emitted = 0 /\ sPc \in {"command", "ended"}
        /\ sPc = "open" => Emitted = 0
        /\ sPc = "header" => Emitted = 1 /\ sPos = 0
        /\ sPc = "chunk" => Emitted = 2 + sPos
        /\ sPc = "command" => Emitted \in {0, 1, 2 + sPos}

\* What is in the stream is the rest of that answer, or it is a refusal.
StreamIsAnswer ==
    rPc # "ended" =>
        \/ \A i \in 1 .. Len(s2c) : s2c[i] = AnswerToken(Taken + i)
        \/ s2c = <<Err>> /\ Taken = 0 /\ sPc \in {"command", "ended"}

\* The copy holds the file's first bytes, and the client's count is the server's.
CopyFollows ==
    /\ rPc \notin {"data", "ended"} => rGot = <<>>
    /\ rPc = "data" =>
        /\ \A i \in 1 .. Len(rGot) : rGot[i] = Byte(sFile, i)
        /\ sPc # "ended" => Len(rGot) + rLeft = sPos + sLeft

\* An answer is under way to the client's own request.
OwnAnswer ==
    /\ sPc \in {"open", "header", "chunk"} => sFile = rFile
    /\ rPc # "ended" /\ Emitted > 0 => sFile = rFile

\* A copy that has been reported stays whole: nothing more is sent of the file.
Reported ==
    /\ rPc = "ended" \/ rRet = "none"
    /\ rSaved => rPc \in {"data", "ended"}
    /\ rSaved => c2s = <<>>
    /\ ~ServerMayDie /\ rRet = "0" /\ rSaved =>
          /\ sPc \in {"chunk", "command", "ended"}
          /\ sLeft = 0
          /\ Len(rGot) = sPos
          /\ \A i \in 1 .. Len(rGot) : rGot[i] = Byte(rFile, i)

ServerLives == ~ServerMayDie /\ rPc # "ended" => sPc # "ended"

Typed ==
    /\ ServerTypeOK
    /\ ReceiverTypeOK
    /\ CommandsTyped
    /\ s2c \in Seq(Tokens)
    /\ rGot \in Seq(Tokens)

\* What the proofs carry from step to step.
IndInv ==
    /\ Typed
    /\ SocketsFollow
    /\ OneRequest
    /\ EmittedAtStep
    /\ StreamIsAnswer
    /\ CopyFollows
    /\ OwnAnswer
    /\ Reported
    /\ ServerLives

-----------------------------------------------------------------------------
LEMMA InitInv == Init => IndInv
<1> SUFFICES ASSUME Init PROVE IndInv
  OBVIOUS
<1>1. ServerTypeOK
  BY ServerTypeInit DEF Init
<1>2. /\ c2s = <<>> /\ s2c = <<>> /\ cEnd = "open" /\ sEnd = "open"
      /\ sPc = "command" /\ rPc = "keyboard"
      /\ rLeft = 0 /\ rGot = <<>> /\ rRet = "none"
  BY Zenon DEF Init, ChannelInit, ServerInit, ReceiverInit
<1>3. rSaved \in BOOLEAN /\ ~rSaved
  BY Zenon DEF Init, ReceiverInit
<1>4. rFile \in Files
  <2>1. \E f \in Files : TRUE
    OBVIOUS
  <2> QED
    BY <2>1, Zenon DEF Init, ReceiverInit
<1>5. Typed
  BY <1>1, <1>2, <1>3, <1>4 DEF Typed, ReceiverTypeOK, CommandsTyped
<1>9. ~sigpipe
  BY Zenon DEF Init, ServerInit
<1>6. SocketsFollow /\ OneRequest /\ ServerLives
  BY <1>2, <1>9 DEF SocketsFollow, OneRequest, ServerLives
<1>7. EmittedAtStep /\ StreamIsAnswer /\ CopyFollows
  BY <1>2 DEF EmittedAtStep, StreamIsAnswer, CopyFollows, Emitted, Taken
<1>8. OwnAnswer /\ Reported
  BY <1>2, <1>3 DEF OwnAnswer, Reported, Emitted, Taken
<1> QED
  BY <1>5, <1>6, <1>7, <1>8 DEF IndInv

\* Taken is a number.
LEMMA EmittedType ==
  ASSUME Typed PROVE Taken \in Nat /\ Len(s2c) \in Nat /\ Emitted = Taken + Len(s2c)
BY DEF Typed, ReceiverTypeOK, Taken, Emitted

\* What a write() of the server does to the stream of a client that is there.
LEMMA SendEffect ==
  ASSUME Typed, SocketsFollow, NEW tokens \in Seq(Tokens), Send(tokens)
  PROVE  /\ s2c' \in Seq(Tokens)
         /\ rPc # "ended" =>
               /\ Len(s2c') = Len(s2c) + Len(tokens)
               /\ \A i \in 1 .. Len(s2c') :
                     s2c'[i] = IF i <= Len(s2c) THEN s2c[i] ELSE tokens[i - Len(s2c)]
BY DEF Typed, SocketsFollow, Send

\* What the server's steps leave alone in every case.
LEMMA ServerFrame ==
  ASSUME IndInv, ServerNext, UNCHANGED receiverVars, s2c' \in Seq(Tokens)
  PROVE  /\ Typed'
         /\ ServerLives'
         /\ SocketsFollow'
         /\ Taken' = Taken
<1>1. Typed'
  BY ServerTypeStep DEF IndInv, Typed, ReceiverTypeOK, receiverVars
<1>2. Taken' = Taken
  BY DEF Taken, receiverVars
<1>3. ASSUME rPc # "ended" PROVE sigpipe' = sigpipe
  <2>1. ASSUME NEW tokens, Send(tokens) PROVE sigpipe' = sigpipe
    BY <1>3, <2>1 DEF Send, IndInv, SocketsFollow
  <2> QED
    BY <2>1, Zenon
    DEF ServerNext, ServerRuns, ReadGet, ReadOther, ReadEof, OpenOk, OpenLocked,
        OpenAbsent, SendHeader, SendChunk, SendDone, ServerDies, Resize
<1>5. rPc' # "ended" => ~sigpipe'
  BY <1>3, Zenon DEF receiverVars, IndInv, SocketsFollow
<1>4. SocketsFollow' /\ ServerLives'
  BY <1>5 DEF ServerNext, ServerRuns, ReadGet, ReadOther, ReadEof, OpenOk, OpenLocked,
         OpenAbsent, SendHeader, SendChunk, SendDone, ServerDies, Resize, channelVars,
         receiverVars, ServerAtEof, IndInv, SocketsFollow, ServerLives
<1> QED
  BY <1>1, <1>2, <1>4

\* What of the invariant is about the answer in the stream.
AnswerInv ==
    OneRequest /\ EmittedAtStep /\ StreamIsAnswer /\ CopyFollows /\ OwnAnswer /\ Reported

\* The steps that send: the tokens go on with the answer where it is.
LEMMA AnswerGrows ==
  ASSUME IndInv, Typed', UNCHANGED receiverVars, UNCHANGED c2s,
         NEW tokens \in Seq(Tokens), Send(tokens),
         rPc # "ended" =>
            /\ c2s = <<>> /\ rPc # "keyboard" /\ sFile = rFile /\ sFile' = rFile
            /\ \A i \in 1 .. Emitted + Len(tokens) :
                  IF i <= Emitted THEN AnswerToken(i)' = AnswerToken(i)
                                  ELSE tokens[i - Emitted] = AnswerToken(i)'
            /\ s2c = <<Err>> => Taken # 0
         PROVE StreamIsAnswer'
<1> SUFFICES ASSUME rPc # "ended", NEW i \in 1 .. Len(s2c')
             PROVE  s2c'[i] = AnswerToken(Taken + i)'
  BY DEF StreamIsAnswer, receiverVars
<1>0. Taken' = Taken
  BY DEF Taken, receiverVars
<1>1. /\ Len(s2c') = Len(s2c) + Len(tokens)
      /\ s2c'[i] = IF i <= Len(s2c) THEN s2c[i] ELSE tokens[i - Len(s2c)]
  BY SendEffect DEF IndInv
<1>2. \A k \in 1 .. Len(s2c) : s2c[k] = AnswerToken(Taken + k)
  BY DEF IndInv, StreamIsAnswer
<1>3. Taken \in Nat /\ Len(s2c) \in Nat /\ Emitted = Taken + Len(s2c) /\ Len(tokens) \in Nat
  BY EmittedType DEF IndInv
<1> DEFINE k == Taken + i
<1>4. PICK n \in Nat : n = k
  BY <1>3
<1>7. AnswerToken(Taken + i)' = AnswerToken(n)'
  BY <1>0, <1>4 DEF AnswerToken
<1> HIDE DEF k
<1>5. CASE i <= Len(s2c)
  <2>1. n \in 1 .. Emitted + Len(tokens) /\ n <= Emitted
    BY <1>1, <1>3, <1>4, <1>5 DEF k
  <2>2. AnswerToken(n)' = AnswerToken(n)
    BY <2>1
  <2>3. s2c'[i] = AnswerToken(n)
    BY <1>1, <1>2, <1>4, <1>5 DEF k
  <2> QED
    BY <1>7, <2>2, <2>3
<1>6. CASE ~(i <= Len(s2c))
  <2>1. /\ n \in 1 .. Emitted + Len(tokens) /\ ~(n <= Emitted)
        /\ n - Emitted = i - Len(s2c)
    BY <1>1, <1>3, <1>4, <1>6 DEF k
  <2> QED
    BY <1>1, <1>6, <1>7, <2>1
<1> QED
  BY <1>5, <1>6

LEMMA ServerInv == ASSUME IndInv, ServerStep PROVE IndInv'
<1> USE DEF IndInv
<1>r. UNCHANGED receiverVars /\ ServerNext
  BY DEF ServerStep
<1>1. ASSUME s2c' = s2c, AnswerInv' PROVE IndInv'
  BY <1>1, <1>r, ServerFrame DEF AnswerInv, Typed
<1>2. CASE ReadGet
  <2>1. Emitted = 0 \/ rPc = "ended"
    BY <1>2 DEF ReadGet, EmittedAtStep
  <2>a. c2s = <<Request>>
    BY <1>2 DEF ReadGet, OneRequest
  <2>b. Request[2] = rFile
    BY DEF Request
  <2>0. c2s = <<Request>> /\ Head(c2s) = Request /\ Tail(c2s) = <<>> /\ Request[2] = rFile
    BY <2>a, <2>b
  <2>2. /\ c2s = <<Request>> /\ c2s' = <<>> /\ sFile' = rFile /\ sPc' = "open"
        /\ UNCHANGED <<s2c, sLeft, sPos>>
    BY <1>2, <2>0 DEF ReadGet
  <2>3. Taken' = Taken /\ Emitted' = Emitted /\ Typed
    BY <1>r, <2>2 DEF Taken, Emitted, receiverVars
  <2>4. OneRequest' /\ EmittedAtStep' /\ OwnAnswer'
    BY <1>r, <2>1, <2>2, <2>3 DEF receiverVars, OneRequest, EmittedAtStep, OwnAnswer
  <2>5. StreamIsAnswer'
    BY <1>r, <2>1, <2>2, <2>3, EmittedType DEF receiverVars, StreamIsAnswer
  <2>6. CopyFollows' /\ Reported'
    BY <1>r, <2>1, <2>2, <2>3, EmittedType
    DEF receiverVars, CopyFollows, Reported, Taken, Typed
  <2> QED
    BY <1>1, <2>2, <2>4, <2>5, <2>6 DEF AnswerInv
<1>3. CASE ReadOther
  <2>1. c2s = <<Request>> /\ Head(c2s)[1] # "GET"
    BY <1>3 DEF ReadOther, OneRequest
  <2> QED
    BY <2>1 DEF Request
<1>4. CASE ReadEof \/ OpenLocked \/ ServerDies
  <2>1. /\ UNCHANGED <<c2s, s2c, sFile, sLeft, sPos>>
        /\ sPc' \in {"command", "ended"}
        /\ sPc' = "command" => sPc = "open"
    BY <1>4 DEF ReadEof, OpenLocked, ServerDies
  <2>2. Taken' = Taken /\ Emitted' = Emitted
    BY <1>r, <2>1 DEF Taken, Emitted, receiverVars
  <2>3. OneRequest' /\ EmittedAtStep' /\ OwnAnswer'
    BY <1>r, <2>1, <2>2 DEF receiverVars, OneRequest, EmittedAtStep, OwnAnswer, Request
  <2>4. StreamIsAnswer'
    BY <1>r, <2>1, <2>2 DEF receiverVars, StreamIsAnswer, AnswerToken
  <2>5. CopyFollows' /\ Reported'
    BY <1>r, <2>1, <2>2, EmittedType
    DEF receiverVars, CopyFollows, Reported, Taken, EmittedAtStep, Typed
  <2> QED
    BY <1>1, <2>1, <2>3, <2>4, <2>5 DEF AnswerInv
<1>5. CASE SendDone
  <2>1. /\ UNCHANGED <<c2s, s2c, sFile, sLeft, sPos>>
        /\ sPc = "chunk" /\ sPc' = "command"
    BY <1>5 DEF SendDone
  <2>2. Taken' = Taken /\ Emitted' = Emitted
    BY <1>r, <2>1 DEF Taken, Emitted, receiverVars
  <2>3. OneRequest' /\ EmittedAtStep' /\ OwnAnswer'
    BY <1>r, <2>1, <2>2 DEF receiverVars, OneRequest, EmittedAtStep, OwnAnswer, Request
  <2>4. StreamIsAnswer' /\ CopyFollows' /\ Reported'
    BY <1>r, <2>1, <2>2
    DEF receiverVars, StreamIsAnswer, CopyFollows, Reported, AnswerToken
  <2> QED
    BY <1>1, <2>1, <2>3, <2>4 DEF AnswerInv
<1>6. ASSUME NEW f \in Files, Resize(f) PROVE IndInv'
  <2>1. UNCHANGED <<c2s, s2c, sPc, sFile, sLeft, sPos>>
    BY <1>6 DEF Resize, channelVars
  <2>2. Taken' = Taken /\ Emitted' = Emitted
    BY <1>r, <2>1 DEF Taken, Emitted, receiverVars
  <2>3. OneRequest' /\ EmittedAtStep' /\ OwnAnswer'
    BY <1>r, <2>1, <2>2 DEF receiverVars, OneRequest, EmittedAtStep, OwnAnswer, Request
  <2>4. StreamIsAnswer' /\ CopyFollows' /\ Reported'
    BY <1>r, <2>1, <2>2
    DEF receiverVars, StreamIsAnswer, CopyFollows, Reported, AnswerToken
  <2> QED
    BY <1>1, <2>1, <2>3, <2>4 DEF AnswerInv
<1>7. CASE OpenAbsent
  <2>1. /\ UNCHANGED <<c2s, sFile, sLeft, sPos>> /\ Send(<<Err>>)
        /\ sPc = "open" /\ sPc' = "command" /\ <<Err>> \in Seq(Tokens)
    BY <1>7 DEF OpenAbsent, Tokens
  <2>2. /\ s2c' \in Seq(Tokens)
        /\ rPc # "ended" => s2c = <<>> /\ s2c' = <<Err>> /\ Taken = 0
    <3>1. rPc # "ended" => s2c = <<>> /\ Taken = 0
      BY <2>1, EmittedType DEF EmittedAtStep, Typed
    <3>2. rPc # "ended" => s2c' = s2c \o <<Err>>
      BY <2>1 DEF Send, SocketsFollow
    <3>3. <<>> \o <<Err>> = <<Err>>
      BY <2>1, ConcatEmptySeq
    <3> QED
      BY <2>1, <3>1, <3>2, <3>3, SendEffect
  <2>3. Typed' /\ ServerLives' /\ SocketsFollow' /\ Taken' = Taken
    BY <1>r, <2>2, ServerFrame
  <2>4. rPc # "ended" => Emitted' = 1
    BY <2>2, <2>3 DEF Emitted
  <2>5. OneRequest' /\ EmittedAtStep' /\ OwnAnswer'
    BY <1>r, <2>1, <2>4 DEF receiverVars, OneRequest, EmittedAtStep, OwnAnswer, Request
  <2>6. StreamIsAnswer' /\ CopyFollows' /\ Reported'
    BY <1>r, <2>1, <2>2, <2>3
    DEF receiverVars, StreamIsAnswer, CopyFollows, Reported, Taken, Typed
  <2> QED
    BY <2>3, <2>5, <2>6
<1>8. CASE OpenOk
  <2>1. /\ UNCHANGED <<c2s, sFile>> /\ Send(<<Ok>>) /\ sPos' = 0
        /\ sPc = "open" /\ sPc' = "header" /\ <<Ok>> \in Seq(Tokens)
    BY <1>8 DEF OpenOk, Tokens
  <2>2. /\ s2c' \in Seq(Tokens)
        /\ rPc # "ended" => Emitted = 0 /\ Len(s2c') = Len(s2c) + 1
    BY <2>1, SendEffect DEF EmittedAtStep
  <2>3. Typed' /\ ServerLives' /\ SocketsFollow' /\ Taken' = Taken
    BY <1>r, <2>2, ServerFrame
  <2>4. rPc # "ended" => Emitted' = 1 /\ c2s = <<>> /\ rPc # "keyboard"
    BY <2>1, <2>2, <2>3, EmittedType DEF Emitted, EmittedAtStep
  <2>5. OneRequest' /\ EmittedAtStep' /\ OwnAnswer'
    BY <1>r, <2>1, <2>4 DEF receiverVars, OneRequest, EmittedAtStep, OwnAnswer, Request
  <2>6. StreamIsAnswer'
    <3>1. Len(<<Ok>>) = 1 /\ <<Ok>>[1] = Ok /\ AnswerToken(1)' = Ok
      BY DEF AnswerToken
    <3>2. s2c # <<Err>> \/ rPc = "ended"
      BY <2>2, EmittedType
    <3>3. ASSUME rPc # "ended", NEW i \in 1 .. Emitted + 1
          PROVE  IF i <= Emitted THEN AnswerToken(i)' = AnswerToken(i)
                                 ELSE <<Ok>>[i - Emitted] = AnswerToken(i)'
      <4>1. i = 1 /\ i - Emitted = 1 /\ ~(i <= Emitted)
        BY <2>2, <3>3
      <4> QED
        BY <3>1, <4>1
    <3>4. sFile = rFile /\ sFile' = rFile
      BY <2>1 DEF OwnAnswer
    <3>5. Len(<<Ok>>) = 1
      OBVIOUS
    <3> QED
      BY <1>r, <2>1, <2>3, <2>4, <3>2, <3>3, <3>4, <3>5, AnswerGrows
  <2>7. CopyFollows' /\ Reported'
    BY <1>r, <2>1, <2>2, EmittedType
    DEF receiverVars, CopyFollows, Reported, Taken, Typed
  <2> QED
    BY <2>3, <2>5, <2>6, <2>7
<1>9. CASE SendHeader
  <2>1. /\ UNCHANGED <<c2s, sFile, sLeft, sPos>> /\ Send(<<Size(sLeft)>>)
        /\ sPc = "header" /\ sPc' = "chunk" /\ <<Size(sLeft)>> \in Seq(Tokens)
    BY <1>9 DEF SendHeader, Tokens, Sizes, Typed, ServerTypeOK
  <2>2. /\ s2c' \in Seq(Tokens)
        /\ rPc # "ended" => Emitted = 1 /\ sPos = 0 /\ Len(s2c') = Len(s2c) + 1
    BY <2>1, SendEffect DEF EmittedAtStep
  <2>3. Typed' /\ ServerLives' /\ SocketsFollow' /\ Taken' = Taken
    BY <1>r, <2>2, ServerFrame
  <2>4. rPc # "ended" => Emitted' = 2 + sPos' /\ c2s = <<>> /\ rPc # "keyboard"
    BY <2>1, <2>2, <2>3, EmittedType DEF Emitted, EmittedAtStep
  <2>5. OneRequest' /\ EmittedAtStep' /\ OwnAnswer'
    BY <1>r, <2>1, <2>4 DEF receiverVars, OneRequest, EmittedAtStep, OwnAnswer, Request
  <2>6. StreamIsAnswer'
    <3>1. /\ Len(<<Size(sLeft)>>) = 1 /\ <<Size(sLeft)>>[1] = Size(sLeft)
          /\ AnswerToken(1) = Ok /\ AnswerToken(1)' = Ok
          /\ sPos = 0 => AnswerToken(2)' = Size(sLeft)
      BY <2>1 DEF AnswerToken, Typed, ServerTypeOK
    <3>2. s2c = <<Err>> /\ rPc # "ended" => Taken # 0
      <4> SUFFICES ASSUME s2c = <<Err>>, rPc # "ended", Taken = 0 PROVE FALSE
        OBVIOUS
      <4>1. s2c[1] = Ok
        BY <2>1, <3>1 DEF StreamIsAnswer
      <4> QED
        BY <4>1, TokenKinds
    <3>3. ASSUME rPc # "ended", NEW i \in 1 .. Emitted + 1
          PROVE  IF i <= Emitted THEN AnswerToken(i)' = AnswerToken(i)
                                 ELSE <<Size(sLeft)>>[i - Emitted] = AnswerToken(i)'
      <4>1. (i = 1 /\ i <= Emitted) \/ (i = 2 /\ i - Emitted = 1 /\ ~(i <= Emitted))
        BY <2>2, <3>3
      <4> QED
        BY <2>2, <3>1, <3>3, <4>1
    <3>4. sFile = rFile /\ sFile' = rFile
      BY <2>1 DEF OwnAnswer
    <3>5. Len(<<Size(sLeft)>>) = 1
      OBVIOUS
    <3> QED
      BY <1>r, <2>1, <2>3, <2>4, <3>2, <3>3, <3>4, <3>5, AnswerGrows
  <2>7. CopyFollows' /\ Reported'
    BY <1>r, <2>1, <2>2, EmittedType
    DEF receiverVars, CopyFollows, Reported, Taken, Typed
  <2> QED
    BY <2>3, <2>5, <2>6, <2>7
<1>10. CASE SendChunk
  <2> DEFINE block == [i \in 1 .. ChunkLength |-> Byte(sFile, sPos + i)]
  <2>0. /\ block \in Seq(Tokens) /\ Len(block) = ChunkLength
        /\ \A i \in 1 .. ChunkLength : block[i] = Byte(sFile, sPos + i)
        /\ ChunkLength \in Nat /\ ChunkLength <= sLeft
        /\ sPos \in Nat /\ sLeft \in Nat
    BY BlockTokens, ChunkLengthIsMin DEF Typed, ServerTypeOK
  <2>1. /\ UNCHANGED <<c2s, sFile>> /\ Send(block) /\ sPc = "chunk" /\ ChunkLength > 0
        /\ sPc' \in {"chunk", "command"}
    BY <1>10 DEF SendChunk
  <2>2. /\ s2c' \in Seq(Tokens)
        /\ rPc # "ended" => Emitted = 2 + sPos /\ Len(s2c') = Len(s2c) + ChunkLength
    BY <2>0, <2>1, SendEffect DEF EmittedAtStep
  <2>3. Typed' /\ ServerLives' /\ SocketsFollow' /\ Taken' = Taken
    BY <1>r, <2>2, ServerFrame
  <2>4. rPc # "ended" =>
           sLeft' = sLeft - ChunkLength /\ sPos' = sPos + ChunkLength /\ sPc' = "chunk"
    BY <1>r, <1>10, <2>3 DEF SendChunk, SocketsFollow, receiverVars
  <2>a. c2s = <<>> /\ (rPc # "ended" => rPc # "keyboard")
    BY <2>1 DEF OneRequest, EmittedAtStep
  <2>b. Emitted' = Taken + Len(s2c')
    BY <2>3 DEF Emitted
  <2>5. rPc # "ended" =>
          /\ Emitted' = 2 + sPos' /\ c2s = <<>> /\ rPc # "keyboard"
          /\ sPos' + sLeft' = sPos + sLeft
    BY <2>0, <2>2, <2>4, <2>a, <2>b, EmittedType
  <2>6. OneRequest' /\ EmittedAtStep' /\ OwnAnswer'
    BY <1>r, <2>1, <2>4, <2>5 DEF receiverVars, OneRequest, EmittedAtStep, OwnAnswer, Request
  <2>7. StreamIsAnswer'
    <3> HIDE DEF block
    <3>1. AnswerToken(1) = Ok
      BY DEF AnswerToken
    <3>2. s2c = <<Err>> /\ rPc # "ended" => Taken # 0
      <4> SUFFICES ASSUME s2c = <<Err>>, rPc # "ended", Taken = 0 PROVE FALSE
        OBVIOUS
      <4>1. s2c[1] = Ok
        BY <2>1, <3>1 DEF StreamIsAnswer
      <4> QED
        BY <4>1, TokenKinds
    <3>3. ASSUME rPc # "ended", NEW i \in 1 .. Emitted + Len(block)
          PROVE  IF i <= Emitted THEN AnswerToken(i)' = AnswerToken(i)
                                 ELSE block[i - Emitted] = AnswerToken(i)'
      <4>1. CASE i <= Emitted
        BY <2>1, <2>5, <3>3, <4>1 DEF AnswerToken
      <4>2. CASE ~(i <= Emitted)
        <5>1. i - Emitted \in 1 .. ChunkLength /\ i > 2 /\ sPos + (i - Emitted) = i - 2
          BY <2>0, <2>2, <3>3, <4>2
        <5>2. block[i - Emitted] = Byte(sFile, i - 2)
          BY <2>0, <5>1
        <5> QED
          BY <2>1, <4>2, <5>1, <5>2 DEF AnswerToken
      <4> QED
        BY <4>1, <4>2
    <3> QED
      BY <1>r, <2>0, <2>1, <2>3, <2>5, <3>2, <3>3, AnswerGrows DEF OwnAnswer
  <2>8. CopyFollows'
    BY <1>r, <2>1, <2>3, <2>4, <2>5 DEF receiverVars, CopyFollows
  <2>9. Reported'
    BY <1>r, <2>0, <2>1 DEF receiverVars, Reported
  <2> QED
    BY <2>3, <2>6, <2>7, <2>8, <2>9
<1> QED
  BY <1>r, <1>2, <1>3, <1>4, <1>5, <1>6, <1>7, <1>8, <1>9, <1>10 DEF ServerNext, ServerRuns

\* The client's way out, whatever it leaves behind.
LEMMA ReturnInv ==
  ASSUME IndInv, UNCHANGED serverVars, NEW ret \in {"0", "-1"}, Return(ret),
         UNCHANGED <<c2s, sEnd, rFile, rGot>>, s2c' \in Seq(Tokens),
         rLeft' \in Nat, rSaved' = rSaved,
         ~ServerMayDie /\ rSaved /\ ret = "0" =>
            /\ sPc \in {"chunk", "command", "ended"}
            /\ sLeft = 0
            /\ Len(rGot) = sPos
            /\ \A i \in 1 .. Len(rGot) : rGot[i] = Byte(rFile, i)
  PROVE  IndInv'
<1> USE DEF IndInv, Return, serverVars
<1>1. Typed'
  BY DEF Typed, ServerTypeOK, ReceiverTypeOK, CommandsTyped
<1>2. SocketsFollow' /\ ServerLives' /\ OneRequest'
  BY DEF SocketsFollow, ServerLives, OneRequest, Request
<1>3. EmittedAtStep' /\ StreamIsAnswer' /\ CopyFollows' /\ OwnAnswer'
  BY DEF EmittedAtStep, StreamIsAnswer, CopyFollows, OwnAnswer
<1>4. Reported'
  BY DEF Reported
<1> QED
  BY <1>1, <1>2, <1>3, <1>4

LEMMA ClientInv == ASSUME IndInv, ClientStep PROVE IndInv'
<1> USE DEF IndInv
<1>r. UNCHANGED serverVars /\ ReceiverNext
  BY DEF ClientStep
<1>t. ServerTypeOK' /\ Typed
  BY <1>r DEF serverVars, ServerTypeOK, Typed
<1>1. ASSUME NEW f \in Files, CommandGet(f) PROVE IndInv'
  <2>1. /\ rPc = "keyboard" /\ rPc' = "select" /\ rFile' = f
        /\ c2s' = <<>> \/ (sEnd = "open" /\ c2s' = <<<<"GET", f>>>>)
        /\ UNCHANGED <<s2c, cEnd, sEnd, rLeft, rGot, rSaved, rRet>>
    BY <1>1 DEF CommandGet, OneRequest
  <2>2. Taken = 0 /\ Taken' = 0 /\ Emitted' = Emitted /\ Emitted = 0 /\ s2c = <<>>
    BY <2>1 DEF Taken, Emitted, EmittedAtStep, Typed
  <2>3. Typed'
    <3>1. PICK get \in Commands : c2s' = <<>> \/ c2s' = <<get>>
      BY <2>1, CommandKinds
    <3>3. <<>> \in Seq(Commands) /\ <<get>> \in Seq(Commands)
      OBVIOUS
    <3>2. c2s' \in Seq(Commands)
      BY <3>1, <3>3, Zenon
    <3> QED
      BY <1>t, <2>1, <3>2 DEF Typed, ReceiverTypeOK, CommandsTyped
  <2>4. sPc \in {"command", "ended"}
    BY <2>1 DEF EmittedAtStep
  <2>5. SocketsFollow' /\ ServerLives' /\ OneRequest'
    BY <1>r, <2>1, <2>4 DEF serverVars, SocketsFollow, ServerLives, OneRequest, Request
  <2>6. EmittedAtStep' /\ OwnAnswer'
    BY <1>r, <2>1, <2>2, <2>4 DEF serverVars, EmittedAtStep, OwnAnswer
  <2>7. StreamIsAnswer' /\ CopyFollows'
    BY <2>1, <2>2 DEF StreamIsAnswer, CopyFollows
  <2>8. Reported'
    BY <2>1 DEF Reported
  <2> QED
    BY <2>3, <2>5, <2>6, <2>7, <2>8
<1>2. CASE CommandQuit \/ CommandInvalid \/ TimeoutExpires
  <2>1. ~rSaved /\ s2c' \in Seq(Tokens) /\ rLeft' \in Nat
    BY <1>2 DEF CommandQuit, CommandInvalid, TimeoutExpires, Reported, Typed, ReceiverTypeOK
  <2> QED
    BY <1>2, <1>r, <2>1, ReturnInv DEF CommandQuit, CommandInvalid, TimeoutExpires
<1>3. CASE AnswerNotOk
  <2>1. ~rSaved
    BY <1>3, Zenon DEF AnswerNotOk, Reported
  <2>3. s2c' = s2c \/ (s2c # <<>> /\ s2c' = Tail(s2c))
    BY <1>3, Zenon DEF AnswerNotOk
  <2>4. s2c \in Seq(Tokens) /\ rLeft' = rLeft /\ rLeft \in Nat
    BY <1>3, Zenon DEF AnswerNotOk, Typed, ReceiverTypeOK
  <2>2. s2c' \in Seq(Tokens) /\ rLeft' \in Nat
    BY <2>3, <2>4
  <2> QED
    BY <1>3, <1>r, <2>1, <2>2, ReturnInv DEF AnswerNotOk
<1>4. CASE AnswerComes
  <2>1. UNCHANGED <<c2s, s2c, cEnd, sEnd, rFile, rLeft, rGot, rSaved, rRet>>
    BY <1>4 DEF AnswerComes, channelVars
  <2>2. rPc = "select" /\ rPc' = "reply" /\ Taken = 0 /\ Taken' = 0 /\ Emitted' = Emitted
    BY <1>4, <2>1 DEF AnswerComes, Taken, Emitted
  <2>3. Typed'
    BY <1>t, <2>1, <2>2 DEF Typed, ReceiverTypeOK, CommandsTyped
  <2>5. SocketsFollow' /\ ServerLives' /\ OneRequest'
    BY <1>r, <2>1, <2>2 DEF serverVars, SocketsFollow, ServerLives, OneRequest, Request
  <2>6. EmittedAtStep' /\ OwnAnswer'
    BY <1>r, <2>1, <2>2 DEF serverVars, EmittedAtStep, OwnAnswer
  <2>7. StreamIsAnswer' /\ CopyFollows'
    BY <1>r, <2>1, <2>2 DEF serverVars, StreamIsAnswer, CopyFollows, AnswerToken
  <2>8. Reported'
    BY <2>1, <2>2 DEF Reported
  <2> QED
    BY <2>3, <2>5, <2>6, <2>7, <2>8
<1>5. CASE AnswerOk
  <2>1. /\ rPc = "reply" /\ rPc' = "header" /\ s2c # <<>> /\ Head(s2c) = Ok
        /\ s2c' = Tail(s2c)
        /\ UNCHANGED <<c2s, cEnd, sEnd, rFile, rLeft, rGot, rSaved, rRet>>
    BY <1>5 DEF AnswerOk
  <2>2. /\ s2c' \in Seq(Tokens) /\ Len(s2c') = Len(s2c) - 1
        /\ \A i \in 1 .. Len(s2c') : s2c'[i] = s2c[i + 1] /\ i + 1 \in 1 .. Len(s2c)
        /\ Len(s2c) > 0
    BY <2>1 DEF Typed
  <2>3. Taken = 0 /\ Taken' = 1 /\ Emitted' = Emitted /\ Emitted > 0
    BY <2>1, <2>2 DEF Taken, Emitted, Typed
  <2>4. Typed'
    BY <1>t, <2>1, <2>2 DEF Typed, ReceiverTypeOK, CommandsTyped
  <2>5. SocketsFollow' /\ ServerLives' /\ OneRequest'
    BY <1>r, <2>1 DEF serverVars, SocketsFollow, ServerLives, OneRequest, Request
  <2>6. EmittedAtStep' /\ OwnAnswer'
    BY <1>r, <2>1, <2>3 DEF serverVars, EmittedAtStep, OwnAnswer
  <2>7. s2c # <<Err>>
    BY <2>1, TokenKinds
  <2>8. StreamIsAnswer'
    <3> SUFFICES ASSUME NEW i \in 1 .. Len(s2c')
                 PROVE  s2c'[i] = AnswerToken(Taken + i)'
      BY DEF StreamIsAnswer
    <3>1. s2c'[i] = AnswerToken(i + 1)
      BY <2>1, <2>2, <2>3, <2>7 DEF StreamIsAnswer
    <3>2. AnswerToken(Taken + i)' = AnswerToken(i + 1)
      BY <1>r, <2>3 DEF AnswerToken, serverVars
    <3> QED
      BY <3>1, <3>2
  <2>9. CopyFollows' /\ Reported'
    BY <2>1 DEF CopyFollows, Reported
  <2> QED
    BY <2>4, <2>5, <2>6, <2>8, <2>9
<1>6. CASE ReceiveHeader
  <2>1. /\ rPc = "header" /\ Taken = 1 /\ rGot = <<>> /\ rRet = "none"
        /\ UNCHANGED <<c2s, sEnd, rFile, rGot>>
    BY <1>6 DEF ReceiveHeader, Taken, CopyFollows, Reported
  <2>2. ~rSaved
    BY <2>1, Zenon DEF Reported
  <2>3. c2s = <<>> /\ sFile = rFile /\ Emitted > 0
    BY <2>1, EmittedType DEF EmittedAtStep, OwnAnswer
  <2>4. CASE /\ s2c # <<>> /\ rLeft' = Head(s2c)[2] /\ s2c' = Tail(s2c)
    <3>1. /\ s2c' \in Seq(Tokens) /\ Len(s2c') = Len(s2c) - 1 /\ Len(s2c) > 0
          /\ \A i \in 1 .. Len(s2c') : s2c'[i] = s2c[i + 1] /\ i + 1 \in 1 .. Len(s2c)
      BY <2>4 DEF Typed
    <3>2. \A i \in 1 .. Len(s2c) : s2c[i] = AnswerToken(1 + i)
      BY <2>1 DEF StreamIsAnswer
    <3>3. Head(s2c) = Size(sPos + sLeft)
      <4>1. Head(s2c) = s2c[1] /\ 1 \in 1 .. Len(s2c)
        BY <2>4, <3>1 DEF Typed
      <4> QED
        BY <3>2, <4>1 DEF AnswerToken
    <3>4. rLeft' = sPos + sLeft /\ rLeft' \in Nat
      <4>1. sPos + sLeft \in Nat
        BY DEF Typed, ServerTypeOK
      <4> QED
        BY <2>4, <3>3, <4>1, TokenKinds
    <3>5. CASE Return("-1") /\ UNCHANGED rSaved
      BY <1>r, <2>1, <2>2, <3>1, <3>4, <3>5, ReturnInv
    <3>6. CASE rSaved' = TRUE /\ rPc' = "data" /\ UNCHANGED <<cEnd, rRet>>
      <4>1. Taken' = 2 /\ Emitted' = Emitted
        BY <2>1, <3>1, <3>6 DEF Taken, Emitted
      <4>2. Typed'
        BY <1>t, <2>1, <3>1, <3>4, <3>6 DEF Typed, ReceiverTypeOK, CommandsTyped
      <4>3. SocketsFollow' /\ ServerLives' /\ OneRequest'
        BY <1>r, <2>1, <3>6 DEF serverVars, SocketsFollow, ServerLives, OneRequest, Request
      <4>4. EmittedAtStep' /\ OwnAnswer'
        BY <1>r, <2>1, <3>6, <4>1 DEF serverVars, EmittedAtStep, OwnAnswer
      <4>5. StreamIsAnswer'
        <5> SUFFICES ASSUME NEW i \in 1 .. Len(s2c')
                     PROVE  s2c'[i] = AnswerToken(Taken + i)'
          BY DEF StreamIsAnswer
        <5>1. s2c'[i] = AnswerToken(i + 2)
          BY <3>1, <3>2
        <5>2. AnswerToken(Taken + i)' = AnswerToken(i + 2)
          BY <1>r, <4>1 DEF AnswerToken, serverVars
        <5> QED
          BY <5>1, <5>2
      <4>6. CopyFollows'
        BY <1>r, <2>1, <3>4, <3>6 DEF serverVars, CopyFollows, Typed, ServerTypeOK
      <4>7. Reported'
        BY <2>1, <2>3, <3>6 DEF Reported
      <4> QED
        BY <4>2, <4>3, <4>4, <4>5, <4>6, <4>7
    <3> QED
      BY <1>6, <3>5, <3>6 DEF ReceiveHeader
  <2>5. CASE s2c = <<>> /\ sEnd = "closed" /\ rLeft' = NoHeader /\ UNCHANGED s2c
    <3>1. s2c' \in Seq(Tokens) /\ rLeft' \in Nat /\ sPc = "ended"
      BY <2>5 DEF Typed, SocketsFollow
    <3>2. CASE Return("-1") /\ UNCHANGED rSaved
      BY <1>r, <2>1, <2>2, <3>1, <3>2, ReturnInv
    <3>3. CASE rSaved' = TRUE /\ rPc' = "data" /\ UNCHANGED <<cEnd, rRet>>
      <4>2. Typed'
        BY <1>t, <2>1, <3>1, <3>3 DEF Typed, ReceiverTypeOK, CommandsTyped
      <4>3. SocketsFollow' /\ ServerLives' /\ OneRequest'
        BY <1>r, <2>1, <3>3 DEF serverVars, SocketsFollow, ServerLives, OneRequest, Request
      <4>4. EmittedAtStep' /\ OwnAnswer'
        BY <1>r, <2>1, <2>3, <3>1, <3>3 DEF serverVars, EmittedAtStep, OwnAnswer
      <4>5. StreamIsAnswer' /\ CopyFollows'
        BY <1>r, <2>1, <2>5, <3>1, <3>3 DEF serverVars, StreamIsAnswer, CopyFollows
      <4>6. Reported'
        BY <2>1, <2>3, <3>3 DEF Reported
      <4> QED
        BY <4>2, <4>3, <4>4, <4>5, <4>6
    <3> QED
      BY <1>6, <3>2, <3>3 DEF ReceiveHeader
  <2> QED
    BY <1>6, <2>4, <2>5 DEF ReceiveHeader
<1>7. CASE ReceiveBlock
  <2>1. PICK n \in 1 .. Block :
          /\ n <= rLeft /\ n <= Len(s2c)
          /\ rGot' = rGot \o SubSeq(s2c, 1, n)
          /\ s2c' = SubSeq(s2c, n + 1, Len(s2c))
          /\ rLeft' = rLeft - n
    BY <1>7 DEF ReceiveBlock
  <2>2. rPc = "data" /\ UNCHANGED <<c2s, cEnd, sEnd, rPc, rFile, rSaved, rRet>>
    BY <1>7 DEF ReceiveBlock
  <2>3. /\ n \in Nat /\ s2c \in Seq(Tokens) /\ rGot \in Seq(Tokens)
        /\ Len(s2c) \in Nat /\ Len(rGot) \in Nat /\ rLeft \in Nat
    BY DEF Typed, ReceiverTypeOK
  <2>4. /\ s2c' \in Seq(Tokens) /\ Len(s2c') = Len(s2c) - n
        /\ \A i \in 1 .. Len(s2c') : s2c'[i] = s2c[n + i]
    <3>1. n + 1 \in 1 .. Len(s2c) + 1 /\ Len(s2c) \in 1 - 1 .. Len(s2c)
      BY <2>1, <2>3
    <3>2. /\ s2c' \in Seq(Tokens)
          /\ Len(s2c') = IF n + 1 <= Len(s2c) THEN Len(s2c) - (n + 1) + 1 ELSE 0
          /\ \A i \in 1 .. Len(s2c) - (n + 1) + 1 : s2c'[i] = s2c[(n + 1) + i - 1]
      BY <2>1, <2>3, <3>1, SubSeqProperties
    <3> QED
      BY <2>1, <2>3, <3>2
  <2>5. /\ SubSeq(s2c, 1, n) \in Seq(Tokens) /\ Len(SubSeq(s2c, 1, n)) = n
        /\ \A i \in 1 .. n : SubSeq(s2c, 1, n)[i] = s2c[i]
    BY <2>1, <2>3
  <2>6. /\ rGot' \in Seq(Tokens) /\ Len(rGot') = Len(rGot) + n
        /\ \A i \in 1 .. Len(rGot') :
              rGot'[i] = IF i <= Len(rGot) THEN rGot[i] ELSE s2c[i - Len(rGot)]
    BY <2>1, <2>3, <2>5
  <2>7. Taken = 2 + Len(rGot) /\ Taken' = Taken + n /\ Emitted' = Emitted
    BY <2>2, <2>3, <2>4, <2>6, SMTT(20) DEF Taken, Emitted
  <2>8. \A i \in 1 .. Len(s2c) : s2c[i] = AnswerToken(Taken + i)
    BY <2>2, <2>3, <2>7 DEF StreamIsAnswer
  <2>9. rLeft' \in Nat
    BY <2>1, <2>3
  <2>10. Typed'
    BY <1>t, <2>2, <2>4, <2>6, <2>9 DEF Typed, ReceiverTypeOK, CommandsTyped
  <2>11. SocketsFollow' /\ ServerLives' /\ OneRequest'
    BY <1>r, <2>2 DEF serverVars, SocketsFollow, ServerLives, OneRequest, Request
  <2>12. EmittedAtStep' /\ OwnAnswer'
    BY <1>r, <2>2, <2>7 DEF serverVars, EmittedAtStep, OwnAnswer
  <2>13. StreamIsAnswer'
    <3> SUFFICES ASSUME NEW i \in 1 .. Len(s2c')
                 PROVE  s2c'[i] = AnswerToken(Taken + i)'
      BY DEF StreamIsAnswer
    <3>1. n + i \in 1 .. Len(s2c) /\ Taken + (n + i) = Taken' + i
      BY <2>3, <2>4, <2>7, EmittedType
    <3>2. s2c'[i] = AnswerToken(Taken' + i)
      BY <2>4, <2>8, <3>1
    <3>3. AnswerToken(Taken + i)' = AnswerToken(Taken' + i)
      BY <1>r DEF AnswerToken, serverVars
    <3> QED
      BY <3>2, <3>3
  <2>14. CopyFollows'
    <3>1. sPc # "ended" => Len(rGot') + rLeft' = sPos + sLeft
      <4>1. sPc # "ended" => Len(rGot) + rLeft = sPos + sLeft
        BY <2>2, Zenon DEF CopyFollows
      <4> QED
        BY <2>1, <2>3, <2>6, <4>1
    <3>2. ASSUME NEW i \in 1 .. Len(rGot') PROVE rGot'[i] = Byte(sFile, i)
      <4>1. CASE i <= Len(rGot)
        <5>1. i \in 1 .. Len(rGot)
          BY <2>3, <2>6, <3>2, <4>1
        <5>2. rGot[i] = Byte(sFile, i)
          BY <2>2, <5>1, Zenon DEF CopyFollows
        <5> QED
          BY <2>6, <3>2, <4>1, <5>2
      <4>2. CASE ~(i <= Len(rGot))
        <5>1. i - Len(rGot) \in 1 .. Len(s2c) /\ Taken + (i - Len(rGot)) = i + 2
          BY <2>1, <2>3, <2>6, <2>7, <3>2, <4>2
        <5>2. rGot'[i] = AnswerToken(i + 2)
          BY <2>6, <2>8, <4>2, <5>1
        <5>3. i + 2 # 1 /\ i + 2 # 2 /\ (i + 2) - 2 = i
          BY <2>3, <2>6, <3>2
        <5>4. AnswerToken(i + 2) = Byte(sFile, i)
          BY <5>3 DEF AnswerToken
        <5> QED
          BY <5>2, <5>4, Zenon
      <4> QED
        BY <4>1, <4>2
    <3> QED
      BY <1>r, <2>2, <3>1, <3>2 DEF serverVars, CopyFollows
  <2>15. Reported'
    BY <2>2 DEF Reported
  <2> QED
    BY <2>10, <2>11, <2>12, <2>13, <2>14, <2>15
<1>8. CASE ReceiveEnds
  <2>1. /\ (rPc = "data" /\ rLeft = 0) \/ sEnd = "closed"
        /\ Return("0") /\ UNCHANGED <<c2s, s2c, sEnd, rFile, rLeft, rGot, rSaved>>
    BY <1>8 DEF ReceiveEnds
  <2>2. s2c' \in Seq(Tokens) /\ rLeft' \in Nat
    BY <2>1 DEF Typed, ReceiverTypeOK
  <2>3. ASSUME ~ServerMayDie
        PROVE  /\ sPc \in {"chunk", "command", "ended"}
               /\ sLeft = 0
               /\ Len(rGot) = sPos
               /\ \A i \in 1 .. Len(rGot) : rGot[i] = Byte(rFile, i)
    <3>1. rPc = "data" /\ sPc # "ended" /\ rLeft = 0
      BY <1>8, <2>3 DEF ReceiveEnds, ServerLives, SocketsFollow
    <3>2. Emitted = 2 + Len(rGot) + Len(s2c) /\ Len(rGot) \in Nat /\ Len(s2c) \in Nat
      BY <3>1 DEF Emitted, Taken, Typed
    <3>3. sPos \in Nat /\ sLeft \in Nat /\ sPc \in {"command", "open", "header", "chunk"}
      BY <3>1 DEF Typed, ServerTypeOK
    <3>4. Len(rGot) = sPos + sLeft
      BY <3>1, <3>3 DEF CopyFollows
    <3>5. sPc \in {"chunk", "command"} /\ Emitted = 2 + sPos
      BY <3>1, <3>2, <3>3, <3>4 DEF EmittedAtStep
    <3>6. sLeft = 0 /\ Len(rGot) = sPos
      BY <3>2, <3>3, <3>4, <3>5
    <3>7. sFile = rFile
      BY <3>1, <3>2 DEF OwnAnswer
    <3> QED
      BY <3>1, <3>5, <3>6, <3>7 DEF CopyFollows
  <2> QED
    BY <1>r, <2>1, <2>2, <2>3, ReturnInv
<1> QED
  BY <1>r, <1>1, <1>2, <1>3, <1>4, <1>5, <1>6, <1>7, <1>8 DEF ReceiverNext

LEMMA StutterInv == ASSUME IndInv, UNCHANGED vars PROVE IndInv'
<1> USE DEF IndInv, vars, channelVars, serverVars, receiverVars
<1>1. Typed'
  BY DEF Typed, ServerTypeOK, ReceiverTypeOK, CommandsTyped
<1>2. Taken' = Taken /\ Emitted' = Emitted
  BY DEF Taken, Emitted
<1>3. SocketsFollow' /\ ServerLives' /\ OneRequest' /\ EmittedAtStep' /\ OwnAnswer'
  BY <1>2 DEF SocketsFollow, ServerLives, OneRequest, Request, EmittedAtStep, OwnAnswer
<1>4. StreamIsAnswer' /\ CopyFollows' /\ Reported'
  BY <1>2 DEF StreamIsAnswer, AnswerToken, CopyFollows, Reported
<1> QED
  BY <1>1, <1>3, <1>4

LEMMA Invariance == Spec => []IndInv
<1>1. IndInv /\ [Next]_vars => IndInv'
  BY ServerInv, ClientInv, StutterInv DEF Next, Terminated
<1> QED
  BY InitInv, <1>1, PTL DEF Spec

-----------------------------------------------------------------------------
\* Types: in particular the bytes announced and not sent, and the position in
\* the file, stay within the file's bounds, and the client's count of bytes to
\* come never goes below zero (ftp.c:83, 145).
THEOREM TypeCorrect == Spec => []TypeOK
<1>1. IndInv => TypeOK
  BY DEF IndInv, Typed, TypeOK
<1> QED
  BY Invariance, <1>1, PTL

\* As long as the server's child is not killed, a copy that ftp_receiver()
\* reports as received is what the server announced of the file it was asked
\* for, byte for byte; whatever other processes do to the files' sizes.
THEOREM CopyIsWhole == ASSUME ~ServerMayDie PROVE Spec => []CopyWhole
<1>1. ASSUME IndInv, rRet = "0", rSaved
      PROVE  rGot = [i \in 1 .. sPos |-> Byte(rFile, i)] /\ sLeft = 0
  <2>1. /\ Len(rGot) = sPos /\ sLeft = 0 /\ rGot \in Seq(Tokens)
        /\ \A i \in 1 .. Len(rGot) : rGot[i] = Byte(rFile, i)
    BY <1>1 DEF IndInv, Reported, Typed
  <2>2. rGot = [i \in 1 .. Len(rGot) |-> rGot[i]]
    BY <2>1, LenProperties
  <2> QED
    BY <2>1, <2>2
<1>2. IndInv => CopyWhole
  BY <1>1 DEF CopyWhole
<1> QED
  BY Invariance, <1>2, PTL
=============================================================================
