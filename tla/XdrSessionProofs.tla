-------------------------- MODULE XdrSessionProofs --------------------------
(***************************************************************************)
(* Proofs about XdrSession, for every set of files, however they grow or   *)
(* shrink, and any number of requests: above all that a session implements *)
(* FileDelivery.                                                           *)
(***************************************************************************)
EXTENDS XdrSession, SequenceTheorems, TLAPS

USE XdrFilesAssumption, MaxGetsAssumption

Sizes == {Size(n) : n \in Nat}
Bytes == {Byte(f, i) : f \in Files, i \in Nat}
Tokens == {Ok, Err, Junk} \cup Sizes \cup Bytes
Results == [ok : BOOLEAN, data : Seq(Tokens)]

\* The i-th byte of a response about f, of which k bytes were there, and the
\* j-th token of that response when n bytes were announced.
Datum(f, k, i) == IF i <= k THEN Byte(f, i) ELSE IF k = 0 THEN Junk ELSE Byte(f, k)
AnswerToken(f, n, k, j) ==
    IF j = 1 THEN Ok ELSE IF j = 2 THEN Size(n) ELSE Datum(f, k, j - 2)

Gone == {"ended", "killed"}

\* The request that is being answered.
Current == asked[Len(asked)]

Typed ==
    /\ ServerTypeOK
    /\ c2s \in Seq(Commands)
    /\ s2c \in Seq(Tokens)
    /\ xOut \in Seq(Tokens)
    /\ yPc \in {"keyboard", "response", "ended"}
    /\ asked \in Seq(Files)
    /\ results \in Seq(Results)
    /\ Len(asked) <= MaxGets

SocketsFollow ==
    /\ cEnd = IF yPc = "ended" THEN "closed" ELSE "open"
    /\ sEnd = IF xPc \in Gone THEN "closed" ELSE "open"

\* A request is answered before the next one is made.
InTurn ==
    /\ Len(results) <= Len(asked)
    /\ yPc = "keyboard" => Len(asked) = Len(results)
    /\ yPc = "response" => Len(asked) = Len(results) + 1

\* At most one message is on its way to the server, and nothing is on its way
\* back to a client that has not asked.
OneRequest ==
    /\ c2s = <<>> \/ Len(c2s) = 1
    /\ yPc = "keyboard" =>
        /\ s2c = <<>>
        /\ xPc \in {"message", "leave"} \cup Gone
        /\ c2s # <<>> => xPc \in Gone
    /\ yPc = "response" /\ c2s # <<>> =>
        /\ s2c = <<>>
        /\ xPc \in {"message", "leave"} \cup Gone
        /\ xPc = "message" => c2s = <<<<"GET", Current>>>>

\* The server is at work for the request that is being answered.
Serving ==
    yPc # "ended" =>
        /\ xPc \in {"open", "read", "respond"} \/ s2c # <<>> =>
              yPc = "response" /\ xFile = Current /\ c2s = <<>>
        /\ xPc \in {"open", "read"} => s2c = <<>>

\* Only the files in Shrinking ever become shorter.
OthersGrow == \A f \in Files \ Shrinking : FileSize[f] <= size[f]

\* A file found by stat() and open: its size then.
Opened ==
    /\ Kind[xFile] = "regular"
    /\ xFile \notin Shrinking => FileSize[xFile] <= xSize

\* The buffer holds what was there of the file, then the last byte repeated.
Reading ==
    xPc = "read" =>
        /\ Opened
        /\ xFile \notin Shrinking => xSize <= size[xFile]
        /\ \E k \in 0 .. Len(xOut) :
              /\ xFile \notin Shrinking => k = Len(xOut)
              /\ \A i \in 1 .. Len(xOut) : xOut[i] = Datum(xFile, k, i)

\* The stream holds the first part of a response with a file, the buffer the rest.
AnswerIs(k) ==
    /\ Len(s2c) <= 2 + xSize
    /\ \A j \in 1 .. Len(s2c) : s2c[j] = AnswerToken(xFile, xSize, k, j)
    /\ xPc = "respond" =>
        /\ xOut # <<>>
        /\ Len(s2c) + Len(xOut) = 2 + xSize
        /\ \A j \in 1 .. Len(xOut) : xOut[j] = AnswerToken(xFile, xSize, k, Len(s2c) + j)

AnswersErr ==
    /\ s2c = <<Err>>
    /\ Kind[xFile] # "regular"
    /\ xPc \in {"message", "leave"} \cup Gone
    /\ Kind[xFile] = "absent" => xPc # "message"

AnswersFile ==
    /\ xPc \in {"respond", "message", "killed"}
    /\ Opened
    /\ \E k \in 0 .. MaxSize : (xFile \notin Shrinking => k = xSize) /\ AnswerIs(k)

Answering ==
    yPc # "ended" => (s2c = <<>> /\ xPc # "respond") \/ AnswersErr \/ AnswersFile

\* A file that is not there ends the service, and nothing else does while the
\* client is there.
AbsentEnds ==
    yPc # "ended" =>
        /\ xPc \in {"leave", "ended"} =>
              \E i \in 1 .. Len(asked) : Kind[asked[i]] = "absent"
        /\ \A i \in 1 .. Len(asked) :
              Kind[asked[i]] = "absent" /\ (i < Len(asked) \/ yPc = "keyboard") =>
                  xPc \in {"leave"} \cup Gone /\ s2c = <<>>

\* What the proofs carry from step to step.
IndInv ==
    /\ Typed
    /\ SocketsFollow
    /\ InTurn
    /\ OneRequest
    /\ Serving
    /\ OthersGrow
    /\ Reading
    /\ Answering
    /\ AbsentEnds

-----------------------------------------------------------------------------
\* The tokens of a response cannot be taken for each other, nor its bytes.
LEMMA TokenKinds ==
  /\ Ok # Err
  /\ \A n \in Nat : Size(n)[2] = n
  /\ \A f \in Files, i \in Nat :
        /\ Byte(f, i) # Junk
        /\ \A j \in Nat : Byte(f, i) = Byte(f, j) => i = j
<1>1. Ok[1] = "OK" /\ Err[1] = "ERR" /\ Junk[1] = "junk"
  BY DEF Ok, Err, Junk
<1>2. \A n \in Nat : Size(n)[2] = n
  BY DEF Size
<1>3. \A f \in Files, i \in Nat : Byte(f, i)[1] = "byte" /\ Byte(f, i)[3] = i
  BY DEF Byte
<1> QED
  BY <1>1, <1>2, <1>3

LEMMA CommandKinds ==
  /\ \A f \in Files : <<"GET", f>> \in Commands /\ <<"GET", f>>[2] = f
                      /\ <<"GET", f>>[1] = "GET"
  /\ <<"QUIT">> \in Commands
  /\ \A c \in Commands : c[1] = "GET" => c[2] \in Files
BY DEF Commands

LEMMA ByteTyped == \A f \in Files, i \in Nat : Byte(f, i) \in Tokens
BY DEF Tokens, Bytes

LEMMA SizeTyped == \A n \in Nat : Size(n) \in Tokens
BY DEF Tokens, Sizes

LEMMA OthersTyped == Ok \in Tokens /\ Err \in Tokens /\ Junk \in Tokens
BY DEF Tokens

LEMMA InitInv == Init => IndInv
<1> SUFFICES ASSUME Init PROVE IndInv
  OBVIOUS
<1>1. /\ c2s = <<>> /\ s2c = <<>> /\ cEnd = "open" /\ sEnd = "open"
      /\ size = FileSize /\ xPc = "message" /\ xSize = 0 /\ xOut = <<>>
      /\ yPc = "keyboard" /\ asked = <<>> /\ results = <<>>
  BY Zenon DEF Init, ChannelInit, ServerInit, ClientInit
<1>2. xFile \in Files
  <2>1. \E f \in Files : TRUE
    OBVIOUS
  <2> QED
    BY <2>1, Zenon DEF Init, ServerInit
<1>3. Typed
  BY <1>1, <1>2 DEF Typed, ServerTypeOK
<1>4. SocketsFollow /\ InTurn /\ OneRequest /\ OthersGrow
  BY <1>1 DEF SocketsFollow, InTurn, OneRequest, OthersGrow, Gone
<1>5. Serving /\ Reading /\ Answering /\ AbsentEnds
  BY <1>1 DEF Serving, Reading, Answering, AbsentEnds, Gone
<1> QED
  BY <1>3, <1>4, <1>5 DEF IndInv

-----------------------------------------------------------------------------
\* What is read of a file is the next byte of a copy.
LEMMA NextByteTyped == ASSUME Typed PROVE NextByte \in Tokens
<1>1. Len(xOut) + 1 \in Nat /\ xFile \in Files
  BY DEF Typed, ServerTypeOK
<1>2. xOut # <<>> => xOut[Len(xOut)] \in Tokens
  BY DEF Typed
<1> QED
  BY <1>1, <1>2, ByteTyped, OthersTyped DEF NextByte

LEMMA NextByteContinues ==
  ASSUME Typed, Reading, xPc = "read", Len(xOut) < xSize
  PROVE  \E k \in 0 .. Len(xOut) + 1 :
            /\ xFile \notin Shrinking => k = Len(xOut) + 1
            /\ NextByte = Datum(xFile, k, Len(xOut) + 1)
            /\ \A i \in 1 .. Len(xOut) : xOut[i] = Datum(xFile, k, i)
<1>0. /\ Len(xOut) \in Nat /\ xSize \in Nat /\ xFile \in Files /\ size[xFile] \in Nat
      /\ xOut \in Seq(Tokens)
  BY DEF Typed, ServerTypeOK
<1>1. PICK k \in 0 .. Len(xOut) :
          /\ xFile \notin Shrinking => k = Len(xOut)
          /\ \A i \in 1 .. Len(xOut) : xOut[i] = Datum(xFile, k, i)
  BY DEF Reading
<1>2. CASE ~Stale
  <2>1. NextByte = Byte(xFile, Len(xOut) + 1)
    BY <1>2 DEF NextByte
  <2>2. \A i \in 1 .. Len(xOut) : xOut[i] = Byte(xFile, i)
    <3>1. xOut # <<>> => xOut[Len(xOut)] = Byte(xFile, Len(xOut))
      BY <1>2 DEF Stale
    <3>2. k = Len(xOut)
      <4>1. CASE xOut = <<>>
        BY <1>0, <1>1, <4>1
      <4>2. CASE xOut # <<>>
        <5>1. Len(xOut) \in 1 .. Len(xOut)
          BY <1>0, <4>2
        <5>2. Datum(xFile, k, Len(xOut)) = Byte(xFile, Len(xOut))
          BY <1>1, <3>1, <4>2, <5>1
        <5> QED
          BY <1>0, <1>1, <5>2, TokenKinds DEF Datum
      <4> QED
        BY <4>1, <4>2
    <3> QED
      BY <1>0, <1>1, <3>2 DEF Datum
  <2>3. WITNESS Len(xOut) + 1 \in 0 .. Len(xOut) + 1
  <2> QED
    BY <1>0, <2>1, <2>2 DEF Datum
<1>3. CASE Stale
  <2>1. xFile \in Shrinking
    <3> SUFFICES ASSUME xFile \notin Shrinking PROVE FALSE
      OBVIOUS
    <3>1. xSize <= size[xFile] /\ k = Len(xOut)
      BY <1>1 DEF Reading
    <3>2. xOut # <<>> /\ xOut[Len(xOut)] # Byte(xFile, Len(xOut))
      BY <1>0, <1>3, <3>1 DEF Stale
    <3>3. Len(xOut) \in 1 .. Len(xOut)
      BY <1>0, <3>2
    <3> QED
      BY <1>1, <3>1, <3>2, <3>3 DEF Datum
  <2>2. NextByte = Datum(xFile, k, Len(xOut) + 1)
    <3>1. CASE xOut = <<>>
      BY <1>0, <1>1, <1>3, <3>1 DEF NextByte, Datum
    <3>2. CASE xOut # <<>>
      <4>1. Len(xOut) \in 1 .. Len(xOut)
        BY <1>0, <3>2
      <4>2. NextByte = Datum(xFile, k, Len(xOut))
        BY <1>1, <1>3, <3>2, <4>1 DEF NextByte
      <4> QED
        BY <1>0, <1>1, <4>1, <4>2 DEF Datum
    <3> QED
      BY <3>1, <3>2
  <2>3. WITNESS k \in 0 .. Len(xOut) + 1
  <2> QED
    BY <1>0, <1>1, <2>1, <2>2
<1> QED
  BY <1>2, <1>3

-----------------------------------------------------------------------------
(* The server's steps.                                                     *)

LEMMA SendTyped ==
  ASSUME Typed, NEW tokens \in Seq(Tokens), Send(tokens)
  PROVE  s2c' \in Seq(Tokens)
BY DEF Typed, Send

\* The first n tokens of the buffer, and the rest of it.
LEMMA BufferParts ==
  ASSUME Typed, NEW n \in 1 .. Len(xOut)
  PROVE  /\ SubSeq(xOut, 1, n) \in Seq(Tokens) /\ Len(SubSeq(xOut, 1, n)) = n
         /\ \A i \in 1 .. n : SubSeq(xOut, 1, n)[i] = xOut[i]
         /\ SubSeq(xOut, n + 1, Len(xOut)) \in Seq(Tokens)
         /\ Len(SubSeq(xOut, n + 1, Len(xOut))) = Len(xOut) - n
         /\ \A i \in 1 .. Len(xOut) - n : SubSeq(xOut, n + 1, Len(xOut))[i] = xOut[n + i]
<1>1. xOut \in Seq(Tokens) /\ Len(xOut) \in Nat /\ n \in Nat
  BY DEF Typed
<1>2. /\ SubSeq(xOut, 1, n) \in Seq(Tokens) /\ Len(SubSeq(xOut, 1, n)) = n
      /\ \A i \in 1 .. n : SubSeq(xOut, 1, n)[i] = xOut[i]
  BY <1>1
<1>3. /\ SubSeq(xOut, n + 1, Len(xOut)) \in Seq(Tokens)
      /\ Len(SubSeq(xOut, n + 1, Len(xOut))) =
            IF n + 1 <= Len(xOut) THEN Len(xOut) - (n + 1) + 1 ELSE 0
      /\ \A i \in 1 .. Len(xOut) - (n + 1) + 1 :
            SubSeq(xOut, n + 1, Len(xOut))[i] = xOut[(n + 1) + i - 1]
  <2>1. n + 1 \in Int /\ Len(xOut) \in Int /\ \A i \in n + 1 .. Len(xOut) : xOut[i] \in Tokens
    BY <1>1
  <2> QED
    BY <2>1, SubSeqProperties
<1> QED
  BY <1>1, <1>2, <1>3

LEMMA ServerTyped ==
  ASSUME Typed, ServerNext, UNCHANGED xdrClientVars
  PROVE  Typed'
<1>c. c2s' \in Seq(Commands)
  <2>1. UNCHANGED c2s \/ (c2s # <<>> /\ c2s' = Tail(c2s))
    BY DEF ServerNext, ServerRuns, ReadGet, ReadQuit, ReadFails, OpenOk, OpenLocked,
           OpenAbsent, Leave, ReadByte, ReadDone, Flush, FlushFails, ServerDies, Resize,
           channelVars
  <2>2. c2s \in Seq(Commands)
    BY DEF Typed
  <2> QED
    BY <2>1, <2>2, SMTT(20)
<1>y. /\ yPc' \in {"keyboard", "response", "ended"} /\ asked' \in Seq(Files)
      /\ results' \in Seq(Results) /\ Len(asked') <= MaxGets
  BY DEF Typed, xdrClientVars
<1>1. ASSUME s2c' \in Seq(Tokens), xOut' \in Seq(Tokens), ServerTypeOK' PROVE Typed'
  BY <1>1, <1>c, <1>y DEF Typed
<1>2. CASE ReadGet
  <2>1. Head(c2s) \in Commands /\ Head(c2s)[1] = "GET"
    BY <1>2 DEF ReadGet, Typed
  <2>2. xFile' \in Files
    BY <1>2, <2>1, CommandKinds DEF ReadGet
  <2> QED
    BY <1>1, <1>2, <2>2 DEF ReadGet, Typed, ServerTypeOK
<1>3. CASE ReadQuit \/ ReadFails \/ Leave \/ FlushFails \/ ServerDies
  <2>1. UNCHANGED <<s2c, size, xFile, xSize, xOut>> /\ xPc' \in Gone
    BY <1>3 DEF ReadQuit, ReadFails, Leave, FlushFails, ServerDies, Exit, Gone
  <2> QED
    BY <1>1, <2>1 DEF Typed, ServerTypeOK, Gone
<1>4. CASE OpenOk
  BY <1>1, <1>4 DEF OpenOk, channelVars, Typed, ServerTypeOK
<1>5. CASE OpenLocked \/ OpenAbsent
  <2>1. /\ Send(<<Err>>) /\ UNCHANGED <<size, xFile, xSize, xOut>> /\ xPc = "open"
        /\ xPc' \in {"message", "leave"}
    BY <1>5 DEF OpenLocked, OpenAbsent
  <2>2. <<Err>> \in Seq(Tokens)
    BY OthersTyped
  <2>3. s2c' \in Seq(Tokens)
    BY <2>1, <2>2, SendTyped
  <2> QED
    BY <1>1, <2>1, <2>3 DEF Typed, ServerTypeOK
<1>6. CASE ReadByte
  <2>1. /\ xPc = "read" /\ xPc' = "read" /\ xOut' = Append(xOut, NextByte)
        /\ Len(xOut) < xSize /\ UNCHANGED <<s2c, size, xFile, xSize>>
    BY <1>6 DEF ReadByte, channelVars
  <2>2. xOut' \in Seq(Tokens) /\ Len(xOut') = Len(xOut) + 1 /\ Len(xOut) \in Nat
    BY <2>1, NextByteTyped DEF Typed
  <2> QED
    BY <1>1, <2>1, <2>2 DEF Typed, ServerTypeOK
<1>7. CASE ReadDone
  <2>1. /\ xPc = "read" /\ xPc' = "respond" /\ xOut' = <<Ok, Size(xSize)>> \o xOut
        /\ Len(xOut) = xSize /\ UNCHANGED <<s2c, size, xFile, xSize>>
    BY <1>7 DEF ReadDone, channelVars
  <2>2. <<Ok, Size(xSize)>> \in Seq(Tokens) /\ Len(<<Ok, Size(xSize)>>) = 2
    BY OthersTyped, SizeTyped DEF Typed, ServerTypeOK
  <2>3. xOut' \in Seq(Tokens) /\ Len(xOut') = 2 + Len(xOut)
    BY <2>1, <2>2 DEF Typed
  <2> QED
    BY <1>1, <2>1, <2>3 DEF Typed, ServerTypeOK
<1>8. CASE Flush
  <2>1. PICK n \in 1 .. Len(xOut) :
            Send(SubSeq(xOut, 1, n)) /\ xOut' = SubSeq(xOut, n + 1, Len(xOut))
    BY <1>8 DEF Flush
  <2>2. /\ xPc = "respond" /\ xPc' \in {"message", "respond"}
        /\ UNCHANGED <<size, xFile, xSize>>
    BY <1>8 DEF Flush
  <2>3. s2c' \in Seq(Tokens) /\ xOut' \in Seq(Tokens)
    BY <2>1, BufferParts, SendTyped
  <2>4. Len(xOut') <= Len(xOut) /\ Len(xOut) <= MaxSize + 2 /\ Len(xOut') \in Nat
    <3>1. Len(xOut') = Len(xOut) - n /\ Len(xOut) \in Nat
      BY <2>1, BufferParts DEF Typed
    <3> QED
      BY <2>2, <3>1 DEF Typed, ServerTypeOK
  <2>5. Len(xOut') <= MaxSize + 2
    BY <2>4 DEF Typed
  <2> QED
    BY <1>1, <2>2, <2>3, <2>5 DEF Typed, ServerTypeOK
<1>9. ASSUME NEW f \in Files, Resize(f) PROVE Typed'
  <2>1. UNCHANGED <<s2c, xPc, xFile, xSize, xOut>>
    BY <1>9 DEF Resize, channelVars
  <2>2. size' \in [Files -> 0 .. MaxSize]
    <3>1. size \in [Files -> 0 .. MaxSize] /\ size[f] \in 0 .. MaxSize
      BY DEF Typed, ServerTypeOK
    <3>2. PICK n \in 0 .. MaxSize : size' = [size EXCEPT ![f] = n]
      <4>1. CASE size[f] < MaxSize /\ size' = [size EXCEPT ![f] = size[f] + 1]
        <5>1. size[f] + 1 \in 0 .. MaxSize
          BY <3>1, <4>1
        <5> QED
          BY <4>1, <5>1, Zenon
      <4>2. CASE \E n \in 0 .. size[f] - 1 : size' = [size EXCEPT ![f] = n]
        <5>1. PICK n \in 0 .. size[f] - 1 : size' = [size EXCEPT ![f] = n]
          BY <4>2
        <5>2. n \in 0 .. MaxSize
          BY <3>1
        <5> QED
          BY <5>1, <5>2, Zenon
      <4> QED
        BY <1>9, <4>1, <4>2 DEF Resize
    <3> QED
      BY <3>1, <3>2
  <2> QED
    BY <1>1, <2>1, <2>2 DEF Typed, ServerTypeOK
<1> QED
  BY <1>2, <1>3, <1>4, <1>5, <1>6, <1>7, <1>8, <1>9 DEF ServerNext, ServerRuns

\* What the server's steps leave alone in every case.
LEMMA ServerFrame ==
  ASSUME IndInv, ServerNext, UNCHANGED xdrClientVars
  PROVE  Typed' /\ SocketsFollow' /\ InTurn' /\ OthersGrow'
<1>1. Typed'
  BY ServerTyped DEF IndInv
<1>2. SocketsFollow'
  BY DEF ServerNext, ServerRuns, ReadGet, ReadQuit, ReadFails, OpenOk, OpenLocked,
         OpenAbsent, Leave, ReadByte, ReadDone, Flush, FlushFails, ServerDies, Resize,
         Exit, channelVars, xdrClientVars, IndInv, SocketsFollow, Gone, ServerAtEof
<1>3. InTurn'
  BY DEF xdrClientVars, IndInv, InTurn
<1>4. OthersGrow'
  <2>1. CASE UNCHANGED size
    BY <2>1 DEF IndInv, OthersGrow
  <2>2. ASSUME NEW f \in Files, Resize(f) PROVE OthersGrow'
    <3> SUFFICES ASSUME NEW g \in Files \ Shrinking PROVE FileSize[g] <= size'[g]
      BY DEF OthersGrow
    <3>1. FileSize[g] <= size[g] /\ FileSize[g] \in Nat /\ size[g] \in Nat
          /\ size \in [Files -> 0 .. MaxSize]
      BY DEF IndInv, OthersGrow, Typed, ServerTypeOK
    <3>2. g # f => size'[g] = size[g]
      BY <2>2, <3>1 DEF Resize
    <3>3. g = f => size'[g] = size[g] + 1
      BY <2>2, <3>1 DEF Resize
    <3> QED
      BY <3>1, <3>2, <3>3
  <2> QED
    BY <2>1, <2>2
    DEF ServerNext, ServerRuns, ReadGet, ReadQuit, ReadFails, OpenOk, OpenLocked,
        OpenAbsent, Leave, ReadByte, ReadDone, Flush, FlushFails, ServerDies
<1> QED
  BY <1>1, <1>2, <1>3, <1>4

\* Once the client is gone, and in the steps that leave the answer as it is.
LEMMA NoClientInv ==
  ASSUME IndInv, ServerNext, UNCHANGED xdrClientVars, yPc = "ended", Reading',
         UNCHANGED c2s \/ (c2s # <<>> /\ c2s' = Tail(c2s))
  PROVE  IndInv'
<1>1. Typed' /\ SocketsFollow' /\ InTurn' /\ OthersGrow' /\ yPc' = "ended"
  BY ServerFrame DEF xdrClientVars
<1>2. OneRequest'
  <2>1. c2s \in Seq(Commands) /\ (c2s = <<>> \/ Len(c2s) = 1)
    BY DEF IndInv, OneRequest, Typed
  <2>2. c2s' = <<>> \/ Len(c2s') = 1
    BY <2>1
  <2> QED
    BY <1>1, <2>2 DEF OneRequest
<1>3. Serving' /\ Answering' /\ AbsentEnds'
  BY <1>1 DEF Serving, Answering, AbsentEnds
<1> QED
  BY <1>1, <1>2, <1>3 DEF IndInv

LEMMA ServerInv == ASSUME IndInv, ServerStep PROVE IndInv'
<1> USE DEF IndInv
<1>r. UNCHANGED <<yPc, asked, results>> /\ ServerNext /\ UNCHANGED xdrClientVars
  BY DEF ServerStep, xdrClientVars
<1>f. Typed' /\ SocketsFollow' /\ InTurn' /\ OthersGrow'
  BY <1>r, ServerFrame
<1>c. Current' = Current
  BY <1>r DEF Current
<1>2. CASE ReadGet
  <2>1. /\ xPc = "message" /\ c2s # <<>> /\ c2s' = Tail(c2s) /\ xFile' = Head(c2s)[2]
        /\ xPc' = "open" /\ UNCHANGED <<s2c, size, xSize, xOut>>
    BY <1>2 DEF ReadGet
  <2>2. c2s' = <<>>
    <3>1. c2s \in Seq(Commands) /\ Len(c2s) = 1
      BY <2>1 DEF OneRequest, Typed
    <3> HIDE DEF IndInv
    <3> QED
      BY <2>1, <3>1
  <2>3. Reading'
    BY <2>1 DEF Reading
  <2>4. CASE yPc = "ended"
    BY <1>r, <2>1, <2>3, <2>4, NoClientInv
  <2>5. CASE yPc # "ended"
    <3>1. yPc = "response" /\ s2c = <<>> /\ c2s = <<<<"GET", Current>>>>
      BY <2>1, <2>5 DEF OneRequest, Typed, Gone
    <3>2. Current \in Files
      BY <3>1 DEF InTurn, Typed, Current
    <3>3. xFile' = Current
      <4>1. Head(c2s) = <<"GET", Current>>
        BY <3>1
      <4> QED
        BY <2>1, <3>2, <4>1, CommandKinds
    <3>4. OneRequest' /\ Serving' /\ Answering'
      BY <1>c, <1>r, <2>1, <2>2, <3>1, <3>3 DEF OneRequest, Serving, Answering
    <3>5. AbsentEnds'
      BY <1>r, <2>1, <3>1 DEF AbsentEnds, Gone
    <3> QED
      BY <1>f, <2>3, <3>4, <3>5
  <2> QED
    BY <2>4, <2>5
<1>3. CASE ReadQuit \/ ReadFails \/ FlushFails
  <2>1. /\ UNCHANGED <<s2c, size, xFile, xSize, xOut>> /\ xPc' = "ended"
        /\ UNCHANGED c2s \/ (c2s # <<>> /\ c2s' = Tail(c2s))
    BY <1>3 DEF ReadQuit, ReadFails, FlushFails, Exit
  <2>2. yPc = "ended"
    <3>1. CASE ReadQuit
      <4>1. xPc = "message" /\ c2s # <<>> /\ Head(c2s)[1] = "QUIT"
        BY <3>1 DEF ReadQuit
      <4>2. SUFFICES ASSUME yPc # "ended" PROVE FALSE
        OBVIOUS
      <4>3. yPc = "response" /\ c2s = <<<<"GET", Current>>>>
        BY <4>1, <4>2 DEF OneRequest, Typed, Gone
      <4>4. Head(c2s) = <<"GET", Current>> /\ <<"GET", Current>>[1] = "GET"
        BY <4>3
      <4> QED
        BY <4>1, <4>4
    <3>2. CASE ReadFails \/ FlushFails
      BY <3>2 DEF ReadFails, FlushFails, ServerAtEof, SocketsFollow
    <3> QED
      BY <1>3, <3>1, <3>2
  <2>3. Reading'
    BY <2>1 DEF Reading
  <2> QED
    BY <1>r, <2>1, <2>2, <2>3, NoClientInv
<1>4. CASE OpenOk
  <2>1. /\ UNCHANGED <<c2s, s2c, size, xFile>> /\ xPc = "open" /\ xPc' = "read"
        /\ Kind[xFile] = "regular" /\ xSize' = size[xFile] /\ xOut' = <<>>
    BY <1>4 DEF OpenOk, channelVars
  <2>2. Reading'
    <3>1. xFile \in Files /\ size[xFile] \in Nat /\ Len(xOut') = 0 /\ 0 \in 0 .. 0
      BY <2>1 DEF Typed, ServerTypeOK
    <3>2. Opened' /\ xSize' <= size'[xFile']
      BY <2>1, <3>1 DEF Opened, OthersGrow
    <3> QED
      BY <2>1, <3>1, <3>2 DEF Reading
  <2>3. OneRequest' /\ Serving' /\ Answering'
    BY <1>c, <1>r, <2>1 DEF OneRequest, Serving, Answering, Gone
  <2>4. AbsentEnds'
    BY <1>r, <2>1 DEF AbsentEnds, Gone
  <2> QED
    BY <1>f, <2>2, <2>3, <2>4
<1>5. CASE OpenLocked \/ OpenAbsent
  <2>1. /\ Send(<<Err>>) /\ UNCHANGED <<c2s, size, xFile, xSize, xOut>> /\ xPc = "open"
        /\ \/ xPc' = "message" /\ Kind[xFile] = "locked"
           \/ xPc' = "leave" /\ Kind[xFile] = "absent"
    BY <1>5 DEF OpenLocked, OpenAbsent
  <2>2. Reading'
    BY <2>1 DEF Reading
  <2>3. CASE yPc = "ended"
    BY <1>r, <2>1, <2>2, <2>3, NoClientInv
  <2>4. CASE yPc # "ended"
    <3>1. s2c = <<>> /\ yPc = "response" /\ xFile = Current /\ c2s = <<>>
      BY <2>1, <2>4 DEF Serving
    <3>2. s2c' = <<Err>>
      <4>1. s2c' = <<>> \o <<Err>> /\ <<Err>> \in Seq(Tokens)
        BY <2>1, <2>4, <3>1, OthersTyped DEF Send, SocketsFollow
      <4> QED
        BY <4>1, ConcatEmptySeq
    <3>3. OneRequest' /\ Serving'
      BY <1>c, <1>r, <2>1, <3>1 DEF OneRequest, Serving, Gone
    <3>4. Answering'
      BY <2>1, <3>2 DEF Answering, AnswersErr
    <3>5. AbsentEnds'
      <4>1. Len(asked) \in 1 .. Len(asked) /\ Len(asked) \in Nat
        BY <3>1 DEF InTurn, Typed
      <4>2. Kind[asked[Len(asked)]] = Kind[xFile]
        BY <3>1 DEF Current
      <4> QED
        BY <1>r, <2>1, <3>1, <4>1, <4>2 DEF AbsentEnds, Gone
    <3> QED
      BY <1>f, <2>2, <3>3, <3>4, <3>5
  <2> QED
    BY <2>3, <2>4
<1>6. CASE Leave \/ ServerDies
  <2>1. /\ UNCHANGED <<c2s, s2c, size, xFile, xSize, xOut>>
        /\ (xPc = "leave" /\ xPc' = "ended") \/ (xPc \notin Gone /\ xPc' = "killed")
    BY <1>6 DEF Leave, ServerDies, Exit, Gone
  <2>2. Reading'
    BY <2>1 DEF Reading
  <2>3. CASE yPc = "ended"
    BY <1>r, <2>1, <2>2, <2>3, NoClientInv
  <2>4. CASE yPc # "ended"
    <3>1. OneRequest' /\ Serving'
      BY <1>c, <1>r, <2>1 DEF OneRequest, Serving, Gone
    <3>2. Answering'
      BY <1>r, <2>1, <2>4 DEF Answering, AnswersErr, AnswersFile, AnswerIs, Opened, Gone
    <3>3. AbsentEnds'
      BY <1>r, <2>1 DEF AbsentEnds, Gone
    <3> QED
      BY <1>f, <2>2, <3>1, <3>2, <3>3
  <2> QED
    BY <2>3, <2>4
<1>7. CASE ReadByte
  <2>1. /\ xPc = "read" /\ xPc' = "read" /\ xOut' = Append(xOut, NextByte)
        /\ Len(xOut) < xSize /\ UNCHANGED <<c2s, s2c, size, xFile, xSize>>
    BY <1>7 DEF ReadByte, channelVars
  <2>2. PICK k \in 0 .. Len(xOut) + 1 :
            /\ xFile \notin Shrinking => k = Len(xOut) + 1
            /\ NextByte = Datum(xFile, k, Len(xOut) + 1)
            /\ \A i \in 1 .. Len(xOut) : xOut[i] = Datum(xFile, k, i)
    BY <2>1, NextByteContinues
  <2>3. /\ Len(xOut') = Len(xOut) + 1 /\ Len(xOut) \in Nat
        /\ \A i \in 1 .. Len(xOut') :
              xOut'[i] = IF i <= Len(xOut) THEN xOut[i] ELSE NextByte
    BY <2>1, NextByteTyped DEF Typed
  <2>4. ASSUME NEW i \in 1 .. Len(xOut') PROVE xOut'[i] = Datum(xFile, k, i)
    <3>1. CASE i <= Len(xOut)
      BY <2>2, <2>3, <2>4, <3>1
    <3>2. CASE ~(i <= Len(xOut))
      <4>1. i = Len(xOut) + 1
        BY <2>3, <2>4, <3>2
      <4> QED
        BY <2>2, <2>3, <2>4, <3>2, <4>1
    <3> QED
      BY <3>1, <3>2
  <2>5. Reading'
    <3>1. Opened' /\ (xFile' \notin Shrinking => xSize' <= size'[xFile'])
      BY <2>1 DEF Reading, Opened
    <3>2. k \in 0 .. Len(xOut') /\ (xFile' \notin Shrinking => k = Len(xOut'))
      BY <2>1, <2>2, <2>3
    <3>3. \A i \in 1 .. Len(xOut') : xOut'[i] = Datum(xFile', k, i)
      BY <2>1, <2>4
    <3> QED
      BY <3>1, <3>2, <3>3 DEF Reading
  <2>6. OneRequest' /\ Serving' /\ Answering'
    BY <1>c, <1>r, <2>1
    DEF OneRequest, Serving, Answering, AnswersErr, AnswersFile, Gone
  <2>7. AbsentEnds'
    BY <1>r, <2>1 DEF AbsentEnds
  <2> QED
    BY <1>f, <2>5, <2>6, <2>7
<1>8. CASE ReadDone
  <2>1. /\ xPc = "read" /\ xPc' = "respond" /\ xOut' = <<Ok, Size(xSize)>> \o xOut
        /\ Len(xOut) = xSize /\ UNCHANGED <<c2s, s2c, size, xFile, xSize>>
    BY <1>8 DEF ReadDone, channelVars
  <2>2. PICK k \in 0 .. Len(xOut) :
            /\ xFile \notin Shrinking => k = Len(xOut)
            /\ \A i \in 1 .. Len(xOut) : xOut[i] = Datum(xFile, k, i)
    BY <2>1 DEF Reading
  <2>3. Reading'
    BY <2>1 DEF Reading
  <2>4. CASE yPc = "ended"
    BY <1>r, <2>1, <2>3, <2>4, NoClientInv
  <2>5. CASE yPc # "ended"
    <3>1. s2c = <<>> /\ yPc = "response" /\ xFile = Current /\ c2s = <<>>
      BY <2>1, <2>5 DEF Serving
    <3>2. /\ Len(xOut) \in Nat /\ Len(xOut') = 2 + Len(xOut) /\ xSize \in 0 .. MaxSize
          /\ \A j \in 1 .. Len(xOut') : xOut'[j] =
                IF j = 1 THEN Ok ELSE IF j = 2 THEN Size(xSize) ELSE xOut[j - 2]
      <4>1. /\ <<Ok, Size(xSize)>> \in Seq(Tokens) /\ Len(<<Ok, Size(xSize)>>) = 2
            /\ <<Ok, Size(xSize)>>[1] = Ok /\ <<Ok, Size(xSize)>>[2] = Size(xSize)
        BY OthersTyped, SizeTyped DEF Typed, ServerTypeOK
      <4> DEFINE head == <<Ok, Size(xSize)>>
      <4>2. /\ head \in Seq(Tokens) /\ Len(head) = 2
            /\ head[1] = Ok /\ head[2] = Size(xSize) /\ xOut' = head \o xOut
        BY <2>1, <4>1
      <4> HIDE DEF head
      <4>5. xOut \in Seq(Tokens) /\ Len(xOut) \in Nat /\ xSize \in 0 .. MaxSize
        BY DEF Typed, ServerTypeOK
      <4>3. /\ Len(xOut) \in Nat /\ Len(xOut') = 2 + Len(xOut) /\ xSize \in 0 .. MaxSize
            /\ \A j \in 1 .. Len(xOut') : xOut'[j] =
                  IF j <= 2 THEN head[j] ELSE xOut[j - 2]
        <5>1. head \in Seq(Tokens) /\ xOut \in Seq(Tokens) /\ xOut' = head \o xOut
          BY <4>2, <4>5
        <5>2. /\ Len(xOut') = Len(head) + Len(xOut)
              /\ \A j \in 1 .. Len(head) + Len(xOut) : xOut'[j] =
                    IF j <= Len(head) THEN head[j] ELSE xOut[j - Len(head)]
          BY <5>1, ConcatProperties
        <5> QED
          BY <4>2, <4>5, <5>2
      <4>4. ASSUME NEW j \in 1 .. Len(xOut')
            PROVE  xOut'[j] = IF j = 1 THEN Ok ELSE IF j = 2 THEN Size(xSize) ELSE xOut[j - 2]
        <5>1. j = 1 \/ j = 2 \/ (j # 1 /\ j # 2 /\ ~(j <= 2))
          BY <4>3
        <5> QED
          BY <4>2, <4>3, <5>1
      <4> QED
        BY <4>3, <4>4
    <3>3. AnswerIs(k)'
      <4>1. Len(s2c') = 0
        BY <2>1, <3>1
      <4>2. ASSUME NEW j \in 1 .. Len(xOut')
            PROVE  xOut'[j] = AnswerToken(xFile, xSize, k, j)
        <5>1. j > 2 => j - 2 \in 1 .. Len(xOut)
          BY <3>2
        <5> QED
          BY <2>2, <3>2, <5>1 DEF AnswerToken
      <4>3. Len(s2c') + Len(xOut') = 2 + xSize' /\ Len(s2c') <= 2 + xSize'
        BY <2>1, <3>2, <4>1
      <4>4. \A j \in 1 .. Len(xOut') : Len(s2c') + j = j
        BY <4>1, <3>2
      <4>5. xOut' # <<>>
        BY <3>2
      <4> QED
        BY <2>1, <4>1, <4>2, <4>3, <4>4, <4>5 DEF AnswerIs
    <3>4. Opened'
      BY <2>1 DEF Reading, Opened
    <3>5. Answering'
      <4>1. k \in 0 .. MaxSize /\ (xFile' \notin Shrinking => k = xSize')
        BY <2>1, <2>2, <3>2
      <4> QED
        BY <2>1, <3>3, <3>4, <4>1 DEF Answering, AnswersFile
    <3>6. OneRequest' /\ Serving'
      BY <1>c, <1>r, <2>1, <3>1 DEF OneRequest, Serving, Gone
    <3>7. AbsentEnds'
      BY <1>r, <2>1 DEF AbsentEnds, Gone
    <3> QED
      BY <1>f, <2>3, <3>5, <3>6, <3>7
  <2> QED
    BY <2>4, <2>5
<1>9. CASE Flush
  <2>1. PICK n \in 1 .. Len(xOut) :
            Send(SubSeq(xOut, 1, n)) /\ xOut' = SubSeq(xOut, n + 1, Len(xOut))
    BY <1>9 DEF Flush
  <2>2. /\ xPc = "respond" /\ UNCHANGED <<c2s, size, xFile, xSize>>
        /\ (xPc' = "message" /\ xOut' = <<>>) \/ (xPc' = "respond" /\ xOut' # <<>>)
    BY <1>9 DEF Flush
  <2>3. Reading'
    BY <2>2 DEF Reading
  <2>4. CASE yPc = "ended"
    BY <1>r, <2>2, <2>3, <2>4, NoClientInv
  <2>5. CASE yPc # "ended"
    <3>1. AnswersFile
      BY <2>2, <2>5 DEF Answering, AnswersErr, Gone
    <3>2. PICK k \in 0 .. MaxSize : (xFile \notin Shrinking => k = xSize) /\ AnswerIs(k)
      BY <3>1 DEF AnswersFile
    <3>3. yPc = "response" /\ xFile = Current /\ c2s = <<>>
      BY <2>2, <2>5 DEF Serving
    <3> DEFINE part == SubSeq(xOut, 1, n)
    <3>4. /\ part \in Seq(Tokens) /\ Len(part) = n
          /\ \A i \in 1 .. n : part[i] = xOut[i]
          /\ Len(xOut') = Len(xOut) - n
          /\ \A i \in 1 .. Len(xOut) - n : xOut'[i] = xOut[n + i]
          /\ Len(xOut) \in Nat /\ n \in Nat /\ n <= Len(xOut) /\ xSize \in Nat
          /\ s2c \in Seq(Tokens) /\ Len(s2c) \in Nat
      BY <2>1, BufferParts, SMTT(20) DEF Typed, ServerTypeOK
    <3>5. s2c' = s2c \o part
      BY <2>1, <2>5 DEF Send, SocketsFollow
    <3> HIDE DEF part
    <3>6. /\ Len(s2c') = Len(s2c) + n
          /\ \A j \in 1 .. Len(s2c') :
                s2c'[j] = IF j <= Len(s2c) THEN s2c[j] ELSE part[j - Len(s2c)]
      <4>1. s2c \in Seq(Tokens) /\ part \in Seq(Tokens) /\ Len(part) = n
        BY <3>4
      <4>2. /\ Len(s2c \o part) = Len(s2c) + Len(part)
            /\ \A i \in 1 .. Len(s2c) + Len(part) :
                  (s2c \o part)[i] = IF i <= Len(s2c) THEN s2c[i] ELSE part[i - Len(s2c)]
        BY <4>1, ConcatProperties
      <4> QED
        BY <3>5, <4>1, <4>2, Zenon
    <3>7. AnswerIs(k)'
      <4>1. ASSUME NEW j \in 1 .. Len(s2c')
            PROVE  s2c'[j] = AnswerToken(xFile, xSize, k, j)
        <5>1. CASE j <= Len(s2c)
          BY <3>2, <3>4, <3>6, <4>1, <5>1, SMTT(20) DEF AnswerIs
        <5>2. CASE ~(j <= Len(s2c))
          <6>1. j - Len(s2c) \in 1 .. n /\ j - Len(s2c) \in 1 .. Len(xOut)
                /\ Len(s2c) + (j - Len(s2c)) = j
            BY <3>4, <3>6, <5>2
          <6>2. s2c'[j] = xOut[j - Len(s2c)]
            BY <3>4, <3>6, <5>2, <6>1
          <6>3. xOut[j - Len(s2c)] = AnswerToken(xFile, xSize, k, Len(s2c) + (j - Len(s2c)))
            BY <2>2, <3>2, <6>1 DEF AnswerIs
          <6> QED
            BY <6>1, <6>2, <6>3
        <5> QED
          BY <5>1, <5>2
      <4>2. ASSUME NEW j \in 1 .. Len(xOut')
            PROVE  xOut'[j] = AnswerToken(xFile, xSize, k, Len(s2c') + j)
        <5>1. n + j \in 1 .. Len(xOut) /\ j \in 1 .. Len(xOut) - n
              /\ Len(s2c) + (n + j) = Len(s2c') + j
          BY <3>4, <3>6
        <5>2. xOut'[j] = xOut[n + j]
          BY <3>4, <5>1
        <5>3. xOut[n + j] = AnswerToken(xFile, xSize, k, Len(s2c) + (n + j))
          BY <2>2, <3>2, <5>1 DEF AnswerIs
        <5> QED
          BY <5>1, <5>2, <5>3
      <4>3. Len(s2c) + Len(xOut) = 2 + xSize
        BY <2>2, <3>2 DEF AnswerIs
      <4>5. /\ Len(s2c') = Len(s2c) + n /\ Len(xOut') = Len(xOut) - n /\ n <= Len(xOut)
            /\ Len(s2c) \in Nat /\ Len(xOut) \in Nat /\ n \in Nat /\ xSize \in Nat
        BY <3>4, <3>6
      <4>4. Len(s2c') <= 2 + xSize /\ Len(s2c') + Len(xOut') = 2 + xSize
        BY <4>3, <4>5, SMTT(20)
      <4> QED
        BY <2>2, <4>1, <4>2, <4>4 DEF AnswerIs
    <3>8. Answering'
      <4>1. Opened'
        BY <2>2, <3>1 DEF AnswersFile, Opened
      <4> QED
        BY <2>2, <3>2, <3>7, <4>1 DEF Answering, AnswersFile
    <3>9. OneRequest' /\ Serving'
      BY <1>c, <1>r, <2>2, <3>3 DEF OneRequest, Serving, Gone
    <3>10. AbsentEnds'
      BY <1>r, <2>2 DEF AbsentEnds, Gone
    <3> QED
      BY <1>f, <2>3, <3>8, <3>9, <3>10
  <2> QED
    BY <2>4, <2>5
<1>10. ASSUME NEW f \in Files, Resize(f) PROVE IndInv'
  <2>1. UNCHANGED <<c2s, s2c, xPc, xFile, xSize, xOut>>
    BY <1>10 DEF Resize, channelVars
  <2>2. xFile \notin Shrinking => size'[xFile] >= size[xFile]
    <3>1. xFile \in Files /\ size \in [Files -> 0 .. MaxSize] /\ size[xFile] \in Nat
      BY DEF Typed, ServerTypeOK
    <3>2. xFile # f => size'[xFile] = size[xFile]
      BY <1>10, <3>1 DEF Resize
    <3>3. xFile = f /\ xFile \notin Shrinking => size'[xFile] = size[xFile] + 1
      BY <1>10, <3>1 DEF Resize
    <3> QED
      BY <3>1, <3>2, <3>3
  <2>3. Reading'
    <3>1. xFile \notin Shrinking /\ xSize <= size[xFile] => xSize <= size'[xFile]
      BY <1>f, <2>1, <2>2, SMTT(20) DEF Typed, ServerTypeOK
    <3> QED
      BY <2>1, <3>1 DEF Reading, Opened
  <2>4. OneRequest' /\ Serving' /\ Answering' /\ AbsentEnds'
    BY <1>c, <1>r, <2>1
    DEF OneRequest, Serving, Answering, AnswersErr, AnswersFile, AnswerIs, Opened, AbsentEnds
  <2> QED
    BY <1>f, <2>3, <2>4
<1> QED
  BY <1>r, <1>2, <1>3, <1>4, <1>5, <1>6, <1>7, <1>8, <1>9, <1>10 DEF ServerNext, ServerRuns

-----------------------------------------------------------------------------
(* The client's steps.                                                     *)

\* A response with a file that is complete is a copy, and nothing comes behind it.
LEMMA FileIsCopy ==
  ASSUME IndInv, yPc # "ended", Complete, Head(s2c) = Ok
  PROVE  /\ yPc = "response" /\ xFile = Current /\ c2s = <<>>
         /\ xPc \in {"message", "killed"}
         /\ Kind[xFile] = "regular"
         /\ Len(s2c) = 2 + s2c[2][2]
         /\ Download(SubSeq(s2c, 3, 2 + s2c[2][2])) \in Copies(xFile)
         /\ Download(SubSeq(s2c, 3, 2 + s2c[2][2])) \in Results
<1>1. /\ s2c # <<>> /\ s2c \in Seq(Tokens) /\ Len(s2c) \in Nat /\ s2c[1] = Ok
      /\ Len(s2c) >= 2 /\ Len(s2c) >= 2 + s2c[2][2]
  BY DEF Complete, IndInv, Typed
<1>2. yPc = "response" /\ xFile = Current /\ c2s = <<>>
  BY <1>1 DEF IndInv, Serving
<1>3. AnswersFile
  <2>1. s2c # <<Err>>
    BY <1>1, TokenKinds
  <2> QED
    BY <1>1, <2>1 DEF IndInv, Answering, AnswersErr
<1>4. PICK k \in 0 .. MaxSize : (xFile \notin Shrinking => k = xSize) /\ AnswerIs(k)
  BY <1>3 DEF AnswersFile
<1>5. xSize \in 0 .. MaxSize /\ xFile \in Files /\ xOut \in Seq(Tokens)
  BY DEF IndInv, Typed, ServerTypeOK
<1>6. s2c[2] = Size(xSize) /\ s2c[2][2] = xSize
  <2>1. s2c[2] = AnswerToken(xFile, xSize, k, 2)
    BY <1>1, <1>4 DEF AnswerIs
  <2> QED
    BY <1>5, <2>1, TokenKinds DEF AnswerToken
<1>7. Len(s2c) = 2 + xSize
  BY <1>1, <1>4, <1>5, <1>6 DEF AnswerIs
<1>8. xPc \in {"message", "killed"} /\ Opened
  <2>1. xPc # "respond"
    BY <1>4, <1>5, <1>7 DEF AnswerIs
  <2> QED
    BY <1>3, <2>1 DEF AnswersFile
<1> DEFINE data == SubSeq(s2c, 3, 2 + xSize)
<1>9. /\ data \in Seq(Tokens) /\ Len(data) = xSize
      /\ \A i \in 1 .. xSize : data[i] = Datum(xFile, k, i)
  <2>1. \A i \in 3 .. 2 + xSize : s2c[i] \in Tokens
    BY <1>1, <1>5, <1>7
  <2>2. /\ data \in Seq(Tokens)
        /\ Len(data) = IF 3 <= 2 + xSize THEN (2 + xSize) - 3 + 1 ELSE 0
        /\ \A i \in 1 .. (2 + xSize) - 3 + 1 : data[i] = s2c[3 + i - 1]
    BY <1>5, <2>1, SubSeqProperties
  <2> HIDE DEF data
  <2>3. ASSUME NEW i \in 1 .. xSize PROVE data[i] = Datum(xFile, k, i)
    <3>1. i \in 1 .. (2 + xSize) - 3 + 1 /\ 3 + i - 1 = i + 2 /\ i + 2 \in 1 .. Len(s2c)
      BY <1>5, <1>7
    <3>2. data[i] = AnswerToken(xFile, xSize, k, i + 2)
      BY <1>4, <2>2, <3>1 DEF AnswerIs
    <3>3. i + 2 # 1 /\ i + 2 # 2 /\ (i + 2) - 2 = i
      OBVIOUS
    <3> QED
      BY <3>2, <3>3 DEF AnswerToken
  <2> QED
    BY <1>5, <2>2, <2>3
<1> HIDE DEF data
<1>10. data = [i \in 1 .. xSize |-> Datum(xFile, k, i)]
  <2>1. data = [i \in 1 .. Len(data) |-> data[i]]
    BY <1>9, LenProperties
  <2> QED
    BY <1>9, <2>1
<1>11. Download(data) \in Copies(xFile)
  <2>1. CASE xFile \in Shrinking
    <3>1. data = Padded(xFile, k, xSize)
      BY <1>10 DEF Padded, Datum
    <3> QED
      BY <1>5, <2>1, <3>1 DEF Copies
  <2>2. CASE xFile \notin Shrinking
    <3>1. \A i \in 1 .. xSize : Datum(xFile, k, i) = Byte(xFile, i)
      BY <1>4, <2>2 DEF Datum
    <3>2. data = Prefix(xFile, xSize)
      BY <1>10, <3>1 DEF Prefix
    <3>3. xSize \in FileSize[xFile] .. MaxSize
      BY <1>5, <1>8, <2>2 DEF Opened
    <3> QED
      BY <2>2, <3>2, <3>3 DEF Copies
  <2> QED
    BY <2>1, <2>2
<1>12. Download(data) \in Results
  BY <1>9 DEF Download, Results
<1>13. data = SubSeq(s2c, 3, 2 + s2c[2][2])
  BY <1>6 DEF data
<1> QED
  BY <1>2, <1>6, <1>7, <1>8, <1>11, <1>12, <1>13 DEF Opened

\* An error, for a request that is not for a file that can be opened.
LEMMA ErrIsRefusal ==
  ASSUME IndInv, yPc # "ended", Complete, Head(s2c) # Ok
  PROVE  /\ yPc = "response" /\ xFile = Current /\ c2s = <<>> /\ AnswersErr
<1>1. s2c # <<>> /\ s2c \in Seq(Tokens) /\ s2c[1] # Ok /\ Len(s2c) \in Nat
  BY DEF Complete, IndInv, Typed
<1>2. yPc = "response" /\ xFile = Current /\ c2s = <<>>
  BY <1>1 DEF IndInv, Serving
<1>3. ~AnswersFile
  <2> SUFFICES ASSUME AnswersFile PROVE FALSE
    OBVIOUS
  <2>1. PICK k \in 0 .. MaxSize : AnswerIs(k)
    BY DEF AnswersFile
  <2>2. s2c[1] = AnswerToken(xFile, xSize, k, 1)
    BY <1>1, <2>1 DEF AnswerIs
  <2> QED
    BY <1>1, <2>2 DEF AnswerToken
<1> QED
  BY <1>1, <1>2, <1>3 DEF IndInv, Answering

\* The client's ways out.
LEMMA LeaveInv ==
  ASSUME IndInv, UNCHANGED xdrServerVars, yPc' = "ended", cEnd' = "closed",
         UNCHANGED <<sEnd, asked, results>>, s2c' \in Seq(Tokens),
         c2s' \in Seq(Commands), c2s' = <<>> \/ Len(c2s') = 1
  PROVE  IndInv'
<1> USE DEF IndInv, xdrServerVars
<1>1. Typed'
  BY DEF Typed, ServerTypeOK
<1>2. SocketsFollow' /\ InTurn' /\ OneRequest' /\ OthersGrow'
  BY DEF SocketsFollow, InTurn, OneRequest, OthersGrow
<1>3. Serving' /\ Answering' /\ AbsentEnds'
  BY DEF Serving, Answering, AbsentEnds
<1>4. Reading'
  BY DEF Reading, Opened
<1> QED
  BY <1>1, <1>2, <1>3, <1>4

\* The result of a request is stored and the next one may be made.
LEMMA ResultInv ==
  ASSUME IndInv, UNCHANGED xdrServerVars, yPc = "response", yPc' = "keyboard",
         UNCHANGED <<c2s, cEnd, sEnd, asked>>, s2c' = <<>>,
         NEW result \in Results, results' = Append(results, result),
         xPc \in {"message", "leave"} \cup Gone,
         c2s # <<>> => xPc \in Gone,
         Kind[Current] = "absent" => xPc \in {"leave"} \cup Gone
  PROVE  IndInv'
<1> USE DEF IndInv, xdrServerVars
<1>1. results' \in Seq(Results) /\ Len(results') = Len(results) + 1
  BY DEF Typed
<1>2. Typed'
  BY <1>1 DEF Typed, ServerTypeOK
<1>3. SocketsFollow' /\ OneRequest' /\ OthersGrow'
  BY DEF SocketsFollow, OneRequest, OthersGrow
<1>4. InTurn'
  <2>1. Len(asked) = Len(results) + 1
    BY DEF InTurn
  <2>2. Len(asked) = Len(results') /\ Len(asked) \in Nat
    BY <1>1, <2>1 DEF Typed
  <2>3. asked' = asked /\ yPc' = "keyboard" /\ Len(results') <= Len(asked)
    BY <2>2
  <2> QED
    BY <2>2, <2>3 DEF InTurn
<1>5. Serving' /\ Answering'
  BY DEF Serving, Answering, Gone
<1>6. AbsentEnds'
  <2>1. xPc \in {"leave", "ended"} => \E i \in 1 .. Len(asked) : Kind[asked[i]] = "absent"
    BY DEF AbsentEnds
  <2>2. ASSUME NEW i \in 1 .. Len(asked), Kind[asked[i]] = "absent"
        PROVE  xPc \in {"leave"} \cup Gone
    <3>1. CASE i < Len(asked)
      BY <2>2, <3>1 DEF AbsentEnds
    <3>2. CASE i = Len(asked)
      BY <2>2, <3>2 DEF Current
    <3> QED
      BY <2>2, <3>1, <3>2 DEF Typed
  <2> QED
    BY <2>1, <2>2 DEF AbsentEnds
<1>7. Reading'
  BY DEF Reading, Opened
<1> QED
  BY <1>2, <1>3, <1>4, <1>5, <1>6, <1>7

LEMMA FailureTyped == Failure \in Results
<1>1. <<>> \in Seq(Tokens)
  OBVIOUS
<1> QED
  BY <1>1 DEF Failure, Results

LEMMA ClientInv == ASSUME IndInv, ClientStep PROVE IndInv'
<1> USE DEF IndInv
<1>r. UNCHANGED xdrServerVars /\ ClientNext
  BY DEF ClientStep
<1>t. <<>> \in Seq(Tokens) /\ s2c \in Seq(Tokens) /\ c2s \in Seq(Commands)
      /\ (c2s = <<>> \/ Len(c2s) = 1)
  BY DEF Typed, OneRequest
<1>1. ASSUME NEW f \in Files, Get(f) PROVE IndInv'
  <2> DEFINE get == <<"GET", f>>
  <2>1. /\ yPc = "keyboard" /\ yPc' = "response" /\ Len(asked) < MaxGets
        /\ asked' = Append(asked, f) /\ UNCHANGED <<s2c, cEnd, sEnd, results>>
        /\ c2s' = IF sEnd = "open" THEN Append(c2s, get) ELSE c2s
    BY <1>1 DEF Get, SendMessage
  <2>2. get \in Commands
    BY CommandKinds
  <2>3. /\ s2c = <<>> /\ xPc \in {"message", "leave"} \cup Gone
        /\ c2s # <<>> => xPc \in Gone
        /\ sEnd = IF xPc \in Gone THEN "closed" ELSE "open"
    BY <2>1 DEF OneRequest, SocketsFollow
  <2>4. /\ asked' \in Seq(Files) /\ Len(asked') = Len(asked) + 1 /\ Len(asked) \in Nat
        /\ asked'[Len(asked')] = f
        /\ \A i \in 1 .. Len(asked) : asked'[i] = asked[i]
    BY <2>1 DEF Typed
  <2> HIDE DEF get
  <2>5. c2s' = c2s \/ c2s' = <<get>>
    <3>1. sEnd = "open" => c2s = <<>>
      BY <2>3
    <3>2. Append(<<>>, get) = <<get>>
      OBVIOUS
    <3> QED
      BY <2>1, <3>1, <3>2
  <2>6. c2s' \in Seq(Commands) /\ (c2s' = <<>> \/ Len(c2s') = 1)
    <3>1. <<get>> \in Seq(Commands) /\ Len(<<get>>) = 1
      BY <2>2
    <3> QED
      BY <1>t, <2>5, <3>1
  <2>7. Typed'
    BY <1>r, <2>1, <2>4, <2>6, SMTT(20) DEF Typed, ServerTypeOK, xdrServerVars
  <2>8. SocketsFollow' /\ OthersGrow'
    BY <1>r, <2>1 DEF xdrServerVars, SocketsFollow, OthersGrow
  <2>9. InTurn'
    <3>1. Len(asked) = Len(results)
      BY <2>1 DEF InTurn
    <3>2. Len(asked') = Len(results') + 1 /\ Len(results') <= Len(asked')
      BY <2>1, <2>4, <3>1
    <3> QED
      BY <2>1, <3>2 DEF InTurn
  <2>10. OneRequest'
    <3>1. xPc = "message" => c2s = <<>> /\ sEnd = "open"
      BY <2>3 DEF Gone
    <3>2. xPc' = "message" => c2s' = <<<<"GET", Current'>>>>
      BY <1>r, <2>1, <2>4, <3>1 DEF xdrServerVars, Current, get
    <3> QED
      BY <1>r, <2>1, <2>3, <2>6, <3>2 DEF xdrServerVars, OneRequest
  <2>11. Serving' /\ Answering'
    BY <1>r, <2>1, <2>3 DEF xdrServerVars, Serving, Answering, Gone
  <2>12. AbsentEnds'
    <3>1. ASSUME xPc \in {"leave", "ended"}
          PROVE  \E i \in 1 .. Len(asked') : Kind[asked'[i]] = "absent"
      <4>1. PICK i \in 1 .. Len(asked) : Kind[asked[i]] = "absent"
        BY <2>1, <3>1 DEF AbsentEnds
      <4>2. i \in 1 .. Len(asked') /\ asked'[i] = asked[i]
        BY <2>4
      <4> QED
        BY <4>1, <4>2
    <3>2. ASSUME NEW i \in 1 .. Len(asked'), Kind[asked'[i]] = "absent", i < Len(asked')
          PROVE  xPc \in {"leave"} \cup Gone
      <4>1. i \in 1 .. Len(asked) /\ asked'[i] = asked[i]
        BY <2>4, <3>2
      <4> QED
        BY <2>1, <3>2, <4>1 DEF AbsentEnds
    <3> QED
      BY <1>r, <2>1, <2>3, <3>1, <3>2 DEF xdrServerVars, AbsentEnds
  <2>13. Reading'
    BY <1>r DEF xdrServerVars, Reading, Opened
  <2> QED
    BY <2>7, <2>8, <2>9, <2>10, <2>11, <2>12, <2>13
<1>2. CASE Quit
  <2> DEFINE quit == <<"QUIT">>
  <2>1. /\ yPc = "keyboard" /\ yPc' = "ended" /\ cEnd' = "closed"
        /\ c2s' = IF sEnd = "open" THEN Append(c2s, quit) ELSE c2s
        /\ UNCHANGED <<s2c, sEnd, asked, results>>
    BY <1>2 DEF Quit, SendMessage
  <2>2. quit \in Commands
    BY CommandKinds
  <2> HIDE DEF quit
  <2>3. c2s' = c2s \/ c2s' = <<quit>>
    <3>1. sEnd = "open" => c2s = <<>>
      BY <2>1 DEF OneRequest, SocketsFollow
    <3>2. Append(<<>>, quit) = <<quit>>
      OBVIOUS
    <3> QED
      BY <2>1, <3>1, <3>2
  <2>4. c2s' \in Seq(Commands) /\ (c2s' = <<>> \/ Len(c2s') = 1)
    <3>1. <<quit>> \in Seq(Commands) /\ Len(<<quit>>) = 1
      BY <2>2
    <3> QED
      BY <1>t, <2>3, <3>1
  <2>5. s2c' \in Seq(Tokens)
    BY <1>t, <2>1
  <2> QED
    BY <1>r, <2>1, <2>4, <2>5, LeaveInv
<1>3. CASE ReceiveNoCopy \/ ClientDies
  <2>1. /\ yPc' = "ended" /\ cEnd' = "closed" /\ UNCHANGED <<c2s, sEnd, asked, results>>
        /\ s2c' = <<>> \/ s2c' = s2c
    BY <1>3 DEF ReceiveNoCopy, ClientDies
  <2>2. s2c' \in Seq(Tokens) /\ c2s' \in Seq(Commands) /\ (c2s' = <<>> \/ Len(c2s') = 1)
    BY <1>t, <2>1
  <2> QED
    BY <1>r, <2>1, <2>2, LeaveInv
<1>4. CASE ReceiveFile
  <2>1. /\ yPc = "response" /\ yPc' = "keyboard" /\ Complete /\ Head(s2c) = Ok /\ s2c' = <<>>
        /\ results' = Append(results, Download(SubSeq(s2c, 3, 2 + s2c[2][2])))
        /\ UNCHANGED <<c2s, cEnd, sEnd, asked>>
    BY <1>4 DEF ReceiveFile
  <2>2. /\ xFile = Current /\ c2s = <<>> /\ xPc \in {"message", "killed"}
        /\ Kind[xFile] = "regular"
        /\ Download(SubSeq(s2c, 3, 2 + s2c[2][2])) \in Results
    BY <2>1, FileIsCopy
  <2> QED
    BY <1>r, <2>1, <2>2, ResultInv DEF Gone
<1>5. CASE ReceiveErr
  <2>1. /\ yPc = "response" /\ yPc' = "keyboard" /\ Complete /\ Head(s2c) = Err /\ s2c' = <<>>
        /\ results' = Append(results, Failure)
        /\ UNCHANGED <<c2s, cEnd, sEnd, asked>>
    BY <1>5 DEF ReceiveErr
  <2>2. xFile = Current /\ c2s = <<>> /\ AnswersErr
    BY <2>1, TokenKinds, ErrIsRefusal
  <2>3. /\ xPc \in {"message", "leave"} \cup Gone
        /\ Kind[Current] = "absent" => xPc \in {"leave"} \cup Gone
    BY <2>2 DEF AnswersErr
  <2> QED
    BY <1>r, <2>1, <2>2, <2>3, FailureTyped, ResultInv
<1>6. CASE ReceiveFails
  <2>1. /\ yPc = "response" /\ yPc' = "keyboard" /\ sEnd = "closed" /\ s2c' = <<>>
        /\ results' = Append(results, Failure)
        /\ UNCHANGED <<c2s, cEnd, sEnd, asked>>
    BY <1>6 DEF ReceiveFails
  <2>2. xPc \in Gone
    BY <2>1 DEF SocketsFollow
  <2> QED
    BY <1>r, <2>1, <2>2, FailureTyped, ResultInv
<1> QED
  BY <1>r, <1>1, <1>2, <1>3, <1>4, <1>5, <1>6 DEF ClientNext, Receive

LEMMA StutterInv == ASSUME IndInv, UNCHANGED vars PROVE IndInv'
<1> USE DEF IndInv, vars, channelVars, xdrServerVars, xdrClientVars
<1>1. Typed'
  BY DEF Typed, ServerTypeOK
<1>2. SocketsFollow' /\ InTurn' /\ OneRequest' /\ OthersGrow'
  BY DEF SocketsFollow, InTurn, OneRequest, OthersGrow, Current
<1>3. Serving' /\ Answering' /\ AbsentEnds'
  BY DEF Serving, Answering, AnswersErr, AnswersFile, AnswerIs, Opened, AbsentEnds, Current
<1>4. Reading'
  BY DEF Reading, Opened
<1> QED
  BY <1>1, <1>2, <1>3, <1>4

LEMMA Invariance == Spec => []IndInv
<1>1. IndInv /\ [Next]_vars => IndInv'
  BY ServerInv, ClientInv, StutterInv DEF Next, Terminated
<1> QED
  BY InitInv, <1>1, PTL DEF Spec

-----------------------------------------------------------------------------
\* Types: the server's buffer never holds more than was announced (server.c:143-150),
\* no more requests are made than answers are kept for.
THEOREM TypeCorrect == Spec => []TypeOK
<1>1. ASSUME IndInv PROVE TypeOK
  <2>1. ServerTypeOK
    BY <1>1 DEF IndInv, Typed
  <2>2. ClientTypeOK
    BY <1>1 DEF IndInv, Typed, InTurn, ClientTypeOK
  <2>3. \A i \in DOMAIN c2s : c2s[i] \in Commands
    BY <1>1 DEF IndInv, Typed
  <2>4. cEnd \in {"open", "closed"} /\ sEnd \in {"open", "closed"}
    BY <1>1 DEF IndInv, SocketsFollow
  <2> QED
    BY <2>1, <2>2, <2>3, <2>4 DEF TypeOK
<1> QED
  BY Invariance, <1>1, PTL

\* No message comes behind the one that is being read, though each side makes a
\* new stream for every message and a stream reads ahead (server.c:102, client.c:112).
THEOREM NothingIsReadAhead == Spec => []NothingReadAhead
<1>1. ASSUME IndInv PROVE NothingReadAhead
  <2>1. Len(c2s) <= 1
    <3>1. c2s = <<>> \/ Len(c2s) = 1
      BY <1>1 DEF IndInv, OneRequest
    <3>2. c2s = <<>> => Len(c2s) = 0
      OBVIOUS
    <3> QED
      BY <3>1, <3>2
  <2>2. s2c # <<>> => yPc # "keyboard"
    BY <1>1 DEF IndInv, OneRequest
  <2>3. ASSUME Complete, yPc # "ended"
        PROVE  Len(s2c) = IF Head(s2c) = Ok THEN 2 + s2c[2][2] ELSE 1
    <3>1. CASE Head(s2c) = Ok
      BY <1>1, <2>3, <3>1, FileIsCopy
    <3>2. CASE Head(s2c) # Ok
      <4>1. s2c = <<Err>>
        BY <1>1, <2>3, <3>2, ErrIsRefusal DEF AnswersErr
      <4>2. Len(s2c) = 1
        BY <4>1
      <4> QED
        BY <3>2, <4>2
    <3> QED
      BY <3>1, <3>2
  <2> QED
    BY <2>1, <2>2, <2>3 DEF NothingReadAhead
<1> QED
  BY Invariance, <1>1, PTL

-----------------------------------------------------------------------------
(* The refinement: every step is one of FileDelivery's, or changes nothing *)
(* that it speaks of.                                                      *)

LEMMA DeliveryInit == Init => Delivery!Init
BY Zenon DEF Init, ServerInit, ClientInit, Delivery!Init

LEMMA ServerRefines == ASSUME ServerStep PROVE [Delivery!Next]_Delivery!vars
<1>1. UNCHANGED <<yPc, asked, results>> /\ ServerNext
  BY DEF ServerStep, xdrClientVars
<1>2. CASE ServerDies
  BY <1>1, <1>2 DEF ServerDies, Delivery!Next, Delivery!GoDown
<1>3. CASE ~ServerDies
  <2>1. (xPc' = "killed") <=> (xPc = "killed")
    BY <1>1, <1>3
    DEF ServerNext, ServerRuns, ReadGet, ReadQuit, ReadFails, OpenOk, OpenLocked,
        OpenAbsent, Leave, ReadByte, ReadDone, Flush, FlushFails, Resize, Exit
  <2> QED
    BY <1>1, <2>1 DEF Delivery!vars
<1> QED
  BY <1>2, <1>3

LEMMA ClientRefines == ASSUME IndInv, ClientStep PROVE Delivery!Next
<1>1. UNCHANGED xPc /\ ClientNext
  BY DEF ClientStep, xdrServerVars
<1>2. ASSUME NEW f \in Files, Get(f) PROVE Delivery!Next
  BY <1>1, <1>2 DEF Get, Delivery!Next, Delivery!Ask
<1>3. CASE Quit \/ ReceiveNoCopy \/ ClientDies
  BY <1>1, <1>3 DEF Quit, ReceiveNoCopy, ClientDies, Delivery!Next, Delivery!Finish
<1>n. yPc = "response" =>
        /\ Len(results) + 1 = Len(asked) /\ Len(results) < Len(asked)
        /\ Len(asked) \in Nat /\ asked[Len(results) + 1] = Current
  BY DEF IndInv, InTurn, Typed, Current
<1>d. ASSUME NEW result \in Answer(asked, Len(results) + 1) \cup
                               (IF xPc = "killed" THEN {Failure} ELSE {}),
             yPc = "response", yPc' = "keyboard", UNCHANGED asked,
             results' = Append(results, result)
      PROVE  Delivery!Next
  BY <1>1, <1>n, <1>d DEF Delivery!Next, Delivery!Deliver
<1>4. CASE ReceiveFile
  <2>1. /\ yPc = "response" /\ yPc' = "keyboard" /\ Complete /\ Head(s2c) = Ok
        /\ results' = Append(results, Download(SubSeq(s2c, 3, 2 + s2c[2][2])))
        /\ UNCHANGED asked
    BY <1>4 DEF ReceiveFile
  <2>2. /\ xFile = Current /\ Kind[xFile] = "regular"
        /\ Download(SubSeq(s2c, 3, 2 + s2c[2][2])) \in Copies(xFile)
    BY <2>1, FileIsCopy
  <2>3. ~\E i \in 1 .. Len(results) + 1 - 1 : Kind[asked[i]] = "absent"
    <3> SUFFICES ASSUME NEW i \in 1 .. Len(results) + 1 - 1, Kind[asked[i]] = "absent"
                 PROVE  FALSE
      OBVIOUS
    <3>1. i \in 1 .. Len(asked) /\ i < Len(asked)
      BY <1>n, <2>1, SMTT(20) DEF IndInv, Typed
    <3>2. s2c = <<>>
      BY <2>1, <3>1 DEF IndInv, AbsentEnds
    <3> QED
      BY <2>1, <3>2 DEF Complete
  <2>4. Answer(asked, Len(results) + 1) = Copies(xFile)
    BY <1>n, <2>1, <2>2, <2>3 DEF Answer
  <2> QED
    BY <1>d, <2>1, <2>2, <2>4
<1>5. CASE ReceiveErr
  <2>1. /\ yPc = "response" /\ yPc' = "keyboard" /\ Complete /\ Head(s2c) = Err
        /\ results' = Append(results, Failure) /\ UNCHANGED asked
    BY <1>5 DEF ReceiveErr
  <2>2. xFile = Current /\ Kind[xFile] # "regular"
    BY <2>1, TokenKinds, ErrIsRefusal DEF AnswersErr
  <2>3. Failure \in Answer(asked, Len(results) + 1)
    BY <1>n, <2>1, <2>2 DEF Answer
  <2> QED
    BY <1>d, <2>1, <2>3
<1>6. CASE ReceiveFails
  <2>1. /\ yPc = "response" /\ yPc' = "keyboard" /\ sEnd = "closed"
        /\ results' = Append(results, Failure) /\ UNCHANGED asked
    BY <1>6 DEF ReceiveFails
  <2>2. CASE xPc = "killed"
    BY <1>d, <2>1, <2>2
  <2>3. CASE xPc # "killed"
    <3>1. xPc = "ended"
      BY <2>1, <2>3 DEF IndInv, SocketsFollow, Gone
    <3>2. PICK i \in 1 .. Len(asked) : Kind[asked[i]] = "absent"
      BY <2>1, <3>1 DEF IndInv, AbsentEnds
    <3>3. Kind[Current] # "regular" \/ i \in 1 .. Len(results) + 1 - 1
      <4>1. CASE i = Len(asked)
        BY <3>2, <4>1 DEF Current
      <4>2. CASE i # Len(asked)
        BY <1>n, <2>1, <4>2 DEF IndInv, Typed
      <4> QED
        BY <4>1, <4>2
    <3>4. Failure \in Answer(asked, Len(results) + 1)
      BY <1>n, <2>1, <3>2, <3>3 DEF Answer
    <3> QED
      BY <1>d, <2>1, <3>4
  <2> QED
    BY <2>2, <2>3
<1> QED
  BY <1>1, <1>2, <1>3, <1>4, <1>5, <1>6 DEF ClientNext, Receive

LEMMA StutterRefines == ASSUME UNCHANGED vars PROVE UNCHANGED Delivery!vars
BY DEF vars, xdrServerVars, xdrClientVars, Delivery!vars

\* A session implements FileDelivery: every request is answered once and in its
\* turn, by an error or by all the bytes that the file had, and neither the end of
\* the service nor the child's death in mid-response leaves part of a file behind
\* (client.c:133).
THEOREM SessionDelivers == Spec => InOrderDelivery
<1>1. IndInv /\ [Next]_vars => [Delivery!Next]_Delivery!vars
  BY ServerRefines, ClientRefines, StutterRefines DEF Next, Terminated
<1> QED
  BY DeliveryInit, Invariance, <1>1, PTL DEF Spec, InOrderDelivery, Delivery!Spec
=============================================================================
