-------------------------- MODULE FtpSenderProofs --------------------------
(***************************************************************************)
(* Lemmas about FtpSender and its channel that the proofs about the        *)
(* sessions share: its tokens, its blocks, and the types it keeps on its   *)
(* own, whatever client is at the other end.                               *)
(***************************************************************************)
EXTENDS FtpSender, SequenceTheorems, TLAPS

USE FilesAssumption, ChunkAssumption, ServerMayDieAssumption

Sizes == {Size(n) : n \in Nat}
Bytes == {Byte(f, i) : f \in Files, i \in Nat}
Tokens == {Ok, Err} \cup Sizes \cup Bytes

\* The kinds of tokens cannot be taken for each other.
LEMMA TokenKinds ==
  /\ Ok # Err
  /\ \A n \in Nat : Size(n) # Ok /\ Size(n) # Err /\ Size(n)[1] = "size" /\ Size(n)[2] = n
  /\ \A f \in Files, i \in Nat :
        /\ Byte(f, i) # Ok /\ Byte(f, i) # Err
        /\ \A n \in Nat : Byte(f, i) # Size(n)
<1>1. Ok[1] = "OK" /\ Err[1] = "ERR"
  BY DEF Ok, Err
<1>2. \A n \in Nat : Size(n)[1] = "size" /\ Size(n)[2] = n
  BY DEF Size
<1>3. \A f \in Files, i \in Nat : Byte(f, i)[1] = "byte"
  BY DEF Byte
<1> QED
  BY <1>1, <1>2, <1>3

\* A command is a request for a file or QUIT, and can be told by its first word.
LEMMA CommandKinds ==
  /\ \A f \in Files : <<"GET", f>> \in Commands
  /\ <<"QUIT">> \in Commands
  /\ \A c \in Commands : c[1] = "GET" => c[2] \in Files /\ c = <<"GET", c[2]>>
BY DEF Commands

LEMMA AvailableType ==
  ASSUME ServerTypeOK
  PROVE  /\ Available \in Nat
         /\ Available > 0 => sPos + Available = size[sFile] /\ size[sFile] \in 0 .. MaxSize
BY DEF ServerTypeOK, Available

\* A block is as long as CHUNK, what was announced and what is there allow.
LEMMA ChunkLengthIsMin ==
  ASSUME ServerTypeOK
  PROVE  /\ ChunkLength \in Nat
         /\ ChunkLength <= Chunk /\ ChunkLength <= sLeft /\ ChunkLength <= Available
         /\ ChunkLength \in {Chunk, sLeft, Available}
<1>1. Chunk \in Int /\ sLeft \in Nat /\ Available \in Nat
  BY AvailableType DEF ServerTypeOK
<1>2. \E n \in {Chunk, sLeft, Available} : \A k \in {Chunk, sLeft, Available} : n <= k
  BY <1>1
<1>3. /\ ChunkLength \in {Chunk, sLeft, Available}
      /\ \A k \in {Chunk, sLeft, Available} : ChunkLength <= k
  BY <1>2 DEF ChunkLength
<1> QED
  BY <1>1, <1>3

\* The tokens of a block.
LEMMA BlockTokens ==
  ASSUME ServerTypeOK,
         NEW block, block = [i \in 1 .. ChunkLength |-> Byte(sFile, sPos + i)]
  PROVE  /\ block \in Seq(Tokens)
         /\ Len(block) = ChunkLength
         /\ \A i \in 1 .. ChunkLength : block[i] = Byte(sFile, sPos + i)
<1>1. ChunkLength \in Nat
  BY ChunkLengthIsMin
<1>2. \A i \in 1 .. ChunkLength : Byte(sFile, sPos + i) \in Tokens
  <2> SUFFICES ASSUME NEW i \in 1 .. ChunkLength PROVE Byte(sFile, sPos + i) \in Tokens
    OBVIOUS
  <2>1. sFile \in Files /\ sPos + i \in Nat
    BY <1>1 DEF ServerTypeOK
  <2> QED
    BY <2>1 DEF Tokens, Bytes
<1> QED
  BY <1>1, <1>2

\* What the server's types need of the commands that come in.
CommandsTyped == c2s \in Seq(Commands)

LEMMA ServerTypeInit == ServerInit => ServerTypeOK
<1> SUFFICES ASSUME ServerInit PROVE ServerTypeOK
  OBVIOUS
<1>1. \E f \in Files : TRUE
  OBVIOUS
<1>2. sFile \in Files
  BY <1>1, Zenon DEF ServerInit
<1>3. size = FileSize /\ sPc = "command" /\ sLeft = 0 /\ sPos = 0
  BY Zenon DEF ServerInit
<1>4. sigpipe \in BOOLEAN
  BY Zenon DEF ServerInit
<1> QED
  BY <1>2, <1>3, <1>4 DEF ServerTypeOK

LEMMA ServerTypeStep ==
  ASSUME ServerTypeOK, CommandsTyped, ServerNext
  PROVE  ServerTypeOK' /\ CommandsTyped'
<1>1. CommandsTyped'
  <2>1. UNCHANGED c2s \/ (c2s # <<>> /\ c2s' = Tail(c2s))
    BY DEF ServerNext, ServerRuns, ReadGet, ReadOther, ReadEof, OpenOk, OpenLocked,
           OpenAbsent, SendHeader, SendChunk, SendDone, ServerDies, Resize, channelVars
  <2> QED
    BY <2>1 DEF CommandsTyped
<1>s. ASSUME NEW tokens, Send(tokens) PROVE sigpipe' \in BOOLEAN
  BY <1>s DEF Send, ServerTypeOK
<1>2. CASE ReadGet
  <2>1. Head(c2s) \in Commands /\ Head(c2s)[1] = "GET"
    BY <1>2 DEF ReadGet, CommandsTyped
  <2> QED
    BY <1>1, <1>2, <2>1, CommandKinds DEF ReadGet, ServerTypeOK
<1>3. CASE ReadOther \/ OpenAbsent \/ SendHeader
  BY <1>1, <1>3, <1>s DEF ReadOther, OpenAbsent, SendHeader, ServerTypeOK
<1>4. CASE ReadEof \/ OpenLocked \/ SendDone \/ ServerDies
  BY <1>1, <1>4 DEF ReadEof, OpenLocked, SendDone, ServerDies, ServerTypeOK
<1>5. CASE OpenOk
  BY <1>1, <1>5, <1>s DEF OpenOk, ServerTypeOK
<1>6. CASE SendChunk
  <2>1. sigpipe' \in BOOLEAN
    BY <1>6, <1>s DEF SendChunk
  <2>2. sLeft - ChunkLength \in 0 .. MaxSize /\ sPos + ChunkLength \in 0 .. MaxSize
    <3>1. /\ ChunkLength \in Nat /\ ChunkLength > 0
          /\ ChunkLength <= sLeft /\ ChunkLength <= Available
      BY <1>6, ChunkLengthIsMin DEF SendChunk
    <3>2. sPos + ChunkLength <= size[sFile] /\ size[sFile] \in 0 .. MaxSize
      BY <3>1, AvailableType DEF ServerTypeOK
    <3> QED
      BY <3>1, <3>2 DEF ServerTypeOK
  <2> QED
    BY <1>1, <1>6, <2>1, <2>2 DEF SendChunk, ServerTypeOK
<1>7. ASSUME NEW f \in Files, Resize(f) PROVE ServerTypeOK'
  BY <1>7 DEF Resize, ServerTypeOK
<1> QED
  BY <1>1, <1>2, <1>3, <1>4, <1>5, <1>6, <1>7 DEF ServerNext, ServerRuns
=============================================================================
