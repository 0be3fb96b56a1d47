-------------------------- MODULE SumSessionProofs --------------------------
(***************************************************************************)
(* Proofs about SumSession, for any number of clients and of sums, and     *)
(* every width of the operands.                                            *)
(***************************************************************************)
EXTENDS SumSession, SequenceTheorems, TLAPS

USE WidthAssumption

Operands == {Operand(n) : n \in 0 .. Width - 1}
RequestTokens == Operands \cup {Newline}
Answers == {Sum(n) : n \in Nat} \cup {Overflow, WrongOperands}
AnswerTokens == {<<a, h>> : a \in Answers, h \in {1, 2}} \cup {Newline}
Pairs == (0 .. Width - 1) \X (0 .. Width - 1)

WireTyped ==
    /\ queue \in Seq(Clients)
    /\ req \in [Clients -> Seq(RequestTokens)]
    /\ ans \in [Clients -> Seq(AnswerTokens)]
    /\ gone \subseteq Clients

ServerTyped ==
    /\ sPc \in {"accept", "line", "send", "exited"}
    /\ conn \in Clients
    /\ line \in Seq(Operands)
    /\ out \in Seq(AnswerTokens)
    /\ sPc = "send" <=> out # <<>>
    /\ sPc # "line" => line = <<>>

ClientsTyped ==
    /\ cPc \in [Clients -> {"away", "typing", "reading", "ended"}]
    /\ readBuf \in [Clients -> Seq(AnswerTokens)]
    /\ got \in [Clients -> Seq(AnswerTokens)]
    /\ asked \in [Clients -> Seq(Pairs)]
    /\ sums \in [Clients -> Seq(Seq(AnswerTokens))]

Running == sPc # "exited"

\* The server's end, and each client's, are open as long as the program runs.
EndsFollow ==
    /\ up <=> Running
    /\ \A c \in Clients : c \in gone <=> cPc[c] = "ended"

\* The last request of a client, and the reply to it.
LastAsked(c) == asked[c][Len(asked[c])]
Request(c) == <<Operand(LastAsked(c)[1]), Operand(LastAsked(c)[2]), Newline>>
Reply(c) == Append(Text(Right(LastAsked(c))), Newline)

Served(c) == conn = c /\ sPc \in {"line", "send"}

\* Nothing of an answer is anywhere on the client's side.
Silent(c) == got[c] = <<>> /\ readBuf[c] = <<>> /\ ans[c] = <<>>
Came(c) == Len(got[c]) + Len(readBuf[c]) + Len(ans[c])

\* A client that has asked for nothing, or has its answer.
Idle(c) ==
    /\ cPc[c] \in {"away", "typing"}
    /\ Len(asked[c]) = Len(sums[c])
    /\ Silent(c)
    /\ Running => req[c] = <<>>
    /\ Served(c) => sPc = "line" /\ line = <<>>

\* The request is on the wire but for the part that the server has read.
RequestLeft(c, n) ==
    /\ n <= 2
    /\ Len(req[c]) = 3 - n
    /\ \A i \in 1 .. Len(req[c]) : req[c][i] = Request(c)[n + i]

Waiting(c) ==
    /\ cPc[c] = "reading"
    /\ Len(asked[c]) = Len(sums[c]) + 1
    /\ Silent(c)
    /\ Running
    /\ ~Served(c) => RequestLeft(c, 0)
    /\ Served(c) =>
        /\ sPc = "line"
        /\ RequestLeft(c, Len(line))
        /\ \A i \in 1 .. Len(line) : line[i] = Request(c)[i]

\* The reply is in the line read so far, the client's buffer, the wire and what
\* the server has still to send; a server that is gone has sent its beginning.
Replied(c) ==
    /\ cPc[c] = "reading"
    /\ Len(asked[c]) = Len(sums[c]) + 1
    /\ Running => Served(c) /\ req[c] = <<>> /\ line = <<>> /\ Came(c) + Len(out) = 3
    /\ Len(got[c]) <= 2
    /\ Came(c) <= 3
    /\ \A i \in 1 .. Len(got[c]) : got[c][i] = Reply(c)[i]
    /\ \A i \in 1 .. Len(readBuf[c]) : readBuf[c][i] = Reply(c)[Len(got[c]) + i]
    /\ \A i \in 1 .. Len(ans[c]) : ans[c][i] = Reply(c)[Len(got[c]) + Len(readBuf[c]) + i]
    /\ Running => \A i \in 1 .. Len(out) : out[i] = Reply(c)[Came(c) + i]

Ended(c) == cPc[c] = "ended" /\ got[c] = <<>> /\ readBuf[c] = <<>>

Exchange(c) == Idle(c) \/ Waiting(c) \/ Replied(c) \/ Ended(c)

\* What has been printed is right; a reply that was cut off was the last.
Printed(c) ==
    /\ Len(asked[c]) <= MaxSums
    /\ Len(sums[c]) <= Len(asked[c])
    /\ \A i \in 1 .. Len(sums[c]) :
          LET whole == Text(Right(asked[c][i])) IN
          \/ sums[c][i] = whole
          \/ /\ sums[c][i] = <<whole[1]>>
             /\ ~Running /\ i = Len(sums[c])
             /\ cPc[c] # "ended" => Silent(c)

\* What the proofs carry from step to step.
IndInv ==
    /\ WireTyped /\ ServerTyped /\ ClientsTyped
    /\ EndsFollow
    /\ \A c \in Clients : Exchange(c) /\ Printed(c)

-----------------------------------------------------------------------------
(* Positions: facts about numbers, stated away from the sequences they count. *)

LEMMA Total ==
  ASSUME NEW S, NEW x \in Seq(S), NEW y \in Seq(S), NEW z \in Seq(S)
  PROVE  Len(x) + Len(y) + Len(z) \in Nat
OBVIOUS

LEMMA Third ==
  ASSUME NEW k \in Nat, k <= 2
  PROVE  /\ k + 1 # 1 /\ k + 1 # 2 => k = 2
         /\ k + 1 # 3 => k \in {0, 1}
         /\ k = 0 \/ k = 1 \/ k = 2
OBVIOUS

LEMMA OneLess ==
  ASSUME NEW k \in Nat, NEW l \in Nat
  PROVE  (k = l => l = k - 0) /\ (k = l + 1 => l = k - 1)
OBVIOUS

\* n words move from the output (o of them) to the wire (w of them).
LEMMA Moves ==
  ASSUME NEW g \in Nat, NEW b \in Nat, NEW w \in Nat, NEW o \in Nat, NEW n \in Nat,
         n <= o, g + b + w + o = 3
  PROVE  /\ g + b + (w + n) = g + b + w + n
         /\ g + b + (w + n) + (o - n) = 3 /\ g + b + (w + n) <= 3
         /\ \A i \in 1 .. w + n : ~(i <= w) =>
               /\ i - w \in 1 .. n /\ i - w \in 1 .. o
               /\ g + b + w + (i - w) = g + b + i
         /\ \A i \in 1 .. o - n :
               n + i \in 1 .. o /\ g + b + w + (n + i) = g + b + (w + n) + i
OBVIOUS

\* n words move from the wire (w of them) to the client's empty buffer.
LEMMA Fills ==
  ASSUME NEW g \in Nat, NEW w \in Nat, NEW n \in Nat, n <= w
  PROVE  /\ g + n + (w - n) = g + 0 + w
         /\ \A i \in 1 .. n : i \in 1 .. w /\ g + 0 + i = g + i
         /\ \A i \in 1 .. w - n : n + i \in 1 .. w /\ g + 0 + (n + i) = g + n + i
OBVIOUS

\* A word moves from the buffer to the line.
LEMMA Takes ==
  ASSUME NEW g \in Nat, NEW b \in Nat, NEW w \in Nat, b > 0
  PROVE  /\ 1 \in 1 .. b /\ g + 1 + (b - 1) + w = g + b + w
         /\ \A i \in 1 .. g + 1 : i \in 1 .. g \/ (~(i <= g) /\ i = g + 1)
         /\ \A i \in 1 .. b - 1 : i + 1 \in 1 .. b /\ g + (i + 1) = g + 1 + i
         /\ \A i \in 1 .. w : g + b + i = g + 1 + (b - 1) + i
         /\ g = 2 /\ g + b + w <= 3 => b = 1 /\ w = 0
OBVIOUS

-----------------------------------------------------------------------------
(* The words of a request and of a reply.                                  *)

\* Two parts of a sequence.
LEMMA Parts ==
  ASSUME NEW S, NEW s \in Seq(S), NEW n \in 1 .. Len(s)
  PROVE  /\ SubSeq(s, 1, n) \in Seq(S) /\ Len(SubSeq(s, 1, n)) = n
         /\ \A i \in 1 .. n : SubSeq(s, 1, n)[i] = s[i]
         /\ SubSeq(s, n + 1, Len(s)) \in Seq(S)
         /\ Len(SubSeq(s, n + 1, Len(s))) = Len(s) - n
         /\ \A i \in 1 .. Len(s) - n : SubSeq(s, n + 1, Len(s))[i] = s[n + i]
<1>1. Len(s) \in Nat /\ n \in Nat
  OBVIOUS
<1>2. /\ SubSeq(s, 1, n) \in Seq(S) /\ Len(SubSeq(s, 1, n)) = n
      /\ \A i \in 1 .. n : SubSeq(s, 1, n)[i] = s[i]
  BY <1>1
<1>3. /\ SubSeq(s, n + 1, Len(s)) \in Seq(S)
      /\ Len(SubSeq(s, n + 1, Len(s))) =
            IF n + 1 <= Len(s) THEN Len(s) - (n + 1) + 1 ELSE 0
      /\ \A i \in 1 .. Len(s) - (n + 1) + 1 :
            SubSeq(s, n + 1, Len(s))[i] = s[(n + 1) + i - 1]
  <2>1. n + 1 \in Int /\ Len(s) \in Int /\ \A i \in n + 1 .. Len(s) : s[i] \in S
    BY <1>1
  <2> QED
    BY <2>1, SubSeqProperties
<1> QED
  BY <1>1, <1>2, <1>3

LEMMA OneWord ==
  ASSUME NEW S, NEW s \in Seq(S), Len(s) = 1
  PROVE  s = <<s[1]>>
<1> DEFINE h == s[1]
<1>1. h \in S
  OBVIOUS
<1>2. <<h>> \in Seq(S) /\ Len(<<h>>) = 1 /\ \A i \in 1 .. 1 : s[i] = <<h>>[i]
  BY <1>1
<1> HIDE DEF h
<1>3. s = <<h>>
  BY <1>2, SeqEqual
<1> QED
  BY <1>3 DEF h

LEMMA FirstWord ==
  ASSUME NEW S, NEW s \in Seq(S), Len(s) = 2
  PROVE  SubSeq(s, 1, 1) = <<s[1]>>
<1> DEFINE p == SubSeq(s, 1, 1)
<1>1. p \in Seq(S) /\ Len(p) = 1 /\ p[1] = s[1]
  BY Parts, SMTT(20)
<1> HIDE DEF p
<1>2. p = <<p[1]>>
  BY <1>1, OneWord
<1> QED
  BY <1>1, <1>2 DEF p

LEMMA RequestWords ==
  /\ \A n \in 0 .. Width - 1 :
        Operand(n) \in RequestTokens /\ Operand(n) # Newline /\ Operand(n)[2] = n
  /\ \A l \in Operands : l[2] \in 0 .. Width - 1 /\ l = Operand(l[2])
  /\ Newline \in RequestTokens
<1>1. \A n \in 0 .. Width - 1 : Operand(n) # Newline /\ Operand(n)[2] = n
  BY DEF Operand, Newline
<1>2. \A n \in 0 .. Width - 1 : Operand(n) \in RequestTokens
  BY DEF RequestTokens, Operands
<1>3. Newline \in RequestTokens
  BY DEF RequestTokens
<1>4. \A l \in Operands : \E n \in 0 .. Width - 1 : l = Operand(n)
  BY DEF Operands
<1> QED
  BY <1>1, <1>2, <1>3, <1>4

\* A line of three words: what a reply is.
LEMMA ReplyWords ==
  ASSUME NEW a \in Answers, NEW reply, reply = Append(Text(a), Newline)
  PROVE  /\ reply \in Seq(AnswerTokens) /\ Len(reply) = 3 /\ reply # <<>>
         /\ reply[1] = <<a, 1>> /\ reply[2] = <<a, 2>> /\ reply[3] = Newline
         /\ reply[1] # Newline /\ reply[2] # Newline
         /\ Text(a) \in Seq(AnswerTokens) /\ Len(Text(a)) = 2
         /\ Text(a)[1] = <<a, 1>> /\ Text(a)[2] = <<a, 2>>
<1>1. <<a, 1>> \in AnswerTokens /\ <<a, 2>> \in AnswerTokens /\ Newline \in AnswerTokens
  BY DEF AnswerTokens
<1>2. <<a, 1>> # Newline /\ <<a, 2>> # Newline
  BY DEF Newline
<1> DEFINE h1 == <<a, 1>>  h2 == <<a, 2>>
<1>3. Text(a) = <<h1, h2>>
  BY DEF Text
<1>4. h1 \in AnswerTokens /\ h2 \in AnswerTokens /\ h1 # Newline /\ h2 # Newline
  BY <1>1, <1>2
<1>5. h1 = <<a, 1>> /\ h2 = <<a, 2>>
  OBVIOUS
<1> HIDE DEF h1, h2
<1> DEFINE t == Text(a)
<1>6. t \in Seq(AnswerTokens) /\ Len(t) = 2 /\ t[1] = h1 /\ t[2] = h2
  BY <1>3, <1>4
<1>7. reply = Append(t, Newline)
  OBVIOUS
<1>8. t = Text(a)
  OBVIOUS
<1> HIDE DEF t
<1>9. /\ reply \in Seq(AnswerTokens) /\ Len(reply) = 3
      /\ reply[1] = h1 /\ reply[2] = h2 /\ reply[3] = Newline
      /\ reply # <<>>
  <2>1. Newline \in AnswerTokens /\ t \in Seq(AnswerTokens) /\ reply = Append(t, Newline)
    BY <1>1, <1>6, <1>7
  <2>2. /\ reply \in Seq(AnswerTokens) /\ Len(reply) = Len(t) + 1 /\ reply # <<>>
        /\ \A i \in 1 .. Len(t) : reply[i] = t[i]
        /\ reply[Len(t) + 1] = Newline
    BY <2>1, AppendProperties
  <2>3. 1 \in 1 .. Len(t) /\ 2 \in 1 .. Len(t) /\ Len(t) + 1 = 3
    BY <1>6
  <2> QED
    BY <1>6, <2>2, <2>3
<1> QED
  BY <1>4, <1>5, <1>6, <1>8, <1>9

LEMMA RightTyped ==
  ASSUME NEW ops \in Pairs PROVE Right(ops) \in Answers
<1>1. ops[1] \in Nat /\ ops[2] \in Nat
  BY DEF Pairs
<1>2. ops[1] + ops[2] \in Nat
  BY <1>1
<1> QED
  BY <1>2 DEF Right, Answers

LEMMA AnswerTyped ==
  ASSUME NEW l \in Seq(Operands) PROVE Answer(l) \in Answers
<1>1. CASE Len(l) < 2
  BY <1>1 DEF Answer, Answers
<1>2. CASE ~(Len(l) < 2)
  <2>1. l[1] \in Operands /\ l[2] \in Operands
    BY <1>2
  <2>2. l[1][2] + l[2][2] \in Nat
    BY <2>1, RequestWords
  <2> QED
    BY <1>2, <2>2 DEF Answer, Answers
<1> QED
  BY <1>1, <1>2

\* The server's sum is the right one, though the operands are cut before they
\* are added up.
LEMMA AnswerRight ==
  ASSUME NEW l \in Seq(Operands), NEW ops \in Pairs, Len(l) = 2,
         l[1] = Operand(ops[1]), l[2] = Operand(ops[2])
  PROVE  Answer(l) = Right(ops)
<1>1. ops[1] \in 0 .. Width - 1 /\ ops[2] \in 0 .. Width - 1
  BY DEF Pairs
<1>2. l[1][2] = ops[1] /\ l[2][2] = ops[2]
  BY <1>1, RequestWords
<1>3. l[1][2] + l[2][2] > Width - 1 <=> ~(ops[1] + ops[2] < Width)
  BY <1>1, <1>2
<1> QED
  BY <1>2, <1>3 DEF Answer, Right

-----------------------------------------------------------------------------
(* Types.                                                                  *)

LEMMA ServerTypes ==
  ASSUME WireTyped, ServerTyped, ServerNext
  PROVE  WireTyped' /\ ServerTyped'
<1> USE DEF WireTyped, ServerTyped
<1>1. CASE AcceptClient
  <2>1. Head(queue) \in Clients /\ Tail(queue) \in Seq(Clients)
    BY <1>1 DEF AcceptClient
  <2> QED
    BY <1>1, <2>1 DEF AcceptClient
<1>2. CASE Exit
  <2>1. sPc' = "exited" /\ line' = <<>> /\ out' = <<>>
        /\ UNCHANGED <<queue, req, ans, gone, conn>>
    BY <1>2 DEF Exit
  <2>2. <<>> \in Seq(Operands) /\ <<>> \in Seq(AnswerTokens)
    OBVIOUS
  <2> QED
    BY <2>1, <2>2
<1>r. ASSUME Respond(line), UNCHANGED req \/ req' = [req EXCEPT ![conn] = Tail(req[conn])],
             req[conn] # <<>> \/ UNCHANGED req
      PROVE  WireTyped' /\ ServerTyped'
  <2>1. /\ out' = Append(Text(Answer(line)), Newline) /\ line' = <<>> /\ sPc' = "send"
        /\ UNCHANGED <<queue, ans, gone, conn>>
    BY <1>r DEF Respond
  <2>2. out' \in Seq(AnswerTokens) /\ out' # <<>>
    BY <2>1, AnswerTyped, ReplyWords
  <2>3. out' # <<>> /\ <<>> \in Seq(Operands)
    BY <2>2
  <2>4. req' \in [Clients -> Seq(RequestTokens)]
    <3>1. CASE UNCHANGED req
      BY <3>1
    <3>2. CASE req' = [req EXCEPT ![conn] = Tail(req[conn])] /\ req[conn] # <<>>
      <4>1. Tail(req[conn]) \in Seq(RequestTokens)
        BY <3>2
      <4> QED
        BY <3>2, <4>1
    <3> QED
      BY <1>r, <3>1, <3>2
  <2> QED
    BY <2>1, <2>2, <2>3, <2>4
<1>e. ASSUME EndSession, sPc = "line" PROVE WireTyped' /\ ServerTyped'
  <2>1. <<>> \in Seq(Operands) /\ <<>> \in Seq(RequestTokens)
    OBVIOUS
  <2> QED
    BY <1>e, <2>1 DEF EndSession
<1>3. CASE ReadByte
  <2>1. /\ sPc = "line" /\ req[conn] # <<>> /\ req' = [req EXCEPT ![conn] = Tail(req[conn])]
    BY <1>3 DEF ReadByte
  <2>2. CASE Head(req[conn]) = Newline
    BY <1>3, <1>r, <2>1, <2>2 DEF ReadByte
  <2>3. CASE Head(req[conn]) # Newline
    <3>1. /\ line' = Append(line, Head(req[conn]))
          /\ UNCHANGED <<queue, ans, gone, sPc, conn, out>>
      BY <1>3, <2>3 DEF ReadByte
    <3>2. Head(req[conn]) \in Operands /\ req' \in [Clients -> Seq(RequestTokens)]
      BY <2>1, <2>3 DEF RequestTokens
    <3>3. line' \in Seq(Operands)
      BY <3>1, <3>2
    <3> QED
      BY <2>1, <3>1, <3>2, <3>3
  <2> QED
    BY <2>2, <2>3
<1>4. CASE LineEof
  BY <1>4, <1>e, <1>r DEF LineEof
<1>5. CASE LineFails
  BY <1>5, <1>e DEF LineFails
<1>6. CASE SendSome
  <2>1. PICK n \in 1 .. Len(out) :
            /\ ans' = [ans EXCEPT ![conn] = ans[conn] \o SubSeq(out, 1, n)]
            /\ out' = <<>> \/ out' = SubSeq(out, n + 1, Len(out))
    BY <1>6 DEF SendSome
  <2>2. SubSeq(out, 1, n) \in Seq(AnswerTokens) /\ out' \in Seq(AnswerTokens)
    <3>1. <<>> \in Seq(AnswerTokens)
      OBVIOUS
    <3>2. /\ SubSeq(out, 1, n) \in Seq(AnswerTokens)
          /\ SubSeq(out, n + 1, Len(out)) \in Seq(AnswerTokens)
      BY Parts
    <3> QED
      BY <2>1, <3>1, <3>2, Zenon
  <2>3. ans' \in [Clients -> Seq(AnswerTokens)]
    <3>1. ans[conn] \o SubSeq(out, 1, n) \in Seq(AnswerTokens)
      BY <2>2, ConcatProperties
    <3> QED
      BY <2>1, <3>1
  <2> QED
    BY <1>6, <2>2, <2>3 DEF SendSome
<1>7. CASE SendFails
  <2>1. <<>> \in Seq(AnswerTokens)
    OBVIOUS
  <2> QED
    BY <1>7, <2>1 DEF SendFails, wireVars
<1> QED
  BY <1>1, <1>2, <1>3, <1>4, <1>5, <1>6, <1>7 DEF ServerNext, ServerRuns

LEMMA RequestLineTyped ==
  ASSUME NEW t \in Typed
  PROVE  /\ RequestLine(t) \in Seq(RequestTokens) /\ Len(RequestLine(t)) = 3
         /\ <<t[1] % Width, t[2] % Width>> \in Pairs
         /\ \A n \in 0 .. 2 : SubSeq(RequestLine(t), 1, n) \in Seq(RequestTokens)
<1>1. t[1] \in Nat /\ t[2] \in Nat
  BY TypedAssumption
<1>2. t[1] % Width \in 0 .. Width - 1 /\ t[2] % Width \in 0 .. Width - 1
  BY <1>1
<1>3. /\ Operand(t[1] % Width) \in RequestTokens
      /\ Operand(t[2] % Width) \in RequestTokens /\ Newline \in RequestTokens
  BY <1>2, RequestWords
<1>4. RequestLine(t) \in Seq(RequestTokens) /\ Len(RequestLine(t)) = 3
  BY <1>3 DEF RequestLine
<1>5. \A n \in 0 .. 2 : SubSeq(RequestLine(t), 1, n) \in Seq(RequestTokens)
  BY <1>4
<1>6. <<t[1] % Width, t[2] % Width>> \in Pairs
  BY <1>2 DEF Pairs
<1> QED
  BY <1>4, <1>5, <1>6

\* What client c may do.
ClientActs(c) ==
    \/ Connect(c) \/ TypeInvalid(c) \/ Proceed(c) \/ ClientDies(c)
    \/ \E t \in Typed : Type(c, t) \/ SendPart(c, t)

LEMMA SendTyped ==
  ASSUME WireTyped, NEW c \in Clients, NEW bytes \in Seq(RequestTokens), Send(c, bytes)
  PROVE  /\ req' \in [Clients -> Seq(RequestTokens)]
         /\ \A d \in Clients : d # c => req'[d] = req[d]
<1>1. req[c] \o bytes \in Seq(RequestTokens)
  BY ConcatProperties DEF WireTyped
<1> QED
  BY <1>1 DEF Send, WireTyped

\* All that belongs to the other clients stays.
OthersKeep(c) ==
    \A d \in Clients : d # c =>
        /\ req'[d] = req[d] /\ ans'[d] = ans[d] /\ cPc'[d] = cPc[d]
        /\ readBuf'[d] = readBuf[d] /\ got'[d] = got[d]
        /\ asked'[d] = asked[d] /\ sums'[d] = sums[d]

LEMMA ClientTypes ==
  ASSUME WireTyped, ClientsTyped, NEW c \in Clients, ClientActs(c)
  PROVE  WireTyped' /\ ClientsTyped' /\ OthersKeep(c)
<1> USE DEF WireTyped, ClientsTyped, OthersKeep
<1>l. ASSUME Leave(c), UNCHANGED <<asked, sums>>,
             req' \in [Clients -> Seq(RequestTokens)],
             \A d \in Clients : d # c => req'[d] = req[d]
      PROVE  WireTyped' /\ ClientsTyped' /\ OthersKeep(c)
  <2>1. <<>> \in Seq(AnswerTokens)
    OBVIOUS
  <2> QED
    BY <1>l, <2>1 DEF Leave
<1>1. CASE Connect(c)
  <2>1. /\ UNCHANGED <<req, ans, readBuf, got, asked, sums>>
        /\ \/ cPc' = [cPc EXCEPT ![c] = "typing"] /\ queue' = Append(queue, c) /\ gone' = gone
           \/ cPc' = [cPc EXCEPT ![c] = "ended"] /\ gone' = gone \cup {c} /\ queue' = queue
    BY <1>1, Zenon DEF Connect
  <2>2. CASE cPc' = [cPc EXCEPT ![c] = "typing"] /\ queue' = Append(queue, c) /\ gone' = gone
    BY <2>1, <2>2
  <2>3. CASE cPc' = [cPc EXCEPT ![c] = "ended"] /\ gone' = gone \cup {c} /\ queue' = queue
    BY <2>1, <2>3
  <2> QED
    BY <2>1, <2>2, <2>3
<1>2. CASE TypeInvalid(c) \/ ClientDies(c) \/ AnswerFails(c)
  <2>1. Leave(c) /\ UNCHANGED <<req, asked, sums>>
    BY <1>2 DEF TypeInvalid, ClientDies, AnswerFails
  <2> QED
    BY <1>l, <2>1
<1>3. ASSUME NEW t \in Typed, SendPart(c, t)
      PROVE  WireTyped' /\ ClientsTyped' /\ OthersKeep(c)
  <2>1. PICK n \in 0 .. 2 : Send(c, SubSeq(RequestLine(t), 1, n))
    BY <1>3 DEF SendPart
  <2>2. SubSeq(RequestLine(t), 1, n) \in Seq(RequestTokens)
    BY RequestLineTyped
  <2> QED
    BY <1>3, <1>l, <2>1, <2>2, SendTyped DEF SendPart
<1>4. ASSUME NEW t \in Typed, Type(c, t)
      PROVE  WireTyped' /\ ClientsTyped' /\ OthersKeep(c)
  <2> DEFINE ops == <<t[1] % Width, t[2] % Width>>
  <2>1. /\ Send(c, RequestLine(t)) /\ UNCHANGED <<queue, ans, gone, readBuf, got, sums>>
        /\ asked' = [asked EXCEPT ![c] = Append(asked[c], ops)]
        /\ cPc' = [cPc EXCEPT ![c] = "reading"]
    BY <1>4 DEF Type
  <2>2. RequestLine(t) \in Seq(RequestTokens) /\ ops \in Pairs
    BY RequestLineTyped
  <2> HIDE DEF ops
  <2>3. asked' \in [Clients -> Seq(Pairs)]
    <3>1. Append(asked[c], ops) \in Seq(Pairs)
      BY <2>2
    <3> QED
      BY <2>1, <3>1
  <2>4. /\ req' \in [Clients -> Seq(RequestTokens)]
        /\ \A d \in Clients : d # c => req'[d] = req[d]
    BY <2>1, <2>2, SendTyped
  <2> QED
    BY <2>1, <2>3, <2>4
<1>5. CASE FillBuffer(c)
  <2>1. PICK n \in 1 .. Len(ans[c]) :
            /\ readBuf' = [readBuf EXCEPT ![c] = SubSeq(ans[c], 1, n)]
            /\ ans' = [ans EXCEPT ![c] = SubSeq(ans[c], n + 1, Len(ans[c]))]
    BY <1>5 DEF FillBuffer
  <2>2. /\ SubSeq(ans[c], 1, n) \in Seq(AnswerTokens)
        /\ SubSeq(ans[c], n + 1, Len(ans[c])) \in Seq(AnswerTokens)
    BY Parts
  <2>3. UNCHANGED <<queue, req, gone, cPc, got, asked, sums>>
    BY <1>5 DEF FillBuffer
  <2> QED
    BY <2>1, <2>2, <2>3
<1>r. ASSUME Report(c) PROVE
             /\ sums' \in [Clients -> Seq(Seq(AnswerTokens))]
             /\ got' \in [Clients -> Seq(AnswerTokens)]
             /\ cPc' \in [Clients -> {"away", "typing", "reading", "ended"}]
             /\ \A d \in Clients : d # c =>
                   cPc'[d] = cPc[d] /\ got'[d] = got[d] /\ sums'[d] = sums[d]
  <2>1. <<>> \in Seq(AnswerTokens) /\ Append(sums[c], got[c]) \in Seq(Seq(AnswerTokens))
    OBVIOUS
  <2> QED
    BY <1>r, <2>1 DEF Report
<1>6. CASE TakeByte(c)
  <2>1. /\ readBuf[c] # <<>> /\ readBuf' = [readBuf EXCEPT ![c] = Tail(readBuf[c])]
        /\ UNCHANGED <<queue, req, ans, gone, asked>>
    BY <1>6 DEF TakeByte, wireVars
  <2>2. readBuf' \in [Clients -> Seq(AnswerTokens)]
    <3>1. Tail(readBuf[c]) \in Seq(AnswerTokens)
      BY <2>1
    <3> QED
      BY <2>1, <3>1
  <2>3. CASE Report(c)
    BY <1>r, <2>1, <2>2, <2>3
  <2>4. CASE ~Report(c)
    <3>1. got' = [got EXCEPT ![c] = Append(got[c], Head(readBuf[c]))] /\ UNCHANGED <<cPc, sums>>
      BY <1>6, <2>4 DEF TakeByte
    <3>2. Append(got[c], Head(readBuf[c])) \in Seq(AnswerTokens)
      BY <2>1
    <3> QED
      BY <2>1, <2>2, <3>1, <3>2
  <2> QED
    BY <2>3, <2>4
<1>7. CASE AnswerCut(c)
  BY <1>7, <1>r DEF AnswerCut, wireVars
<1> QED
  BY <1>1, <1>2, <1>3, <1>4, <1>5, <1>6, <1>7, Zenon DEF ClientActs, Proceed

-----------------------------------------------------------------------------
(* Exchanges.                                                              *)

LEMMA CountsTyped ==
  ASSUME WireTyped, ServerTyped, ClientsTyped, NEW c \in Clients
  PROVE  /\ Len(got[c]) \in Nat /\ Len(readBuf[c]) \in Nat /\ Len(ans[c]) \in Nat
         /\ Len(asked[c]) \in Nat /\ Len(sums[c]) \in Nat /\ Len(req[c]) \in Nat
         /\ Len(line) \in Nat /\ Len(out) \in Nat /\ Came(c) \in Nat
<1>1. /\ got[c] \in Seq(AnswerTokens) /\ readBuf[c] \in Seq(AnswerTokens)
      /\ ans[c] \in Seq(AnswerTokens) /\ out \in Seq(AnswerTokens)
      /\ asked[c] \in Seq(Pairs) /\ sums[c] \in Seq(Seq(AnswerTokens))
      /\ req[c] \in Seq(RequestTokens) /\ line \in Seq(Operands)
  BY DEF WireTyped, ServerTyped, ClientsTyped
<1>2. /\ Len(got[c]) \in Nat /\ Len(readBuf[c]) \in Nat /\ Len(ans[c]) \in Nat
      /\ Len(out) \in Nat
  BY <1>1
<1>3. /\ Len(asked[c]) \in Nat /\ Len(sums[c]) \in Nat /\ Len(req[c]) \in Nat
      /\ Len(line) \in Nat
  BY <1>1
<1>4. Came(c) \in Nat
  BY <1>1, Total DEF Came
<1> QED
  BY <1>2, <1>3, <1>4

\* The words of the reply that a client waits for.
LEMMA ReplyFacts ==
  ASSUME ClientsTyped, NEW c \in Clients, Len(asked[c]) > 0,
         NEW whole, whole = Text(Right(LastAsked(c)))
  PROVE  /\ LastAsked(c) \in Pairs
         /\ Reply(c) \in Seq(AnswerTokens) /\ Len(Reply(c)) = 3
         /\ Reply(c)[1] # Newline /\ Reply(c)[2] # Newline /\ Reply(c)[3] = Newline
         /\ whole \in Seq(AnswerTokens) /\ Len(whole) = 2
         /\ whole[1] = Reply(c)[1] /\ whole[2] = Reply(c)[2]
<1>1. LastAsked(c) \in Pairs
  BY DEF ClientsTyped, LastAsked
<1> DEFINE a == Right(LastAsked(c))
<1>2. a \in Answers
  BY <1>1, RightTyped
<1>3. Reply(c) = Append(Text(a), Newline)
  BY DEF Reply
<1> HIDE DEF a
<1>4. /\ Reply(c) \in Seq(AnswerTokens) /\ Len(Reply(c)) = 3
      /\ Reply(c)[1] = <<a, 1>> /\ Reply(c)[2] = <<a, 2>> /\ Reply(c)[3] = Newline
      /\ Reply(c)[1] # Newline /\ Reply(c)[2] # Newline
      /\ Text(a) \in Seq(AnswerTokens) /\ Len(Text(a)) = 2
      /\ Text(a)[1] = <<a, 1>> /\ Text(a)[2] = <<a, 2>>
  BY <1>2, <1>3, ReplyWords
<1>5. whole = Text(a)
  BY DEF a
<1> QED
  BY <1>1, <1>4, <1>5

\* The reply to a client that waits for one is never the one that goes by a single
\* send().
LEMMA RepliesAreNoErrors ==
  ASSUME WireTyped, ServerTyped, ClientsTyped, NEW c \in Clients, Replied(c), Running
  PROVE  out # MSG_ERR
<1> SUFFICES ASSUME out = MSG_ERR PROVE FALSE
  OBVIOUS
<1>1. WrongOperands \in Answers
  BY DEF Answers
<1>2. Len(out) = 3 /\ out[1] = <<WrongOperands, 1>>
  BY <1>1, ReplyWords DEF MSG_ERR
<1>3. Came(c) \in Nat /\ Len(asked[c]) \in Nat /\ Len(sums[c]) \in Nat
  BY CountsTyped
<1>4. Came(c) = 0 /\ Len(asked[c]) > 0 /\ out[1] = Reply(c)[1]
  <2>1. Came(c) + 3 = 3 /\ Len(asked[c]) = Len(sums[c]) + 1
    BY <1>2 DEF Replied
  <2>2. Came(c) = 0 /\ Len(asked[c]) > 0
    BY <1>3, <2>1
  <2>3. out[1] = Reply(c)[0 + 1]
    BY <1>2, <2>2 DEF Replied
  <2> QED
    BY <2>2, <2>3
<1> DEFINE a == Right(LastAsked(c))
<1>5. LastAsked(c) \in Pairs /\ a \in Answers
  BY <1>4, ReplyFacts, RightTyped
<1>6. Reply(c)[1] = <<a, 1>>
  <2>1. Reply(c) = Append(Text(a), Newline)
    BY DEF Reply
  <2> HIDE DEF a
  <2> QED
    BY <1>5, <2>1, ReplyWords
<1>7. a # WrongOperands
  BY DEF Right, Sum, Overflow, WrongOperands
<1> HIDE DEF a
<1>8. <<a, 1>> = <<WrongOperands, 1>>
  BY <1>2, <1>4, <1>6
<1> QED
  BY <1>7, <1>8

\* Nothing happens to a client whose streams nobody touches.
LEMMA NothingHappens ==
  ASSUME IndInv, NEW d \in Clients,
         req'[d] = req[d], ans'[d] = ans[d], cPc'[d] = cPc[d], readBuf'[d] = readBuf[d],
         got'[d] = got[d], asked'[d] = asked[d], sums'[d] = sums[d],
         sPc' = "exited" <=> sPc = "exited",
         Served(d)' <=> Served(d),
         Served(d) => UNCHANGED <<sPc, line, out>>
  PROVE  Exchange(d)' /\ Printed(d)'
<1>0. Exchange(d) /\ Printed(d)
  BY DEF IndInv
<1>1. Running' <=> Running
  BY DEF Running
<1>2. /\ LastAsked(d)' = LastAsked(d) /\ Request(d)' = Request(d) /\ Reply(d)' = Reply(d)
      /\ Came(d)' = Came(d) /\ (Silent(d)' <=> Silent(d))
  BY DEF LastAsked, Request, Reply, Came, Silent
<1>3. Idle(d) => Idle(d)'
  BY <1>1, <1>2 DEF Idle
<1>4. Waiting(d) => Waiting(d)'
  BY <1>1, <1>2 DEF Waiting, RequestLeft
<1>5. Replied(d) => Replied(d)'
  BY <1>1, <1>2 DEF Replied
<1>6. Ended(d) => Ended(d)'
  BY DEF Ended
<1>7. Printed(d)'
  BY <1>0, <1>1, <1>2 DEF Printed
<1> QED
  BY <1>0, <1>3, <1>4, <1>5, <1>6, <1>7 DEF Exchange

\* What has been printed stays right when the server runs or exits.
LEMMA PrintedStays ==
  ASSUME NEW d \in Clients, Printed(d), UNCHANGED sumClientVars,
         Running' => Running, ~Running => ans'[d] = ans[d]
  PROVE  Printed(d)'
<1>1. ~Running => (Silent(d)' <=> Silent(d))
  BY DEF Silent, sumClientVars
<1> QED
  BY <1>1 DEF Printed, sumClientVars

LEMMA ServerExchange ==
  ASSUME IndInv, ServerNext, UNCHANGED sumClientVars, NEW d \in Clients
  PROVE  Exchange(d)' /\ Printed(d)'
<1>0. /\ Exchange(d) /\ Printed(d) /\ WireTyped /\ ServerTyped /\ ClientsTyped
      /\ cPc' = cPc /\ readBuf' = readBuf /\ got' = got /\ asked' = asked /\ sums' = sums
  BY DEF IndInv, sumClientVars
<1>c. /\ Len(got[d]) \in Nat /\ Len(readBuf[d]) \in Nat /\ Len(ans[d]) \in Nat
      /\ Len(asked[d]) \in Nat /\ Len(sums[d]) \in Nat /\ Len(req[d]) \in Nat
      /\ Len(line) \in Nat /\ Len(out) \in Nat /\ Came(d) \in Nat
  BY <1>0, CountsTyped
<1>s. /\ LastAsked(d)' = LastAsked(d) /\ Request(d)' = Request(d) /\ Reply(d)' = Reply(d)
  BY <1>0 DEF LastAsked, Request, Reply
<1>e. ASSUME Ended(d) PROVE Exchange(d)'
  BY <1>0, <1>e DEF Ended, Exchange
<1>a. conn \in gone => cPc[conn] = "ended"
  BY <1>0 DEF IndInv, EndsFollow, ServerTyped
<1>g. ASSUME cPc[d] = "ended" PROVE Ended(d)
  BY <1>0, <1>g DEF Exchange, Idle, Waiting, Replied
<1>1. CASE AcceptClient
  <2>1. /\ sPc = "accept" /\ sPc' = "line" /\ conn' \in Clients /\ line = <<>>
        /\ UNCHANGED <<req, ans, line, out>>
    BY <1>0, <1>1 DEF AcceptClient, WireTyped, ServerTyped
  <2>2. ~Served(d) /\ Running /\ Running' /\ (sPc' = "exited" <=> sPc = "exited")
    BY <2>1 DEF Served, Running
  <2>3. CASE conn' # d
    <3>1. ~Served(d)'
      BY <2>3 DEF Served
    <3> QED
      BY <1>0, <2>1, <2>2, <3>1, NothingHappens
  <2>4. CASE conn' = d
    <3>1. Printed(d)'
      BY <1>0, <2>1, <2>2, PrintedStays
    <3>2. Served(d)'
      BY <2>1, <2>4 DEF Served
    <3>3. Came(d)' = Came(d) /\ (Silent(d)' <=> Silent(d)) /\ Len(line') = 0
      BY <1>0, <2>1 DEF Came, Silent
    <3>4. Idle(d) => Idle(d)'
      BY <1>0, <2>1, <2>2, <3>3 DEF Idle
    <3>5. Waiting(d) => Waiting(d)'
      BY <1>0, <1>s, <2>1, <2>2, <3>2, <3>3 DEF Waiting, RequestLeft
    <3>6. ~Replied(d)
      BY <2>2 DEF Replied
    <3> QED
      BY <1>0, <1>e, <3>1, <3>4, <3>5, <3>6 DEF Exchange
  <2> QED
    BY <2>3, <2>4
<1>2. CASE Exit
  <2>1. /\ sPc # "exited" /\ sPc' = "exited" /\ line' = <<>> /\ out' = <<>>
        /\ UNCHANGED <<req, ans, conn>>
    BY <1>2 DEF Exit
  <2>2. ~Served(d)' /\ Running /\ ~Running'
    BY <2>1 DEF Served, Running
  <2>3. Printed(d)'
    BY <1>0, <2>1, <2>2, PrintedStays
  <2>4. Came(d)' = Came(d) /\ (Silent(d)' <=> Silent(d))
    BY <1>0, <2>1 DEF Came, Silent
  <2>5. Idle(d) => Idle(d)'
    BY <1>0, <2>1, <2>2, <2>4 DEF Idle
  <2>6. Waiting(d) => Replied(d)'
    <3>1. Silent(d) => Came(d) = 0
      BY DEF Silent, Came
    <3> QED
      BY <1>0, <1>s, <2>1, <2>2, <2>4, <3>1 DEF Waiting, Silent, Replied
  <2>7. Replied(d) => Replied(d)'
    BY <1>0, <1>s, <2>1, <2>2, <2>4 DEF Replied
  <2> QED
    BY <1>0, <1>e, <2>3, <2>5, <2>6, <2>7 DEF Exchange
<1>3. CASE LineEof \/ LineFails \/ SendFails
  <2>1. /\ conn \in gone /\ sPc \in {"line", "send"} /\ sPc' \in {"accept", "line", "send"}
        /\ UNCHANGED <<ans, conn>>
        /\ req' = req \/ req' = [req EXCEPT ![conn] = <<>>]
    BY <1>3 DEF LineEof, LineFails, SendFails, EndSession, Respond, wireVars
  <2>2. Running /\ Running' /\ (sPc' = "exited" <=> sPc = "exited")
    BY <2>1 DEF Running
  <2>3. CASE conn = d
    <3>1. Ended(d)
      BY <1>a, <1>g, <2>1, <2>3
    <3>2. Printed(d)'
      BY <1>0, <2>1, <2>2, PrintedStays
    <3> QED
      BY <1>e, <3>1, <3>2
  <2>4. CASE conn # d
    <3>1. ~Served(d) /\ ~Served(d)'
      BY <2>1, <2>4 DEF Served
    <3>2. req'[d] = req[d]
      BY <1>0, <2>1, <2>4 DEF WireTyped
    <3> QED
      BY <1>0, <2>1, <2>2, <3>1, <3>2, NothingHappens
  <2> QED
    BY <2>3, <2>4
<1>4. CASE ReadByte
  <2>1. /\ sPc = "line" /\ req[conn] # <<>> /\ req' = [req EXCEPT ![conn] = Tail(req[conn])]
        /\ UNCHANGED <<ans, conn>> /\ sPc' \in {"line", "send"}
    BY <1>4 DEF ReadByte, Respond
  <2>2. Running /\ Running' /\ (sPc' = "exited" <=> sPc = "exited")
    BY <2>1 DEF Running
  <2>p. Printed(d)'
    BY <1>0, <2>1, <2>2, PrintedStays
  <2>3. CASE conn # d
    <3>1. ~Served(d) /\ ~Served(d)'
      BY <2>1, <2>3 DEF Served
    <3>2. req'[d] = req[d]
      BY <1>0, <2>1, <2>3 DEF WireTyped
    <3> QED
      BY <1>0, <2>1, <2>2, <3>1, <3>2, NothingHappens
  <2>4. CASE conn = d /\ ~Ended(d)
    <3>1. Served(d) /\ Served(d)' /\ req[d] # <<>>
      BY <2>1, <2>4 DEF Served
    <3>2. Waiting(d)
      BY <1>0, <2>2, <2>4, <3>1 DEF Exchange, Idle, Replied
    <3>3. /\ Silent(d) /\ Len(asked[d]) = Len(sums[d]) + 1 /\ cPc[d] = "reading"
          /\ Len(line) <= 2 /\ Len(req[d]) = 3 - Len(line)
          /\ \A i \in 1 .. Len(req[d]) : req[d][i] = Request(d)[Len(line) + i]
          /\ \A i \in 1 .. Len(line) : line[i] = Request(d)[i]
      BY <3>1, <3>2 DEF Waiting, RequestLeft
    <3>4. Silent(d)' /\ Came(d)' = 0
      BY <1>0, <2>1, <3>3 DEF Silent, Came
    <3>5. /\ Head(req[d]) = req[d][1] /\ req'[d] = Tail(req[d])
          /\ Len(req'[d]) = Len(req[d]) - 1
          /\ \A i \in 1 .. Len(req'[d]) : req'[d][i] = req[d][i + 1]
      BY <1>0, <2>1, <2>4, <3>1 DEF WireTyped
    <3>6. Head(req[d]) = Request(d)[Len(line) + 1]
      <4>1. 1 \in 1 .. Len(req[d])
        BY <1>c, <3>3
      <4> QED
        BY <3>3, <3>5, <4>1
    <3>7. /\ LastAsked(d) \in Pairs
          /\ Request(d)[1] = Operand(LastAsked(d)[1])
          /\ Request(d)[2] = Operand(LastAsked(d)[2])
          /\ Request(d)[3] = Newline
          /\ Request(d)[1] # Newline /\ Request(d)[2] # Newline
      <4>1. LastAsked(d) \in Pairs
        BY <1>0, <1>c, <3>3, ReplyFacts
      <4>2. LastAsked(d)[1] \in 0 .. Width - 1 /\ LastAsked(d)[2] \in 0 .. Width - 1
        BY <4>1 DEF Pairs
      <4> QED
        BY <4>1, <4>2, RequestWords DEF Request
    <3>8. CASE Head(req[d]) = Newline
      <4>1. Len(line) = 2
        <5>1. Len(line) + 1 # 1 /\ Len(line) + 1 # 2
          BY <3>6, <3>7, <3>8
        <5>2. Len(line) \in Nat /\ Len(line) <= 2
          BY <1>c, <3>3
        <5> QED
          BY <5>1, <5>2, Third
      <4>2. /\ out' = Append(Text(Answer(line)), Newline) /\ line' = <<>>
        BY <1>4, <2>4, <3>8 DEF ReadByte, Respond
      <4>3. Answer(line) = Right(LastAsked(d))
        <5>1. 1 \in 1 .. Len(line) /\ 2 \in 1 .. Len(line)
          BY <4>1
        <5> QED
          BY <1>0, <3>3, <3>7, <4>1, <5>1, AnswerRight DEF ServerTyped
      <4>4. out' = Reply(d)
        BY <4>2, <4>3 DEF Reply
      <4>5. Len(out') = 3
        BY <1>0, <1>c, <3>3, <4>4, ReplyFacts
      <4>6. req'[d] = <<>>
        <5>1. req[d] \in Seq(RequestTokens)
          BY <1>0 DEF WireTyped
        <5>2. req'[d] \in Seq(RequestTokens)
          BY <3>1, <3>5, <5>1
        <5>3. Len(req[d]) = 3 - Len(line) /\ Len(req'[d]) = Len(req[d]) - 1
          BY <3>3, <3>5
        <5>4. Len(req'[d]) = 0
          BY <4>1, <5>3
        <5> QED
          BY <5>2, <5>4, EmptySeq
      <4>7. \A i \in 1 .. Len(out') : out'[i] = Reply(d)[Came(d)' + i]
        BY <3>4, <4>4, <4>5
      <4>8. Replied(d)'
        BY <1>0, <1>s, <2>2, <3>1, <3>3, <3>4, <4>2, <4>5, <4>6, <4>7 DEF Replied, Silent
      <4> QED
        BY <2>p, <4>8 DEF Exchange
    <3>9. CASE Head(req[d]) # Newline
      <4>1. Len(line) \in {0, 1}
        <5>1. Len(line) + 1 # 3
          BY <3>6, <3>7, <3>9
        <5>2. Len(line) \in Nat /\ Len(line) <= 2
          BY <1>c, <3>3
        <5> QED
          BY <5>1, <5>2, Third
      <4>2. line' = Append(line, Head(req[d])) /\ sPc' = "line"
        BY <1>4, <2>1, <2>4, <3>9 DEF ReadByte
      <4>3. /\ Len(line') = Len(line) + 1
            /\ \A i \in 1 .. Len(line') :
                  line'[i] = IF i <= Len(line) THEN line[i] ELSE Head(req[d])
        <5>1. Head(req[d]) \in Operands
          <6>1. Head(req[d]) \in RequestTokens
            BY <1>0, <3>1 DEF WireTyped
          <6> QED
            BY <3>9, <6>1 DEF RequestTokens
        <5>2. line \in Seq(Operands)
          BY <1>0 DEF ServerTyped
        <5> HIDE <3>3
        <5> QED
          BY <4>2, <5>1, <5>2
      <4>4. \A i \in 1 .. Len(line') : line'[i] = Request(d)[i]
        <5> SUFFICES ASSUME NEW i \in 1 .. Len(line') PROVE line'[i] = Request(d)[i]
          OBVIOUS
        <5>1. i \in 1 .. Len(line) \/ (~(i <= Len(line)) /\ i = Len(line) + 1)
          BY <1>c, <4>3
        <5> QED
          BY <3>3, <3>6, <4>3, <5>1
      <4>5. \A i \in 1 .. Len(req'[d]) : req'[d][i] = Request(d)[Len(line') + i]
        <5> SUFFICES ASSUME NEW i \in 1 .. Len(req'[d])
                     PROVE  req'[d][i] = Request(d)[Len(line') + i]
          OBVIOUS
        <5>1. i + 1 \in 1 .. Len(req[d]) /\ Len(line) + (i + 1) = Len(line') + i
          BY <1>c, <3>5, <4>3
        <5> QED
          BY <3>3, <3>5, <5>1
      <4>6. Len(line') <= 2 /\ Len(req'[d]) = 3 - Len(line')
        BY <1>c, <3>3, <3>5, <4>1, <4>3
      <4>7. RequestLeft(d, Len(line))'
        BY <1>s, <4>5, <4>6 DEF RequestLeft
      <4>8. Waiting(d)'
        BY <1>0, <1>s, <2>2, <3>1, <3>3, <3>4, <4>2, <4>4, <4>7 DEF Waiting
      <4> QED
        BY <2>p, <4>8 DEF Exchange
    <3> QED
      BY <3>8, <3>9
  <2> QED
    BY <1>e, <2>3, <2>4, <2>p
<1>5. CASE SendSome
  <2>1. PICK n \in 1 .. Len(out) :
            /\ ans' = [ans EXCEPT ![conn] = ans[conn] \o SubSeq(out, 1, n)]
            /\ out # MSG_ERR => out' = SubSeq(out, n + 1, Len(out))
    BY <1>5 DEF SendSome
  <2>2. /\ sPc = "send" /\ UNCHANGED <<req, conn, line>> /\ sPc' \in {"line", "send"}
        /\ sPc' = IF out' = <<>> THEN "line" ELSE "send"
    BY <1>5 DEF SendSome
  <2>3. Running /\ Running' /\ (sPc' = "exited" <=> sPc = "exited")
    BY <2>2 DEF Running
  <2>p. Printed(d)'
    BY <1>0, <2>3, PrintedStays
  <2>4. CASE conn # d
    <3>1. ~Served(d) /\ ~Served(d)'
      BY <2>2, <2>4 DEF Served
    <3>2. ans'[d] = ans[d]
      BY <1>0, <2>1, <2>4 DEF WireTyped
    <3> QED
      BY <1>0, <2>2, <2>3, <3>1, <3>2, NothingHappens
  <2>5. CASE conn = d /\ ~Ended(d)
    <3>1. Served(d) /\ Served(d)'
      BY <2>2, <2>5 DEF Served
    <3>2. Replied(d)
      BY <1>0, <2>2, <2>5, <3>1 DEF Exchange, Idle, Waiting
    <3>r. out # MSG_ERR
      BY <1>0, <2>3, <3>2, RepliesAreNoErrors
    <3> DEFINE part == SubSeq(out, 1, n)
    <3>3. /\ part \in Seq(AnswerTokens) /\ Len(part) = n
          /\ \A i \in 1 .. n : part[i] = out[i]
          /\ Len(out') = Len(out) - n
          /\ \A i \in 1 .. Len(out) - n : out'[i] = out[n + i]
          /\ n \in Nat /\ n <= Len(out)
      BY <1>0, <2>1, <3>r, Parts DEF ServerTyped
    <3>4. ans'[d] = ans[d] \o part /\ ans[d] \in Seq(AnswerTokens)
      BY <1>0, <2>1, <2>5 DEF WireTyped
    <3> HIDE DEF part
    <3>5. /\ Len(ans'[d]) = Len(ans[d]) + n
          /\ \A i \in 1 .. Len(ans'[d]) :
                ans'[d][i] = IF i <= Len(ans[d]) THEN ans[d][i] ELSE part[i - Len(ans[d])]
      <4>1. /\ Len(ans'[d]) = Len(ans[d]) + Len(part)
            /\ \A i \in 1 .. Len(ans[d]) + Len(part) :
                  ans'[d][i] = IF i <= Len(ans[d]) THEN ans[d][i] ELSE part[i - Len(ans[d])]
        <5>1. ans[d] \in Seq(AnswerTokens) /\ part \in Seq(AnswerTokens)
          BY <3>3, <3>4
        <5>2. /\ Len(ans[d] \o part) = Len(ans[d]) + Len(part)
              /\ \A i \in 1 .. Len(ans[d]) + Len(part) : (ans[d] \o part)[i] =
                    IF i <= Len(ans[d]) THEN ans[d][i] ELSE part[i - Len(ans[d])]
          BY <5>1, ConcatProperties
        <5> QED
          BY <3>4, <5>2
      <4>2. Len(part) = n
        BY <3>3
      <4> QED
        BY <4>1, <4>2
    <3>7. /\ cPc[d] = "reading" /\ Len(asked[d]) = Len(sums[d]) + 1
          /\ req[d] = <<>> /\ line = <<>> /\ Came(d) + Len(out) = 3 /\ Len(got[d]) <= 2
          /\ \A i \in 1 .. Len(got[d]) : got[d][i] = Reply(d)[i]
          /\ \A i \in 1 .. Len(readBuf[d]) : readBuf[d][i] = Reply(d)[Len(got[d]) + i]
          /\ \A i \in 1 .. Len(ans[d]) :
                ans[d][i] = Reply(d)[Len(got[d]) + Len(readBuf[d]) + i]
          /\ \A i \in 1 .. Len(out) : out[i] = Reply(d)[Came(d) + i]
      BY <2>3, <3>2 DEF Replied
    <3>n. /\ Len(out) \in Nat /\ Len(ans[d]) \in Nat /\ n \in Nat /\ n <= Len(out)
          /\ Len(got[d]) \in Nat /\ Len(readBuf[d]) \in Nat
          /\ Len(got[d]) + Len(readBuf[d]) + Len(ans[d]) + Len(out) = 3
      BY <1>c, <3>3, <3>7 DEF Came
    <3> DEFINE before == Len(got[d]) + Len(readBuf[d])
    <3>6. /\ before + (Len(ans[d]) + n) = before + Len(ans[d]) + n
          /\ before + (Len(ans[d]) + n) + (Len(out) - n) = 3
          /\ before + (Len(ans[d]) + n) <= 3
          /\ \A i \in 1 .. Len(ans[d]) + n : ~(i <= Len(ans[d])) =>
                /\ i - Len(ans[d]) \in 1 .. n /\ i - Len(ans[d]) \in 1 .. Len(out)
                /\ before + Len(ans[d]) + (i - Len(ans[d])) = before + i
          /\ \A i \in 1 .. Len(out) - n :
                /\ n + i \in 1 .. Len(out)
                /\ before + Len(ans[d]) + (n + i) = before + (Len(ans[d]) + n) + i
      <4> DEFINE g == Len(got[d])  b == Len(readBuf[d])  w == Len(ans[d])  o == Len(out)
      <4>1. /\ g \in Nat /\ b \in Nat /\ w \in Nat /\ o \in Nat /\ n \in Nat /\ n <= o
            /\ g + b + w + o = 3
        BY <3>n
      <4> HIDE DEF g, b, w, o
      <4>2. /\ g + b + (w + n) = g + b + w + n
            /\ g + b + (w + n) + (o - n) = 3 /\ g + b + (w + n) <= 3
            /\ \A i \in 1 .. w + n : ~(i <= w) =>
                  /\ i - w \in 1 .. n /\ i - w \in 1 .. o
                  /\ g + b + w + (i - w) = g + b + i
            /\ \A i \in 1 .. o - n :
                  n + i \in 1 .. o /\ g + b + w + (n + i) = g + b + (w + n) + i
        BY <4>1, Moves
      <4> QED
        BY <4>2, Zenon DEF g, b, w, o
    <3>m. /\ Came(d)' = before + (Len(ans[d]) + n) /\ Came(d) = before + Len(ans[d])
          /\ Len(ans'[d]) = Len(ans[d]) + n /\ Len(out') = Len(out) - n
      BY <1>0, <3>3, <3>5 DEF Came
    <3> HIDE DEF before
    <3>8. ASSUME NEW i \in 1 .. Len(ans'[d])
          PROVE  ans'[d][i] = Reply(d)[before + i]
      <4>1. CASE i <= Len(ans[d])
        <5>1. i \in 1 .. Len(ans[d])
          BY <1>c, <3>8, <4>1
        <5> QED
          BY <3>5, <3>7, <3>8, <4>1, <5>1 DEF before
      <4>2. CASE ~(i <= Len(ans[d]))
        <5> DEFINE j == i - Len(ans[d])
        <5>1. j \in 1 .. n /\ j \in 1 .. Len(out)
              /\ Came(d) + j = before + i
          BY <3>m, <3>6, <3>8, <4>2
        <5>2. ans'[d][i] = part[j]
          BY <3>5, <3>8, <4>2
        <5> HIDE DEF j
        <5>3. part[j] = Reply(d)[Came(d) + j]
          BY <3>3, <3>7, <5>1
        <5> QED
          BY <5>1, <5>2, <5>3
      <4> QED
        BY <4>1, <4>2
    <3>9. ASSUME NEW i \in 1 .. Len(out')
          PROVE  out'[i] = Reply(d)[Came(d)' + i]
      <4>1. n + i \in 1 .. Len(out) /\ i \in 1 .. Len(out) - n
            /\ Came(d) + (n + i) = Came(d)' + i
        BY <3>m, <3>6, <3>9
      <4> QED
        BY <3>3, <3>7, <4>1
    <3>10. Came(d)' + Len(out') = 3 /\ Came(d)' <= 3
      BY <3>m, <3>6
    <3>11. Replied(d)'
      BY <1>0, <1>s, <2>2, <2>3, <3>1, <3>7, <3>8, <3>9, <3>10
      DEF Replied, before
    <3> QED
      BY <2>p, <3>11 DEF Exchange
  <2> QED
    BY <1>e, <2>4, <2>5, <2>p
<1> QED
  BY <1>1, <1>2, <1>3, <1>4, <1>5 DEF ServerNext, ServerRuns

\* What is printed is right when the line read is the reply, or what has come
\* of it from a server that is gone.
LEMMA ReportRight ==
  ASSUME ClientsTyped, NEW c \in Clients, Printed(c), Report(c),
         asked'[c] = asked[c], Len(asked[c]) = Len(sums[c]) + 1,
         ~Silent(c), cPc[c] = "reading", Running' <=> Running,
         NEW whole, whole = Text(Right(LastAsked(c))),
         got[c] = whole \/ (got[c] = <<whole[1]>> /\ ~Running /\ Silent(c)')
  PROVE  /\ Printed(c)' /\ Len(asked'[c]) = Len(sums'[c])
         /\ cPc'[c] = "typing" /\ got'[c] = <<>>
<1>1. /\ sums[c] \in Seq(Seq(AnswerTokens)) /\ got[c] \in Seq(AnswerTokens)
      /\ sums'[c] = Append(sums[c], got[c]) /\ got'[c] = <<>> /\ cPc'[c] = "typing"
      /\ Len(asked[c]) \in Nat /\ Len(sums[c]) \in Nat
  BY DEF ClientsTyped, Report
<1>2. /\ Len(sums'[c]) = Len(sums[c]) + 1
      /\ \A i \in 1 .. Len(sums[c]) : sums'[c][i] = sums[c][i]
      /\ sums'[c][Len(sums[c]) + 1] = got[c]
  BY <1>1, AppendProperties
<1>3. Len(asked'[c]) = Len(sums'[c]) /\ Len(asked'[c]) <= MaxSums
      /\ Len(sums'[c]) <= Len(asked'[c])
  BY <1>1, <1>2 DEF Printed
<1>4. ASSUME NEW i \in 1 .. Len(sums'[c])
      PROVE  LET w == Text(Right(asked'[c][i])) IN
             \/ sums'[c][i] = w
             \/ /\ sums'[c][i] = <<w[1]>>
                /\ ~Running' /\ i = Len(sums'[c])
                /\ cPc'[c] # "ended" => Silent(c)'
  <2>1. i \in 1 .. Len(sums[c]) \/ i = Len(sums[c]) + 1
    BY <1>1, <1>2, <1>4
  <2>2. CASE i \in 1 .. Len(sums[c])
    <3>1. sums[c][i] = Text(Right(asked[c][i]))
      BY <2>2 DEF Printed
    <3> QED
      BY <1>2, <2>2, <3>1
  <2>3. CASE i = Len(sums[c]) + 1
    <3>1. Text(Right(asked'[c][i])) = whole
      BY <2>3 DEF LastAsked
    <3> QED
      BY <1>2, <2>3, <3>1
  <2> QED
    BY <2>1, <2>2, <2>3
<1> QED
  BY <1>1, <1>3, <1>4 DEF Printed

LEMMA ClientExchange ==
  ASSUME IndInv, NEW c \in Clients, ClientActs(c), UNCHANGED serverVars,
         WireTyped', ClientsTyped'
  PROVE  Exchange(c)' /\ Printed(c)'
<1>0. /\ Exchange(c) /\ Printed(c) /\ WireTyped /\ ServerTyped /\ ClientsTyped
      /\ sPc' = sPc /\ conn' = conn /\ line' = line /\ out' = out
  BY DEF IndInv, serverVars
<1>c. /\ Len(got[c]) \in Nat /\ Len(readBuf[c]) \in Nat /\ Len(ans[c]) \in Nat
      /\ Len(asked[c]) \in Nat /\ Len(sums[c]) \in Nat /\ Len(req[c]) \in Nat
      /\ Len(line) \in Nat /\ Len(out) \in Nat /\ Came(c) \in Nat
  BY <1>0, CountsTyped
<1>r. (Running' <=> Running) /\ (Served(c)' <=> Served(c))
  BY <1>0 DEF Running, Served
<1>u. up <=> Running
  BY DEF IndInv, EndsFollow
<1>l. ASSUME Leave(c), UNCHANGED <<asked, sums>> PROVE Exchange(c)' /\ Printed(c)'
  <2>1. cPc'[c] = "ended" /\ got'[c] = <<>> /\ readBuf'[c] = <<>>
        /\ asked'[c] = asked[c] /\ sums'[c] = sums[c]
    BY <1>0, <1>l DEF Leave, ClientsTyped
  <2>2. Ended(c)'
    BY <2>1 DEF Ended
  <2>3. Printed(c)'
    BY <1>0, <1>r, <2>1 DEF Printed
  <2> QED
    BY <2>2, <2>3 DEF Exchange
<1>i. ASSUME cPc[c] \in {"away", "typing"} PROVE Idle(c)
  BY <1>0, <1>i DEF Exchange, Waiting, Replied, Ended
<1>w. ASSUME cPc[c] = "reading", ~Silent(c) PROVE Replied(c)
  BY <1>0, <1>w DEF Exchange, Idle, Waiting, Ended
<1>1. CASE Connect(c)
  <2>1. /\ cPc[c] = "away" /\ UNCHANGED <<req, ans, readBuf, got, asked, sums>>
        /\ cPc'[c] \in {"typing", "ended"}
    BY <1>0, <1>1 DEF Connect, ClientsTyped
  <2>2. Silent(c)' <=> Silent(c)
    BY <2>1 DEF Silent
  <2>3. Idle(c)
    BY <1>i, <2>1
  <2>4. Printed(c)'
    BY <1>0, <1>r, <2>1, <2>2 DEF Printed
  <2>5. CASE cPc'[c] = "typing"
    <3>1. Idle(c)'
      BY <1>0, <1>r, <2>1, <2>2, <2>3, <2>5 DEF Idle
    <3> QED
      BY <2>4, <3>1 DEF Exchange
  <2>6. CASE cPc'[c] = "ended"
    BY <2>1, <2>3, <2>4, <2>6 DEF Exchange, Idle, Silent, Ended
  <2> QED
    BY <2>1, <2>4, <2>5, <2>6
<1>2. CASE TypeInvalid(c) \/ ClientDies(c) \/ AnswerFails(c)
  BY <1>2, <1>l DEF TypeInvalid, ClientDies, AnswerFails
<1>3. ASSUME NEW t \in Typed, SendPart(c, t) PROVE Exchange(c)' /\ Printed(c)'
  BY <1>3, <1>l DEF SendPart

<1>4. ASSUME NEW t \in Typed, Type(c, t) PROVE Exchange(c)' /\ Printed(c)'
  <2> DEFINE ops == <<t[1] % Width, t[2] % Width>>
  <2>1. /\ cPc[c] = "typing" /\ Len(asked[c]) < MaxSums
        /\ req' = IF up THEN [req EXCEPT ![c] = req[c] \o RequestLine(t)] ELSE req
        /\ UNCHANGED <<ans, readBuf, got, sums>>
        /\ asked'[c] = Append(asked[c], ops) /\ cPc'[c] = "reading"
    BY <1>0, <1>4 DEF Type, Send, ClientsTyped
  <2>2. RequestLine(t) = <<Operand(ops[1]), Operand(ops[2]), Newline>> /\ ops \in Pairs
    BY RequestLineTyped DEF RequestLine
  <2> HIDE DEF ops
  <2>3. Idle(c) /\ Silent(c) /\ Len(asked[c]) = Len(sums[c])
    <3>1. Idle(c)
      BY <1>i, <2>1
    <3> QED
      BY <3>1 DEF Idle
  <2>4. /\ Len(asked'[c]) = Len(asked[c]) + 1
        /\ \A i \in 1 .. Len(asked[c]) : asked'[c][i] = asked[c][i]
        /\ asked'[c][Len(asked[c]) + 1] = ops
    <3>1. asked[c] \in Seq(Pairs)
      BY <1>0 DEF ClientsTyped
    <3> QED
      BY <2>1, <2>2, <3>1, AppendProperties
  <2>5. LastAsked(c)' = ops
    BY <2>4 DEF LastAsked
  <2>6. Silent(c)'
    BY <2>1, <2>3 DEF Silent
  <2>7. Printed(c)'
    <3>1. Len(asked'[c]) <= MaxSums /\ Len(sums'[c]) <= Len(asked'[c]) /\ sums'[c] = sums[c]
          /\ (cPc'[c] # "ended" => Silent(c)')
      BY <1>c, <2>1, <2>3, <2>4, <2>6, TypedAssumption, SMTT(20)
    <3>2. \A i \in 1 .. Len(sums[c]) : asked'[c][i] = asked[c][i]
      BY <2>3, <2>4
    <3> QED
      BY <1>0, <1>r, <3>1, <3>2 DEF Printed
  <2>8. CASE Running
    <3>1. req[c] = <<>> /\ (Served(c) => sPc = "line" /\ line = <<>>)
      BY <2>3, <2>8 DEF Idle
    <3> DEFINE words == RequestLine(t)
    <3>2. words \in Seq(RequestTokens) /\ Len(words) = 3
      BY RequestLineTyped
    <3>3. req'[c] = req[c] \o words
      BY <1>0, <1>u, <2>1, <2>8 DEF WireTyped
    <3>4. words = Request(c)'
      BY <2>2, <2>5 DEF Request
    <3> HIDE DEF words
    <3>5. req'[c] = words
      BY <3>1, <3>2, <3>3, ConcatEmptySeq
    <3>6. RequestLeft(c, 0)'
      BY <3>2, <3>4, <3>5 DEF RequestLeft
    <3>7. Served(c) => Len(line') = 0
      BY <1>0, <3>1
    <3>8. Waiting(c)'
      BY <1>0, <1>r, <2>1, <2>3, <2>4, <2>6, <2>8, <3>1, <3>6, <3>7 DEF Waiting
    <3> QED
      BY <2>7, <3>8 DEF Exchange
  <2>9. CASE ~Running
    <3>1. Len(got'[c]) = 0 /\ Len(readBuf'[c]) = 0 /\ Len(ans'[c]) = 0 /\ Came(c)' = 0
      BY <2>6 DEF Silent, Came
    <3>2. Replied(c)'
      BY <1>r, <2>1, <2>3, <2>4, <2>9, <3>1 DEF Replied
    <3> QED
      BY <2>7, <3>2 DEF Exchange
  <2> QED
    BY <2>8, <2>9
<1>p. ASSUME Replied(c)
      PROVE  /\ Len(asked[c]) = Len(sums[c]) + 1 /\ Len(asked[c]) > 0
             /\ LastAsked(c) \in Pairs /\ Len(Reply(c)) = 3
             /\ Running => /\ Served(c) /\ req[c] = <<>> /\ line = <<>>
                           /\ Came(c) + Len(out) = 3
             /\ Len(got[c]) <= 2 /\ Came(c) <= 3
             /\ Came(c) = Len(got[c]) + Len(readBuf[c]) + Len(ans[c])
             /\ \A i \in 1 .. Len(got[c]) : got[c][i] = Reply(c)[i]
             /\ \A i \in 1 .. Len(readBuf[c]) : readBuf[c][i] = Reply(c)[Len(got[c]) + i]
             /\ \A i \in 1 .. Len(ans[c]) :
                   ans[c][i] = Reply(c)[Len(got[c]) + Len(readBuf[c]) + i]
             /\ Running => \A i \in 1 .. Len(out) : out[i] = Reply(c)[Came(c) + i]
  <2>1. Len(asked[c]) = Len(sums[c]) + 1
    BY <1>p DEF Replied
  <2>2. Len(asked[c]) > 0
    BY <1>c, <2>1
  <2>3. LastAsked(c) \in Pairs /\ Len(Reply(c)) = 3
    BY <1>0, <2>2, ReplyFacts
  <2> QED
    BY <1>p, <2>1, <2>2, <2>3 DEF Replied, Came
<1>5. CASE FillBuffer(c)
  <2>1. PICK n \in 1 .. Len(ans[c]) :
            /\ readBuf' = [readBuf EXCEPT ![c] = SubSeq(ans[c], 1, n)]
            /\ ans' = [ans EXCEPT ![c] = SubSeq(ans[c], n + 1, Len(ans[c]))]
    BY <1>5 DEF FillBuffer
  <2>2. /\ cPc[c] = "reading" /\ readBuf[c] = <<>>
        /\ UNCHANGED <<req, cPc, got, asked, sums>>
    BY <1>5 DEF FillBuffer
  <2>3. n \in Nat /\ n <= Len(ans[c]) /\ 0 < Len(ans[c]) /\ Len(readBuf[c]) = 0
    BY <1>c, <2>1, <2>2
  <2>4. ~Silent(c)
    BY <2>3 DEF Silent
  <2>5. Replied(c)
    BY <1>w, <2>2, <2>4
  <2>6. /\ Len(readBuf'[c]) = n /\ Len(ans'[c]) = Len(ans[c]) - n
        /\ \A i \in 1 .. n : readBuf'[c][i] = ans[c][i]
        /\ \A i \in 1 .. Len(ans[c]) - n : ans'[c][i] = ans[c][n + i]
    <3>1. ans[c] \in Seq(AnswerTokens)
      BY <1>0 DEF WireTyped
    <3>2. /\ readBuf'[c] = SubSeq(ans[c], 1, n)
          /\ ans'[c] = SubSeq(ans[c], n + 1, Len(ans[c]))
      BY <1>0, <2>1 DEF WireTyped, ClientsTyped
    <3> QED
      BY <3>1, <3>2, Parts
  <2>7. /\ Len(got[c]) + n + (Len(ans[c]) - n) = Len(got[c]) + 0 + Len(ans[c])
        /\ \A i \in 1 .. n : i \in 1 .. Len(ans[c]) /\ Len(got[c]) + 0 + i = Len(got[c]) + i
        /\ \A i \in 1 .. Len(ans[c]) - n : n + i \in 1 .. Len(ans[c])
              /\ Len(got[c]) + 0 + (n + i) = Len(got[c]) + n + i
    <3> DEFINE g == Len(got[c])  w == Len(ans[c])
    <3>1. g \in Nat /\ w \in Nat /\ n \in Nat /\ n <= w
      BY <1>c, <2>3
    <3> HIDE DEF g, w
    <3>2. /\ g + n + (w - n) = g + 0 + w
          /\ \A i \in 1 .. n : i \in 1 .. w /\ g + 0 + i = g + i
          /\ \A i \in 1 .. w - n : n + i \in 1 .. w /\ g + 0 + (n + i) = g + n + i
      BY <3>1, Fills
    <3> QED
      BY <3>2, Zenon DEF g, w
  <2>8. Came(c)' = Came(c)
    BY <2>2, <2>3, <2>6, <2>7 DEF Came
  <2>9. \A i \in 1 .. Len(readBuf'[c]) : readBuf'[c][i] = Reply(c)[Len(got[c]) + i]
    BY <1>p, <2>3, <2>5, <2>6, <2>7
  <2>10. \A i \in 1 .. Len(ans'[c]) :
            ans'[c][i] = Reply(c)[Len(got[c]) + Len(readBuf'[c]) + i]
    BY <1>p, <2>3, <2>5, <2>6, <2>7
  <2>11. Reply(c)' = Reply(c)
    BY <2>2 DEF Reply, LastAsked
  <2>12. Replied(c)'
    BY <1>0, <1>r, <2>2, <2>5, <2>8, <2>9, <2>10, <2>11 DEF Replied
  <2>13. Printed(c)'
    BY <1>0, <1>r, <2>2, <2>4 DEF Printed
  <2> QED
    BY <2>12, <2>13 DEF Exchange
<1>6. CASE TakeByte(c)
  <2>1. /\ cPc[c] = "reading" /\ readBuf[c] # <<>> /\ readBuf'[c] = Tail(readBuf[c])
        /\ UNCHANGED <<req, ans, asked>>
    BY <1>0, <1>6 DEF TakeByte, wireVars, ClientsTyped
  <2>2. ~Silent(c)
    BY <2>1 DEF Silent
  <2>3. Replied(c)
    BY <1>w, <2>1, <2>2
  <2>4. /\ Head(readBuf[c]) = readBuf[c][1] /\ Len(readBuf[c]) > 0
        /\ readBuf'[c] \in Seq(AnswerTokens) /\ Len(readBuf'[c]) = Len(readBuf[c]) - 1
        /\ \A i \in 1 .. Len(readBuf[c]) - 1 : readBuf'[c][i] = readBuf[c][i + 1]
    <3>1. readBuf[c] \in Seq(AnswerTokens)
      BY <1>0 DEF ClientsTyped
    <3> QED
      BY <2>1, <3>1
  <2> DEFINE g == Len(got[c])  b == Len(readBuf[c])  w == Len(ans[c])
  <2>5. g \in Nat /\ b \in Nat /\ w \in Nat /\ b > 0
    BY <1>c, <2>4
  <2>6. /\ 1 \in 1 .. b /\ g + 1 + (b - 1) + w = g + b + w
        /\ \A i \in 1 .. g + 1 : i \in 1 .. g \/ (~(i <= g) /\ i = g + 1)
        /\ \A i \in 1 .. b - 1 : i + 1 \in 1 .. b /\ g + (i + 1) = g + 1 + i
        /\ \A i \in 1 .. w : g + b + i = g + 1 + (b - 1) + i
        /\ g = 2 /\ g + b + w <= 3 => b = 1 /\ w = 0
    <3> HIDE DEF g, b, w
    <3> QED
      BY <2>5, Takes, ZenonT(30)
  <2>7. /\ g <= 2 /\ Came(c) <= 3 /\ Came(c) = g + b + w
        /\ \A i \in 1 .. g : got[c][i] = Reply(c)[i]
        /\ \A i \in 1 .. b : readBuf[c][i] = Reply(c)[g + i]
        /\ \A i \in 1 .. w : ans[c][i] = Reply(c)[g + b + i]
    BY <1>p, <2>3
  <2>8. Head(readBuf[c]) = Reply(c)[g + 1]
    BY <2>4, <2>6, <2>7
  <2>9. Len(readBuf'[c]) = b - 1 /\ Len(ans'[c]) = w
    BY <2>1, <2>4

  <2> DEFINE whole == Text(Right(LastAsked(c)))
  <2>10. /\ Reply(c)[1] # Newline /\ Reply(c)[2] # Newline /\ Reply(c)[3] = Newline
         /\ whole \in Seq(AnswerTokens) /\ Len(whole) = 2
         /\ whole[1] = Reply(c)[1] /\ whole[2] = Reply(c)[2]
    BY <1>0, <1>p, <2>3, ReplyFacts
  <2>11. CASE Head(readBuf[c]) = Newline
    <3>1. g = 2
      <4>1. g + 1 # 1 /\ g + 1 # 2
        BY <2>8, <2>10, <2>11
      <4> HIDE DEF g
      <4> QED
        BY <2>5, <2>7, <4>1, Third
    <3>2. b = 1 /\ w = 0
      BY <2>6, <2>7, <3>1
    <3>3. Report(c)
      BY <1>6, <2>11 DEF TakeByte
    <3>4. got[c] = whole
      <4>1. got[c] \in Seq(AnswerTokens)
        BY <1>0 DEF ClientsTyped
      <4>2. \A i \in 1 .. 2 : got[c][i] = whole[i]
        BY <2>7, <2>10, <3>1
      <4> QED
        BY <2>10, <3>1, <4>1, <4>2, SeqEqual
    <3> HIDE DEF whole
    <3>5. /\ Printed(c)' /\ Len(asked'[c]) = Len(sums'[c])
          /\ cPc'[c] = "typing" /\ got'[c] = <<>>
      BY <1>0, <1>p, <1>r, <2>1, <2>2, <2>3, <3>3, <3>4, ReportRight DEF whole
    <3>6. readBuf'[c] = <<>> /\ ans'[c] = <<>>
      <4>1. ans[c] \in Seq(AnswerTokens) /\ ans'[c] = ans[c] /\ Len(ans[c]) = 0
        BY <1>0, <2>1, <3>2 DEF WireTyped
      <4>2. readBuf'[c] \in Seq(AnswerTokens) /\ Len(readBuf'[c]) = 0
        BY <2>4, <3>2
      <4> QED
        BY <4>1, <4>2, EmptySeq
    <3>7. Running => req[c] = <<>> /\ line = <<>> /\ sPc # "send"
      <4>1. ASSUME Running PROVE Len(out) = 0
        <5>1. Came(c) + Len(out) = 3
          BY <1>p, <2>3, <4>1
        <5>2. Came(c) = 3
          BY <2>7, <3>1, <3>2
        <5> QED
          BY <1>c, <5>1, <5>2
      <4>2. ASSUME Running PROVE out = <<>>
        BY <1>0, <4>1, <4>2, EmptySeq DEF ServerTyped
      <4> QED
        BY <1>0, <1>p, <2>3, <4>2 DEF ServerTyped
    <3>8. Served(c) => Running /\ sPc \in {"line", "send"}
      BY DEF Served, Running
    <3>9. Idle(c)'
      BY <1>0, <1>r, <2>1, <3>5, <3>6, <3>7, <3>8 DEF Idle, Silent
    <3> QED
      BY <3>5, <3>9 DEF Exchange
  <2>12. CASE Head(readBuf[c]) # Newline
    <3>1. g \in {0, 1}
      <4>1. g + 1 # 3
        BY <2>8, <2>10, <2>12
      <4> HIDE DEF g
      <4> QED
        BY <2>5, <2>7, <4>1, Third
    <3>2. got'[c] = Append(got[c], Head(readBuf[c])) /\ UNCHANGED <<cPc, sums>>
      BY <1>0, <1>6, <2>12 DEF TakeByte, ClientsTyped
    <3>3. /\ Len(got'[c]) = g + 1
          /\ \A i \in 1 .. g : got'[c][i] = got[c][i]
          /\ got'[c][g + 1] = Head(readBuf[c])
      <4>1. got[c] \in Seq(AnswerTokens) /\ Head(readBuf[c]) \in AnswerTokens
        BY <1>0, <2>1 DEF ClientsTyped
      <4> QED
        BY <3>2, <4>1, AppendProperties
    <3>4. Came(c)' = Came(c) /\ Len(got'[c]) <= 2
      <4>1. Came(c)' = g + 1 + (b - 1) + w /\ Came(c) = g + b + w
        BY <2>7, <2>9, <3>3 DEF Came
      <4>2. g + 1 <= 2
        <5> HIDE DEF g
        <5> QED
          BY <3>1
      <4> QED
        BY <2>6, <3>3, <4>1, <4>2
    <3>5. \A i \in 1 .. Len(got'[c]) : got'[c][i] = Reply(c)[i]
      BY <2>6, <2>7, <2>8, <3>3
    <3>6. \A i \in 1 .. Len(readBuf'[c]) : readBuf'[c][i] = Reply(c)[Len(got'[c]) + i]
      BY <2>4, <2>6, <2>7, <2>9, <3>3
    <3>7. \A i \in 1 .. Len(ans'[c]) :
             ans'[c][i] = Reply(c)[Len(got'[c]) + Len(readBuf'[c]) + i]
      BY <2>1, <2>6, <2>7, <2>9, <3>3, ZenonT(30)
    <3>8. Reply(c)' = Reply(c)
      BY <2>1 DEF Reply, LastAsked
    <3>9. Replied(c)'
      BY <1>0, <1>r, <2>1, <2>3, <3>2, <3>4, <3>5, <3>6, <3>7, <3>8 DEF Replied
    <3>10. Printed(c)'
      BY <1>0, <1>r, <2>1, <2>2, <3>2 DEF Printed
    <3> QED
      BY <3>9, <3>10 DEF Exchange
  <2> QED
    BY <2>11, <2>12
<1>7. CASE AnswerCut(c)
  <2>1. /\ cPc[c] = "reading" /\ readBuf[c] = <<>> /\ ans[c] = <<>> /\ got[c] # <<>>
        /\ Report(c) /\ UNCHANGED <<req, ans, readBuf, asked>>
    BY <1>7 DEF AnswerCut, NoMoreBytes, wireVars
  <2>2. ~Running
    <3>1. ~up
      BY <1>7, Zenon DEF AnswerCut, NoMoreBytes
    <3> QED
      BY <1>u, <3>1, Zenon
  <2>3. ~Silent(c)
    BY <2>1 DEF Silent
  <2>4. Replied(c)
    BY <1>w, <2>1, <2>3
  <2>5. Silent(c)'
    BY <1>0, <2>1 DEF Silent, Report, ClientsTyped
  <2> DEFINE whole == Text(Right(LastAsked(c)))
  <2>6. /\ whole \in Seq(AnswerTokens) /\ Len(whole) = 2
        /\ whole[1] = Reply(c)[1] /\ whole[2] = Reply(c)[2]
    BY <1>0, <1>p, <2>4, ReplyFacts
  <2>7. got[c] = whole \/ got[c] = <<whole[1]>>
    <3>1. got[c] \in Seq(AnswerTokens)
      BY <1>0 DEF ClientsTyped
    <3>2. Len(got[c]) <= 2 /\ \A i \in 1 .. Len(got[c]) : got[c][i] = whole[i]
      <4>1. Len(got[c]) <= 2 /\ \A i \in 1 .. Len(got[c]) : got[c][i] = Reply(c)[i]
        BY <1>p, <2>4
      <4>2. Len(got[c]) = 0 \/ Len(got[c]) = 1 \/ Len(got[c]) = 2
        BY <1>c, <4>1, Third
      <4> HIDE DEF whole
      <4> QED
        BY <2>6, <4>1, <4>2
    <3> HIDE DEF whole
    <3>3. Len(got[c]) = 1 \/ Len(got[c]) = 2
      <4>1. Len(got[c]) # 0
        BY <2>1, <3>1, EmptySeq
      <4> QED
        BY <1>c, <3>2, <4>1, Third
    <3>4. CASE Len(got[c]) = 2
      BY <2>6, <3>1, <3>2, <3>4, SeqEqual
    <3>5. CASE Len(got[c]) = 1
      <4>1. got[c] = <<got[c][1]>>
        BY <3>1, <3>5, OneWord
      <4> QED
        BY <3>2, <3>5, <4>1
    <3> QED
      BY <3>3, <3>4, <3>5
  <2> HIDE DEF whole
  <2>8. /\ Printed(c)' /\ Len(asked'[c]) = Len(sums'[c])
        /\ cPc'[c] = "typing" /\ got'[c] = <<>>
    BY <1>0, <1>p, <1>r, <2>1, <2>2, <2>3, <2>4, <2>5, <2>7, ReportRight DEF whole
  <2>9. Idle(c)'
    BY <1>0, <1>r, <2>2, <2>5, <2>8 DEF Idle, Served, Running
  <2> QED
    BY <2>8, <2>9 DEF Exchange
<1> QED
  BY <1>1, <1>2, <1>3, <1>4, <1>5, <1>6, <1>7, Zenon DEF ClientActs, Proceed

-----------------------------------------------------------------------------
(* The inductive invariant.                                                *)

LEMMA InitInv == Init => IndInv
<1> SUFFICES ASSUME Init PROVE IndInv
  OBVIOUS
<1> USE DEF Init, ChannelInit, ServerInit, SumClientInit
<1>1. \E c \in Clients : TRUE
  BY ClientsAssumption
<1>2. conn \in Clients
  BY <1>1, Zenon
<1>3. WireTyped /\ ClientsTyped
  BY DEF WireTyped, ClientsTyped
<1>4. ServerTyped
  <2>1. sPc = "accept" /\ line = <<>> /\ out = <<>>
    OBVIOUS
  <2> QED
    BY <1>2, <2>1 DEF ServerTyped
<1>5. EndsFollow
  <2>1. up
    BY Zenon
  <2>2. Running /\ \A c \in Clients : ~(c \in gone) /\ cPc[c] # "ended"
    BY DEF Running
  <2> QED
    BY <2>1, <2>2, Zenon DEF EndsFollow
<1>6. ASSUME NEW c \in Clients PROVE Exchange(c) /\ Printed(c)
  <2>1. /\ cPc[c] = "away" /\ asked[c] = <<>> /\ sums[c] = <<>> /\ req[c] = <<>>
        /\ got[c] = <<>> /\ readBuf[c] = <<>> /\ ans[c] = <<>> /\ sPc = "accept"
    BY <1>6
  <2>2. Idle(c)
    BY <2>1 DEF Idle, Silent, Served
  <2>3. Printed(c)
    BY <2>1, TypedAssumption DEF Printed
  <2> QED
    BY <2>2, <2>3 DEF Exchange
<1> QED
  BY <1>3, <1>4, <1>5, <1>6 DEF IndInv

LEMMA StepInv == IndInv /\ [Next]_vars => IndInv'
<1> SUFFICES ASSUME IndInv, [Next]_vars PROVE IndInv'
  OBVIOUS
<1>0. /\ WireTyped /\ ServerTyped /\ ClientsTyped /\ EndsFollow
      /\ \A c \in Clients : Exchange(c) /\ Printed(c)
  BY DEF IndInv
<1>1. CASE ServerStep
  <2>1. ServerNext /\ UNCHANGED sumClientVars
    BY <1>1 DEF ServerStep
  <2>2. WireTyped' /\ ServerTyped'
    BY <1>0, <2>1, ServerTypes
  <2>3. ClientsTyped'
    BY <1>0, <2>1 DEF ClientsTyped, sumClientVars
  <2>4. \A c \in Clients : Exchange(c)' /\ Printed(c)'
    BY <2>1, ServerExchange
  <2>5. gone' = gone /\ cPc' = cPc
    BY <2>1 DEF ServerNext, ServerRuns, AcceptClient, Exit, ReadByte, LineEof, LineFails,
                SendSome, SendFails, Respond, EndSession, sumClientVars, wireVars
  <2>6. up' <=> Running'
    <3>1. CASE Exit
      <4>1. ~up'
        BY <3>1, Zenon DEF Exit
      <4>2. ~Running'
        BY <3>1 DEF Exit, Running
      <4> QED
        BY <4>1, <4>2, Zenon
    <3>2. CASE ServerRuns
      <4>1. up' = up
        BY <3>2, Zenon DEF ServerRuns, AcceptClient, ReadByte, LineEof, LineFails,
                SendSome, SendFails, Respond, EndSession, wireVars
      <4>2. Running /\ Running'
        BY <3>2 DEF Running, ServerRuns, AcceptClient, ReadByte, LineEof, LineFails,
                SendSome, SendFails, Respond, EndSession
      <4> QED
        BY <1>0, <4>1, <4>2, Zenon DEF EndsFollow
    <3> QED
      BY <2>1, <3>1, <3>2 DEF ServerNext
  <2>7. EndsFollow'
    <3>1. \A c \in Clients : c \in gone' <=> cPc'[c] = "ended"
      BY <1>0, <2>5, Zenon DEF EndsFollow
    <3> QED
      BY <2>6, <3>1, Zenon DEF EndsFollow
  <2> QED
    BY <2>2, <2>3, <2>4, <2>7 DEF IndInv
<1>2. CASE ClientStep
  <2>1. SumClientNext /\ UNCHANGED serverVars
    BY <1>2 DEF ClientStep
  <2>2. PICK c \in Clients : ClientActs(c)
    BY <2>1, Zenon DEF SumClientNext, ClientActs
  <2>3. WireTyped' /\ ClientsTyped' /\ OthersKeep(c)
    BY <1>0, <2>2, ClientTypes
  <2>4. ServerTyped' /\ sPc' = sPc /\ conn' = conn /\ line' = line /\ out' = out
    BY <1>0, <2>1 DEF ServerTyped, serverVars
  <2>5. ASSUME NEW d \in Clients PROVE Exchange(d)' /\ Printed(d)'
    <3>1. CASE d = c
      BY <2>1, <2>2, <2>3, <3>1, ClientExchange
    <3>2. CASE d # c
      <4>1. /\ req'[d] = req[d] /\ ans'[d] = ans[d] /\ cPc'[d] = cPc[d]
            /\ readBuf'[d] = readBuf[d] /\ got'[d] = got[d]
            /\ asked'[d] = asked[d] /\ sums'[d] = sums[d]
        BY <2>3, <3>2 DEF OthersKeep
      <4>2. Served(d)' <=> Served(d)
        BY <2>4 DEF Served
      <4> QED
        BY <2>4, <4>1, <4>2, NothingHappens
    <3> QED
      BY <3>1, <3>2
  <2>6. up' = up
    BY <2>2, Zenon DEF ClientActs, Connect, TypeInvalid, Proceed, ClientDies, Type, SendPart,
            FillBuffer, TakeByte, AnswerCut, AnswerFails, Leave, wireVars
  <2>7. \/ gone' = gone /\ cPc'[c] # "ended" /\ cPc[c] # "ended"
        \/ gone' = gone \cup {c} /\ cPc'[c] = "ended"
    <3>1. CASE Leave(c)
      BY <1>0, <3>1 DEF Leave, ClientsTyped
    <3>2. CASE Connect(c)
      BY <1>0, <3>2 DEF Connect, ClientsTyped
    <3>3. CASE FillBuffer(c) \/ TakeByte(c) \/ AnswerCut(c) \/ \E t \in Typed : Type(c, t)
      BY <1>0, <3>3 DEF FillBuffer, TakeByte, AnswerCut, Type, Report, ClientsTyped, wireVars,
                        NoMoreBytes
    <3> QED
      BY <2>2, <3>1, <3>2, <3>3, Zenon DEF ClientActs, Proceed, TypeInvalid, SendPart,
            AnswerFails, ClientDies
  <2>8. \A d \in Clients : d \in gone' <=> cPc'[d] = "ended"
    <3>1. \A d \in Clients : d # c => cPc'[d] = cPc[d]
      BY <2>3 DEF OthersKeep
    <3>2. \A d \in Clients : d \in gone <=> cPc[d] = "ended"
      BY <1>0, Zenon DEF EndsFollow
    <3> QED
      BY <2>7, <3>1, <3>2
  <2>9. EndsFollow'
    <3>1. (up <=> Running) /\ (Running' <=> Running)
      BY <1>0, <2>4 DEF EndsFollow, Running
    <3> QED
      BY <2>6, <2>8, <3>1, Zenon DEF EndsFollow
  <2> QED
    BY <2>3, <2>4, <2>5, <2>9 DEF IndInv
<1>3. CASE UNCHANGED vars
  <2>1. /\ queue' = queue /\ req' = req /\ ans' = ans /\ gone' = gone /\ up' = up
        /\ sPc' = sPc /\ conn' = conn /\ line' = line /\ out' = out /\ cPc' = cPc
        /\ readBuf' = readBuf /\ got' = got /\ asked' = asked /\ sums' = sums
    BY <1>3, Zenon DEF vars, wireVars, serverVars, sumClientVars
  <2>2. WireTyped' /\ ServerTyped' /\ ClientsTyped'
    BY <1>0, <2>1 DEF WireTyped, ServerTyped, ClientsTyped
  <2>3. EndsFollow'
    BY <1>0, <2>1, Zenon DEF EndsFollow, Running
  <2>4. \A d \in Clients : Exchange(d)' /\ Printed(d)'
    BY <2>1, NothingHappens DEF Served
  <2> QED
    BY <2>2, <2>3, <2>4 DEF IndInv
<1> QED
  BY <1>1, <1>2, <1>3 DEF Next, Terminated

LEMMA Invariance == Spec => []IndInv
BY InitInv, StepInv, PTL DEF Spec

-----------------------------------------------------------------------------
(* Results.                                                                *)

\* Server and clients keep to their types; a client has a line or bytes of one only
\* while it waits for an answer, and one request more than sums at most.
THEOREM TypeCorrect == Spec => []TypeOK
<1>1. IndInv => TypeOK
  <2> SUFFICES ASSUME IndInv PROVE TypeOK
    OBVIOUS
  <2>1. WireTyped /\ ServerTyped /\ ClientsTyped
    BY DEF IndInv
  <2>2. ServerTypeOK
    BY <2>1 DEF ServerTyped, ServerTypeOK, Operands
  <2>3. ASSUME NEW c \in Clients
        PROVE  /\ cPc[c] # "reading" => got[c] = <<>> /\ readBuf[c] = <<>>
               /\ \/ Len(sums[c]) = Len(asked[c]) - (IF cPc[c] = "reading" THEN 1 ELSE 0)
                  \/ cPc[c] = "ended"
               /\ Len(asked[c]) <= MaxSums
    <3>1. Exchange(c) /\ Len(asked[c]) <= MaxSums
      BY DEF IndInv, Printed
    <3>2. Len(sums[c]) \in Nat /\ Len(asked[c]) \in Nat
      BY <2>1, CountsTyped
    <3>3. CASE Idle(c)
      <4>1. cPc[c] # "reading" /\ Silent(c) /\ Len(asked[c]) = Len(sums[c])
        BY <3>3 DEF Idle
      <4>2. Len(sums[c]) = Len(asked[c]) - 0
        BY <3>2, <4>1, OneLess
      <4> QED
        BY <3>1, <4>1, <4>2 DEF Silent
    <3>4. CASE Waiting(c) \/ Replied(c)
      <4>1. cPc[c] = "reading" /\ Len(asked[c]) = Len(sums[c]) + 1
        BY <3>4 DEF Waiting, Replied
      <4>2. Len(sums[c]) = Len(asked[c]) - 1
        BY <3>2, <4>1, OneLess
      <4> QED
        BY <3>1, <4>1, <4>2
    <3>5. CASE Ended(c)
      BY <3>1, <3>5 DEF Ended
    <3> QED
      BY <3>1, <3>3, <3>4, <3>5 DEF Exchange
  <2>4. ClientTypeOK
    BY <2>1, <2>3 DEF ClientsTyped, ClientTypeOK
  <2> QED
    BY <2>2, <2>4 DEF TypeOK
<1> QED
  BY <1>1, Invariance, PTL

\* What a client prints next to "Sum:" is the answer to its own last request,
\* whole, unless the server has died, whatever pieces lines and answers come in.
THEOREM SumsAreRight == Spec => []SumsRight
<1>1. IndInv => SumsRight
  <2> SUFFICES ASSUME IndInv, NEW c \in Clients, NEW i \in DOMAIN sums[c]
               PROVE  LET whole == Text(Right(asked[c][i])) IN
                      \/ sums[c][i] = whole
                      \/ /\ ~up /\ i = Len(sums[c])
                         /\ sums[c][i] = SubSeq(whole, 1, 1)
    BY DEF SumsRight
  <2>1. sums[c] \in Seq(Seq(AnswerTokens)) /\ Printed(c)
    BY DEF IndInv, ClientsTyped
  <2>2. i \in 1 .. Len(sums[c])
    BY <2>1
  <2> DEFINE whole == Text(Right(asked[c][i]))
  <2>3. sums[c][i] = whole \/ (sums[c][i] = <<whole[1]>> /\ ~Running /\ i = Len(sums[c]))
    BY <2>1, <2>2 DEF Printed
  <2>4. SubSeq(whole, 1, 1) = <<whole[1]>>
    <3>1. whole \in Seq(AnswerTokens) /\ Len(whole) = 2
      <4>1. i \in 1 .. Len(asked[c]) /\ asked[c] \in Seq(Pairs)
        <5>1. Len(sums[c]) <= Len(asked[c]) /\ asked[c] \in Seq(Pairs)
          BY <2>1 DEF Printed, IndInv, ClientsTyped
        <5>2. Len(sums[c]) \in Nat /\ Len(asked[c]) \in Nat
          BY <2>1, <5>1
        <5> QED
          BY <2>2, <5>1, <5>2
      <4> DEFINE a == Right(asked[c][i])
      <4>2. a \in Answers
        BY <4>1, RightTyped
      <4> HIDE DEF a
      <4>3. Text(a) \in Seq(AnswerTokens) /\ Len(Text(a)) = 2
        BY <4>2, ReplyWords
      <4> QED
        BY <4>3 DEF a
    <3> HIDE DEF whole
    <3> QED
      BY <3>1, FirstWord
  <2>5. up <=> Running
    BY DEF IndInv, EndsFollow
  <2> HIDE DEF whole
  <2> QED
    BY <2>3, <2>4, <2>5 DEF whole
<1> QED
  BY <1>1, Invariance, PTL
=============================================================================
