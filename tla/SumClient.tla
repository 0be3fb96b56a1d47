----------------------------- MODULE SumClient -----------------------------
(***************************************************************************)
(* The clients of the sum server,                                          *)
(* src/Libraries/LAB (MOD)/LAB1/es1.3/client/client.c: two numbers are     *)
(* typed, sent as a line, and the answer is read by Readline(), which      *)
(* fills a buffer of its own (my_read() of sockwrap.c).                    *)
(***************************************************************************)
EXTENDS SumChannel

CONSTANTS
    Typed,    \* the pairs of numbers that a user may type
    MaxSums   \* bound: sums asked for by one client

ASSUME TypedAssumption == Typed \subseteq Nat \X Nat /\ MaxSums \in Nat

VARIABLES
    cPc,      \* each client: "away", "typing", "reading" or "ended"
    readBuf,  \* my_read()'s buffer, without what has been taken out
    got,      \* the line read so far
    asked,    \* history: the operands sent
    sums      \* history: the lines printed as a sum

sumClientVars == <<cPc, readBuf, got, asked, sums>>

ClientTypeOK ==
    /\ cPc \in [Clients -> {"away", "typing", "reading", "ended"}]
    /\ \A c \in Clients :
          /\ cPc[c] # "reading" => got[c] = <<>> /\ readBuf[c] = <<>>
          /\ Len(sums[c]) = Len(asked[c]) - (IF cPc[c] = "reading" THEN 1 ELSE 0)
                \/ cPc[c] = "ended"
          /\ Len(asked[c]) <= MaxSums

SumClientInit ==
    /\ cPc = [c \in Clients |-> "away"]
    /\ readBuf = [c \in Clients |-> <<>>]
    /\ got = [c \in Clients |-> <<>>]
    /\ asked = [c \in Clients |-> <<>>]
    /\ sums = [c \in Clients |-> <<>>]

-----------------------------------------------------------------------------
Connect(c) ==
    /\ cPc[c] = "away"
    /\ IF up
       THEN cPc' = [cPc EXCEPT ![c] = "typing"] /\ queue' = Append(queue, c)
            /\ UNCHANGED gone
       ELSE cPc' = [cPc EXCEPT ![c] = "ended"] /\ gone' = gone \cup {c}
            /\ UNCHANGED queue
    /\ UNCHANGED <<req, ans, up, readBuf, got, asked, sums>>

\* What the server does not take is lost.
Send(c, bytes) == req' = IF up THEN [req EXCEPT ![c] = @ \o bytes] ELSE req

\* protocol() returns or the program is ended.
Leave(c) ==
    /\ cPc' = [cPc EXCEPT ![c] = "ended"]
    /\ gone' = gone \cup {c}
    /\ readBuf' = [readBuf EXCEPT ![c] = <<>>]
    /\ got' = [got EXCEPT ![c] = <<>>]
    /\ UNCHANGED <<queue, ans, up>>

\* "%hu" keeps the low bits of what is typed.
RequestLine(t) == <<Operand(t[1] % Width), Operand(t[2] % Width), Newline>>

Type(c, t) ==
    /\ cPc[c] = "typing"
    /\ Len(asked[c]) < MaxSums
    /\ Send(c, RequestLine(t))
    /\ asked' = [asked EXCEPT ![c] = Append(@, <<t[1] % Width, t[2] % Width>>)]
    /\ cPc' = [cPc EXCEPT ![c] = "reading"]
    /\ UNCHANGED <<queue, ans, gone, up, readBuf, got, sums>>

\* send() takes a part of the line: the program ends.
SendPart(c, t) ==
    /\ cPc[c] = "typing"
    /\ Len(asked[c]) < MaxSums
    /\ \E n \in 0 .. 2 : Send(c, SubSeq(RequestLine(t), 1, n))
    /\ Leave(c)
    /\ UNCHANGED <<asked, sums>>

\* Anything but two numbers, or the end of the input.
TypeInvalid(c) ==
    /\ cPc[c] = "typing"
    /\ Leave(c)
    /\ UNCHANGED <<req, asked, sums>>

\* my_read() with an empty buffer: whatever part of the answer has come.
FillBuffer(c) ==
    /\ cPc[c] = "reading"
    /\ readBuf[c] = <<>>
    /\ \E n \in 1 .. Len(ans[c]) :
          /\ readBuf' = [readBuf EXCEPT ![c] = SubSeq(ans[c], 1, n)]
          /\ ans' = [ans EXCEPT ![c] = SubSeq(@, n + 1, Len(@))]
    /\ UNCHANGED <<queue, req, gone, up, cPc, got, asked, sums>>

Report(c) ==
    /\ sums' = [sums EXCEPT ![c] = Append(@, got[c])]
    /\ got' = [got EXCEPT ![c] = <<>>]
    /\ cPc' = [cPc EXCEPT ![c] = "typing"]

\* readline() takes the next byte out of the buffer.
TakeByte(c) ==
    /\ cPc[c] = "reading"
    /\ readBuf[c] # <<>>
    /\ readBuf' = [readBuf EXCEPT ![c] = Tail(@)]
    /\ IF Head(readBuf[c]) = Newline THEN Report(c)
       ELSE /\ got' = [got EXCEPT ![c] = Append(@, Head(readBuf[c]))]
            /\ UNCHANGED <<cPc, sums>>
    /\ UNCHANGED <<wireVars, asked>>

NoMoreBytes(c) ==
    /\ cPc[c] = "reading"
    /\ readBuf[c] = <<>> /\ ans[c] = <<>>
    /\ ~up

\* The end of the stream in the middle of a line counts as the end of the line.
AnswerCut(c) ==
    /\ NoMoreBytes(c)
    /\ got[c] # <<>>
    /\ Report(c)
    /\ UNCHANGED <<wireVars, readBuf, asked>>

\* The end of the stream before a line, or an error, which ends the program.
AnswerFails(c) ==
    /\ NoMoreBytes(c)
    /\ Leave(c)
    /\ UNCHANGED <<req, asked, sums>>

\* What a client does without its user.
Proceed(c) == FillBuffer(c) \/ TakeByte(c) \/ AnswerCut(c) \/ AnswerFails(c)

ClientDies(c) ==
    /\ cPc[c] \in {"typing", "reading"}
    /\ Leave(c)
    /\ UNCHANGED <<req, asked, sums>>

SumClientNext ==
    \E c \in Clients :
        \/ Connect(c) \/ TypeInvalid(c) \/ Proceed(c) \/ ClientDies(c)
        \/ \E t \in Typed : Type(c, t) \/ SendPart(c, t)
=============================================================================
