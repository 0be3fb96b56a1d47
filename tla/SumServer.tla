----------------------------- MODULE SumServer -----------------------------
(***************************************************************************)
(* The sequential sum server with protocol -a,                             *)
(* src/Libraries/LAB (MOD)/LAB1/es1.1/server_test.c (es1.3/server is the   *)
(* same file): accept, then prot_a() until the client has gone.  Lines are *)
(* read by readline_unbuffered(), sums sent by sendn(), of sockwrap.c.     *)
(***************************************************************************)
EXTENDS SumChannel

VARIABLES
    sPc,    \* "accept", "line", "send" or "exited"
    conn,   \* the client being served, or served last
    line,   \* what readline_unbuffered() has read
    out     \* what is still to be sent

serverVars == <<sPc, conn, line, out>>

ServerTypeOK ==
    /\ sPc \in {"accept", "line", "send", "exited"}
    /\ conn \in Clients
    /\ \A i \in DOMAIN line : line[i] \in {Operand(n) : n \in 0 .. Width - 1}
    /\ sPc = "send" <=> out # <<>>
    /\ sPc # "line" => line = <<>>

ServerInit ==
    /\ sPc = "accept"
    /\ conn = CHOOSE c \in Clients : TRUE
    /\ line = <<>>
    /\ out = <<>>

-----------------------------------------------------------------------------
\* accept(); a transient error is tried again.
AcceptClient ==
    /\ sPc = "accept"
    /\ queue # <<>>
    /\ conn' = Head(queue)
    /\ queue' = Tail(queue)
    /\ sPc' = "line"
    /\ UNCHANGED <<req, ans, gone, up, line, out>>

\* accept() fails for good, or a signal kills the server.
Exit ==
    /\ sPc # "exited"
    /\ sPc' = "exited"
    /\ up' = FALSE
    /\ line' = <<>>
    /\ out' = <<>>
    /\ UNCHANGED <<queue, req, ans, gone, conn>>

\* Mutant of Answer: res has 16 bits.
AnswerWraps(l) ==
    IF Len(l) < 2 THEN WrongOperands
    ELSE LET res == (l[1][2] + l[2][2]) % Width IN
         IF res > Width - 1 THEN Overflow ELSE Sum(res)

\* What is read with "%hu %hu" and added up.
Answer(l) ==
    IF Len(l) < 2 THEN WrongOperands
    ELSE LET res == l[1][2] + l[2][2] IN
         IF res > Width - 1 THEN Overflow ELSE Sum(res)

Respond(l) ==
    /\ out' = Append(Text(Answer(l)), Newline)
    /\ line' = <<>>
    /\ sPc' = "send"
    /\ UNCHANGED <<queue, ans, gone, up, conn>>

\* Mutant of EndSession: what has been read of a line is kept.
EndSessionKeepsLine ==
    /\ sPc' = "accept"
    /\ req' = [req EXCEPT ![conn] = <<>>]
    /\ UNCHANGED <<queue, ans, gone, up, conn, line, out>>

\* prot_a() returns and the connection is closed.
EndSession ==
    /\ sPc' = "accept"
    /\ line' = <<>>
    /\ req' = [req EXCEPT ![conn] = <<>>]
    /\ UNCHANGED <<queue, ans, gone, up, conn, out>>

\* One byte at a time.
ReadByte ==
    /\ sPc = "line"
    /\ req[conn] # <<>>
    /\ req' = [req EXCEPT ![conn] = Tail(@)]
    /\ IF Head(req[conn]) = Newline THEN Respond(line)
       ELSE /\ line' = Append(line, Head(req[conn]))
            /\ UNCHANGED <<queue, ans, gone, up, sPc, conn, out>>

\* Mutant of LineEof: the end of the stream is an empty line.
LineEofAnswers ==
    /\ sPc = "line"
    /\ req[conn] = <<>> /\ conn \in gone
    /\ Respond(line) /\ UNCHANGED req

\* The end of the stream ends the session, or the line that it cuts off.
LineEof ==
    /\ sPc = "line"
    /\ req[conn] = <<>> /\ conn \in gone
    /\ IF line = <<>> THEN EndSession ELSE Respond(line) /\ UNCHANGED req

\* recv() fails: a client that closes before it reads its answer resets the
\* connection.
LineFails ==
    /\ sPc = "line"
    /\ conn \in gone
    /\ EndSession

\* Mutant of SendSome: send() in the place of sendn().
SendOnce ==
    /\ sPc = "send"
    /\ \E n \in 1 .. Len(out) :
          ans' = [ans EXCEPT ![conn] = @ \o SubSeq(out, 1, n)]
    /\ out' = <<>>
    /\ sPc' = "line"
    /\ UNCHANGED <<queue, req, gone, up, conn, line>>

MSG_ERR == Append(Text(WrongOperands), Newline)

\* One send(): some of the answer.  sendn() goes on with the rest; MSG_ERR is sent
\* without it, and what send() does not take of it is left out.
SendSome ==
    /\ sPc = "send"
    /\ \E n \in 1 .. Len(out) :
          /\ ans' = [ans EXCEPT ![conn] = @ \o SubSeq(out, 1, n)]
          /\ out' = IF out = MSG_ERR THEN <<>> ELSE SubSeq(out, n + 1, Len(out))
    /\ sPc' = IF out' = <<>> THEN "line" ELSE "send"
    /\ UNCHANGED <<queue, req, gone, up, conn, line>>

\* The sending fails, without SIGPIPE: the loop goes on.
SendFails ==
    /\ sPc = "send"
    /\ conn \in gone
    /\ out' = <<>>
    /\ sPc' = "line"
    /\ UNCHANGED <<wireVars, conn, line>>

ServerRuns == AcceptClient \/ ReadByte \/ LineEof \/ LineFails \/ SendSome \/ SendFails
ServerNext == ServerRuns \/ Exit
=============================================================================
