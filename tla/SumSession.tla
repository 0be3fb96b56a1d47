----------------------------- MODULE SumSession -----------------------------
(***************************************************************************)
(* The sequential sum server and its clients.                              *)
(***************************************************************************)
EXTENDS SumServer, SumClient

vars == <<wireVars, serverVars, sumClientVars>>

Init == ChannelInit /\ ServerInit /\ SumClientInit

Terminated ==
    /\ gone = Clients
    /\ sPc = "exited" \/ (sPc = "accept" /\ queue = <<>>)
    /\ UNCHANGED vars

ServerStep == ServerNext /\ UNCHANGED sumClientVars
ClientStep == SumClientNext /\ UNCHANGED serverVars

Next == ServerStep \/ ClientStep \/ Terminated

\* Every process is scheduled, and every user is done some day: there is one
\* server, and a client that stays keeps it.
Fairness ==
    /\ WF_vars(ServerRuns /\ UNCHANGED sumClientVars)
    /\ \A c \in Clients : WF_vars((Proceed(c) \/ TypeInvalid(c)) /\ UNCHANGED serverVars)

Spec == Init /\ [][Next]_vars /\ Fairness

-----------------------------------------------------------------------------
(* Properties.                                                             *)

TypeOK == ServerTypeOK /\ ClientTypeOK

\* What the operands of a request, once they are cut to 16 bits, add up to.
Right(ops) == IF ops[1] + ops[2] < Width THEN Sum(ops[1] + ops[2]) ELSE Overflow

\* Whatever pieces lines and answers come in (sockwrap.c:463-554), what a client
\* prints next to "Sum:" (client.c:170) is the answer to its own last request,
\* whole, unless the server died: then the last one may lack its end.
SumsRight ==
    \A c \in Clients : \A i \in DOMAIN sums[c] :
        LET whole == Text(Right(asked[c][i])) IN
        sums[c][i] = whole \/ (~up /\ i = Len(sums[c]) /\ sums[c][i] = SubSeq(whole, 1, 1))

\* A client that is gone does not keep the server (server_test.c:56-63), neither
\* in the middle of a line nor of an answer: the next one is accepted.
EveryoneServed ==
    \A c \in Clients :
        (\E i \in DOMAIN queue : queue[i] = c) ~> (\A i \in DOMAIN queue : queue[i] # c) \/ ~up

\* The client waits without a timeout (client.c:159), but not for ever: its
\* request is answered, or the server's end ends it too.
SumAnswered == \A c \in Clients : cPc[c] = "reading" ~> cPc[c] # "reading"
=============================================================================
