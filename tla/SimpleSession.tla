--------------------------- MODULE SimpleSession ---------------------------
(***************************************************************************)
(* One session: ftp_sender() in the server's child and the one-shot client *)
(* at the two ends of a connection.                                        *)
(***************************************************************************)
EXTENDS FtpSender, SimpleClient

vars == <<channelVars, serverVars, receiverVars>>

Init == ChannelInit /\ ServerInit /\ ReceiverInit

Terminated ==
    /\ rPc = "ended" /\ sPc = "ended"
    /\ UNCHANGED vars

ServerStep == ServerNext /\ UNCHANGED receiverVars
ClientStep == ReceiverNext /\ UNCHANGED serverVars

Next == ServerStep \/ ClientStep \/ Terminated

\* Both processes are scheduled; the user need not type a command.
Fairness ==
    /\ WF_vars(ServerRuns /\ UNCHANGED receiverVars)
    /\ WF_vars(ClientStep /\ rPc # "keyboard")

Spec == Init /\ [][Next]_vars /\ Fairness

-----------------------------------------------------------------------------
(* Properties.                                                             *)

TypeOK == ServerTypeOK /\ ReceiverTypeOK

\* A copy that is reported as received (ftp.c:111) is the file as long as the
\* server announced it, byte for byte, though the file may grow meanwhile.
CopyWhole ==
    rRet = "0" /\ rSaved =>
        rGot = [i \in 1 .. sPos |-> Byte(rFile, i)] /\ sLeft = 0

\* Once the file's transfer has begun it ends, though the client waits for
\* bytes without a timeout: the server sends as many as it announced.
TransferEnds == rPc \in {"header", "data"} ~> rPc = "ended"

\* A client that has given up, at the timeout or for any error, does not hold
\* its child: an answer that comes too late ends in a closed connection.
ServerEnds == rPc = "ended" ~> sPc = "ended"
=============================================================================
