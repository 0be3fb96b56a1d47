----------------------------- MODULE SumChannel -----------------------------
(***************************************************************************)
(* The connections between the sum server and its clients: one stream in   *)
(* each direction, and the queue of those that are not accepted yet.  It   *)
(* belongs to the kernel and is modelled from the use made of it.          *)
(***************************************************************************)
EXTENDS Integers, Sequences

CONSTANTS
    Clients,   \* the runs of the client program
    Width      \* the values of a uint16_t, 2^16

ASSUME ClientsAssumption == Clients # {}
ASSUME WidthAssumption == Width \in Nat \ {0}

VARIABLES
    queue,   \* connections waiting for accept()
    req,     \* req[c]: bytes from client c to the server
    ans,     \* ans[c]: bytes from the server to client c
    gone,    \* the clients whose end is closed
    up       \* does the server's process live?

wireVars == <<queue, req, ans, gone, up>>

\* A line is its words and a newline.
Newline == <<"newline">>
Operand(n) == <<"operand", n>>

\* The texts of an answer.  Half of one can be told from the whole.
Sum(n) == <<"sum", n>>
Overflow == <<"overflow">>
WrongOperands == <<"wrong operands">>
Text(a) == <<<<a, 1>>, <<a, 2>>>>

ChannelInit ==
    /\ queue = <<>>
    /\ req = [c \in Clients |-> <<>>]
    /\ ans = [c \in Clients |-> <<>>]
    /\ gone = {}
    /\ up = TRUE
=============================================================================
