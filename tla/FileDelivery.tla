---------------------------- MODULE FileDelivery ----------------------------
(***************************************************************************)
(* What a user expects of a file-transfer session: every request is        *)
(* answered once, in the order of the requests, by the whole file or by an *)
(* error; by an error, too, once the service is down.  No connection, no   *)
(* commands and no bytes in flight.                                        *)
(***************************************************************************)
EXTENDS Naturals, Sequences

CONSTANTS
    Files,       \* the names a user may ask for
    Answer(_, _),   \* Answer(fs, n): the right results for request n of fs
    Refusal,     \* the result that says that there is no service
    MaxRequests  \* bound: requests in a session

VARIABLES
    asked,     \* the requests
    results,   \* the answers
    down,      \* is there no service any more?
    over       \* has the user left?

vars == <<asked, results, down, over>>

Init ==
    /\ asked = <<>>
    /\ results = <<>>
    /\ down = FALSE
    /\ over = FALSE

Ask(f) ==
    /\ ~over
    /\ Len(asked) < MaxRequests
    /\ asked' = Append(asked, f)
    /\ UNCHANGED <<results, down, over>>

Deliver ==
    /\ ~over
    /\ Len(results) < Len(asked)
    /\ \/ \E result \in Answer(asked, Len(results) + 1) :
             results' = Append(results, result)
       \/ down /\ results' = Append(results, Refusal)
    /\ UNCHANGED <<asked, down, over>>

GoDown ==
    /\ ~down
    /\ down' = TRUE
    /\ UNCHANGED <<asked, results, over>>

Finish ==
    /\ ~over
    /\ over' = TRUE
    /\ UNCHANGED <<asked, results, down>>

Next ==
    \/ \E f \in Files : Ask(f)
    \/ Deliver
    \/ GoDown
    \/ Finish

Spec == Init /\ [][Next]_vars
=============================================================================
