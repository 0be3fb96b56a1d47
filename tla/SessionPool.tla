---------------------------- MODULE SessionPool ----------------------------
(***************************************************************************)
(* What a forking server promises about sessions, with no child counter,   *)
(* no signals and no process table: connections wait in a bounded backlog  *)
(* and at most MaxChildren of them are being served at any time.           *)
(***************************************************************************)
EXTENDS Naturals, FiniteSets

CONSTANTS
    Pids,          \* the processes that may serve a session
    MaxChildren,   \* sessions served at the same time
    MaxWaiting     \* connections that may wait to be served

VARIABLES
    waiting,   \* number of connections not yet handed to a process
    serving,   \* the processes that are serving a session
    up         \* is the server there?

vars == <<waiting, serving, up>>

Init ==
    /\ waiting = 0
    /\ serving = {}
    /\ up = TRUE

Arrive ==
    /\ up
    /\ waiting < MaxWaiting
    /\ waiting' = waiting + 1
    /\ UNCHANGED <<serving, up>>

Start(p) ==
    /\ up
    /\ waiting > 0
    /\ p \notin serving
    /\ Cardinality(serving) < MaxChildren
    /\ waiting' = waiting - 1
    /\ serving' = serving \cup {p}
    /\ UNCHANGED up

Finish(p) ==
    /\ p \in serving
    /\ serving' = serving \ {p}
    /\ UNCHANGED <<waiting, up>>

\* The server stops: who still waits is refused, who is served goes on.
Fail ==
    /\ up
    /\ up' = FALSE
    /\ waiting' = 0
    /\ UNCHANGED serving

Next ==
    \/ Arrive
    \/ Fail
    \/ \E p \in Pids : Start(p) \/ Finish(p)

Spec == Init /\ [][Next]_vars
=============================================================================
