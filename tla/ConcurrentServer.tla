-------------------------- MODULE ConcurrentServer --------------------------
(***************************************************************************)
(* The fork-per-connection TCP server,                                     *)
(* src/Libraries/00-SERVER_TCP_concorrente/server.c: the parent's accept   *)
(* loop, its SIGCHLD handler, the kernel's part of both (process table,    *)
(* signal pending bit, listen backlog) and the Accept and Fork wrappers    *)
(* of sockwrap.c.                                                          *)
(*                                                                         *)
(* A child is only known by the state the process table shows.  What it    *)
(* does (ftp_sender) is a session of its own and is not visible here.      *)
(***************************************************************************)
EXTENDS Integers, FiniteSets

CONSTANTS
    Pids,        \* process ids the kernel may give to a child
    MaxChildren, \* MAX_CHILDREN
    ListenQ,     \* LISTENQ, the most connections the kernel keeps waiting
    Patient      \* children whose client may keep the session open forever

ASSUME PidsAssumption == IsFiniteSet(Pids) /\ Patient \subseteq Pids
ASSUME MaxChildrenAssumption == MaxChildren \in Nat \ {0}
ASSUME ListenQAssumption == ListenQ \in Nat

VARIABLES
    pc,         \* the parent's next step
    nChildren,  \* the global n_children
    reg,        \* n_children as the increment has loaded it
    lost,       \* history: decrements that an increment has overwritten
    masked,     \* is SIGCHLD blocked by sigprocmask?
    pending,    \* is a SIGCHLD pending for the parent?
    handler,    \* is sig_chld running on top of the parent's step?
    errno,      \* the parent's errno
    backlog,    \* connections completed by the kernel and not yet accepted
    child       \* the process table

vars == <<pc, nChildren, reg, lost, masked, pending, handler, errno, backlog, child>>

PC == {"mask", "test", "wait", "unmask", "accept", "interrupted",
       "acceptChk", "fork", "inc", "store", "exited"}

Running  == {p \in Pids : child[p] = "running"}
Zombies  == {p \in Pids : child[p] = "zombie"}
Unreaped == Running \cup Zombies

TypeOK ==
    /\ pc \in PC
    /\ nChildren \in -1 .. MaxChildren
    /\ reg \in -1 .. MaxChildren
    /\ lost \in 0 .. MaxChildren
    /\ masked \in BOOLEAN
    /\ pending \in BOOLEAN
    /\ handler \in BOOLEAN
    /\ errno \in {"none", "EINTR", "ECHILD", "TRANSIENT", "FATAL"}
    /\ backlog \in 0 .. ListenQ
    /\ child \in [Pids -> {"free", "running", "zombie"}]

-----------------------------------------------------------------------------
\* The server is listening and sigaction() has installed sig_chld.
Init ==
    /\ pc = "mask"
    /\ nChildren = 0
    /\ reg = 0
    /\ lost = 0
    /\ masked = FALSE
    /\ pending = FALSE
    /\ handler = FALSE
    /\ errno = "none"
    /\ backlog = 0
    /\ child = [p \in Pids |-> "free"]

\* The parent's own code runs only while the handler does not.
At(label) == pc = label /\ ~handler

\* exit() of the parent: the backlog is refused and init adopts the children.
Exit ==
    /\ pc' = "exited"
    /\ backlog' = 0
    /\ pending' = FALSE
    /\ child' = [p \in Pids |-> IF child[p] = "running" THEN "running" ELSE "free"]

-----------------------------------------------------------------------------
(* The accept loop of main().                                              *)

\* Mutant of Mask: SIGCHLD is left enabled around the test and the wait.
MaskForgotten ==
    /\ At("mask")
    /\ pc' = "test"
    /\ UNCHANGED <<nChildren, reg, lost, masked, pending, handler, errno, backlog, child>>

Mask ==
    /\ At("mask")
    /\ masked' = TRUE
    /\ pc' = "test"
    /\ UNCHANGED <<nChildren, reg, lost, pending, handler, errno, backlog, child>>

\* Mutants of Test: the limit is taken one child too late, or too early.
TestLate ==
    /\ At("test")
    /\ pc' = IF nChildren > MaxChildren THEN "wait" ELSE "unmask"
    /\ UNCHANGED <<nChildren, reg, lost, masked, pending, handler, errno, backlog, child>>

TestEarly ==
    /\ At("test")
    /\ pc' = IF nChildren >= MaxChildren - 1 THEN "wait" ELSE "unmask"
    /\ UNCHANGED <<nChildren, reg, lost, masked, pending, handler, errno, backlog, child>>

Test ==
    /\ At("test")
    /\ pc' = IF nChildren = MaxChildren THEN "wait" ELSE "unmask"
    /\ UNCHANGED <<nChildren, reg, lost, masked, pending, handler, errno, backlog, child>>

\* Mutant of WaitReaps: the child waited for here is not subtracted.
WaitReapsUncounted ==
    /\ At("wait")
    /\ \E p \in Zombies : child' = [child EXCEPT ![p] = "free"]
    /\ pc' = "unmask"
    /\ UNCHANGED <<nChildren, reg, lost, masked, pending, handler, errno, backlog>>

\* waitpid(-1, &status, 0): it reaps a zombie, blocks while every child runs,
\* and fails at once when there is none.  n_children-- follows in any case; the
\* decrement for a child that is not there makes up for one that was lost.
WaitReaps ==
    /\ At("wait")
    /\ \E p \in Zombies : child' = [child EXCEPT ![p] = "free"]
    /\ nChildren' = nChildren - 1
    /\ pc' = "unmask"
    /\ UNCHANGED <<reg, lost, masked, pending, handler, errno, backlog>>

WaitFails ==
    /\ At("wait")
    /\ Unreaped = {}
    /\ errno' = "ECHILD"
    /\ nChildren' = nChildren - 1
    /\ lost' = lost - 1
    /\ pc' = "unmask"
    /\ UNCHANGED <<reg, masked, pending, handler, backlog, child>>

\* Mutant of Unmask: SIGCHLD stays blocked.
UnmaskForgotten ==
    /\ At("unmask")
    /\ pc' = "accept"
    /\ UNCHANGED <<nChildren, reg, lost, masked, pending, handler, errno, backlog, child>>

\* sigprocmask(SIG_UNBLOCK) delivers a pending SIGCHLD before it returns.
Unmask ==
    /\ At("unmask")
    /\ masked' = FALSE
    /\ handler' = pending
    /\ pending' = FALSE
    /\ pc' = "accept"
    /\ UNCHANGED <<nChildren, reg, lost, errno, backlog, child>>

AcceptOk ==
    /\ At("accept")
    /\ backlog > 0
    /\ backlog' = backlog - 1
    /\ pc' = "fork"
    /\ UNCHANGED <<nChildren, reg, lost, masked, pending, handler, errno, child>>

\* An error that Accept tries again after (EPROTO, ECONNABORTED, EMFILE, ENFILE,
\* ENOBUFS, ENOMEM), or any other.
AcceptFails ==
    /\ At("accept")
    /\ errno' \in {"TRANSIENT", "FATAL"}
    /\ pc' = "acceptChk"
    /\ UNCHANGED <<nChildren, reg, lost, masked, pending, handler, backlog, child>>

\* Back from the handler that broke accept(): the C library sets errno.
AcceptInterrupted ==
    /\ At("interrupted")
    /\ errno' = "EINTR"
    /\ pc' = "acceptChk"
    /\ UNCHANGED <<nChildren, reg, lost, masked, pending, handler, backlog, child>>

AcceptAgain ==
    /\ At("acceptChk")
    /\ errno \in {"EINTR", "TRANSIENT"}
    /\ pc' = "accept"
    /\ UNCHANGED <<nChildren, reg, lost, masked, pending, handler, errno, backlog, child>>

AcceptDies ==
    /\ At("acceptChk")
    /\ errno \notin {"EINTR", "TRANSIENT"}
    /\ Exit
    /\ UNCHANGED <<nChildren, reg, lost, masked, handler, errno>>

ForkOk ==
    /\ At("fork")
    /\ \E p \in Pids :
          /\ child[p] = "free"
          /\ child' = [child EXCEPT ![p] = "running"]
    /\ pc' = "inc"
    /\ UNCHANGED <<nChildren, reg, lost, masked, pending, handler, errno, backlog>>

ForkDies ==
    /\ At("fork")
    /\ Exit
    /\ UNCHANGED <<nChildren, reg, lost, masked, handler, errno>>

\* n_children++ with SIGCHLD enabled.  The documented build does not optimise
\* (00-compile.txt): a load, here, and a store.
Inc ==
    /\ At("inc")
    /\ reg' = nChildren
    /\ pc' = "store"
    /\ UNCHANGED <<nChildren, lost, masked, pending, handler, errno, backlog, child>>

Store ==
    /\ At("store")
    /\ nChildren' = reg + 1
    /\ pc' = "mask"
    /\ UNCHANGED <<reg, lost, masked, pending, handler, errno, backlog, child>>

Parent ==
    \/ Mask \/ Test \/ WaitReaps \/ WaitFails \/ Unmask
    \/ AcceptOk \/ AcceptFails \/ AcceptInterrupted \/ AcceptAgain \/ AcceptDies
    \/ ForkOk \/ ForkDies \/ Inc \/ Store

-----------------------------------------------------------------------------
(* sig_chld.  SIGCHLD is blocked while it runs, so it never nests.         *)

\* Delivery.  It breaks an accept() that waits for a connection (the action
\* has no SA_RESTART); elsewhere the interrupted step is simply resumed.
HandlerStart ==
    /\ pending /\ ~masked /\ ~handler
    /\ pc # "exited"
    /\ pending' = FALSE
    /\ handler' = TRUE
    /\ \/ pc' = pc
       \/ pc = "accept" /\ backlog = 0 /\ pc' = "interrupted"
    /\ UNCHANGED <<nChildren, reg, lost, masked, errno, backlog, child>>

\* Mutant of HandlerReaps: one waitpid() for each signal.
HandlerReapsOnce ==
    /\ handler
    /\ \E p \in Zombies : child' = [child EXCEPT ![p] = "free"]
    /\ nChildren' = nChildren - 1
    /\ handler' = FALSE
    /\ UNCHANGED <<pc, reg, lost, masked, pending, errno, backlog>>

\* The decrement is lost if the interrupted step is about to store n_children.
HandlerReaps ==
    /\ handler
    /\ \E p \in Zombies : child' = [child EXCEPT ![p] = "free"]
    /\ nChildren' = nChildren - 1
    /\ lost' = IF pc = "store" THEN lost + 1 ELSE lost
    /\ UNCHANGED <<pc, reg, masked, pending, handler, errno, backlog>>

\* Mutant of HandlerReturns: the waitpid() that ends the loop is counted too.
HandlerReturnsCounting ==
    /\ handler
    /\ Zombies = {}
    /\ nChildren' = nChildren - 1
    /\ handler' = FALSE
    /\ UNCHANGED <<pc, reg, lost, masked, pending, errno, backlog, child>>

\* waitpid(.., WNOHANG) is 0 when all children run, -1 when there is none.
HandlerReturns ==
    /\ handler
    /\ Zombies = {}
    /\ errno' = IF Running = {} THEN "ECHILD" ELSE errno
    /\ handler' = FALSE
    /\ UNCHANGED <<pc, nChildren, reg, lost, masked, pending, backlog, child>>

SigChld == HandlerStart \/ HandlerReaps \/ HandlerReturns

-----------------------------------------------------------------------------
(* The kernel and the clients.                                             *)

Connect ==
    /\ pc # "exited"
    /\ backlog < ListenQ
    /\ backlog' = backlog + 1
    /\ UNCHANGED <<pc, nChildren, reg, lost, masked, pending, handler, errno, child>>

ChildExits(p) ==
    /\ child[p] = "running"
    /\ child' = [child EXCEPT ![p] = IF pc = "exited" THEN "free" ELSE "zombie"]
    /\ pending' = (pending \/ pc # "exited")
    /\ UNCHANGED <<pc, nChildren, reg, lost, masked, handler, errno, backlog>>

\* The parent is gone and every orphan has ended.
Stopped ==
    /\ pc = "exited"
    /\ Running = {}
    /\ UNCHANGED vars

Next ==
    \/ Parent
    \/ SigChld
    \/ Connect
    \/ \E p \in Pids : ChildExits(p)
    \/ Stopped

(***************************************************************************)
(* The kernel schedules the parent and its handler.  A transient error of  *)
(* accept() does not come for ever, so AcceptOk is strongly fair.  A child *)
(* ends when its client does, which the code cannot enforce: it is assumed *)
(* of all children except Patient.                                         *)
(***************************************************************************)
Fairness ==
    /\ WF_vars(Parent /\ ~AcceptFails)
    /\ WF_vars(SigChld)
    /\ SF_vars(AcceptOk)
    /\ \A p \in Pids \ Patient : WF_vars(ChildExits(p))

Spec == Init /\ [][Next]_vars /\ Fairness

-----------------------------------------------------------------------------
(* Properties.                                                             *)

\* A child that has been forked and not been counted yet.
Uncounted == IF pc \in {"inc", "store"} THEN 1 ELSE 0

\* n_children never falls below the number of children still to be waited
\* for (server.c:44), whatever the handler does between two steps of main().
CountCovers == Cardinality(Unreaped) <= nChildren + Uncounted

\* No more than MAX_CHILDREN children serve a client at the same time: the
\* equality test of server.c:144 is never stepped over.
ChildrenBounded ==
    /\ Cardinality(Running) <= MaxChildren
    /\ pc = "fork" => nChildren < MaxChildren

\* n_children is the number of children still to be waited for (server.c:44) and
\* of the decrements that an interrupted n_children++ overwrote (server.c:226), less
\* those that a waitpid() without children made up for (server.c:167): nothing
\* else makes the counter drift, and it never drifts below.
CountExact ==
    pc # "exited" =>
        Cardinality(Unreaped) + lost =
            IF pc = "store" THEN reg + 1 ELSE nChildren + Uncounted

\* The parent blocks in waitpid() only while every place is taken, by a child or
\* by a lost decrement: the mask (server.c:142) keeps the handler from reaping
\* the child that the test has seen.
WaitAccounted == pc = "wait" => Cardinality(Unreaped) + lost = MaxChildren

\* "there are MAX_CHILDREN around" (server.c:145) when the parent blocks in
\* waitpid(), which is never "blocked incorrectly because the children has already
\* been waited in the signal handler" (server.c:136).
WaitOnlyWhenFull == pc = "wait" => Cardinality(Unreaped) = MaxChildren

\* A zombie always has a SIGCHLD pending or the handler's loop before it,
\* although several deaths share one signal (server.c:48).
ZombieIsSignalled ==
    Zombies # {} => pending \/ handler

\* What makes the bounds inductive.  SIGCHLD is blocked from the test of
\* n_children to the end of the wait (server.c:135), so the parent reaches
\* accept() with a free place and keeps it until the increment; the value an
\* increment has loaded covers the children even if the handler runs meanwhile.
LoopInv ==
    /\ handler => ~masked
    /\ pc \in {"test", "wait", "unmask"} => masked
    /\ pc \in {"unmask", "accept", "interrupted", "acceptChk", "fork", "inc"}
         => nChildren < MaxChildren
    /\ pc = "wait" => nChildren = MaxChildren
    /\ pc = "store" =>
         /\ reg < MaxChildren
         /\ nChildren <= reg
         /\ Cardinality(Unreaped) <= reg + 1

\* Accept sees only the error of the accept() it made (server.c:186,
\* sockwrap.c:248): ECHILD, which accept() does not return, never stands there.
AcceptSeesItsErrno == pc = "acceptChk" => errno # "ECHILD"

\* No zombie stays around for ever (server.c:183).
ZombiesReaped ==
    \A p \in Pids : child[p] = "zombie" ~> child[p] # "zombie"

\* Children whose client keeps the session open for ever.
Staying == Running \cap Patient

\* A waiting connection is accepted, unless the server has ended, or the clients
\* that stay and the lost decrements together take all of MAX_CHILDREN places
\* (server.c:146).  With no client that stays the counter's drift never stops
\* the service: a waitpid() without children makes up for it.
Served ==
    backlog > 0 ~>
        \/ pc \in {"fork", "exited"}
        \/ Staying # {} /\ lost + Cardinality(Staying) >= MaxChildren

\* The server is a SessionPool: its sessions are the running children, and a
\* connection waits until a child has been forked for it.
Sessions ==
    INSTANCE SessionPool
    WITH waiting <- backlog + (IF pc = "fork" THEN 1 ELSE 0),
         serving <- Running,
         up <- pc # "exited",
         MaxWaiting <- ListenQ + 1

BoundedSessions == Sessions!Spec
=============================================================================
