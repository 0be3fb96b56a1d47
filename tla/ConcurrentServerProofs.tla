----------------------- MODULE ConcurrentServerProofs -----------------------
(***************************************************************************)
(* Proofs about ConcurrentServer, for every set of process ids and every   *)
(* value of MAX_CHILDREN and LISTENQ.                                      *)
(***************************************************************************)
EXTENDS ConcurrentServer, FiniteSetTheorems, TLAPS

ChildStates == {"free", "running", "zombie"}

\* The conjunction the proofs carry from step to step.
IndInv == TypeOK /\ CountCovers /\ CountExact /\ LoopInv

USE PidsAssumption, MaxChildrenAssumption, ListenQAssumption

-----------------------------------------------------------------------------
(* Counting children.                                                      *)

\* The number of children still to be waited for is a natural number, and no
\* smaller than the number of those that run.
LEMMA CountType ==
  /\ IsFiniteSet(Unreaped)
  /\ Cardinality(Unreaped) \in Nat
  /\ Cardinality(Running) \in Nat
  /\ Cardinality(Running) <= Cardinality(Unreaped)
<1>1. Unreaped \in SUBSET Pids /\ Running \in SUBSET Unreaped
  BY DEF Unreaped, Running, Zombies
<1>2. IsFiniteSet(Unreaped)
  BY <1>1, FS_Subset
<1>3. IsFiniteSet(Running) /\ Cardinality(Running) <= Cardinality(Unreaped)
  BY <1>1, <1>2, FS_Subset
<1> QED
  BY <1>2, <1>3, FS_CardinalityType

\* Waiting for one zombie removes exactly one child.
LEMMA ReapCount ==
  ASSUME child \in [Pids -> ChildStates],
         NEW p \in Zombies,
         child' = [child EXCEPT ![p] = "free"]
  PROVE  /\ child' \in [Pids -> ChildStates]
         /\ Cardinality(Unreaped)' = Cardinality(Unreaped) - 1
<1>1. p \in Pids /\ p \in Unreaped
  BY DEF Zombies, Unreaped
<1>2. Unreaped' = Unreaped \ {p}
  BY <1>1 DEF Unreaped, Running, Zombies, ChildStates
<1>3. child' \in [Pids -> ChildStates]
  BY <1>1 DEF ChildStates
<1> QED
  BY <1>1, <1>2, <1>3, CountType, FS_RemoveElement

\* A fork adds exactly one child.
LEMMA ForkCount ==
  ASSUME child \in [Pids -> ChildStates],
         NEW p \in Pids, child[p] = "free",
         child' = [child EXCEPT ![p] = "running"]
  PROVE  /\ child' \in [Pids -> ChildStates]
         /\ Cardinality(Unreaped)' = Cardinality(Unreaped) + 1
<1>1. p \notin Unreaped
  BY DEF Unreaped, Running, Zombies
<1>2. Unreaped' = Unreaped \cup {p}
  BY DEF Unreaped, Running, Zombies, ChildStates
<1>3. child' \in [Pids -> ChildStates]
  BY DEF ChildStates
<1> QED
  BY <1>1, <1>2, <1>3, CountType, FS_AddElement

\* The end of the parent adds no child.
LEMMA ExitCount ==
  ASSUME child \in [Pids -> ChildStates], Exit
  PROVE  /\ child' \in [Pids -> ChildStates]
         /\ Cardinality(Unreaped)' <= Cardinality(Unreaped)
<1>1. child' \in [Pids -> ChildStates]
  BY DEF Exit, ChildStates
<1>2. Unreaped' \in SUBSET Unreaped
  BY DEF Exit, Unreaped, Running, Zombies
<1> QED
  BY <1>1, <1>2, CountType, FS_Subset

\* A child that ends stays to be waited for, unless the parent is gone.
LEMMA ChildExitCount ==
  ASSUME child \in [Pids -> ChildStates], NEW p \in Pids, ChildExits(p)
  PROVE  /\ child' \in [Pids -> ChildStates]
         /\ Cardinality(Unreaped)' <= Cardinality(Unreaped)
         /\ pc # "exited" => Cardinality(Unreaped)' = Cardinality(Unreaped)
<1>1. child' \in [Pids -> ChildStates]
  BY DEF ChildExits, ChildStates
<1>2. Unreaped' \in SUBSET Unreaped
  BY DEF ChildExits, Unreaped, Running, Zombies, ChildStates
<1>3. ASSUME pc # "exited" PROVE Unreaped' = Unreaped
  BY <1>3 DEF ChildExits, Unreaped, Running, Zombies, ChildStates
<1> QED
  BY <1>1, <1>2, <1>3, CountType, FS_Subset

-----------------------------------------------------------------------------
(* The inductive invariant.                                                *)

LEMMA InitInv == Init => IndInv
<1> SUFFICES ASSUME Init PROVE IndInv
  OBVIOUS
<1>1. TypeOK
  <2>1. child \in [Pids -> {"free", "running", "zombie"}]
    BY DEF Init
  <2>2. backlog \in 0 .. ListenQ
    BY DEF Init
  <2>3. /\ pc \in PC /\ nChildren \in -1 .. MaxChildren
        /\ reg \in -1 .. MaxChildren /\ lost \in 0 .. MaxChildren
    BY DEF Init, PC
  <2>4. masked \in BOOLEAN /\ pending \in BOOLEAN /\ handler \in BOOLEAN
    BY DEF Init
  <2>5. errno \in {"none", "EINTR", "ECHILD", "TRANSIENT", "FATAL"}
    BY DEF Init
  <2> QED
    BY <2>1, <2>2, <2>3, <2>4, <2>5 DEF TypeOK
<1>2. Unreaped = {}
  BY DEF Init, Unreaped, Running, Zombies
<1>3. Cardinality(Unreaped) = 0
  BY <1>2, FS_EmptySet
<1> QED
  BY <1>1, <1>3 DEF Init, IndInv, CountCovers, CountExact, LoopInv, Uncounted

\* One step per action of the server, the kernel and the clients.
LEMMA NextInv == IndInv /\ [Next]_vars => IndInv'
<1> SUFFICES ASSUME IndInv, [Next]_vars PROVE IndInv'
  OBVIOUS
<1> USE DEF At
<1>t. child \in [Pids -> ChildStates]
  BY DEF IndInv, TypeOK, ChildStates
<1>c. /\ Cardinality(Unreaped) \in Nat
      /\ Cardinality(Unreaped)' \in Nat
  <2>1. Cardinality(Unreaped) \in Nat
    BY CountType
  <2>2. (Cardinality(Unreaped) \in Nat)'
    BY CountType, PTL
  <2> QED
    BY <2>1, <2>2
<1>u. ASSUME child' = child PROVE Cardinality(Unreaped)' = Cardinality(Unreaped)
  BY <1>u DEF Unreaped, Running, Zombies
<1>1. CASE Mask
  BY <1>1, <1>c, <1>u DEF Mask, IndInv, TypeOK, PC, CountCovers, CountExact, LoopInv, Uncounted
<1>2. CASE Test
  BY <1>2, <1>c, <1>u DEF Test, IndInv, TypeOK, PC, CountCovers, CountExact, LoopInv, Uncounted
<1>3. CASE WaitReaps
  <2>1. /\ child' \in [Pids -> ChildStates]
        /\ Cardinality(Unreaped)' = Cardinality(Unreaped) - 1
    BY <1>3, <1>t, ReapCount DEF WaitReaps
  <2> QED
    BY <1>3, <2>1, <1>c
    DEF WaitReaps, IndInv, TypeOK, PC, ChildStates, CountCovers, CountExact, LoopInv, Uncounted
<1>4. CASE WaitFails
  <2>1. Cardinality(Unreaped) = 0
    BY <1>4, FS_EmptySet DEF WaitFails
  <2> QED
    BY <1>4, <2>1, <1>u
    DEF WaitFails, IndInv, TypeOK, PC, CountCovers, CountExact, LoopInv, Uncounted
<1>5. CASE Unmask
  BY <1>5, <1>c, <1>u DEF Unmask, IndInv, TypeOK, PC, CountCovers, CountExact, LoopInv, Uncounted
<1>6. CASE AcceptOk
  BY <1>6, <1>c, <1>u DEF AcceptOk, IndInv, TypeOK, PC, CountCovers, CountExact, LoopInv, Uncounted
<1>7. CASE AcceptFails
  BY <1>7, <1>c, <1>u DEF AcceptFails, IndInv, TypeOK, PC, CountCovers, CountExact, LoopInv, Uncounted
<1>8. CASE AcceptInterrupted
  BY <1>8, <1>c, <1>u DEF AcceptInterrupted, IndInv, TypeOK, PC, CountCovers, CountExact, LoopInv, Uncounted
<1>9. CASE AcceptAgain
  BY <1>9, <1>c, <1>u DEF AcceptAgain, IndInv, TypeOK, PC, CountCovers, CountExact, LoopInv, Uncounted
<1>10. CASE AcceptDies
  <2>1. Exit
    BY <1>10 DEF AcceptDies
  <2>3. pc' = "exited" /\ pending' = FALSE /\ backlog' \in 0 .. ListenQ
    BY <2>1 DEF Exit
  <2>2. /\ child' \in [Pids -> ChildStates]
        /\ Cardinality(Unreaped)' <= Cardinality(Unreaped)
    BY <2>1, <1>t, ExitCount
  <2>4. TypeOK'
    BY <1>10, <2>2, <2>3 DEF AcceptDies, IndInv, TypeOK, PC, ChildStates
  <2>5. (CountCovers /\ CountExact /\ LoopInv)'
    BY <1>10, <2>2, <2>3, <1>c
    DEF AcceptDies, IndInv, TypeOK, CountCovers, CountExact, LoopInv, Uncounted
  <2> QED
    BY <2>4, <2>5 DEF IndInv
<1>11. CASE ForkOk
  <2>1. /\ child' \in [Pids -> ChildStates]
        /\ Cardinality(Unreaped)' = Cardinality(Unreaped) + 1
    BY <1>11, <1>t, ForkCount DEF ForkOk
  <2> QED
    BY <1>11, <2>1, <1>c
    DEF ForkOk, IndInv, TypeOK, PC, ChildStates, CountCovers, CountExact, LoopInv, Uncounted
<1>12. CASE ForkDies
  <2>1. Exit
    BY <1>12 DEF ForkDies
  <2>3. pc' = "exited" /\ pending' = FALSE /\ backlog' \in 0 .. ListenQ
    BY <2>1 DEF Exit
  <2>2. /\ child' \in [Pids -> ChildStates]
        /\ Cardinality(Unreaped)' <= Cardinality(Unreaped)
    BY <2>1, <1>t, ExitCount
  <2>4. TypeOK'
    BY <1>12, <2>2, <2>3 DEF ForkDies, IndInv, TypeOK, PC, ChildStates
  <2>5. (CountCovers /\ CountExact /\ LoopInv)'
    BY <1>12, <2>2, <2>3, <1>c
    DEF ForkDies, IndInv, TypeOK, CountCovers, CountExact, LoopInv, Uncounted
  <2> QED
    BY <2>4, <2>5 DEF IndInv
<1>13. CASE Inc
  BY <1>13, <1>c, <1>u DEF Inc, IndInv, TypeOK, PC, CountCovers, CountExact, LoopInv, Uncounted
<1>14. CASE Store
  BY <1>14, <1>c, <1>u DEF Store, IndInv, TypeOK, PC, CountCovers, CountExact, LoopInv, Uncounted
<1>15. CASE HandlerStart
  BY <1>15, <1>c, <1>u DEF HandlerStart, IndInv, TypeOK, PC, CountCovers, CountExact, LoopInv, Uncounted
<1>16. CASE HandlerReaps
  <2>1. /\ child' \in [Pids -> ChildStates]
        /\ Cardinality(Unreaped)' = Cardinality(Unreaped) - 1
    BY <1>16, <1>t, ReapCount DEF HandlerReaps
  <2> QED
    BY <1>16, <2>1, <1>c
    DEF HandlerReaps, IndInv, TypeOK, PC, ChildStates, CountCovers, CountExact, LoopInv, Uncounted
<1>17. CASE HandlerReturns
  BY <1>17, <1>c, <1>u DEF HandlerReturns, IndInv, TypeOK, PC, CountCovers, CountExact, LoopInv, Uncounted
<1>18. CASE Connect
  BY <1>18, <1>c, <1>u DEF Connect, IndInv, TypeOK, PC, CountCovers, CountExact, LoopInv, Uncounted
<1>19. ASSUME NEW p \in Pids, ChildExits(p) PROVE IndInv'
  <2>1. /\ child' \in [Pids -> ChildStates]
        /\ Cardinality(Unreaped)' <= Cardinality(Unreaped)
        /\ pc # "exited" => Cardinality(Unreaped)' = Cardinality(Unreaped)
    BY <1>19, <1>t, ChildExitCount
  <2> QED
    BY <1>19, <2>1, <1>c
    DEF ChildExits, IndInv, TypeOK, PC, ChildStates, CountCovers, CountExact, LoopInv, Uncounted
<1>20. CASE Stopped \/ UNCHANGED vars
  BY <1>20, <1>c, <1>u DEF Stopped, vars, IndInv, TypeOK, PC, CountCovers, CountExact, LoopInv, Uncounted
<1> QED
  BY <1>1, <1>2, <1>3, <1>4, <1>5, <1>6, <1>7, <1>8, <1>9, <1>10, <1>11, <1>12,
     <1>13, <1>14, <1>15, <1>16, <1>17, <1>18, <1>19, <1>20
  DEF Next, Parent, SigChld

LEMMA Invariance == Spec => []IndInv
BY InitInv, NextInv, PTL DEF Spec

-----------------------------------------------------------------------------
(* What follows for the server.                                            *)

\* Every variable keeps its type.  In particular n_children stays between -1
\* and MAX_CHILDREN, whatever increments the handler interrupts.
THEOREM TypeCorrect == Spec => []TypeOK
BY Invariance, PTL DEF IndInv

\* n_children never falls below the number of children still to be waited for.
THEOREM CounterCovers == Spec => []CountCovers
BY Invariance, PTL DEF IndInv

\* SIGCHLD is blocked from the test of the limit to the end of the wait, and the
\* place that was found free there is still free when a child is forked.
THEOREM LoopCorrect == Spec => []LoopInv
BY Invariance, PTL DEF IndInv

\* Never more than MAX_CHILDREN children serve at once, even though an
\* interrupted n_children++ makes the counter wrong.
THEOREM Bounded == Spec => []ChildrenBounded
<1>1. IndInv => ChildrenBounded
  <2> SUFFICES ASSUME IndInv PROVE ChildrenBounded
    OBVIOUS
  <2>1. Cardinality(Unreaped) <= MaxChildren
    BY CountType DEF IndInv, TypeOK, CountCovers, LoopInv, Uncounted
  <2> QED
    BY <2>1, CountType DEF IndInv, LoopInv, ChildrenBounded
<1> QED
  BY <1>1, Invariance, PTL

\* The counter is the number of children still to be waited for and of the
\* decrements that an n_children++ in two steps has overwritten: at every other
\* step of main and handler it is kept exactly.
THEOREM CounterExact == Spec => []CountExact
BY Invariance, PTL DEF IndInv

\* The parent sleeps in waitpid() only while children and lost decrements
\* together take all of MAX_CHILDREN places.
THEOREM WaitsAreAccounted == Spec => []WaitAccounted
<1>1. IndInv => WaitAccounted
  BY CountType DEF IndInv, TypeOK, CountExact, LoopInv, Uncounted, WaitAccounted
<1> QED
  BY <1>1, Invariance, PTL

\* Shared signals lose no zombie: one is always announced by a pending SIGCHLD
\* or still before the handler's loop, whatever ends between two of its steps.
THEOREM ZombiesSignalled == Spec => []ZombieIsSignalled
<1>1. Init => ZombieIsSignalled
  BY DEF Init, ZombieIsSignalled, Zombies
<1>2. TypeOK /\ ZombieIsSignalled /\ [Next]_vars => ZombieIsSignalled'
  <2> SUFFICES ASSUME TypeOK, ZombieIsSignalled, [Next]_vars PROVE ZombieIsSignalled'
    OBVIOUS
  <2>1. ASSUME child' = child, pending' = pending, handler' = handler
        PROVE  ZombieIsSignalled'
    BY <2>1 DEF ZombieIsSignalled, Zombies
  <2>2. CASE WaitReaps \/ HandlerReaps
    <3>1. Zombies' \in SUBSET Zombies /\ pending' = pending /\ handler' = handler
      BY <2>2 DEF WaitReaps, HandlerReaps, Zombies, TypeOK
    <3> QED
      BY <3>1 DEF ZombieIsSignalled
  <2>3. CASE WaitFails
    BY <2>3, <2>1 DEF WaitFails
  <2>4. CASE Unmask
    <3>1. Zombies' = Zombies /\ handler' = pending /\ ~handler
      BY <2>4 DEF Unmask, At, Zombies
    <3> QED
      BY <3>1 DEF ZombieIsSignalled
  <2>5. CASE AcceptDies \/ ForkDies
    <3>1. Zombies' = {}
      BY <2>5 DEF AcceptDies, ForkDies, Exit, Zombies
    <3> QED
      BY <3>1 DEF ZombieIsSignalled
  <2>6. CASE ForkOk
    <3>1. Zombies' = Zombies /\ pending' = pending /\ handler' = handler
      BY <2>6 DEF ForkOk, Zombies, TypeOK
    <3> QED
      BY <3>1 DEF ZombieIsSignalled
  <2>7. CASE HandlerStart
    BY <2>7 DEF HandlerStart, ZombieIsSignalled
  <2>8. CASE HandlerReturns
    <3>1. Zombies' = {}
      BY <2>8 DEF HandlerReturns, Zombies
    <3> QED
      BY <3>1 DEF ZombieIsSignalled
  <2>9. ASSUME NEW p \in Pids, ChildExits(p) PROVE ZombieIsSignalled'
    <3>1. CASE pc = "exited"
      <4>1. Zombies' \in SUBSET Zombies /\ handler' = handler
        BY <2>9, <3>1 DEF ChildExits, Zombies, TypeOK
      <4>2. pending' = pending
        BY <2>9, <3>1 DEF ChildExits, TypeOK
      <4> QED
        BY <4>1, <4>2 DEF ZombieIsSignalled
    <3>2. CASE pc # "exited"
      BY <2>9, <3>2 DEF ChildExits, ZombieIsSignalled
    <3> QED
      BY <3>1, <3>2
  <2>10. CASE Mask \/ Test \/ AcceptOk \/ AcceptFails \/ AcceptInterrupted \/ AcceptAgain
    BY <2>10, <2>1 DEF Mask, Test, AcceptOk, AcceptFails, AcceptInterrupted, AcceptAgain
  <2>11. CASE Inc \/ Store \/ Connect \/ Stopped \/ UNCHANGED vars
    BY <2>11, <2>1 DEF Inc, Store, Connect, Stopped, vars
  <2> QED
    BY <2>2, <2>3, <2>4, <2>5, <2>6, <2>7, <2>8, <2>9, <2>10, <2>11
    DEF Next, Parent, SigChld
<1> QED
  BY <1>1, <1>2, TypeCorrect, PTL DEF Spec

-----------------------------------------------------------------------------
(* The server implements SessionPool.                                      *)

\* The instance counts as this module does.
LEMMA SameCardinality == ASSUME NEW S PROVE Sessions!Cardinality(S) = Cardinality(S)
BY Zenon DEF Cardinality, Sessions!Cardinality

\* Every step of the server starts, ends or accepts a session as SessionPool
\* allows, or leaves the sessions alone: a bounded number of sessions, none
\* started without a connection, and none cut short by the parent's end.
THEOREM Implements == Spec => BoundedSessions
<1>1. Init => Sessions!Init
  BY DEF Init, Sessions!Init, Running
<1>2. IndInv /\ [Next]_vars => [Sessions!Next]_(Sessions!vars)
  <2> SUFFICES ASSUME IndInv, [Next]_vars
               PROVE  Sessions!Next \/ UNCHANGED Sessions!vars
    OBVIOUS
  <2> USE DEF At
  <2>t. /\ backlog \in Nat /\ ListenQ \in Nat
        /\ child \in [Pids -> ChildStates]
    BY DEF IndInv, TypeOK, ChildStates
  <2>1. ASSUME Running' = Running, backlog' = backlog,
               pc \notin {"fork", "exited"}, pc' \notin {"fork", "exited"}
        PROVE  UNCHANGED Sessions!vars
    BY <2>1 DEF Sessions!vars
  <2>2. ASSUME Running' = Running, backlog' = backlog, pc' = pc
        PROVE  UNCHANGED Sessions!vars
    BY <2>2 DEF Sessions!vars
  <2>3. ASSUME child' = child PROVE Running' = Running
    BY <2>3 DEF Running
  <2>4. CASE Mask \/ Test \/ WaitFails \/ Unmask
    BY <2>4, <2>1, <2>3 DEF Mask, Test, WaitFails, Unmask
  <2>5. CASE AcceptFails \/ AcceptInterrupted \/ AcceptAgain \/ Inc \/ Store
    BY <2>5, <2>1, <2>3 DEF AcceptFails, AcceptInterrupted, AcceptAgain, Inc, Store
  <2>6. CASE WaitReaps
    <3>1. Running' = Running
      BY <2>6, <2>t DEF WaitReaps, Running, Zombies, ChildStates
    <3> QED
      BY <2>6, <3>1, <2>1 DEF WaitReaps
  <2>7. CASE HandlerReaps
    <3>1. Running' = Running
      BY <2>7, <2>t DEF HandlerReaps, Running, Zombies, ChildStates
    <3> QED
      BY <2>7, <3>1, <2>2 DEF HandlerReaps
  <2>8. CASE HandlerStart
    BY <2>8, <2>1, <2>2, <2>3 DEF HandlerStart
  <2>9. CASE HandlerReturns
    BY <2>9, <2>2, <2>3 DEF HandlerReturns
  <2>10. CASE AcceptOk
    BY <2>10, <2>t, <2>3 DEF AcceptOk, Sessions!vars
  <2>11. CASE Connect
    BY <2>11, <2>t, <2>3 DEF Connect, Sessions!Next, Sessions!Arrive
  <2>12. CASE AcceptDies \/ ForkDies
    <3>1. Running' = Running
      BY <2>12, <2>t DEF AcceptDies, ForkDies, Exit, Running, ChildStates
    <3>2. Sessions!Fail
      BY <2>12, <3>1 DEF AcceptDies, ForkDies, Exit, Sessions!Fail
    <3> QED
      BY <3>2 DEF Sessions!Next
  <2>13. CASE ForkOk
    <3>1. PICK p \in Pids : child[p] = "free" /\ child' = [child EXCEPT ![p] = "running"]
      BY <2>13 DEF ForkOk
    <3>2. p \notin Running /\ Running' = Running \cup {p}
      BY <3>1, <2>t DEF Running, ChildStates
    <3>3. Cardinality(Running) < MaxChildren
      BY <2>13, CountType DEF ForkOk, IndInv, TypeOK, CountCovers, LoopInv, Uncounted
    <3>4. Sessions!Start(p)
      BY <2>13, <3>2, <3>3, <2>t, SameCardinality DEF ForkOk, Sessions!Start
    <3> QED
      BY <3>4 DEF Sessions!Next
  <2>14. ASSUME NEW p \in Pids, ChildExits(p) PROVE Sessions!Next
    <3>1. p \in Running /\ Running' = Running \ {p}
      BY <2>14, <2>t DEF ChildExits, Running, ChildStates
    <3>2. Sessions!Finish(p)
      BY <2>14, <3>1 DEF ChildExits, Sessions!Finish
    <3> QED
      BY <3>2 DEF Sessions!Next
  <2>15. CASE Stopped \/ UNCHANGED vars
    BY <2>15, <2>2, <2>3 DEF Stopped, vars
  <2> QED
    BY <2>4, <2>5, <2>6, <2>7, <2>8, <2>9, <2>10, <2>11, <2>12, <2>13, <2>14, <2>15
    DEF Next, Parent, SigChld
<1> QED
  BY <1>1, <1>2, Invariance, PTL DEF Spec, BoundedSessions, Sessions!Spec
=============================================================================
