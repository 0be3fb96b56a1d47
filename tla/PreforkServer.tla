--------------------------- MODULE PreforkServer ---------------------------
(***************************************************************************)
(* The preforking TCP server,                                              *)
(* src/Libraries/01-SERVER_TCP_preforking/server.c: the parent that forks  *)
(* a pool and then waits for SIGINT, the children that accept from one     *)
(* listening socket and serve one client after the other.                  *)
(*                                                                         *)
(* A session is reduced to what the pool depends on: a child waits for a   *)
(* command, or sends the blocks of a file and looks at sigpipe after each. *)
(***************************************************************************)
EXTENDS Integers, Sequences, FiniteSets

CONSTANTS
    MaxChilds,   \* MAXCHILDS
    Clients,     \* the clients
    Blocks,      \* bound: blocks in a file
    Idle         \* clients that may stay connected without a word for ever

ASSUME PoolAssumption == MaxChilds \in Nat
ASSUME BlocksAssumption == Blocks \in Nat \ {0}
ASSUME IdleAssumption == Idle \subseteq Clients /\ IsFiniteSet(Clients)

Children == 1 .. MaxChilds
Nobody == 0     \* pid 0: kill() takes it as the whole process group

VARIABLES
    nchildren, \* the number asked for, cut to MAXCHILDS
    pPc,      \* the parent's next step
    forked,   \* i, the children forked so far
    pids,     \* the parent's copy of the array pids
    next,     \* i of sig_int's loop
    term,     \* children with a deadly signal pending
    cPc,      \* each child's next step
    conn,     \* the client each child is connected to, as a set
    sigpipe,  \* each child's global sigpipe
    left,     \* the blocks each child has still to send
    queue,    \* connections the kernel completed and no child accepted
    client    \* each client: "away", "queued", "connected" or "closed"

vars == <<nchildren, pPc, forked, pids, next, term, cPc, conn, sigpipe, left, queue,
          client>>

parentVars == <<nchildren, pPc, forked, pids, next, term>>
sessionVars == <<conn, sigpipe, left, queue, client>>

Alive(j) == cPc[j] \in {"accept", "command", "block"}
InSession(j) == cPc[j] \in {"command", "block"}

TypeOK ==
    /\ nchildren \in 0 .. MaxChilds
    /\ pPc \in {"fork", "install", "pause", "kill", "wait", "exited", "killed"}
    /\ forked \in 0 .. nchildren
    /\ pids \in [Children -> Children \cup {Nobody}]
    /\ next \in 1 .. nchildren + 1
    /\ term \subseteq Children
    /\ cPc \in [Children -> {"none", "accept", "command", "block", "zombie", "gone"}]
    /\ conn \in [Children -> SUBSET Clients]
    /\ \A j \in Children : Cardinality(conn[j]) = IF InSession(j) THEN 1 ELSE 0
    /\ sigpipe \in [Children -> BOOLEAN]
    /\ left \in [Children -> 0 .. Blocks]
    /\ queue \in Seq(Clients)
    /\ client \in [Clients -> {"away", "queued", "connected", "closed"}]

\* The socket listens and the handler of SIGPIPE is installed.  A number below
\* zero works as zero does.
Init ==
    /\ nchildren \in 0 .. MaxChilds
    /\ pPc = "fork"
    /\ forked = 0
    /\ pids = [j \in Children |-> Nobody]
    /\ next = 1
    /\ term = {}
    /\ cPc = [j \in Children |-> "none"]
    /\ conn = [j \in Children |-> {}]
    /\ sigpipe = [j \in Children |-> FALSE]
    /\ left = [j \in Children |-> 0]
    /\ queue = <<>>
    /\ client = [c \in Clients |-> "away"]

-----------------------------------------------------------------------------
(* The parent.                                                             *)

\* Only the child stores its pid, in its own copy of pids.
ForkChild ==
    /\ pPc = "fork"
    /\ forked < nchildren
    /\ forked' = forked + 1
    /\ cPc' = [cPc EXCEPT ![forked + 1] = "accept"]
    /\ UNCHANGED <<nchildren, pPc, pids, next, term, sessionVars>>

\* Fork() ends the program when fork() fails; the children stay.
ForkDies ==
    /\ pPc = "fork"
    /\ forked < nchildren
    /\ pPc' = "exited"
    /\ UNCHANGED <<nchildren, forked, pids, next, term, cPc, sessionVars>>

ForkedAll ==
    /\ pPc = "fork"
    /\ forked = nchildren
    /\ pPc' = "install"
    /\ UNCHANGED <<nchildren, forked, pids, next, term, cPc, sessionVars>>

InstallSigInt ==
    /\ pPc = "install"
    /\ pPc' = "pause"
    /\ UNCHANGED <<nchildren, forked, pids, next, term, cPc, sessionVars>>

\* SIGINT, for the parent alone or, from the terminal, for the children too.
\* Without the handler it kills the parent.
Interrupt ==
    /\ nchildren \in 0 .. MaxChilds
    /\ pPc \in {"fork", "install", "pause"}
    /\ pPc' = IF pPc = "pause" THEN "kill" ELSE "killed"
    /\ \/ term' = term
       \/ term' = {j \in Children : Alive(j)}
    /\ UNCHANGED <<nchildren, forked, pids, next, cPc, sessionVars>>

\* Mutant of KillNext: the signal reaches nobody.
KillNextMissed ==
    /\ pPc = "kill"
    /\ next <= nchildren
    /\ next' = next + 1
    /\ UNCHANGED <<nchildren, pPc, forked, pids, term, cPc, sessionVars>>

\* kill(pids[i], SIGTERM).  The group of pid 0 is every child and the parent.
KillNext ==
    /\ pPc = "kill"
    /\ next <= nchildren
    /\ IF pids[next] = Nobody
       THEN /\ term' = {j \in Children : Alive(j)}
            /\ pPc' = "killed"
       ELSE /\ term' = term \cup {j \in {pids[next]} : Alive(j)}
            /\ UNCHANGED pPc
    /\ next' = next + 1
    /\ UNCHANGED <<nchildren, forked, pids, cPc, sessionVars>>

KilledAll ==
    /\ pPc = "kill"
    /\ next > nchildren
    /\ pPc' = "wait"
    /\ UNCHANGED <<nchildren, forked, pids, next, term, cPc, sessionVars>>

\* while (wait(NULL) > 0): every child is reaped, however long it lives.
WaitAll ==
    /\ pPc = "wait"
    /\ \A j \in Children : ~Alive(j)
    /\ cPc' = [j \in Children |-> IF cPc[j] = "zombie" THEN "gone" ELSE cPc[j]]
    /\ pPc' = "exited"
    /\ UNCHANGED <<nchildren, forked, pids, next, term, sessionVars>>

Parent ==
    \/ ForkChild \/ ForkDies \/ ForkedAll \/ InstallSigInt
    \/ KillNext \/ KilledAll \/ WaitAll

-----------------------------------------------------------------------------
(* A child.                                                                *)

\* Mutant of AcceptClient: sigpipe is not reset.
AcceptClientKeepsFlag(j) ==
    /\ cPc[j] = "accept"
    /\ queue # <<>>
    /\ conn' = [conn EXCEPT ![j] = {Head(queue)}]
    /\ client' = [client EXCEPT ![Head(queue)] =
                     IF @ = "queued" THEN "connected" ELSE @]
    /\ queue' = Tail(queue)
    /\ cPc' = [cPc EXCEPT ![j] = "command"]
    /\ UNCHANGED <<parentVars, sigpipe, left>>

\* Accept(); the kernel gives each connection to one child.
AcceptClient(j) ==
    /\ cPc[j] = "accept"
    /\ queue # <<>>
    /\ conn' = [conn EXCEPT ![j] = {Head(queue)}]
    /\ client' = [client EXCEPT ![Head(queue)] =
                     IF @ = "queued" THEN "connected" ELSE @]
    /\ queue' = Tail(queue)
    /\ sigpipe' = [sigpipe EXCEPT ![j] = FALSE]
    /\ cPc' = [cPc EXCEPT ![j] = "command"]
    /\ UNCHANGED <<parentVars, left>>

\* Accept() meets an error that it does not retry: err_sys() ends the child.
\* Nobody takes its place.
AcceptDies(j) ==
    /\ cPc[j] = "accept"
    /\ cPc' = [cPc EXCEPT ![j] = "zombie"]
    /\ UNCHANGED <<parentVars, conn, sigpipe, left, queue, client>>

\* A write to client c.  Once c has closed, the first only provokes a reset, a
\* later one raises SIGPIPE and sigpipeHndlr runs.
Written(j) ==
    \/ UNCHANGED sigpipe
    \/ /\ \E c \in conn[j] : client[c] = "closed"
       /\ sigpipe' = [sigpipe EXCEPT ![j] = TRUE]

\* A command, sent before the client closed if it has: the answer is a file of
\* some blocks, or one that needs no block.
Command(j) ==
    /\ cPc[j] = "command"
    /\ Written(j)
    /\ \/ /\ left' = [left EXCEPT ![j] = Blocks]
          /\ cPc' = [cPc EXCEPT ![j] = "block"]
       \/ UNCHANGED <<left, cPc>>
    /\ UNCHANGED <<parentVars, conn, queue, client>>

\* One block.  The transfer is given up when the flag is set.
SendBlock(j) ==
    /\ cPc[j] = "block"
    /\ Written(j)
    /\ left' = [left EXCEPT ![j] = IF sigpipe'[j] THEN 0 ELSE @ - 1]
    /\ cPc' = [cPc EXCEPT ![j] = IF left'[j] = 0 THEN "command" ELSE "block"]
    /\ UNCHANGED <<parentVars, conn, queue, client>>

\* Mutants of EndSession: the connection is not closed; the end of the stream is
\* taken for a command that cannot be understood.
EndSessionLeaks(j) ==
    /\ cPc[j] = "command"
    /\ \E c \in conn[j] : client[c] = "closed"
    /\ cPc' = [cPc EXCEPT ![j] = "accept"]
    /\ UNCHANGED <<parentVars, sessionVars>>

EndSessionMissed(j) ==
    /\ cPc[j] = "command"
    /\ \E c \in conn[j] : client[c] = "closed"
    /\ Written(j)
    /\ UNCHANGED <<parentVars, cPc, conn, left, queue, client>>

\* The client has closed: ftp_sender() returns and the connection is closed.
EndSession(j) ==
    /\ cPc[j] = "command"
    /\ \E c \in conn[j] :
          /\ client[c] = "closed"
          /\ client' = [client EXCEPT ![c] = "away"]
    /\ conn' = [conn EXCEPT ![j] = {}]
    /\ cPc' = [cPc EXCEPT ![j] = "accept"]
    /\ UNCHANGED <<parentVars, sigpipe, left, queue>>

\* A pending SIGTERM or SIGINT kills the child; its client is cut off.
ChildKilled(j) ==
    /\ j \in term
    /\ Alive(j)
    /\ term' = term \ {j}
    /\ cPc' = [cPc EXCEPT ![j] = "zombie"]
    /\ client' = [c \in Clients |-> IF c \in conn[j] THEN "away" ELSE client[c]]
    /\ conn' = [conn EXCEPT ![j] = {}]
    /\ UNCHANGED <<nchildren, pPc, forked, pids, next, sigpipe, left, queue>>

Child(j) ==
    \/ AcceptClient(j) \/ AcceptDies(j) \/ Command(j) \/ SendBlock(j) \/ EndSession(j)
    \/ ChildKilled(j)

-----------------------------------------------------------------------------
(* The clients.                                                            *)

Connect(c) ==
    /\ client[c] = "away"
    /\ client' = [client EXCEPT ![c] = "queued"]
    /\ queue' = Append(queue, c)
    /\ UNCHANGED <<parentVars, cPc, conn, sigpipe, left>>

\* In its session, or while it still waits to be accepted.
Disconnect(c) ==
    /\ client[c] \in {"queued", "connected"}
    /\ client' = [client EXCEPT ![c] = "closed"]
    /\ UNCHANGED <<parentVars, cPc, conn, sigpipe, left, queue>>

Next ==
    \/ Parent
    \/ Interrupt
    \/ \E j \in Children : Child(j)
    \/ \E c \in Clients : Connect(c) \/ Disconnect(c)

(***************************************************************************)
(* The kernel schedules every process and delivers signals; a connection   *)
(* is accepted by some child that waits, a child cannot be held for ever   *)
(* by the commands of a client that has closed, for they are finitely      *)
(* many, so EndSession is strongly fair.  A client that is not in Idle     *)
(* closes its connection some day.                                         *)
(***************************************************************************)
Fairness ==
    /\ WF_vars(Parent /\ ~ForkDies)
    /\ WF_vars(\E j \in Children : AcceptClient(j))
    /\ \A j \in Children :
          /\ WF_vars(SendBlock(j))
          /\ SF_vars(EndSession(j))
          /\ WF_vars(ChildKilled(j))
    /\ \A c \in Clients \ Idle : WF_vars(Disconnect(c))

Spec == Init /\ [][Next]_vars /\ Fairness

-----------------------------------------------------------------------------
(* Properties.                                                             *)

\* A child gives up a transfer only because the client it is serving has
\* closed: the reset of sigpipe (server.c:196) lets no earlier client's SIGPIPE
\* reach the next one's file.
AbortIsForThisClient ==
    \A j \in Children :
        InSession(j) /\ sigpipe[j] => \A c \in conn[j] : client[c] = "closed"

\* The connection of c is in the kernel's queue and no child has accepted it.
InQueue(c) == \E i \in DOMAIN queue : queue[i] = c

\* The client of child j may keep it for ever.
HeldForEver(j) == \E c \in conn[j] : c \in Idle

\* Every connection is taken by a child, which serves one client after the other
\* (server.c:184), also when its client has given up waiting, when other children
\* are held by clients that never speak, and when some have ended in Accept and are
\* not replaced (server.c:172): only where no child is left but those held for
\* ever a connection may stay in the queue.
EveryoneServed ==
    \A c \in Clients :
        InQueue(c) ~> ~InQueue(c) \/ \A j \in Children : Alive(j) => HeldForEver(j)

\* Once the handler of SIGINT runs, the parent ends and no child is left
\* (server.c:51, "terminate childs when the parent is terminated").
PoolEnds ==
    pPc = "kill" ~> pPc \in {"exited", "killed"} /\ \A j \in Children : ~Alive(j)

\* "wait for all children" (server.c:57): a parent interrupted while it pauses
\* ends only after every child has been waited for.
ParentWaits ==
    next > 1 /\ pPc \in {"exited", "killed"} =>
        \A j \in Children : cPc[j] \in {"none", "gone"}
=============================================================================
