# Client-server library: models and proofs

`src/Libraries` is a library of C programs for client-server architectures: two
TCP file servers, two kinds of TCP client, a pool of UDP echo servers with its
client, and XDR variants of the TCP pair. Every directory carries its own copy
of `errlib`, `sockwrap` and `ftp`; the copies are identical to those in
`librerie/`, which is what the models refer to. There are no automated tests,
so the comments in the code are the only statement of intent.

The programs are small. What is hard in them is what happens between the
lines: a signal handler that shares a counter with the accept loop, processes
that share a listening socket, and two programs that share a byte stream with
no framing but an announced size, while files change, users type ahead and
processes die.

## 1. Inventory

| Component | Source | State it keeps | Operations | Module |
|---|---|---|---|---|
| Forking TCP server | `00-SERVER_TCP_concorrente/server.c` | `n_children`, the signal mask, `errno`; in the kernel the process table, the pending SIGCHLD, the backlog | the turn of the accept loop, `sig_chld`, `Accept`, `Fork` | `ConcurrentServer` |
| Preforking TCP server | `01-SERVER_TCP_preforking/server.c` | `nchildren`, `pids`; in each child `sigpipe` and the connection | the fork loop, `sig_int`, the child's accept loop | `PreforkServer` |
| FTP sender | `librerie/ftp.c` 124-265 | the file's stream, the bytes still to send, `sigpipe` | command, answer, header, block, end | `FtpSender` |
| Interactive client | `ftp.c` 342-522 | `flag_reading_file`, `flag_end`, `flag_no_file`, `file_bytes`, `file_ptr`, the download | reply, header, byte, and the keyboard's GET, Q, A, end of file | `MultiplexClient` |
| One-shot client | `ftp.c` 45-121, 267-340 | `file_size`, the copy | command, wait with timeout, answer, header, block | `SimpleClient` |
| Socket wrappers | `librerie/sockwrap.c` | the static buffer of `my_read` | `Accept`, `Fork`, `Read`, `Write`, `Select`, `readline`, `readline_unbuffered`, `sendn`, ... | inside their callers |
| UDP pool | `03-SERVER_UDP_pooling/server.c` | the shared datagram socket; in each process the table of hosts and tokens | receive, count, answer or drop | `UdpPool` |
| UDP limiter | `LAB (MOD)/LAB2/es2.2/server_udp_limitante` | the table of hosts and tokens, of fixed size | the same | `UdpPool` |
| UDP client | `05-client_UDP_TRY_TIMEOUT_RECV/client.c` | `retry`, `flag` | send once, wait five times | `UdpClient` |
| XDR file server | `XDR/XDR_FILE-SERVER_TCP_concorrente/server.c` 76-221 | the file's bytes in `obuf`, a stream for each message | GET, QUIT, response | `XdrServer` |
| XDR client | `XDR/XDR_FILE-client_TCP_file_getaddrinfo/client.c` 43-161 | the message | GET, QUIT, the response | `XdrClient` |
| Sum server | `LAB (MOD)/LAB1/es1.1/server_test.c` | the connection, the line being read | accept, line, answer | `SumServer` |
| Sum client | `LAB (MOD)/LAB1/es1.3/client/client.c` | `my_read`'s buffer | request, answer | `SumClient` |
| Start-up, address lookup, `errlib` | `02-.../client.c`, `sock_manager.c`, `errlib.c` | none | | not modelled |

How they interact:

* The forking server forks a child for each connection; the child runs
  `ftp_sender` and exits; the kernel sends SIGCHLD; `sig_chld` reaps zombies
  and changes `n_children` on top of whatever `main` was doing.
* The preforking server's children inherit one listening socket; the kernel
  gives each connection to one of them; each child runs `ftp_sender` for one
  client after the other. The parent sleeps until SIGINT.
* `ftp_sender` and a client talk over a TCP connection: commands one way,
  replies, header and bytes the other. The size in the header is all that
  tells file bytes from the next reply.
* The kernel tells a writer of a closed connection by SIGPIPE, whose handler
  sets the global `sigpipe`; the sender looks at it after each block.

* The UDP pool's children receive from one socket; the kernel gives each
  datagram to one of them. A client's answer comes from any of them, or never.
* The XDR programs exchange whole messages over TCP; the server's accept loop is
  the forking server's. The sum server accepts and serves in one process.

The behaviours that are hard to test, each at its line and with the properties
aimed at it, are listed under `hazards` in `PROJECT.json`.

What makes each component correct:

* *Forking server*: the counter covers the children, the limit holds, every
  zombie is reaped, nobody waits for ever while a place is free, no error of
  the handler leaks into `Accept`.
* *Preforking server*: a session starts clean, the children that are left take
  every connection, SIGINT ends parent and children.
* *Session*: every command is answered once and in order, by exactly the file
  or by an error; the two ends stay in step; neither end outlives the other.
* *UDP*: an echo belongs to the address it came to, nothing is amplified, the
  limit holds per process while the table has room, a client ends whatever is
  lost.
* *XDR*: a request is answered in its turn, by an error or by a copy that has the
  announced length; making a new stream for every message loses nothing; nobody
  waits for a message that will not come.
* *Sums*: the printed sum is the right one for the operands sent, in whatever
  pieces it came, while the server lives; each client has its turn.

## 2. Modules

    ConcurrentServer                        implements SessionPool
    PreforkServer
    FtpChannel  -->  FtpSender  -------+--> FtpSession     (with MultiplexClient)
                                       |       implements FileDelivery
                                       +--> SimpleSession  (with SimpleClient)
                XdrServer, XdrClient -----> XdrSession
                                               implements FileDelivery
    UdpNetwork  -->  UdpPool, UdpClient --> UdpEcho
    SumChannel  -->  SumServer, SumClient --> SumSession

`ConcurrentServer`, `PreforkServer` and each `...Session` and `UdpEcho` have a
`...Proofs` module that extends them;
`FtpSenderProofs` is shared by `FtpSessionProofs` and `SimpleSessionProofs`.

`MC...` modules give TLC its instances. A definition whose comment begins
"Mutant of" is not part of the model: it is the operation with a plausible bug,
kept next to it to show that a property would notice.

### ConcurrentServer

One action per step of the accept loop at which a signal can fall: block
SIGCHLD (`Mask`), test (`Test`), `waitpid` and decrement (`WaitReaps`,
`WaitFails`), unblock (`Unmask`), `Accept` with its errors (`AcceptOk`,
`AcceptFails`, `AcceptInterrupted`, `AcceptAgain`, `AcceptDies`), `Fork`, and the
increment. `AcceptFails` sets an errno that the loop in `Accept` tries again after or
one that it does not, which ends the server. `00-compile.txt` builds without
optimisation, and there `n_children++` is a load, an addition and a store: the
increment has the two steps `Inc` and `Store`. `lost` is a history variable: the
decrements that the handler made between the two and the store overwrote, less
those that a `waitpid` without children made up for (`WaitFails`; the code subtracts
whatever `waitpid` returns). The handler runs on top of any step (`HandlerStart`,
`HandlerReaps`, `HandlerReturns`); `At(label)` holds the interrupted program
back. The process table (`child`), the pending bit, and the backlog are the
kernel's. `sigpipe = 0` and the printing are left out: no step of the parent
reads them.

`SessionPool` is what the server promises: connections wait in a bounded
backlog, at most `MaxChildren` are served. `BoundedSessions` maps a waiting
connection to the backlog and to the connection accepted but not yet forked for.

### PreforkServer

The parent forks, installs the handler, pauses; `sig_int` is its two loops. The
parent's copy of `pids` is a variable because its value matters: nobody writes
it. `kill` with pid 0 reaches the whole process group. `wait(NULL)`'s loop is
one action, `WaitAll`: it blocks until no child is alive and reaps all of them.
The number of children is chosen at the start, 0 to `MaxChilds`. A session is
what the pool depends on: commands, blocks, the reset and SIGPIPE that follow a
client's close, the end. The client may close while it is still in the backlog,
in mid-file or between commands, and may come back. A connection whose client has
gone stays in the queue until a child accepts it. A child may be lost in `Accept`
(`AcceptDies`) and is not replaced.

### FtpChannel, FtpSender, MultiplexClient, SimpleClient

The connection is two sequences of tokens and the state of two ends. A command
line, a reply line, the size-and-time header and a file's byte are one token
each; a byte is known by its file and position, so that a property can say
whose byte is where. `ClientAtReset` is a connection that the server closed
with commands unread.

`FtpSender` follows `ftp_sender`: `ReadGet`/`ReadOther`/`ReadEof`, the three
outcomes of `stat` and `fopen` (`OpenOk`, `OpenAbsent`, and `OpenLocked`, which
answers nothing), the header with the size `stat` found, blocks no longer than
`CHUNK`, the rest, and what the file has. QUIT is an `ReadOther`, since the
code's test of it never succeeds. `Resize` is another process at the file;
`ServerDies` a signal.

`MultiplexClient` follows `ftp_receiver_multiplexing` turn by turn: `Select`
chooses which of the two descriptors are ready, the socket is treated first
(`reply`, then `header`, or one `byte`), the keyboard second. `got` stands for
the file on disk and for `file_ptr`, which is its length. `Garbage` is the size
that is read from a header that never came. `SimpleClient` follows
`ftp_receiver` and `file_socket_receive`.

`FileDelivery` is what a user expects of a session: requests, each answered
once, in order, by the whole file or an error; once the service is down
(`GoDown`), by an error. `FtpSession` never maps to a service that is down, since
its client ends with the server; `XdrSession` does, when the child was killed.

### UdpNetwork, UdpPool, UdpClient, UdpEcho

The network is a bag of datagrams, in flight or waiting in a socket: any may be
lost, taken in any order, and up to `MaxDup` are doubled. `UdpPool` has the two
protocols that the pool's source offers (`echo` is `udp_protocol`, `limited` is
`handle_clients_udp`, which the call at line 287 may be replaced by) and the
limiter of `es2.2` (`single`, one process), which counts differently: `Counted`
holds the three ways. Receiving, looking up and counting touch only the
child's own memory and are one action, `Receive`; `Answer` is another, since the
child may be killed in between. `getnameinfo` failing is `ReceiveNameless` in the
limiter and nothing in `echo`, which answers all the same. A count of 0 is a host
that is not in the table. `answered` is a history variable: what each child has
answered each host.

Both tables have `MaxClients` entries. `es2.2` looks at the end of its table and
forgets the host that finds no room; the pool's limiter does not (`server.c:109-111`)
and writes past it. It also counts without end (`server.c:102`), up to `MaxCount`, the
greatest int. What follows either C does not define (`Undefined`). The child is
`wild` from then on, and `ReceiveWild` lets it block, or answer any text to any
address that a client may have; `ChildDies` is always possible. That much is needed:
behind `clients` in the frame lie the strings of host and service, the datagram, or
the loop's variables, and `token[12]` may be the address to be answered, depending on
how the compiler orders them. What it does not do is answer twice, or run
anything but this loop. `RecvfromFails` is `es2.2`'s unchecked `recvfrom`: it counts
what the address happens to hold (`Stale`, or a host), and its `sendto` of -1 bytes
fails; the byte it stores at `buf[-1]` is taken to hurt nothing, as is the pool's
`buf[nread]` after a datagram of full length.

A client of `UdpClient` is one run of the program. A run of the program gets a
port that no other holds, possibly one of an earlier run; so an answer may find
the wrong one. `try_recv` is `TryReceives`, `TryExpires` (also when `select`
fails) or `ReceiveFails`. `sendto` failing ends the program before anything
happened, like a user who never types. The pool's `sig_int` is the text of
`01-...`'s and modelled in `PreforkServer`; here it is a reason for `ChildDies`.

### XdrServer, XdrClient, XdrSession

On `FtpChannel`, with a message as one or more tokens: a response is its tag, its
length and its bytes. `ReadByte` is a turn of the loop over `fread`, whose result
the code does not look at: at the end of a file that was truncated the byte
read before is stored again (`NextByte`). `Flush` hands any part of the
response to the kernel, as `xdr_message` and `fflush` do with a full buffer. The client
decodes a response when it is `Complete`, and fails to when the stream ends before;
whatever else is in the stream is then lost with the `FILE` (`s2c' = <<>>`), and
`NothingReadAhead` says that there is nothing. The branch for any other tag
(`server.c:196`) is left out, since the client sends GET and QUIT only.

### SumChannel, SumServer, SumClient, SumSession

The line protocol of LAB1, byte by byte where the code is: `readline_unbuffered`
takes one byte at a time (`ReadByte`) and takes the end of the stream for the end
of a line (`LineEof`); `sendn` sends what the kernel takes (`SendSome`); the
`MSG_ERR` is sent by a single `send`, whose rest is dropped. The
client's `my_read` fills a buffer with whatever has come (`FillBuffer`) and
`readline` takes it out byte by byte (`TakeByte`, `AnswerCut`). Two tokens stand
for the text of an answer, so that half of one can be told from the whole.
`Width` stands for 2^16; `%hu` is `% Width`.

## 3. Runs

| Run | Question | Outcome |
|---|---|---|
| `server` | with the two-step increment: what exactly is the counter, does the limit hold, when does the parent wait; are zombies reaped, connections served; is it a `SessionPool`? | hold |
| `server_wait` | does the parent wait only when there are MAX_CHILDREN around? | violated |
| `server_errno` | does `Accept` test the errno of its own call? | violated |
| `prefork` | does a session start clean, is every connection taken, does SIGINT end the pool? | hold |
| `prefork_sigint` | does the parent wait for its children? | violated |
| `ftp_session` | do the ends stay in step, is every command answered once, in order, whole, also when files grow? | hold |
| `ftp_faults` | does each end notice that the other is gone; does Q end the client? | hold |
| `ftp_truncated` | is a file that the client reports a file's bytes? | violated |
| `simple_session` | is a reported copy whole, does a transfer end, is no child left behind? | hold |
| `udp_echo` | whose echo is it, is anything amplified, does the limit hold in each process, does every client end, over a bad network and beyond the end of a table? | hold |
| `xdr_session` | is every request answered in turn, by a copy or an error, when files change and the child dies? | hold |
| `sum_session` | is every printed sum right, or the beginning of a right one left by a dead server; does every client have its turn? | hold |

### What the violated runs show

* **`server_errno`** `accept()` fails for a transient reason; before its errno
  is tested the handler reaps the last child and its final `waitpid` leaves
  ECHILD; `Accept` takes that for fatal and ends the server.
* **`server_wait`** The handler runs between the load and the store of
  `n_children++` (`00-.../server.c:226`) and its decrement is overwritten; some forks
  later the counter says 3 with two children around, and the parent blocks in
  `waitpid`, against the comments at `server.c:145` and `:44`. `CountExact` and
  `WaitAccounted` say how far it goes: every place is taken by a child or by a lost
  decrement, the counter only errs upwards, and a `waitpid` that finds no child makes
  up for one loss. So with clients that all end some day the service goes on
  (`Served`); with clients that stay, each loss is a place less.
* **`prefork_sigint`** The parent's `pids` are zeros; the first `kill` goes to
  the process group, the parent included. The children do end (`PoolEnds`),
  but not because they were waited for.
* **`ftp_truncated`** The client counts bytes at the end of the stream and
  reports the file as received.

More disagreements, without a run of their own:

* `TIMEOUT` of the preforking server (`server.c:34`) is used nowhere, so a silent
  client holds its child, against the comment at `server.c:33`.
* SIGINT that comes before `sigaction` (`01-.../server.c:217`), from `kill` and not
  from the terminal, kills the parent and leaves the children it has forked, though
  the handler is there to "terminate childs when the parent is terminated"
  (`server.c:51`).
* The pool's limiter enters the eleventh host past the end of its table
  (`03-.../server.c:109-111`). From then on nothing ties what it finds there to what
  it counted, and a host may be answered more often than "NUMBER OF MAX ACCESS"
  (`server.c:103`) says; `LimitPerProcess` holds up to that point only.
* Q leaves the client's loop as soon as no file is being read, also when the
  answer to an earlier GET is on its way, though "here quit only after the file
  was succesful transfered" (`ftp.c:487`).
* The size is compared after a byte only (`ftp.c:452`), so the download of an
  empty file is never closed, and the next answers are taken for its bytes.
* The Q that stands for the end of the keyboard (`ftp.c:474`) is set in the branch
  whose `else` would have acted on it, so the client spins.

### Bounds, and why they are enough

* `ConcurrentServer`: the code's `MAX_CHILDREN` is 3 and so is the model's; four
  pids leave one free when the pool is full, and two connections in the backlog
  let one wait behind another. Two of the pids are `Patient`. In the violated runs pids
  are interchangeable, hence the symmetry. The proofs remove these bounds.
* `PreforkServer`: up to two children and three clients, one of them silent for
  ever: more clients than children, a client that waits for a busy child, and a
  child that serves one client after another. Two blocks: the flag may be set
  in the first and seen in the second.
* `FtpSession`: `Chunk = 2`, with files of 2 and 3 bytes and one that does not
  exist: exactly one block, more than a block, an error, in any order of two
  commands typed ahead (`MaxGets`). Files grow to at most 4 bytes (`MaxSize`),
  which gives each of them a last block that fits no longer. `MaxGot = 4` is
  as long as any download; `Garbage = 5` is a size that no file has.
* `SimpleSession`: files of 0 and 3 bytes, one absent, one locked; reads of
  1 or 2 bytes at a time.

* `UdpEcho`: two runs of the client and two ports of two hosts, so that the second
  run may get the port of the first or be another host; two waits instead of
  five, since a wait that is not the last is like the one before it; one doubled
  datagram; a limit of one token, a table of one host and a greatest count of two in
  place of 3, 10 and 2^31 - 1, which makes "limit reached", "table full" and "count
  overflows" happen with the datagrams there are. An address that nobody filled in
  reads as one value more, `Stale`.
* `XdrSession`: a file of 2 bytes that grows to 3, one of 1 byte that also
  shrinks, one locked, one absent; two requests in a session: the second
  comes to a server that is in its place, has left, or was killed.
* `SumSession`: two clients, so that one waits for the other; two sums each;
  numbers of 2 bits with operands on both sides of the greatest sum and one that
  is cut.

Empty files are left out of the `ftp_` runs, because they break the session; a locked file is left out of `ftp_session`, because its
request is not answered; shrinking files are left out of `ftp_session` and
`simple_session`, because the announced bytes then never come and client and
server wait for each other. `ftp_faults` has a file that shrinks and a locked
one: what it checks holds all the same.

### Deadlock

Checked everywhere but in the `prefork` runs and in `udp_echo`, where the system
really stops: everyone has been killed and the clients wait in a backlog nobody
reads; the UDP clients have ended and the children wait for datagrams.
`Stopped` and `Terminated` mark the ends that are meant.

### Fairness, and why the code justifies it

* The kernel runs every process that can run, delivers pending signals, and
  completes system calls: weak fairness of `Parent`, `SigChld`, `ServerRuns`,
  `ClientStep`, of the children's steps, and of some child's accept. `ForkDies` and
  `AcceptFails` are errors, and nothing makes them happen.
* `AcceptOk` is strongly fair: transient errors of `accept()` come and go, and
  the loop in `Accept` tries again.
* A child ends when its client does. That is not the server's doing, so it is
  assumed of all children except `Patient` ones; in `server` two of the
  children may keep their client for ever. In `PreforkServer` likewise, except `Idle`.
* `EndSession` is strongly fair: a client that has closed has left finitely
  many commands behind.
* `UdpEcho` asks only that some child that can go on does, and some client: the
  datagrams and the waits are finitely many, so that every one gets its turn.
  Nothing is assumed of the network.
* In `SumSession` every user is done some day: the server has one process, and a
  client that stays keeps it (`server_test.c:230`).
* No other user is assumed to type, nothing is assumed of another process at a file,
  and a server need not die. `ClientMustMove` says when the client's `Select`
  can return without the user.

## 4. Proofs

Every safety property of the passing runs is also a theorem: for every value of the
constants that the named assumptions admit, with no fairness used. A module
`XProofs` holds the theorems about `X`.

| Module | Theorem | Statement |
|---|---|---|
| `ConcurrentServerProofs` | `TypeCorrect` | `Spec => []TypeOK` |
| | `CounterCovers` | `Spec => []CountCovers` |
| | `Bounded` | `Spec => []ChildrenBounded` |
| | `CounterExact` | `Spec => []CountExact` |
| | `WaitsAreAccounted` | `Spec => []WaitAccounted` |
| | `LoopCorrect` | `Spec => []LoopInv` |
| | `ZombiesSignalled` | `Spec => []ZombieIsSignalled` |
| | `Implements` | `Spec => BoundedSessions`, the refinement of `SessionPool` |
| `PreforkServerProofs` | `TypeCorrect` | `Spec => []TypeOK` |
| | `NoInheritedAbort` | `Spec => []AbortIsForThisClient` |
| | `ConnectionsAreSeparate` | `Spec => []OneConnection` |
| `SimpleSessionProofs` | `TypeCorrect` | `Spec => []TypeOK` |
| | `CopyIsWhole` | `Spec => []CopyWhole`, if the child is not killed |
| `FtpSessionProofs` | `TypeCorrect` | `Spec => []TypeOK` |
| | `StaysAligned` | `Spec => []StreamAligned`, for `OrdinaryFiles` |
| | `SessionDelivers` | `Spec => InOrderDelivery`, the refinement of `FileDelivery`, for `OrdinaryFiles` |
| `XdrSessionProofs` | `TypeCorrect` | `Spec => []TypeOK` |
| | `NothingIsReadAhead` | `Spec => []NothingReadAhead` |
| | `SessionDelivers` | `Spec => InOrderDelivery`, the refinement of `FileDelivery` |
| `UdpEchoProofs` | `TypeCorrect` | `Spec => []TypeOK` |
| | `EchoesAreOfOwnAddress` | `Spec => []EchoOfOwnAddress` |
| | `NothingIsAmplified` | `Spec => []NoAmplification` |
| | `LimitHolds` | `Spec => []LimitPerProcess` |
| `SumSessionProofs` | `TypeCorrect` | `Spec => []TypeOK` |
| | `SumsAreRight` | `Spec => []SumsRight` |

`FtpSenderProofs` has no theorem of its own: its lemmas say that tokens cannot be
taken for each other, that a block is the least of `CHUNK`, the rest announced and
what the file has, and that the sender keeps its types whatever client it has.

### Assumptions

The named assumptions of the modules, which TLC evaluates in the runs: sets of pids
and of clients that are finite, where they are counted; at least one file, since
`sFile` starts as one; at least one client of the sum server, since `conn` does;
limits and sizes that are numbers, and above zero where the code's are. What bounds
the instances in the runs (how many clients, requests, files, doubled datagrams,
bytes of a block) is a parameter here.

Two theorems ask for more, as the runs do:

* `CopyIsWhole` for a child that is not killed. The one-shot client takes the end
  of the stream for the end of the file, so nothing else could hold.
* `StaysAligned` and `SessionDelivers` of `FtpSessionProofs` for `OrdinaryFiles`: no
  file is locked (its request is not answered), none is empty (its download is not
  closed), none is truncated (the bytes announced never come), the child is not
  killed (the client counts on at the end of the stream), and `MaxGot` keeps a whole
  file. Each condition is there because the code breaks without it, section 3 says
  how; `ftp_session.cfg` is an instance. `TypeCorrect` needs none of them.

### The arguments

**ConcurrentServer.** `CountCovers` is not inductive: at `store` the new value comes
from `reg`, loaded before the handler may have reaped children, and
`ChildrenBounded` needs the parent to carry "there is a free place" from the
test to the increment. `LoopInv` states both: SIGCHLD is blocked from the test
to the unblocking, so nothing moves the counter in between; after it the handler
only subtracts, so `nChildren < MaxChildren` survives until the increment; and at
`store` the loaded value plus one covers the children, since it was loaded when
the counter covered them and the handler only makes children fewer. The
inductive invariant is the conjunction of `TypeOK`, `CountCovers`, `CountExact` and
`LoopInv`. `CountExact` keeps account of the two-step increment: a decrement between
load and store moves one from the counter to `lost`, and the store writes the account
back as it was at the load. It also gives `lost` its bounds. With the counter at the
limit when the parent waits it yields `WaitAccounted`. `ZombieIsSignalled` is inductive
relative to the rest.
The lemmas on cardinality say what forking, dying and reaping one child does to
the number of unreaped children. For `Implements` each action maps to a step
of the pool or to a stutter: `ForkOk` is `Start`, `ChildExits` is `Finish`,
`Connect` is `Arrive`, and `AcceptDies` and `ForkDies` are `Fail`; every other
action leaves waiting, serving and up as they are.

**PreforkServer.** A flag found set in mid-file is about this session's client if no
two children, and no two places of the backlog, hold the same client: otherwise
the close of one connection would be seen on another. `OneConnection` says that,
and `AwayIsAway` keeps it when a client comes back. A child that has lost its place
before its session began must not be counted as serving (`NotForked`).

**SimpleSession.** The answer is one sequence of tokens, `AnswerToken(1)`,
`AnswerToken(2)`, ..., and its bytes are numbered by the file. The invariant counts
how many of them the client has taken (`Taken`) and the server has put into the
stream (`Emitted`) at each step of either, so that what is in between is the
answer's next part (`StreamIsAnswer`), and the client's `rLeft` and the server's
`sLeft` are two views of one number (`CopyFollows`). A copy that was reported
stays whole because nothing more is sent of it (`Reported`).

**FtpSession.** With commands typed ahead several answers are in the stream at once.
A place in the server's output is a request, a position in the answer to it, and the
size that was announced there; `Follows` says which place comes after which. The
invariant `InStep` is that the client's state names a place (`ClientAt`), the
server's state names a place (`ServerAt`), and the tokens in the stream stand at the
places that lead from one to the other (`Leads`); so a read moves the client's place
to the next (`ReadOne`), a write of a block moves the server's by as many as it has
tokens (`Write`, `BlockStands`). `CommandsFollow` does the same for the other
direction: commands not yet read are the user's requests behind the ones read.
`StreamAligned` alone is not inductive, since the head of the stream says nothing of
what is behind it. Sizes differ from request to request, as another process may let
the file grow between two downloads, and so every place carries its own. In the
refinement `TypeGet` is `Ask`, an error or the last byte of a file is `Deliver`, every
end of the client is `Finish`, and all the rest stutters.

**XdrSession.** As in `SimpleSession`, with the response spread over the stream and
the server's buffer (`AnswerIs`). That the client asks only when it has been answered
(`InTurn`, `OneRequest`) is what makes `NothingReadAhead` true; the refinement needs
also that an absent file ends the session for all the requests after it (`AbsentEnds`).

**SumSession.** A client is idle, waiting, replied to or ended (`Exchange`). When it is
replied to, the three tokens of the reply are spread over four places: what
`readline` has taken, what `my_read` has buffered, the wire, and what `sendn` has
still to send. `Replied` states which token of the reply each of them holds at each
index. A server that is gone has sent a beginning of it, and the client then prints
the first part: `Printed` says that this happens once, at the end.

**UdpEcho.** `EchoOfOwnAddress` needs that every datagram, in the network or in a
child's hands, was sent by the client whose text it carries and at whose address it
is (`AllGenuine`), as long as no child is wild. For the limit, what a child has
answered a host and is about to (`Given`) is at most its count of the host and at most
`MAXTOKEN` (`Limited`), unless the child is wild or, in `es2.2`, the host found no
room; a host that is not in the table has count 0, so it has had no answer, and a
table that is full stays so (`RoomStays`). That the counts fit an int needs
`MaxToken <= MaxCount` only, since `Undefined` stops at `MaxCount`. `NoAmplification` counts the
datagrams one by one (`Copies`), so that sending adds an element to a finite set and
taking removes one.

TLC checks the same properties on the instances of section 3.

### Only model-checked

* Liveness: all the leads-to properties (`ZombiesReaped`, `Served`, `EveryoneServed`,
  `PoolEnds`, `GetAnswered`, `QuitEnds`, `ServerEnds`, `ServerGoneNoticed`,
  `TransferEnds`, `ClientEnds`, `RequestsTaken`, `SumAnswered`). The prover knows
  neither fairness nor ENABLED.
* What the violated runs state: it does not hold.

## 5. Abstractions

* One token for a line or for the header: a reply or header arrives whole. Short
  reads of the 4-byte header fields are listed as a hazard.
* Streams are not bounded: a `write` never blocks. The client reads whenever it
  can, so a full window would only delay the server.
* The clients' own `sigpipe` is left out: the interactive client's failed
  `Write` ends the program before the flag is read, and the one-shot client
  writes once, to a server that then sends nothing.
* Sizes of buffers, but for the limiters' tables. `ftp.c:205` and `:275` declare
  `MAXBUFL + 1` = 256 bytes, and up to `CHUNK` = 1024 are read into them
  (`ftp.c:166`, `:85`): with a longer block C does not define what happens. The models
  of the sender and the one-shot client are those of a build in which it does no harm.
* Connecting, name lookup and set-up of sockets come before the initial states.
* What is typed and echoed over UDP is known by the run it was typed into; the
  line ends that `remove_end_specials` takes off are not modelled.
* The time of a file's last change goes with its size and is left out.

## 6. Plan

Order of the work, most important first:

1. done - `ConcurrentServer`, `SessionPool` and the proofs.
2. done - the session: `FtpChannel`, `FtpSender`, `MultiplexClient`,
   `SimpleClient`, `FileDelivery`.
3. done - `PreforkServer`.
4. done - `UdpEcho`: the UDP pool, the limiters and the client.
5. done - `XdrSession` against `FileDelivery`.
6. done - `SumSession`: `readline`'s buffer, `readline_unbuffered` and `sendn` in
   the programs that use them.
7. done - proofs of the safety properties of every passing run, and of the three
   refinements.
8. Composition: `ConcurrentServer`'s children running `FtpSender` sessions, so
   that "a child ends when its client does" becomes a theorem about the session
   and not an assumption.

## 7. Not modelled

`src/Libraries` has 520 C files, but only 74 different ones: `sockwrap.c` is
there in 3 versions and 87 copies, `errlib.c` in 89, `ftp.c` and `types.c` in 8,
`sock_manager.c` in 12, and `LAB (MOD)` and `TEORIA/LAB (MOD)` are the same tree. Of about
118,900 lines 16,980 are left without the copies. The models refer to one copy
of each program, and so to a small share of all lines.

Of the rest:

* `errlib` formats a message and ends the process; the ending is in the actions.
* Start-up, name lookup and the printing of addresses are sequential, keep no
  state and finish before anything is shared.
* The `GETADDRINFO-SERVERS-TCP` servers differ from `00-...` and `01-...` in how
  they make their listening socket.
* `types.c` and `types.h` are generated.
* `readn` is called by none of the modelled programs; `server_udp_limitante_new`
  is the limiter with another way to walk its table; `prot_x` of the sum server
  is one request with one answer.
* The other exercises of `LAB (MOD)` and the teaching material of `TEORIA` are
  earlier versions of the programs above.
