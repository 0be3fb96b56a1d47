----------------------------- MODULE FtpChannel -----------------------------
(***************************************************************************)
(* The TCP connection of one file-transfer session, as the socket calls of *)
(* ftp.c see it: a byte stream in each direction and the state of the two  *)
(* ends.  It is the kernel's part and is modelled from its use in ftp.c.   *)
(*                                                                         *)
(* A command line, a reply line, the size-and-time header and a byte of a  *)
(* file are one token each.  The streams are not bounded.                  *)
(***************************************************************************)
EXTENDS Naturals, Sequences

CONSTANT Files     \* the names a client may ask for

VARIABLES
    c2s,    \* commands sent and not yet read by the server
    s2c,    \* tokens sent and not yet read by the client
    cEnd,   \* the client's socket: "open", "shut" for writing, or "closed"
    sEnd    \* the server's socket: "open" or "closed"

channelVars == <<c2s, s2c, cEnd, sEnd>>

Commands == {<<"GET", f>> : f \in Files} \cup {<<"QUIT">>}

Ok      == <<"OK">>
Err     == <<"ERR">>
Size(n) == <<"size", n>>
Byte(f, i) == <<"byte", f, i>>  \* the i-th byte of file f
Junk    == <<"junk">>        \* what a read() that returns 0 leaves in its buffer

ChannelInit ==
    /\ c2s = <<>>
    /\ s2c = <<>>
    /\ cEnd = "open"
    /\ sEnd = "open"

\* select() finds the client's socket readable: data, or the end of the stream.
ClientReadable == s2c # <<>> \/ sEnd = "closed"

\* The end of the stream; a server that closes with commands unread resets the
\* connection instead.
ClientAtEof   == s2c = <<>> /\ sEnd = "closed" /\ c2s = <<>>
ClientAtReset == s2c = <<>> /\ sEnd = "closed" /\ c2s # <<>>

ServerAtEof == c2s = <<>> /\ cEnd # "open"
=============================================================================
