---------------------------- MODULE MCFtpSession ----------------------------
(* Instances of FtpSession for TLC. *)
EXTENDS FtpSession

CONSTANTS two, three, gone, locked

\* Two files of different sizes, one of them longer than a chunk, and none.
SessionFiles == {two, three, gone}
FaultFiles == {two, locked}
OneFile == {three}

KindOf(f) == IF f = gone THEN "absent" ELSE IF f = locked THEN "locked" ELSE "regular"
SizeOf(f) == IF f = two THEN 2 ELSE IF f = three THEN 3 ELSE 0

MCKind == [f \in Files |-> KindOf(f)]
MCSize == [f \in Files |-> SizeOf(f)]

NoChange == {}
Growth == {1}
AnyChange == {-1, 1}
=============================================================================
