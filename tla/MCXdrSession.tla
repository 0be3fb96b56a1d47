---------------------------- MODULE MCXdrSession ----------------------------
(* Instances of XdrSession for TLC. *)
EXTENDS XdrSession

CONSTANTS log, cut, locked, gone

\* A file that grows, one that is also truncated, one that cannot be
\* opened and one that does not exist.
MCFiles == {log, cut, locked, gone}
MCKind == [f \in Files |-> IF f = gone THEN "absent"
                           ELSE IF f = locked THEN "locked" ELSE "regular"]
MCSize == [f \in Files |-> IF f = log THEN 2 ELSE IF f = cut THEN 1 ELSE 0]
MCShrinking == {cut}
=============================================================================
