-------------------------- MODULE MCSimpleSession --------------------------
(* Instances of SimpleSession for TLC. *)
EXTENDS SimpleSession

CONSTANTS empty, three, gone, locked

MCFiles == {empty, three, gone, locked}
MCKind == [f \in MCFiles |-> IF f = gone THEN "absent"
                             ELSE IF f = locked THEN "locked" ELSE "regular"]
MCSize == [f \in MCFiles |-> IF f = three THEN 3 ELSE 0]
Growth == {1}
=============================================================================
