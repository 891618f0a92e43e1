------------------------------- MODULE MCWait -------------------------------
(* The tasks of the runs of Wait and how each calls wait4. *)
EXTENDS Wait

CONSTANTS i, p, c1, c2

Mixed   == [t \in Task |-> IF t = i THEN {<<AnyChild, "WNOHANG">>}
                           ELSE IF t = p THEN {<<AnyChild, "hang">>, <<c1, "hang">>, <<AnyChild, "WNOWAIT">>}
                           ELSE IF t = c1 THEN {<<AnyChild, "hang">>} ELSE {}]
Hanging == [t \in Task |-> IF t = p THEN {<<AnyChild, "hang">>, <<c1, "hang">>} ELSE {}]
=============================================================================
