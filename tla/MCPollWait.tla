----------------------------- MODULE MCPollWait -----------------------------
(* The tasks of the run of PollWait, the files they ask about and the file *)
(* that changes.                                                           *)
EXTENDS PollWait

CONSTANTS p1, p2, w1, f1, f2

Wanted == [t \in Poller |-> IF t = p1 THEN {f1, f2} ELSE {f1}]
Fed    == [w \in Waker |-> {f1}]
=============================================================================
