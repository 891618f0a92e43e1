------------------------------ MODULE MCSched ------------------------------
(* Instances of Sched for TLC. *)
EXTENDS Sched

CONSTANTS t1, t2

FlatPrio == [t \in Task |-> 0]
TwoPrio  == [t \in Task |-> IF t = t1 THEN 1 ELSE 0]
T2Pinned == [t \in Task |-> IF t = t2 THEN {0} ELSE Cpu]
AnyCpu   == [t \in Task |-> Cpu]
=============================================================================
