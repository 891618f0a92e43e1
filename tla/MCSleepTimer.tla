---------------------------- MODULE MCSleepTimer ----------------------------
(* Two sleepers, one of them signalled and preempted, for TLC. *)
EXTENDS SleepTimer

CONSTANTS t1, t2

SleepLen == [t \in Task |-> IF t = t1 THEN 1 .. 2 ELSE {1}]
=============================================================================
