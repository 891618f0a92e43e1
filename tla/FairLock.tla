------------------------------ MODULE FairLock ------------------------------
(***************************************************************************)
(* What a sleeping mutex promises its callers: one holder, and once a task *)
(* waits in the queue no later caller gets the lock before it.             *)
(***************************************************************************)
EXTENDS Sequences

CONSTANTS Task, NoTask

VARIABLES holder, queue

vars == <<holder, queue>>

Init == holder = NoTask /\ queue = <<>>

(* A free lock nobody waits for is taken at once. *)
Take(t) == /\ holder = NoTask
           /\ queue = <<>>
           /\ holder' = t
           /\ UNCHANGED queue

(* A held lock is waited for behind the earlier waiters. *)
Join(t) == /\ holder \notin {NoTask, t}
           /\ queue' = Append(queue, t)
           /\ UNCHANGED holder

(* The holder gives the lock to the longest waiting task, or frees it. *)
Release == /\ holder # NoTask
           /\ IF queue = <<>>
              THEN holder' = NoTask /\ UNCHANGED queue
              ELSE holder' = Head(queue) /\ queue' = Tail(queue)

Next == (\E t \in Task : Take(t) \/ Join(t)) \/ Release

Spec == Init /\ [][Next]_vars
=============================================================================
