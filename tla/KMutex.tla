------------------------------- MODULE KMutex -------------------------------
(***************************************************************************)
(* The kernel's sleeping mutex, src/kernel/src/sched/kmutex.c: a CAS fast  *)
(* path, a FIFO of waiters under wait_lock, and direct hand-off: unlock    *)
(* with a waiter leaves locked = 1 and grants the mutex to the head.       *)
(*                                                                         *)
(* A section between spinlock_acquire_irqsave(&m->wait_lock) and the       *)
(* matching release is one step; every other shared access is a step of    *)
(* its own.  pc[t] names the place where task t is:                        *)
(*   out      not in kmutex.c                   (callers)                  *)
(*   slow     fast path failed, before taking wait_lock    (line 45)       *)
(*   spin     cannot sleep, polls kmutex_trylock           (line 38)       *)
(*   own      locked was CASed to 1, owner not yet written (line 27)       *)
(*   check    tests w.granted in the loop condition        (line 56)       *)
(*   resched  inside sched_reschedule                      (line 57)       *)
(*   recheck  tests w.granted again                        (line 58)       *)
(*   relock   before re-marking itself BLOCKED             (line 59)       *)
(*   fin      granted, owner not yet written               (line 67)       *)
(*   cs       holds the mutex                                              *)
(*   wake     handed the mutex over, before task_unblock   (line 81)       *)
(***************************************************************************)
EXTENDS Naturals, Sequences, SchedAPI

CONSTANT NoTask

ASSUME NoTaskAssumption == NoTask \notin Task

VARIABLES locked,    \* m->locked
          owner,     \* m->owner
          queue,     \* the waiters from m->head to m->tail
          granted,   \* granted[t]: w.granted of t's waiter record
          target,    \* target[t]: the task t is about to task_unblock
          pc

mutexVars == <<locked, owner, queue, granted, target>>
vars == <<state, oncpu, locked, owner, queue, granted, target, pc>>

Places == {"out", "slow", "spin", "own", "check", "resched", "recheck",
           "relock", "fin", "cs", "wake"}

Init == /\ SchedInit
        /\ locked = 0
        /\ owner = NoTask
        /\ queue = <<>>
        /\ granted = [t \in Task |-> FALSE]
        /\ target = [t \in Task |-> NoTask]
        /\ pc = [t \in Task |-> "out"]

Goto(t, p) == pc' = [pc EXCEPT ![t] = p]
At(t, p)   == oncpu[t] /\ pc[t] = p

(* kmutex_trylock up to the CAS; the write of owner is step Own. *)
CasLocked(t) == /\ locked = 0
                /\ locked' = 1
                /\ Goto(t, "own")
                /\ UNCHANGED <<owner, queue, granted, target>>

Own(t) == /\ At(t, "own")
          /\ owner' = t
          /\ Goto(t, "cs")
          /\ UNCHANGED <<state, oncpu, locked, queue, granted, target>>

(* kmutex_lock's fast path, or a successful kmutex_trylock. *)
LockFast(t) == At(t, "out") /\ CasLocked(t) /\ UNCHANGED schedVars

(* The fast path failed: a task that may sleep queues, another one spins. *)
LockContended(t) == /\ At(t, "out")
                    /\ locked = 1
                    /\ \E p \in {"slow", "spin"} : Goto(t, p)
                    /\ UNCHANGED <<schedVars, mutexVars>>

Spin(t) == At(t, "spin") /\ CasLocked(t) /\ UNCHANGED schedVars

(* Lines 45-48: the retry under wait_lock takes the mutex. *)
SlowTake(t) == At(t, "slow") /\ CasLocked(t) /\ UNCHANGED schedVars

(* Mutation: the waiter is pushed at the head of the list. *)
SlowWaitMut(t) == /\ At(t, "slow")
                  /\ locked = 1
                  /\ queue' = <<t>> \o queue
                  /\ granted' = [granted EXCEPT ![t] = FALSE]
                  /\ SetBlocked(t)
                  /\ Goto(t, "check")
                  /\ UNCHANGED <<oncpu, locked, owner, target>>

(* Lines 49-55: the waiter is appended and the task marks itself BLOCKED. *)
SlowWait(t) == /\ At(t, "slow")
               /\ locked = 1
               /\ queue' = Append(queue, t)
               /\ granted' = [granted EXCEPT ![t] = FALSE]
               /\ SetBlocked(t)
               /\ Goto(t, "check")
               /\ UNCHANGED <<oncpu, locked, owner, target>>

Check(t) == /\ At(t, "check")
            /\ Goto(t, IF granted[t] THEN "fin" ELSE "resched")
            /\ UNCHANGED <<schedVars, mutexVars>>

Resched(t) == /\ At(t, "resched")
              /\ ReschedReturns(t)
              /\ Goto(t, "recheck")
              /\ UNCHANGED mutexVars

Recheck(t) == /\ At(t, "recheck")
              /\ Goto(t, IF granted[t] THEN "check" ELSE "relock")
              /\ UNCHANGED <<schedVars, mutexVars>>

(* Mutation: the second test of w.granted, under wait_lock, is left out. *)
RelockMut(t) == /\ At(t, "relock")
                /\ SetBlocked(t)
                /\ Goto(t, "check")
                /\ UNCHANGED <<oncpu, mutexVars>>

(* Lines 59-64: still not granted, sleep again. *)
Relock(t) == /\ At(t, "relock")
             /\ IF granted[t] THEN UNCHANGED state ELSE SetBlocked(t)
             /\ Goto(t, "check")
             /\ UNCHANGED <<oncpu, mutexVars>>

Fin(t) == /\ At(t, "fin")
          /\ owner' = t
          /\ Goto(t, "cs")
          /\ UNCHANGED <<schedVars, locked, queue, granted, target>>

(* Mutation: owner is not cleared. *)
UnlockFreeMut(t) == /\ At(t, "cs")
                    /\ queue = <<>>
                    /\ locked' = 0
                    /\ Goto(t, "out")
                    /\ UNCHANGED <<schedVars, owner, queue, granted, target>>

(* kmutex_unlock without a waiter. *)
UnlockFree(t) == /\ At(t, "cs")
                 /\ queue = <<>>
                 /\ owner' = NoTask
                 /\ locked' = 0
                 /\ Goto(t, "out")
                 /\ UNCHANGED <<schedVars, queue, granted, target>>

(* Mutation: locked is cleared although the mutex is handed over. *)
UnlockHandoffMut(t) == /\ At(t, "cs")
                       /\ queue # <<>>
                       /\ owner' = NoTask
                       /\ locked' = 0
                       /\ queue' = Tail(queue)
                       /\ granted' = [granted EXCEPT ![Head(queue)] = TRUE]
                       /\ target' = [target EXCEPT ![t] = Head(queue)]
                       /\ Goto(t, "wake")
                       /\ UNCHANGED schedVars

(* Mutation: the waiter is granted the mutex but never unblocked. *)
UnlockNoWakeMut(t) == /\ At(t, "cs")
                      /\ queue # <<>>
                      /\ owner' = NoTask
                      /\ queue' = Tail(queue)
                      /\ granted' = [granted EXCEPT ![Head(queue)] = TRUE]
                      /\ Goto(t, "out")
                      /\ UNCHANGED <<schedVars, locked, target>>

(* kmutex_unlock with a waiter: locked stays 1, the head is granted. *)
UnlockHandoff(t) == /\ At(t, "cs")
                    /\ queue # <<>>
                    /\ owner' = NoTask
                    /\ queue' = Tail(queue)
                    /\ granted' = [granted EXCEPT ![Head(queue)] = TRUE]
                    /\ target' = [target EXCEPT ![t] = Head(queue)]
                    /\ Goto(t, "wake")
                    /\ UNCHANGED <<schedVars, locked>>

(* The task_unblock after wait_lock was released. *)
Wake(t) == /\ At(t, "wake")
           /\ task_unblock(target[t])
           /\ target' = [target EXCEPT ![t] = NoTask]
           /\ Goto(t, "out")
           /\ UNCHANGED <<oncpu, locked, owner, queue, granted>>

(* The scheduler's side.  A task is switched away wherever it is: line 57  *)
(* is reached in state BLOCKED, and a timer interrupt may come at any      *)
(* place outside wait_lock.                                                *)
Preempt(t)   == SwitchAway(t) /\ UNCHANGED <<mutexVars, pc>>
RunAgain(t)  == Dispatch(t) /\ UNCHANGED <<mutexVars, pc>>

(* A wake meant for an earlier sleep of the task arrives late. *)
StrayWake(t) == state[t] = "BLOCKED" /\ task_unblock(t)
                /\ UNCHANGED <<oncpu, mutexVars, pc>>

Locking(t) == LockFast(t) \/ LockContended(t)
Waiting(t) == \/ Own(t) \/ Spin(t) \/ SlowTake(t) \/ SlowWait(t) \/ Check(t)
              \/ Resched(t) \/ Recheck(t) \/ Relock(t) \/ Fin(t)
Leaving(t) == UnlockFree(t) \/ UnlockHandoff(t) \/ Wake(t)

Next == \E t \in Task : \/ Locking(t) \/ Waiting(t) \/ Leaving(t)
                        \/ Preempt(t) \/ RunAgain(t) \/ StrayWake(t)

Spec == Init /\ [][Next]_vars

(* The scheduler runs every READY task eventually, a task that runs makes  *)
(* its next step, and a holder eventually unlocks.  Nothing makes a task   *)
(* call kmutex_lock, preempts it or wakes it without cause.                *)
Fairness == \A t \in Task : /\ WF_vars(Waiting(t) \/ Leaving(t))
                            /\ WF_vars(RunAgain(t))

FairSpec == Spec /\ Fairness
-----------------------------------------------------------------------------
TypeOK == /\ SchedTypeOK
          /\ locked \in {0, 1}
          /\ owner \in Task \cup {NoTask}
          /\ queue \in Seq(Task)
          /\ granted \in [Task -> BOOLEAN]
          /\ target \in [Task -> Task \cup {NoTask}]
          /\ pc \in [Task -> Places]

(* A task is queued or was granted the mutex while at one of these places. *)
Sleeping(t) == pc[t] \in {"check", "resched", "recheck", "relock"}

Holds(t) == pc[t] \in {"own", "fin", "cs"} \/ (Sleeping(t) /\ granted[t])

(* At most one task is past kmutex_lock, the one a hand-off is on its way  *)
(* to included.                                                            *)
MutualExclusion == \A t, u \in Task : Holds(t) /\ Holds(u) => t = u

(* kmutex_held_by_me answers TRUE exactly to the task that returned from   *)
(* kmutex_lock or kmutex_trylock and has not yet unlocked.                 *)
HeldByMe(t) == locked = 1 /\ owner = t
HeldByMeCorrect == \A t \in Task : HeldByMe(t) <=> pc[t] = "cs"

(* No lost hand-off: a task that was granted the mutex and is still marked *)
(* BLOCKED has an unlocker on its way to task_unblock it.                  *)
HandoffReaches ==
    \A t \in Task : (state[t] = "BLOCKED" /\ granted[t])
                    => \E u \in Task : pc[u] = "wake" /\ target[u] = t

Holder == IF \E t \in Task : Holds(t)
          THEN CHOOSE t \in Task : Holds(t) ELSE NoTask

(* The mutex is a fair lock: the fast path never overtakes a queued waiter *)
(* (locked stays 1 across a hand-off) and hand-offs follow arrival order.  *)
Abs == INSTANCE FairLock WITH holder <- Holder, queue <- queue
ImplementsFairLock == Abs!Spec

(* A task that queued on the mutex gets it. *)
WaiterServed == \A t \in Task : (pc[t] = "check") ~> (pc[t] = "cs")
=============================================================================
