------------------------------ MODULE SchedAPI ------------------------------
(***************************************************************************)
(* What the blocking primitives of the kernel (mutexes, wait queues, pipes,*)
(* futexes, poll, wait4) use of the scheduler: the fields of task_t they   *)
(* read and write and the calls task_unblock and sched_reschedule.  The    *)
(* ready queues and the CPUs behind these calls are the subject of module  *)
(* Sched, which is shown to keep the promises made here.                   *)
(*                                                                         *)
(* state[t]  : task_t.state (task_t.runnable is FALSE exactly while the    *)
(*             state is BLOCKED or ZOMBIE)                                 *)
(* oncpu[t]  : task_t.on_cpu, the task executes instructions on some CPU   *)
(***************************************************************************)
CONSTANT Task

VARIABLES state, oncpu

schedVars == <<state, oncpu>>

TaskState == {"RUNNING", "READY", "BLOCKED", "ZOMBIE"}

SchedTypeOK == /\ state \in [Task -> TaskState]
               /\ oncpu \in [Task -> BOOLEAN]

SchedInit == /\ state = [t \in Task |-> "RUNNING"]
             /\ oncpu = [t \in Task |-> TRUE]

(* The state of a task after task_unblock was called on every task of S. *)
Unblocked(S) ==
    [t \in Task |-> IF t \in S /\ state[t] = "BLOCKED" THEN "READY" ELSE state[t]]

(* task_unblock(t): only a BLOCKED task is made READY. *)
task_unblock(t) == state' = Unblocked({t})

(* A caller marks itself: runnable = false; state = TASK_BLOCKED. *)
SetBlocked(t) == state' = [state EXCEPT ![t] = "BLOCKED"]

(* The switch away from t: sched_reschedule picked another task, called by *)
(* t itself or by a timer interrupt taken while t runs.  A task that is    *)
(* not BLOCKED is put back on the ready queue; since that only delays it,  *)
(* the switch is modelled for a BLOCKED task alone.                        *)
SwitchAway(t) == /\ oncpu[t]
                 /\ state[t] = "BLOCKED"
                 /\ oncpu' = [oncpu EXCEPT ![t] = FALSE]
                 /\ UNCHANGED state

(* sched_pick_next chose t: it runs again. *)
Dispatch(t) == /\ ~oncpu[t]
               /\ state[t] = "READY"
               /\ oncpu' = [oncpu EXCEPT ![t] = TRUE]
               /\ state' = [state EXCEPT ![t] = "RUNNING"]

(* A call of sched_reschedule by t returns, still on the CPU it was made   *)
(* on or after a SwitchAway and a Dispatch.                                *)
ReschedReturns(t) == /\ oncpu[t]
                     /\ state[t] # "BLOCKED"
                     /\ state' = [state EXCEPT ![t] = "RUNNING"]
                     /\ UNCHANGED oncpu
-----------------------------------------------------------------------------
(* The promise of the scheduler, which module Sched implements: a task that*)
(* is on no CPU changes only when it is unblocked or dispatched, a BLOCKED *)
(* task does not run again before someone unblocked it, and a ZOMBIE never.*)
SchedStart == \A t \in Task : \/ state[t] = "READY" /\ ~oncpu[t]
                              \/ state[t] = "RUNNING" /\ oncpu[t]

(* The steps of a task on its CPU: it marks itself, is put back on a ready *)
(* queue by a reschedule, leaves the CPU.                                  *)
Marks(t) == /\ oncpu[t]
            /\ state[t] # "ZOMBIE"
            /\ \/ SetBlocked(t)
               \/ state' = [state EXCEPT ![t] = "READY"]
               \/ state' = [state EXCEPT ![t] = "ZOMBIE"]
            /\ UNCHANGED oncpu

Leaves(t) == /\ oncpu[t]
             /\ state[t] # "RUNNING"
             /\ oncpu' = [oncpu EXCEPT ![t] = FALSE]
             /\ UNCHANGED state

SchedNext == \E t \in Task : \/ task_unblock(t) /\ UNCHANGED oncpu
                             \/ Marks(t) \/ Leaves(t) \/ Dispatch(t)

SchedSpec == SchedStart /\ SchedTypeOK /\ [][SchedNext]_schedVars
=============================================================================
