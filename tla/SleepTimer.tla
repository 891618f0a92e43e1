----------------------------- MODULE SleepTimer -----------------------------
(***************************************************************************)
(* Timed sleeps: sys_sleep_ns (syscall/time/sleep_ns.c), the cached        *)
(* earliest deadline and the scan of the timer interrupt                   *)
(* (sched_note_wakeup and sched_wakeup_sleepers of sched.c), and the       *)
(* stopped tick of an idle CPU 0 (drivers/timer.c).                        *)
(*                                                                         *)
(* Times are relative to now: TimePasses brings every one of them nearer,  *)
(* 0 is due or past.  Never is UINT64_MAX, and the 0 of a wakeup_time_ns   *)
(* that is not set.  state stands for state and runnable together; module  *)
(* Sched takes them apart.                                                 *)
(***************************************************************************)
EXTENDS Integers, FiniteSets

CONSTANTS Task,        \* the sleepers, on CPUs other than CPU 0
          NoTask,
          MaySignal,   \* the tasks a signal may be sent to
          MayPreempt,  \* the tasks that may be preempted inside the kernel
          MaxSleep,    \* the longest sleep
          Lengths,     \* Lengths[t]: how long task t may ask to sleep
          NOHZ_MIN,    \* NOHZ_MIN_NS
          NOHZ_MAX,    \* NOHZ_MAX_NS
          WAKE_MAX     \* the length of to_wake

ASSUME TimerAssumption == /\ NoTask \notin Task
                          /\ MaySignal \subseteq Task
                          /\ MayPreempt \subseteq Task
                          /\ MaxSleep \in Nat \ {0}
                          /\ Lengths \in [Task -> SUBSET (1 .. MaxSleep)]
                          /\ NOHZ_MAX \in 1 .. MaxSleep
                          /\ NOHZ_MIN \in 1 .. NOHZ_MAX
                          /\ WAKE_MAX \in Nat \ {0}

Never   == MaxSleep + 1
Time    == 0 .. Never
Running == -1           \* g_nohz_until = 0: the periodic tick is on

VARIABLES deadline,     \* the local variable of sys_sleep_ns
          wakeup,       \* wakeup_time_ns
          state,
          queued,       \* on_rq
          on,           \* the task has a CPU
          pend,         \* a deliverable signal is pending
          pc,           \* where the task is
          earliest,     \* g_earliest_wakeup_ns
          until,        \* g_nohz_until
          armed,        \* the timer of the stopped tick has not gone off yet
          ipi,          \* a reschedule IPI for CPU 0, or its need_resched
          cpu0,         \* where CPU 0 is
          next,         \* next of tick_nohz_idle_enter, next_earliest of the scan
          left,         \* the tasks the scan has not looked at
          due,          \* the task the scan makes READY
          to_wake,
          back          \* where CPU 0 goes after the timer interrupt

taskVars == <<deadline, wakeup, state, queued, on, pend, pc>>
scanVars == <<left, due, to_wake, back>>
vars     == <<taskVars, earliest, until, armed, ipi, cpu0, next, scanVars>>

Init == /\ deadline = [t \in Task |-> Never]
        /\ wakeup = [t \in Task |-> Never]
        /\ state = [t \in Task |-> "RUNNING"]
        /\ queued = [t \in Task |-> FALSE]
        /\ on = [t \in Task |-> TRUE]
        /\ pend = [t \in Task |-> FALSE]
        /\ pc = [t \in Task |-> "out"]
        /\ earliest = Never
        /\ until = Running
        /\ armed = FALSE
        /\ ipi = FALSE
        /\ cpu0 = "run"
        /\ next = Never
        /\ left = {} /\ due = NoTask /\ to_wake = {} /\ back = "run"

Least(a, b) == IF a < b THEN a ELSE b
Goto(t, p)  == pc' = [pc EXCEPT ![t] = p]
At(t, p)    == on[t] /\ pc[t] = p

(* Everything that is due later comes nearer. *)
Nearer(d) == IF d \in 1 .. MaxSleep THEN d - 1 ELSE d
TimePasses == /\ deadline' = [t \in Task |-> Nearer(deadline[t])]
              /\ wakeup' = [t \in Task |-> Nearer(wakeup[t])]
              /\ earliest' = Nearer(earliest)
              /\ until' = Nearer(until)
              /\ next' = Nearer(next)
              /\ UNCHANGED <<state, queued, on, pend, pc, armed, ipi, cpu0, scanVars>>
-----------------------------------------------------------------------------
(* sys_sleep_ns. *)
Call(t) == /\ At(t, "out")
           /\ \E n \in Lengths[t] : deadline' = [deadline EXCEPT ![t] = n]
           /\ Goto(t, "time")
           /\ UNCHANGED <<wakeup, state, queued, on, pend,
                          earliest, until, armed, ipi, cpu0, next, scanVars>>

SetTime(t) == /\ At(t, "time")
              /\ wakeup' = [wakeup EXCEPT ![t] = deadline[t]]
              /\ Goto(t, "block")
              /\ UNCHANGED <<deadline, state, queued, on, pend,
                             earliest, until, armed, ipi, cpu0, next, scanVars>>

MarkBlocked(t) == /\ At(t, "block")
                  /\ state' = [state EXCEPT ![t] = "BLOCKED"]
                  /\ Goto(t, "note")
                  /\ UNCHANGED <<deadline, wakeup, queued, on, pend,
                                 earliest, until, armed, ipi, cpu0, next, scanVars>>

(* sched_note_wakeup: the compare-and-exchange that lowers the earliest    *)
(* deadline; the one who lowered it tells CPU 0.                           *)
Note(t) == /\ At(t, "note")
           /\ earliest' = Least(earliest, deadline[t])
           /\ Goto(t, IF deadline[t] < earliest THEN "kick" ELSE "resched")
           /\ UNCHANGED <<deadline, wakeup, state, queued, on, pend,
                          until, armed, ipi, cpu0, next, scanVars>>

(* tick_nohz_kick. *)
Kick(t) == /\ At(t, "kick")
           /\ ipi' = (ipi \/ deadline[t] < until)
           /\ Goto(t, "resched")
           /\ UNCHANGED <<deadline, wakeup, state, queued, on, pend,
                          earliest, until, armed, cpu0, next, scanVars>>

(* sched_reschedule: a sleeper with a signal pending stays awake, one that *)
(* is still BLOCKED leaves its CPU, one that was woken goes to the queue.  *)
Leave(t) == LET stays == state[t] = "BLOCKED" /\ pend[t] IN
            /\ state' = [state EXCEPT ![t] = IF stays THEN "RUNNING" ELSE @]
            /\ wakeup' = [wakeup EXCEPT ![t] = IF stays THEN Never ELSE @]
            /\ on' = [on EXCEPT ![t] = stays]
            /\ queued' = [queued EXCEPT ![t] = @ \/ state[t] # "BLOCKED"]

Resched(t) == /\ At(t, "resched")
              /\ Leave(t)
              /\ Goto(t, "back")
              /\ UNCHANGED <<deadline, pend, earliest, until, armed, ipi, cpu0, next, scanVars>>

(* An interrupt between the BLOCKED store and the call of sched_reschedule *)
(* returns through sched_reschedule.                                       *)
Preempt(t) == /\ t \in MayPreempt
              /\ At(t, "note") \/ At(t, "kick")
              /\ Leave(t)
              /\ UNCHANGED <<deadline, pend, pc, earliest, until, armed, ipi, cpu0, next, scanVars>>

(* sched_pick_next on some CPU: takes a queued task, or throws it out of   *)
(* the queue when it is BLOCKED again.                                     *)
Pick(t) == /\ queued[t]
           /\ ~on[t]
           /\ queued' = [queued EXCEPT ![t] = FALSE]
           /\ on' = [on EXCEPT ![t] = state[t] # "BLOCKED"]
           /\ state' = [state EXCEPT ![t] = IF @ = "BLOCKED" THEN @ ELSE "RUNNING"]
           /\ UNCHANGED <<deadline, wakeup, pend, pc,
                          earliest, until, armed, ipi, cpu0, next, scanVars>>

(* The tests after sched_reschedule: the deadline first, then the signal;  *)
(* a wake-up for no reason sleeps again.                                   *)
Return(t) == /\ At(t, "back")
             /\ IF deadline[t] = 0 \/ pend[t]
                THEN /\ Goto(t, "out")
                     /\ deadline' = [deadline EXCEPT ![t] = Never]
                     /\ wakeup' = [wakeup EXCEPT ![t] = IF deadline[t] = 0 THEN @ ELSE Never]
                     /\ pend' = [pend EXCEPT ![t] = FALSE]
                ELSE /\ Goto(t, "time")
                     /\ UNCHANGED <<deadline, wakeup, pend>>
             /\ UNCHANGED <<state, queued, on, earliest, until, armed, ipi, cpu0, next, scanVars>>

(* signal_send to a task in sys_sleep_ns. *)
Signal(t) == /\ t \in MaySignal
             /\ pc[t] # "out"
             /\ ~pend[t]
             /\ pend' = [pend EXCEPT ![t] = TRUE]
             /\ state' = [state EXCEPT ![t] = IF @ = "BLOCKED" THEN "READY" ELSE @]
             /\ queued' = [queued EXCEPT ![t] = @ \/ state[t] = "BLOCKED"]
             /\ UNCHANGED <<deadline, wakeup, on, pc,
                            earliest, until, armed, ipi, cpu0, next, scanVars>>
-----------------------------------------------------------------------------
(* CPU 0 switches to its idle task. *)
GoIdle == /\ cpu0 = "run"
          /\ cpu0' = "idle"
          /\ UNCHANGED <<taskVars, earliest, until, armed, ipi, next, scanVars>>

(* sched_reschedule on CPU 0 finds a task to run: tick_nohz_restart. *)
GoRun == /\ cpu0 = "idle"
         /\ cpu0' = "run"
         /\ until' = Running
         /\ armed' = FALSE
         /\ ipi' = FALSE
         /\ UNCHANGED <<taskVars, earliest, next, scanVars>>

(* Mutation: g_nohz_until is not raised before the deadlines are read. *)
IdleEnterMut == /\ cpu0 = "idle"
                /\ ipi' = FALSE
                /\ cpu0' = IF ipi THEN "idle" ELSE "look"
                /\ UNCHANGED <<taskVars, earliest, until, armed, next, scanVars>>

(* idle_loop with interrupts off: need_resched starts the loop again, and  *)
(* else tick_nohz_idle_enter makes every new deadline kick CPU 0.          *)
IdleEnter == /\ cpu0 = "idle"
             /\ ipi' = FALSE
             /\ cpu0' = IF ipi THEN "idle" ELSE "look"
             /\ until' = IF ipi THEN until ELSE Never
             /\ UNCHANGED <<taskVars, earliest, armed, next, scanVars>>

(* The nearest deadline decides how long the tick can stay off.  Another   *)
(* client (ktimer, console, monitor) may want the tick at once.            *)
Look == /\ cpu0 = "look"
        /\ \E other \in {0, NOHZ_MAX} :
              LET n == Least(earliest, other)
              IN next' = IF n < NOHZ_MIN THEN Running ELSE n
        /\ cpu0' = "stop"
        /\ UNCHANGED <<taskVars, earliest, until, armed, ipi, scanVars>>

(* The tick is stopped, or goes on; then sti; hlt. *)
StopTick == /\ cpu0 = "stop"
            /\ until' = next
            /\ armed' = (next # Running)
            /\ next' = Never
            /\ cpu0' = "hlt"
            /\ UNCHANGED <<taskVars, earliest, ipi, scanVars>>

HltIpi == /\ cpu0 = "hlt"
          /\ ipi
          /\ cpu0' = "idle"
          /\ UNCHANGED <<taskVars, earliest, until, armed, ipi, next, scanVars>>

(* timer_handler on CPU 0, from the periodic tick or the stopped tick's    *)
(* timer: sched_wakeup_sleepers returns at once when nothing is due.       *)
Tick == /\ cpu0 \in {"run", "idle", "hlt"}
        /\ until = Running \/ (until = 0 /\ armed)
        /\ armed' = FALSE
        /\ back' = IF cpu0 = "run" THEN "run" ELSE "idle"
        /\ cpu0' = IF earliest = 0 THEN "reset" ELSE back'
        /\ UNCHANGED <<taskVars, earliest, until, ipi, next, left, due, to_wake>>
-----------------------------------------------------------------------------
(* sched_wakeup_sleepers. *)
Reset == /\ cpu0 = "reset"
         /\ earliest' = Never
         /\ left' = Task
         /\ cpu0' = "scan"
         /\ UNCHANGED <<taskVars, until, armed, ipi, next, due, to_wake, back>>

(* Mutation: a deadline that finds to_wake full is not kept. *)
ScanMut(t) == LET asleep == state[t] = "BLOCKED" /\ wakeup[t] # Never IN
    /\ cpu0 = "scan"
    /\ due = NoTask
    /\ t \in left
    /\ left' = left \ {t}
    /\ due' = IF asleep /\ wakeup[t] = 0 /\ Cardinality(to_wake) < WAKE_MAX THEN t ELSE NoTask
    /\ next' = IF asleep /\ wakeup[t] # 0 THEN Least(next, wakeup[t]) ELSE next
    /\ UNCHANGED <<taskVars, earliest, until, armed, ipi, cpu0, to_wake, back>>

(* One turn of the loop over pid_table: a sleeper that is due is to be     *)
(* woken as long as to_wake has room, the others' deadlines are kept.      *)
Scan(t) == LET asleep == state[t] = "BLOCKED" /\ wakeup[t] # Never
               wakes  == asleep /\ wakeup[t] = 0 /\ Cardinality(to_wake) < WAKE_MAX IN
    /\ cpu0 = "scan"
    /\ due = NoTask
    /\ t \in left
    /\ left' = left \ {t}
    /\ due' = IF wakes THEN t ELSE NoTask
    /\ next' = IF asleep /\ ~wakes THEN Least(next, wakeup[t]) ELSE next
    /\ UNCHANGED <<taskVars, earliest, until, armed, ipi, cpu0, to_wake, back>>

(* The stores that make it READY. *)
ClearTime == /\ cpu0 = "scan"
             /\ due # NoTask
             /\ wakeup' = [wakeup EXCEPT ![due] = Never]
             /\ cpu0' = "ready"
             /\ UNCHANGED <<deadline, state, queued, on, pend, pc,
                            earliest, until, armed, ipi, next, scanVars>>

SetReady == /\ cpu0 = "ready"
            /\ state' = [state EXCEPT ![due] = "READY"]
            /\ to_wake' = to_wake \union {due}
            /\ due' = NoTask
            /\ cpu0' = "scan"
            /\ UNCHANGED <<deadline, wakeup, queued, on, pend, pc,
                           earliest, until, armed, ipi, next, left, back>>

(* After the loop: sched_note_wakeup(next_earliest), on CPU 0 itself. *)
ScanEnd == /\ cpu0 = "scan"
           /\ due = NoTask
           /\ left = {}
           /\ earliest' = Least(earliest, next)
           /\ next' = Never
           /\ cpu0' = "wake"
           /\ UNCHANGED <<taskVars, until, armed, ipi, scanVars>>

(* enqueue_global of what was found. *)
Enqueue(t) == /\ cpu0 = "wake"
              /\ t \in to_wake
              /\ queued' = [queued EXCEPT ![t] = TRUE]
              /\ to_wake' = to_wake \ {t}
              /\ UNCHANGED <<deadline, wakeup, state, on, pend, pc,
                             earliest, until, armed, ipi, cpu0, next, left, due, back>>

TickEnd == /\ cpu0 = "wake"
           /\ to_wake = {}
           /\ cpu0' = back
           /\ UNCHANGED <<taskVars, earliest, until, armed, ipi, next, scanVars>>
-----------------------------------------------------------------------------
Step(t) == SetTime(t) \/ MarkBlocked(t) \/ Note(t) \/ Kick(t) \/ Resched(t) \/ Pick(t) \/ Return(t)
Cpu0 == \/ IdleEnter \/ Look \/ StopTick \/ HltIpi
        \/ Reset \/ ClearTime \/ SetReady \/ ScanEnd \/ TickEnd
        \/ \E t \in Task : Scan(t) \/ Enqueue(t)

Next == \/ \E t \in Task : Call(t) \/ Step(t) \/ Preempt(t) \/ Signal(t)
        \/ Cpu0 \/ GoIdle \/ GoRun \/ Tick \/ TimePasses

Spec == Init /\ [][Next]_vars
-----------------------------------------------------------------------------
(* The tasks that are neither signalled nor preempted inside the call. *)
Undisturbed == Task \ (MaySignal \union MayPreempt)

(* A sleeper off its CPU cannot be forgotten, however its call and the     *)
(* scan of the timer interrupt overlap: its own deadline is in             *)
(* wakeup_time_ns, and the cached earliest deadline is no later, or the    *)
(* scan has the task still before it, holds it, or has kept a deadline     *)
(* that is no later.                                                       *)
DeadlineKept ==
    \A t \in Undisturbed : ~on[t] =>
        \/ state[t] = "BLOCKED" /\ due = t
        \/ /\ state[t] = "BLOCKED"
           /\ wakeup[t] = deadline[t]
           /\ earliest <= wakeup[t] \/ (cpu0 \in {"scan", "ready"} /\ (t \in left \/ next <= wakeup[t]))
        \/ state[t] = "READY" /\ (queued[t] \/ t \in to_wake)

(* An idle CPU 0 never sleeps past the earliest deadline: its tick is on,  *)
(* or stopped until no later than it, or CPU 0 is still to read it or has  *)
(* a reschedule IPI pending, or the task that lowered it has still to send *)
(* one (tick_nohz_idle_enter against sched_note_wakeup).                   *)
TickInTime ==
    \/ cpu0 \notin {"stop", "hlt"}
    \/ ipi
    \/ (IF cpu0 = "stop" THEN next ELSE until) <= earliest
    \/ \E t \in Task : pc[t] = "kick" /\ deadline[t] <= earliest
=============================================================================
