------------------------------- MODULE Sched -------------------------------
(***************************************************************************)
(* The scheduler core, src/kernel/src/sched/sched.c with context_switch    *)
(* (sched_asm.asm), the resched checks on the interrupt and syscall return *)
(* paths and the tickless idle loop (drivers/timer.c): how a task sleeps,  *)
(* is woken, queued, picked, switched to, exits and is freed, on several   *)
(* CPUs.                                                                   *)
(*                                                                         *)
(* task_t.state and task_t.runnable are plain fields that other CPUs write *)
(* without a common lock, so each store to them is a step.  A section      *)
(* under ready_queue_lock is one step.  place[c] is where CPU c is:        *)
(*   run              executes its current task, interrupts enabled        *)
(*   blk, slp         runnable cleared / also marked BLOCKED, before the   *)
(*                    call of sched_reschedule                             *)
(*   exi              task_exit cleared runnable, not yet ZOMBIE           *)
(*   wk1 wk2 wk3      task_unblock(arg): test, first and second store      *)
(*   enq kick send    enqueue_global(arg): queue, preempt_for up to the    *)
(*                    need_resched store, the idle_poll test and the IPI   *)
(*   kip              task_kill's loop over current_task                   *)
(*   rs pick dec      sched_reschedule up to the decision to switch        *)
(*   put sw1 sw2 fin  sched_reschedule's second half and context_switch    *)
(*   idle poll cli test halt iret    idle_loop                             *)
(***************************************************************************)
EXTENDS Naturals, Sequences, FiniteSets

CONSTANTS Task,
          NCpu,      \* smp_get_cpu_count()
          Idle,      \* stands for the idle task of the CPU at hand
          MaxPrio,   \* MAX_PRIORITY
          prio,      \* prio[t]: task_t.priority
          aff,       \* aff[t]: the CPUs of task_t.cpu_affinity
          Orphan,    \* tasks with no parent to reap them
          NoInt,     \* tasks that sleep with sleep_noint set, in kmutex_lock
          Locked,    \* sleeps and wakes hold the lock of the sleeper's wait queue
          MayKill,   \* the tasks task_kill may be called on
          MayExit,   \* the tasks that may call exit
          Window     \* the poll window of idle_loop may be open

Cpu  == 0 .. NCpu - 1
Prio == 0 .. MaxPrio

ASSUME SchedAssumption == /\ NCpu \in Nat \ {0}
                          /\ Idle \notin Task
                          /\ MaxPrio \in Nat
                          /\ prio \in [Task -> Prio]
                          /\ aff \in [Task -> SUBSET Cpu]
                          /\ Orphan \subseteq Task
                          /\ NoInt \subseteq Task
                          /\ Locked \in BOOLEAN
                          /\ MayKill \subseteq Task
                          /\ MayExit \subseteq Task
                          /\ Window \in BOOLEAN

VARIABLES state, runnable, on_cpu, on_rq,   \* fields of task_t
          cont,          \* where the task goes on when it is switched to
          pend,          \* pending_kill
          exited,        \* the task got past the ZOMBIE store of task_exit
          dead,          \* task_destroy freed the task
          rq,            \* ready_queues
          cur,           \* current_task
          nxt,           \* the local variable next of sched_reschedule
          arg, ret,      \* the task a CPU wakes, queues or leaves; where it then goes
          best,          \* the CPU preempt_for chose
          need_resched, idle_poll, deferred,   \* fields of percpu_t
          ipi,           \* a reschedule IPI is pending at the CPU
          place

taskVars == <<state, runnable, on_cpu, on_rq, cont, pend, exited, dead, rq>>
cpuVars  == <<cur, nxt, arg, ret, best, need_resched, idle_poll, deferred, ipi>>
vars     == <<taskVars, cpuVars, place>>

TaskState == {"RUNNING", "READY", "BLOCKED", "ZOMBIE"}
Places == {"run", "blk", "slp", "exi", "wk1", "wk2", "wk3", "enq", "kick", "send", "kip",
           "rs", "pick", "dec", "again", "put", "sw1", "sw2", "fin",
           "idle", "poll", "cli", "test", "halt", "iret"}

(* The orders in which the tasks may have been created. *)
Orders == {s \in [1 .. Cardinality(Task) -> Task] : \A i, j \in DOMAIN s : s[i] = s[j] => i = j}

(* Every task was created (task_create_ex: READY and enqueued, no CPU told *)
(* before sched_ready_flag) and every CPU makes its first call of          *)
(* sched_reschedule.                                                       *)
Init == /\ state = [t \in Task |-> "READY"]
        /\ runnable = [t \in Task |-> TRUE]
        /\ on_cpu = [t \in Task |-> FALSE]
        /\ on_rq = [t \in Task |-> TRUE]
        /\ cont = [t \in Task |-> "run"]
        /\ pend = [t \in Task |-> FALSE]
        /\ exited = [t \in Task |-> FALSE]
        /\ dead = [t \in Task |-> FALSE]
        /\ \E s \in Orders : rq = [p \in Prio |-> SelectSeq(s, LAMBDA t : prio[t] = p)]
        /\ cur = [c \in Cpu |-> Idle]
        /\ nxt = [c \in Cpu |-> Idle]
        /\ arg = [c \in Cpu |-> Idle]
        /\ ret = [c \in Cpu |-> "idle"]
        /\ best = [c \in Cpu |-> c]
        /\ need_resched = [c \in Cpu |-> FALSE]
        /\ idle_poll = [c \in Cpu |-> FALSE]
        /\ deferred = [c \in Cpu |-> Idle]
        /\ ipi = [c \in Cpu |-> FALSE]
        /\ place = [c \in Cpu |-> "rs"]

Goto(c, p) == place' = [place EXCEPT ![c] = p]
Runs(c, p) == place[c] = p /\ cur[c] \in Task

(* The end of task_unblock or enqueue_global: their local variables are    *)
(* gone; task_kill goes on with its own argument.                          *)
Return(c) == /\ Goto(c, ret[c])
             /\ ret' = [ret EXCEPT ![c] = "idle"]
             /\ best' = [best EXCEPT ![c] = c]
             /\ IF ret[c] = "kip" THEN UNCHANGED arg ELSE arg' = [arg EXCEPT ![c] = Idle]

(* With Locked, the wait-queue lock of t is held by a CPU inside           *)
(* task_unblock(t) and by t itself while it marks itself BLOCKED.          *)
Waking(c, t) == /\ arg[c] = t
                /\ ret[c] # "sw1"
                /\ place[c] \in {"wk1", "wk2", "wk3", "enq", "kick", "send"}
LockFree(t) == Locked => \A d \in Cpu : /\ ~Waking(d, t)
                                        /\ ~(cur[d] = t /\ place[d] = "blk")
-----------------------------------------------------------------------------
(* A task goes to sleep: runnable = false; state = TASK_BLOCKED; then the  *)
(* call of sched_reschedule.                                               *)
Block(c) == /\ Runs(c, "run")
            /\ LockFree(cur[c])
            /\ runnable' = [runnable EXCEPT ![cur[c]] = FALSE]
            /\ Goto(c, "blk")
            /\ UNCHANGED <<state, on_cpu, on_rq, cont, pend, exited, dead, rq, cpuVars>>

MarkBlocked(c) == /\ place[c] = "blk"
                  /\ state' = [state EXCEPT ![cur[c]] = "BLOCKED"]
                  /\ Goto(c, "slp")
                  /\ UNCHANGED <<runnable, on_cpu, on_rq, cont, pend, exited, dead, rq, cpuVars>>

(* do_wait, sigsuspend: a task that finds a signal pending after it marked *)
(* itself BLOCKED calls task_unblock on itself.                            *)
SelfUnblock(c) == /\ ~Locked
                  /\ place[c] = "slp"
                  /\ cur[c] \notin NoInt
                  /\ pend[cur[c]]
                  /\ state[cur[c]] = "BLOCKED"
                  /\ arg' = [arg EXCEPT ![c] = cur[c]]
                  /\ ret' = [ret EXCEPT ![c] = "rs"]
                  /\ Goto(c, "wk2")
                  /\ UNCHANGED <<taskVars, cur, nxt, best, need_resched, idle_poll, deferred, ipi>>

Sleep(c) == /\ place[c] = "slp"
            /\ Goto(c, "rs")
            /\ UNCHANGED <<taskVars, cpuVars>>

(* kmutex_lock sees w.granted before it calls sched_reschedule: the task   *)
(* goes on although the unlocker has yet to make it READY.                 *)
GrantSeen(c) == /\ ~Locked
                /\ place[c] = "slp"
                /\ cur[c] \in NoInt
                /\ \/ state[cur[c]] # "BLOCKED"
                   \/ \E d \in Cpu : Waking(d, cur[c]) /\ ret[d] = "run"
                /\ Goto(c, "run")
                /\ UNCHANGED <<taskVars, cpuVars>>
-----------------------------------------------------------------------------
(* The current task, or an interrupt handler on an idle CPU, found a       *)
(* sleeper to wake and calls task_unblock on it.                           *)
Unblock(c, u) == /\ place[c] \in {"run", "halt"}
                 /\ u # cur[c]
                 /\ LockFree(u)
                 /\ state[u] = "BLOCKED"
                 /\ arg' = [arg EXCEPT ![c] = u]
                 /\ ret' = [ret EXCEPT ![c] = IF place[c] = "run" THEN "run" ELSE "iret"]
                 /\ Goto(c, "wk1")
                 /\ UNCHANGED <<taskVars, cur, nxt, best, need_resched, idle_poll, deferred, ipi>>

(* task_unblock (and task_kill before it) tests the state, *)
TestBlocked(c) == /\ place[c] = "wk1"
                  /\ IF state[arg[c]] = "BLOCKED"
                     THEN Goto(c, "wk2") /\ UNCHANGED <<arg, ret, best>>
                     ELSE Return(c)
                  /\ UNCHANGED <<taskVars, cur, nxt, need_resched, idle_poll, deferred, ipi>>

(* and then makes its two stores. *)
SetRunnable(c) == /\ place[c] = "wk2"
                  /\ runnable' = [runnable EXCEPT ![arg[c]] = TRUE]
                  /\ Goto(c, "wk3")
                  /\ UNCHANGED <<state, on_cpu, on_rq, cont, pend, exited, dead, rq, cpuVars>>

SetReady(c) == /\ place[c] = "wk3"
               /\ state' = [state EXCEPT ![arg[c]] = "READY"]
               /\ Goto(c, "enq")
               /\ UNCHANGED <<runnable, on_cpu, on_rq, cont, pend, exited, dead, rq, cpuVars>>

(* Mutation: the test of on_rq is left out. *)
EnqueueMut(c) == LET t == arg[c] IN
    /\ place[c] = "enq"
    /\ on_rq' = [on_rq EXCEPT ![t] = TRUE]
    /\ rq' = [rq EXCEPT ![prio[t]] = Append(@, t)]
    /\ Goto(c, "kick")
    /\ UNCHANGED <<state, runnable, on_cpu, cont, pend, exited, dead, cpuVars>>

(* enqueue_global: a task that is already queued is left where it is, and  *)
(* then no CPU is told.                                                    *)
Enqueue(c) == LET t == arg[c] IN
    /\ place[c] = "enq"
    /\ IF on_rq[t]
       THEN Return(c) /\ UNCHANGED <<on_rq, rq>>
       ELSE /\ on_rq' = [on_rq EXCEPT ![t] = TRUE]
            /\ rq' = [rq EXCEPT ![prio[t]] = Append(@, t)]
            /\ Goto(c, "kick")
            /\ UNCHANGED <<arg, ret, best>>
    /\ UNCHANGED <<state, runnable, on_cpu, cont, pend, exited, dead,
                   cur, nxt, need_resched, idle_poll, deferred, ipi>>

(* One more than the priority of what CPU c runs; an idle CPU is below all.*)
Level(c) == IF cur[c] = Idle THEN 0 ELSE prio[cur[c]] + 1

Before(d, e) == Level(d) < Level(e) \/ (Level(d) = Level(e) /\ d <= e)

(* preempt_for(t): the allowed CPU with the least important current task,  *)
(* if that is less important than t, is asked to reschedule; the first of  *)
(* several wins.  current_task is read without a lock.                     *)
Kick(c) == LET Lower == {d \in aff[arg[c]] : Level(d) < prio[arg[c]] + 1} IN
    /\ place[c] = "kick"
    /\ \/ Lower = {} /\ Return(c) /\ UNCHANGED need_resched
       \/ \E d \in Lower :
             /\ \A e \in Lower : Before(d, e)
             /\ need_resched' = [need_resched EXCEPT ![d] = TRUE]
             /\ IF d = c THEN Return(c)
                ELSE /\ best' = [best EXCEPT ![c] = d]
                     /\ Goto(c, "send")
                     /\ UNCHANGED <<arg, ret>>
    /\ UNCHANGED <<taskVars, cur, nxt, idle_poll, deferred, ipi>>

(* The target is polling need_resched: no IPI. *)
SendIpi(c) == /\ place[c] = "send"
              /\ ipi' = [ipi EXCEPT ![best[c]] = @ \/ ~idle_poll[best[c]]]
              /\ Return(c)
              /\ UNCHANGED <<taskVars, cur, nxt, need_resched, idle_poll, deferred>>

(* task_kill(u), and signal_post of SIGKILL: pending_kill, a fence, the    *)
(* test of the state and, for a task that runs, an IPI to its CPU.         *)
Kill(c, u) == /\ Runs(c, "run")
              /\ u \in MayKill
              /\ u # cur[c]
              /\ ~pend[u]
              /\ state[u] # "ZOMBIE"
              /\ ~dead[u]
              /\ pend' = [pend EXCEPT ![u] = TRUE]
              /\ arg' = [arg EXCEPT ![c] = u]
              /\ ret' = [ret EXCEPT ![c] = "kip"]
              /\ Goto(c, "wk1")
              /\ UNCHANGED <<state, runnable, on_cpu, on_rq, cont, exited, dead, rq,
                             cur, nxt, best, need_resched, idle_poll, deferred, ipi>>

KillIpi(c) == /\ place[c] = "kip"
              /\ ipi' = [d \in Cpu |-> ipi[d] \/ cur[d] = arg[c]]
              /\ arg' = [arg EXCEPT ![c] = Idle]
              /\ ret' = [ret EXCEPT ![c] = "idle"]
              /\ Goto(c, "run")
              /\ UNCHANGED <<taskVars, cur, nxt, best, need_resched, idle_poll, deferred>>
-----------------------------------------------------------------------------
(* task_exit: runnable = false; state = TASK_ZOMBIE; sched_reschedule.     *)
Exit(c) == /\ Runs(c, "run")
           /\ cur[c] \in MayExit \/ pend[cur[c]]
           /\ LockFree(cur[c])
           /\ runnable' = [runnable EXCEPT ![cur[c]] = FALSE]
           /\ Goto(c, "exi")
           /\ UNCHANGED <<state, on_cpu, on_rq, cont, pend, exited, dead, rq, cpuVars>>

(* Mutation: the task marks itself DEAD, as only task_destroy does. *)
MarkZombieMut(c) == /\ place[c] = "exi"
                    /\ state' = [state EXCEPT ![cur[c]] = "DEAD"]
                    /\ exited' = [exited EXCEPT ![cur[c]] = TRUE]
                    /\ Goto(c, "rs")
                    /\ UNCHANGED <<runnable, on_cpu, on_rq, cont, pend, dead, rq, cpuVars>>

MarkZombie(c) == /\ place[c] = "exi"
                 /\ state' = [state EXCEPT ![cur[c]] = "ZOMBIE"]
                 /\ exited' = [exited EXCEPT ![cur[c]] = TRUE]
                 /\ Goto(c, "rs")
                 /\ UNCHANGED <<runnable, on_cpu, on_rq, cont, pend, dead, rq, cpuVars>>

(* Mutation: the test of on_cpu is left out. *)
ReapMut(c, t) == /\ Runs(c, "run")
                 /\ t # cur[c]
                 /\ t \notin Orphan
                 /\ state[t] = "ZOMBIE"
                 /\ ~dead[t]
                 /\ dead' = [dead EXCEPT ![t] = TRUE]
                 /\ UNCHANGED <<state, runnable, on_cpu, on_rq, cont, pend, exited, rq, cpuVars, place>>

(* do_wait finds a zombie child that has left its CPU and destroys it. *)
Reap(c, t) == /\ Runs(c, "run")
              /\ t # cur[c]
              /\ t \notin Orphan
              /\ state[t] = "ZOMBIE"
              /\ ~on_cpu[t]
              /\ ~dead[t]
              /\ dead' = [dead EXCEPT ![t] = TRUE]
              /\ UNCHANGED <<state, runnable, on_cpu, on_rq, cont, pend, exited, rq, cpuVars, place>>
-----------------------------------------------------------------------------
(* process_deferred_free: the zombie whose stack this CPU has left. *)
FreeDeferred(c) ==
    /\ dead' = [t \in Task |-> dead[t] \/ t = deferred[c]]
    /\ deferred' = [deferred EXCEPT ![c] = Idle]

(* Mutation: a pending kill is not looked for. *)
ReschedMut(c) == /\ place[c] = "rs"
                 /\ FreeDeferred(c)
                 /\ Goto(c, "pick")
                 /\ UNCHANGED <<state, runnable, on_cpu, on_rq, cont, pend, exited, rq,
                                cur, nxt, arg, ret, best, need_resched, idle_poll, ipi>>

(* sched_reschedule: a task about to sleep interruptibly that has a kill   *)
(* or a signal pending stays awake.                                                    *)
Resched(c) == LET old == cur[c]
                  awake == old \in Task \ NoInt /\ state[old] = "BLOCKED" /\ pend[old] IN
    /\ place[c] = "rs"
    /\ FreeDeferred(c)
    /\ runnable' = IF awake THEN [runnable EXCEPT ![old] = TRUE] ELSE runnable
    /\ state' = IF awake THEN [state EXCEPT ![old] = "RUNNING"] ELSE state
    /\ Goto(c, "pick")
    /\ UNCHANGED <<on_cpu, on_rq, cont, pend, exited, rq,
                   cur, nxt, arg, ret, best, need_resched, idle_poll, ipi>>

(* Mutation: a task that went to sleep while it was queued is not thrown   *)
(* out of the queue.                                                       *)
StaleMut(t) == state[t] = "ZOMBIE"

(* A queued task that sched_pick_next throws out of the queue. *)
Stale(t) == ~runnable[t] \/ state[t] = "ZOMBIE"

(* Mutation: a task is taken although another CPU is still on its stack. *)
TakableMut(c, t) == ~Stale(t) /\ c \in aff[t]

(* A queued task that sched_pick_next can take: the compare-and-exchange   *)
(* on on_cpu succeeds.                                                     *)
Takable(c, t) == ~Stale(t) /\ c \in aff[t] /\ ~on_cpu[t]

(* What is left of queue q when its first n tasks were looked at and what  *)
(* follows them starts at m.                                               *)
Kept(q, n, m) == SelectSeq(SubSeq(q, 1, n), LAMBDA t : ~Stale(t)) \o SubSeq(q, m, Len(q))

(* The places of the ready queues in which CPU c finds a task to take. *)
Found(c) == {f \in Prio \X (1 .. Cardinality(Task)) :
                f[2] \in DOMAIN rq[f[1]] /\ Takable(c, rq[f[1]][f[2]])}

(* sched_pick_next: from the highest priority down, the first takable task;*)
(* the stale ones met on the way leave the queues.                         *)
PickNext(c) ==
    /\ \/ /\ Found(c) = {}
          /\ rq' = [q \in Prio |-> Kept(rq[q], Len(rq[q]), Len(rq[q]) + 1)]
          /\ nxt' = [nxt EXCEPT ![c] = Idle]
          /\ UNCHANGED on_cpu
       \/ \E p \in Prio, i \in 1 .. Cardinality(Task), t \in Task :
             /\ <<p, i>> \in Found(c)
             /\ t = rq[p][i]
             /\ \A f \in Found(c) : f[1] < p \/ (f[1] = p /\ f[2] >= i)
             /\ rq' = [q \in Prio |-> IF q > p THEN Kept(rq[q], Len(rq[q]), Len(rq[q]) + 1)
                                     ELSE IF q = p THEN Kept(rq[q], i - 1, i + 1)
                                     ELSE rq[q]]
             /\ nxt' = [nxt EXCEPT ![c] = t]
             /\ on_cpu' = [on_cpu EXCEPT ![t] = TRUE]
    /\ on_rq' = [u \in Task |-> on_rq[u] /\ \E i \in DOMAIN rq'[prio[u]] : rq'[prio[u]][i] = u]
    /\ UNCHANGED <<state, runnable, cont, pend, exited, dead,
                   cur, arg, ret, best, need_resched, idle_poll, deferred, ipi>>

Pick(c) == /\ place[c] = "pick"
           /\ PickNext(c)
           /\ Goto(c, "dec")

(* Where a CPU goes on after sched_reschedule: a task preempted between    *)
(* its two stores makes the second one.                                    *)
Resume(c, t) == /\ Goto(c, IF t = Idle THEN "idle" ELSE cont[t])
                /\ cont' = [u \in Task |-> IF u = t THEN "run" ELSE cont[u]]

(* The early return when there is nothing to switch to and the current     *)
(* task can go on; an idle CPU looks a second time.                        *)
Decide(c) == LET old == cur[c]
                 stays == state[old] = "RUNNING" /\ runnable[old] /\ c \in aff[old] IN
    /\ place[c] = "dec"
    /\ IF nxt[c] = Idle /\ old # Idle /\ stays
       THEN Resume(c, old)
       ELSE Goto(c, IF nxt[c] = Idle /\ old = Idle THEN "again" ELSE "put") /\ UNCHANGED cont
    /\ UNCHANGED <<state, runnable, on_cpu, on_rq, pend, exited, dead, rq, cpuVars>>

PickAgain(c) == /\ place[c] = "again"
                /\ PickNext(c)
                /\ Goto(c, IF Found(c) = {} THEN "idle" ELSE "put")

(* Mutation: the task that is switched away from is not queued again. *)
PutPrevMut(c) == LET old == cur[c] IN
    /\ place[c] = "put"
    /\ Goto(c, "sw1")
    /\ IF old # Idle /\ state[old] # "ZOMBIE" /\ runnable[old]
       THEN state' = [state EXCEPT ![old] = "READY"]
       ELSE UNCHANGED state
    /\ deferred' = IF old # Idle /\ state[old] = "ZOMBIE" /\ old \in Orphan
                   THEN [deferred EXCEPT ![c] = old] ELSE deferred
    /\ UNCHANGED <<runnable, on_cpu, on_rq, cont, pend, exited, dead, rq,
                   cur, nxt, arg, ret, best, need_resched, idle_poll, ipi>>

(* Mutation: an orphaned zombie is not recorded. *)
PutPrevLeak(c) == LET old == cur[c] IN
    /\ place[c] = "put"
    /\ IF old # Idle /\ state[old] # "ZOMBIE" /\ runnable[old]
       THEN /\ state' = [state EXCEPT ![old] = "READY"]
            /\ arg' = [arg EXCEPT ![c] = old]
            /\ ret' = [ret EXCEPT ![c] = "sw1"]
            /\ Goto(c, "enq")
       ELSE Goto(c, "sw1") /\ UNCHANGED <<state, arg, ret>>
    /\ UNCHANGED <<runnable, on_cpu, on_rq, cont, pend, exited, dead, rq,
                   cur, nxt, best, need_resched, idle_poll, deferred, ipi>>

(* What becomes of the task that is switched away from: an orphaned zombie *)
(* is freed once its stack is no longer used, a runnable task is queued.   *)
PutPrev(c) == LET old == cur[c] IN
    /\ place[c] = "put"
    /\ IF old # Idle /\ state[old] # "ZOMBIE" /\ runnable[old]
       THEN /\ state' = [state EXCEPT ![old] = "READY"]
            /\ arg' = [arg EXCEPT ![c] = old]
            /\ ret' = [ret EXCEPT ![c] = "sw1"]
            /\ Goto(c, "enq")
            /\ UNCHANGED deferred
       ELSE /\ deferred' = IF old # Idle /\ state[old] = "ZOMBIE" /\ old \in Orphan
                           THEN [deferred EXCEPT ![c] = old] ELSE deferred
            /\ Goto(c, "sw1")
            /\ UNCHANGED <<state, arg, ret>>
    /\ UNCHANGED <<runnable, on_cpu, on_rq, cont, pend, exited, dead, rq,
                   cur, nxt, best, need_resched, idle_poll, ipi>>

(* The next task is RUNNING; context_switch changes current_task and the   *)
(* stack first, then clears on_cpu of the task that was left.              *)
Switch(c) == /\ place[c] = "sw1"
             /\ state' = IF nxt[c] \in Task THEN [state EXCEPT ![nxt[c]] = "RUNNING"] ELSE state
             /\ arg' = [arg EXCEPT ![c] = cur[c]]
             /\ cur' = [cur EXCEPT ![c] = nxt[c]]
             /\ nxt' = [nxt EXCEPT ![c] = Idle]
             /\ Goto(c, "sw2")
             /\ UNCHANGED <<runnable, on_cpu, on_rq, cont, pend, exited, dead, rq,
                            ret, best, need_resched, idle_poll, deferred, ipi>>

LeaveStack(c) == /\ place[c] = "sw2"
                 /\ on_cpu' = IF arg[c] \in Task THEN [on_cpu EXCEPT ![arg[c]] = FALSE]
                              ELSE on_cpu
                 /\ arg' = [arg EXCEPT ![c] = Idle]
                 /\ Goto(c, "fin")
                 /\ UNCHANGED <<state, runnable, on_rq, cont, pend, exited, dead, rq,
                                cur, nxt, ret, best, need_resched, idle_poll, deferred, ipi>>

(* The end of sched_reschedule; a task that runs for the first time starts *)
(* at its trampoline instead and leaves the deferred free to the CPU's     *)
(* next call.                                                              *)
Finish(c) == /\ place[c] = "fin"
             /\ FreeDeferred(c) \/ (cur[c] \in Task /\ UNCHANGED <<dead, deferred>>)
             /\ Resume(c, cur[c])
             /\ UNCHANGED <<state, runnable, on_cpu, on_rq, pend, exited, rq,
                            cur, nxt, arg, ret, best, need_resched, idle_poll, ipi>>
-----------------------------------------------------------------------------
(* The return from an interrupt or a syscall with need_resched set; in the *)
(* kernel only where no spinlock is held.                                  *)
CheckResched(c) == /\ \/ place[c] \in {"run", "poll", "slp", "iret"}
                      \/ place[c] = "blk" /\ ~Locked /\ cur[c] \notin NoInt
                   /\ need_resched[c]
                   /\ need_resched' = [need_resched EXCEPT ![c] = FALSE]
                   /\ cont' = IF place[c] = "blk" THEN [cont EXCEPT ![cur[c]] = "blk"] ELSE cont
                   /\ Goto(c, "rs")
                   /\ UNCHANGED <<state, runnable, on_cpu, on_rq, pend, exited, dead, rq,
                                  cur, nxt, arg, ret, best, idle_poll, deferred, ipi>>

(* ipi_reschedule_handler. *)
IpiHandler(c) == /\ place[c] \in {"run", "poll", "halt"}
                 /\ ipi[c]
                 /\ ipi' = [ipi EXCEPT ![c] = FALSE]
                 /\ need_resched' = [need_resched EXCEPT ![c] = TRUE]
                 /\ IF place[c] = "halt" THEN Goto(c, "iret") ELSE UNCHANGED place
                 /\ UNCHANGED <<taskVars, cur, nxt, arg, ret, best, idle_poll, deferred>>

(* timer_handler: the slice of the current task is over, or the idle task  *)
(* of the boot CPU, whose slice stays 0, is interrupted: tick_nohz_idle_   *)
(* enter lets the tick of CPU 0 stop for at most NOHZ_MAX_NS and that of   *)
(* another CPU for good.                                                   *)
Timer(c) == /\ Runs(c, "run") \/ (c = 0 /\ place[c] = "halt")
            /\ need_resched' = [need_resched EXCEPT ![c] = TRUE]
            /\ IF place[c] = "halt" THEN Goto(c, "iret") ELSE UNCHANGED place
            /\ UNCHANGED <<taskVars, cur, nxt, arg, ret, best, idle_poll, deferred, ipi>>

Yield(c) == /\ Runs(c, "run")
            /\ Goto(c, "rs")
            /\ UNCHANGED <<taskVars, cpuVars>>

(* idle_loop: with a poll window, need_resched is polled before the CPU    *)
(* halts; the length of the window is a heuristic.                         *)
IdlePoll(c) == /\ Window
               /\ place[c] = "idle"
               /\ idle_poll' = [idle_poll EXCEPT ![c] = TRUE]
               /\ FreeDeferred(c)
               /\ Goto(c, "poll")
               /\ UNCHANGED <<state, runnable, on_cpu, on_rq, cont, pend, exited, rq,
                              cur, nxt, arg, ret, best, need_resched, ipi>>

(* Line 1755: no window, or the window is over, or need_resched was seen.  *)
IdleCli(c) == /\ place[c] \in {"idle", "poll"}
              /\ FreeDeferred(c)
              /\ Goto(c, "cli")
              /\ UNCHANGED <<state, runnable, on_cpu, on_rq, cont, pend, exited, rq,
                             cur, nxt, arg, ret, best, need_resched, idle_poll, ipi>>

(* Mutation: need_resched is tested before idle_poll is cleared. *)
IdlePollOffMut(c) == /\ place[c] = "cli"
                     /\ \/ need_resched[c] /\ Goto(c, "test") /\ UNCHANGED idle_poll
                        \/ ~need_resched[c] /\ Goto(c, "halt") /\ UNCHANGED idle_poll
                     /\ UNCHANGED <<taskVars, cur, nxt, arg, ret, best, need_resched, deferred, ipi>>

IdlePollOff(c) == /\ place[c] = "cli"
                  /\ idle_poll' = [idle_poll EXCEPT ![c] = FALSE]
                  /\ Goto(c, "test")
                  /\ UNCHANGED <<taskVars, cur, nxt, arg, ret, best, need_resched, deferred, ipi>>

IdleTest(c) == /\ place[c] = "test"
               /\ need_resched' = [need_resched EXCEPT ![c] = FALSE]
               /\ Goto(c, IF need_resched[c] THEN "rs" ELSE "halt")
               /\ UNCHANGED <<taskVars, cur, nxt, arg, ret, best, idle_poll, deferred, ipi>>

(* The handler that ended hlt asked for nothing: back to the loop. *)
IdleLoop(c) == /\ place[c] = "iret"
               /\ ~need_resched[c]
               /\ Goto(c, "idle")
               /\ UNCHANGED <<taskVars, cpuVars>>
-----------------------------------------------------------------------------
(* What a task that runs may choose to do, and device interrupts. *)
Choose(c) == \/ Block(c) \/ SelfUnblock(c) \/ GrantSeen(c) \/ Exit(c) \/ Yield(c)
             \/ \E t \in Task : Unblock(c, t) \/ Kill(c, t) \/ Reap(c, t)

(* What follows without further choice. *)
Wakes(c)    == \/ SetRunnable(c) \/ SetReady(c) \/ Enqueue(c) \/ Kick(c) \/ SendIpi(c)
               \/ TestBlocked(c) \/ KillIpi(c)
Switches(c) == \/ MarkBlocked(c) \/ Sleep(c) \/ MarkZombie(c) \/ Resched(c) \/ Pick(c) \/ PickAgain(c)
               \/ Decide(c) \/ PutPrev(c) \/ Switch(c) \/ LeaveStack(c)
               \/ Finish(c) \/ CheckResched(c) \/ IpiHandler(c)
Idles(c)    == \/ IdlePoll(c) \/ IdleCli(c) \/ IdlePollOff(c) \/ IdleTest(c) \/ IdleLoop(c)

Next == \E c \in Cpu : Choose(c) \/ Wakes(c) \/ Switches(c) \/ Idles(c) \/ Timer(c)

Spec == Init /\ [][Next]_vars
-----------------------------------------------------------------------------
TypeOK == /\ state \in [Task -> TaskState]
          /\ runnable \in [Task -> BOOLEAN]
          /\ on_cpu \in [Task -> BOOLEAN]
          /\ on_rq \in [Task -> BOOLEAN]
          /\ cont \in [Task -> {"run", "blk"}]
          /\ pend \in [Task -> BOOLEAN]
          /\ exited \in [Task -> BOOLEAN]
          /\ dead \in [Task -> BOOLEAN]
          /\ rq \in [Prio -> Seq(Task)]
          /\ cur \in [Cpu -> Task \cup {Idle}]
          /\ nxt \in [Cpu -> Task \cup {Idle}]
          /\ arg \in [Cpu -> Task \cup {Idle}]
          /\ ret \in [Cpu -> {"run", "rs", "kip", "iret", "sw1", "idle"}]
          /\ best \in [Cpu -> Cpu]
          /\ need_resched \in [Cpu -> BOOLEAN]
          /\ idle_poll \in [Cpu -> BOOLEAN]
          /\ deferred \in [Cpu -> Task \cup {Idle}]
          /\ ipi \in [Cpu -> BOOLEAN]
          /\ place \in [Cpu -> Places]

(* The tasks whose kernel stack CPU c is on, has claimed or is leaving. *)
Claimed(c) == \/ place[c] \in {"dec", "put", "sw1"}
              \/ place[c] \in {"enq", "kick", "send"} /\ ret[c] = "sw1"
Uses(c, t) == \/ cur[c] = t
              \/ Claimed(c) /\ nxt[c] = t
              \/ place[c] = "sw2" /\ arg[c] = t

(* No two CPUs are ever on the kernel stack of one task, from the moment   *)
(* sched_pick_next claims it to the store that ends context_switch.        *)
OneCpu == \A t \in Task : \A c, d \in Cpu : Uses(c, t) /\ Uses(d, t) => c = d

(* The flag on_rq tells exactly whether a task is linked into the ready    *)
(* queue of its priority, where it is once, and no other.                  *)
QueueExact ==
    \A t \in Task, p \in Prio :
        Cardinality({i \in DOMAIN rq[p] : rq[p][i] = t}) = IF on_rq[t] /\ prio[t] = p THEN 1 ELSE 0

(* A kill is never missed: a task that was killed and yet sleeps off its   *)
(* CPU has a killer or another waker on the way to it.                     *)
KillNotLost == \A t \in Task \ NoInt : (pend[t] /\ state[t] = "BLOCKED" /\ ~on_cpu[t])
                                => \E c \in Cpu : Waking(c, t)

(* A kick is never missed: a CPU that executes hlt although need_resched   *)
(* is set has the IPI pending or about to be sent.                         *)
KickNotLost == \A c \in Cpu : (place[c] = "halt" /\ need_resched[c])
                  => ipi[c] \/ \E d \in Cpu : place[d] = "send" /\ best[d] = c

(* A task that is on no CPU sleeps, has exited, or is READY and held in a  *)
(* ready queue or about to be put there by the CPU that made it READY.     *)
RunnableQueued ==
    \A t \in Task : ~on_cpu[t] =>
        \/ state[t] = "BLOCKED"
        \/ exited[t]
        \/ /\ state[t] = "READY" /\ runnable[t]
           /\ on_rq[t] \/ \E c \in Cpu : arg[c] = t /\ place[c] = "enq"

(* A task is freed only when no CPU uses its stack any more. *)
FreedOffCpu == \A t \in Task : dead[t] => ~on_cpu[t] /\ \A c \in Cpu : ~Uses(c, t)

(* An exited task without a parent is freed or recorded for freeing by the *)
(* CPU that left it: no zombie is leaked.                                  *)
OrphanFreed == \A t \in Orphan : (exited[t] /\ ~on_cpu[t])
                                    => dead[t] \/ \E c \in Cpu : deferred[c] = t

(* Where sleeps and wakes are under the lock of the wait queue, sched.c    *)
(* keeps the promise of SchedAPI.  A wake counts from its first store, and *)
(* a task that sched_pick_next claimed is on the CPU from the switch on.   *)
API == INSTANCE SchedAPI WITH
    state <- [t \in Task |-> IF state[t] = "BLOCKED" /\ runnable[t] THEN "READY" ELSE state[t]],
    oncpu <- [t \in Task |-> \E c \in Cpu : cur[c] = t \/ (place[c] = "sw2" /\ arg[c] = t)]

KeepsPromise == API!SchedSpec
=============================================================================
