-------------------------------- MODULE Wait --------------------------------
(***************************************************************************)
(* The life of a process from fork to the wait4 that frees it: do_wait and *)
(* reap of src/kernel/src/syscall/process/wait.c, the report of an exit    *)
(* (task_exit, group_report, task_wakeup_waiters) of sched/sched.c.        *)
(*                                                                         *)
(* A process is one task here.  What runs under children_lock, pid_lock or *)
(* g_sig_lock is one step; everything between two of them interleaves.     *)
(* pc[t] names where task t is:                                            *)
(*   out    in no modelled call          new    not yet forked             *)
(*   scan   do_wait, before children_lock is taken                         *)
(*   mark   do_wait, no zombie was found, before the task marks itself     *)
(*   slp    do_wait, inside sched_reschedule                               *)
(*   chk    do_wait, sched_reschedule has returned                         *)
(*   reap   do_wait, a zombie was found    free   reap, before task_destroy*)
(*   heir adopt tell wake chld off         task_exit, step by step         *)
(*   dead   off its CPU for good                                           *)
(***************************************************************************)
EXTENDS Naturals, FiniteSets, SchedAPI

CONSTANTS NoTask, AnyChild,
          Init1,           \* the task with pid 1
          SubReaper,       \* tasks with PR_FLAG_SUBREAPER
          Catch,           \* tasks that have a handler for SIGCHLD
          PDeath,          \* tasks with a pdeathsig
          MayExit,         \* tasks that exit
          Asks,            \* Asks[t]: the children and options t calls wait with
          WAKE_MAX         \* the length of to_wake in task_wakeup_waiters

ASSUME WaitAssumption ==
    /\ NoTask \notin Task /\ AnyChild \notin Task \cup {NoTask}
    /\ Init1 \in Task
    /\ SubReaper \subseteq Task /\ Catch \subseteq Task /\ PDeath \subseteq Task
    /\ MayExit \subseteq Task \ {Init1}
    /\ Asks \in [Task -> SUBSET ((Task \cup {AnyChild}) \X {"hang", "WNOHANG", "WNOWAIT"})]
    /\ WAKE_MAX \in Nat

VARIABLES pids,          \* the tasks in pid_table
          children,      \* children[t]: the list t->children
          ppid,          \* ppid[t]: the task whose pid is t->ppid
          wait_for_pid,  \* a task, AnyChild for -1, NoTask for 0
          pend,          \* pend[t]: a deliverable signal is pending
          sel, opt, zombie, \* the arguments and a local variable of do_wait
          up,            \* up and then init, local variables of group_report
          notify,        \* who group_report is about to signal
          pc

treeVars == <<pids, children, ppid>>
waitVars == <<sel, opt, zombie>>
exitVars == <<up, notify>>
vars == <<schedVars, treeVars, wait_for_pid, pend, waitVars, exitVars, pc>>

(* Only the first process runs. *)
Init == /\ state = [t \in Task |-> IF t = Init1 THEN "RUNNING" ELSE "READY"]
        /\ oncpu = [t \in Task |-> t = Init1]
        /\ pids = {Init1}
        /\ children = [t \in Task |-> {}]
        /\ ppid = [t \in Task |-> NoTask]
        /\ wait_for_pid = [t \in Task |-> NoTask]
        /\ pend = [t \in Task |-> FALSE]
        /\ sel = [t \in Task |-> AnyChild]
        /\ opt = [t \in Task |-> "hang"]
        /\ zombie = [t \in Task |-> NoTask]
        /\ up = [t \in Task |-> NoTask]
        /\ notify = [t \in Task |-> {}]
        /\ pc = [t \in Task |-> IF t = Init1 THEN "out" ELSE "new"]

Goto(t, p) == pc' = [pc EXCEPT ![t] = p]
At(t, p)   == oncpu[t] /\ pc[t] = p

(* signal_post to every task of S of a signal that none of them ignores. *)
Post(S) == /\ pend' = [t \in Task |-> pend[t] \/ t \in S]
           /\ state' = Unblocked(S)
           /\ UNCHANGED oncpu

(* A task that signals reach. *)
Alive(t) == t \in pids /\ state[t] # "ZOMBIE"
-----------------------------------------------------------------------------
(* task_fork: the child goes to the head of the list of its parent, then   *)
(* into the pid table.                                                     *)
Fork(t, c) == /\ At(t, "out")
              /\ pc[c] = "new"
              /\ children' = [children EXCEPT ![t] = @ \cup {c}]
              /\ ppid' = [ppid EXCEPT ![c] = t]
              /\ pids' = pids \cup {c}
              /\ Goto(c, "out")
              /\ UNCHANGED <<schedVars, wait_for_pid, pend, waitVars, exitVars>>
-----------------------------------------------------------------------------
(* do_wait for one child, or for any. *)
Call(t, s, o) == /\ At(t, "out")
                 /\ sel' = [sel EXCEPT ![t] = s]
                 /\ opt' = [opt EXCEPT ![t] = o]
                 /\ Goto(t, "scan")
                 /\ UNCHANGED <<schedVars, treeVars, wait_for_pid, pend, zombie, exitVars>>

(* The call returns; its local variables mean nothing any more. *)
Returns(t) == /\ Goto(t, "out")
              /\ sel' = [sel EXCEPT ![t] = AnyChild]
              /\ opt' = [opt EXCEPT ![t] = "hang"]
              /\ zombie' = [zombie EXCEPT ![t] = NoTask]

(* child_selected *)
Selected(t) == {c \in children[t] : sel[t] \in {c, AnyChild}}

(* Mutation: a zombie that is still on its CPU is taken. *)
ReapableMut(c) == state[c] = "ZOMBIE"

(* What the scan takes: a zombie that left its CPU.  One still on its CPU  *)
(* is busy: the caller yields and scans again, a step that changes nothing.*)
Reapable(c) == state[c] = "ZOMBIE" /\ ~oncpu[c]

(* The scan found nobody and returns -ECHILD, or nothing with WNOHANG. *)
ScanReturns(t) == /\ At(t, "scan")
                  /\ \/ Selected(t) = {}
                     \/ opt[t] = "WNOHANG" /\ \A c \in Selected(t) : state[c] # "ZOMBIE"
                  /\ Returns(t)
                  /\ UNCHANGED <<schedVars, treeVars, wait_for_pid, pend, exitVars>>

(* The scan found a zombie. *)
ScanFinds(t) == /\ At(t, "scan")
                /\ \E c \in Selected(t) : /\ Reapable(c)
                                          /\ zombie' = [zombie EXCEPT ![t] = c]
                /\ Goto(t, "reap")
                /\ UNCHANGED <<schedVars, treeVars, wait_for_pid, pend, sel, opt, exitVars>>

(* The scan found only children that live. *)
ScanSleeps(t) == /\ At(t, "scan")
                 /\ opt[t] # "WNOHANG"
                 /\ Selected(t) # {}
                 /\ \A c \in Selected(t) : state[c] # "ZOMBIE"
                 /\ Goto(t, "mark")
                 /\ UNCHANGED <<schedVars, treeVars, wait_for_pid, pend, waitVars, exitVars>>

(* The task marks itself.  wait_for_pid is read of BLOCKED tasks only, so  *)
(* that its store and the one of the state are one step.                   *)
Mark(t) == /\ At(t, "mark")
           /\ wait_for_pid' = [wait_for_pid EXCEPT ![t] = sel[t]]
           /\ SetBlocked(t)
           /\ Goto(t, "slp")
           /\ UNCHANGED <<oncpu, treeVars, pend, waitVars, exitVars>>

(* The test of do_wait and of sched_reschedule for a signal that came      *)
(* before the mark.                                                        *)
Recheck(t) == /\ At(t, "slp")
              /\ pend[t]
              /\ state[t] = "BLOCKED"
              /\ task_unblock(t)
              /\ UNCHANGED <<oncpu, treeVars, wait_for_pid, pend, waitVars, exitVars, pc>>

Resched(t) == /\ At(t, "slp")
              /\ ReschedReturns(t)
              /\ Goto(t, "chk")
              /\ UNCHANGED <<treeVars, wait_for_pid, pend, waitVars, exitVars>>

(* -EINTR, with wait_for_pid as it is, or another round. *)
Check(t) == /\ At(t, "chk")
            /\ \/ pend[t] /\ Returns(t)
               \/ ~pend[t] /\ Goto(t, "scan") /\ UNCHANGED waitVars
            /\ UNCHANGED <<schedVars, treeVars, wait_for_pid, pend, exitVars>>

(* reap takes the zombie off the list, unless WNOWAIT was given, *)
Reap(t) == /\ At(t, "reap")
           /\ \/ /\ opt[t] = "WNOWAIT"
                 /\ Returns(t)
                 /\ UNCHANGED children
              \/ /\ opt[t] # "WNOWAIT"
                 /\ children' = [children EXCEPT ![t] = @ \ {zombie[t]}]
                 /\ Goto(t, "free")
                 /\ UNCHANGED waitVars
           /\ UNCHANGED <<schedVars, pids, ppid, wait_for_pid, pend, exitVars>>

(* and task_destroy out of the pid table; then it is freed. *)
Free(t) == /\ At(t, "free")
           /\ pids' = pids \ {zombie[t]}
           /\ Returns(t)
           /\ UNCHANGED <<schedVars, children, ppid, wait_for_pid, pend, exitVars>>
-----------------------------------------------------------------------------
(* task_exit up to group_report; the first process does not exit. *)
Exit(t) == /\ At(t, "out")
           /\ t \in MayExit
           /\ state' = [state EXCEPT ![t] = "ZOMBIE"]
           /\ up' = [up EXCEPT ![t] = ppid[t]]
           /\ Goto(t, "heir")
           /\ UNCHANGED <<oncpu, treeVars, wait_for_pid, pend, waitVars, notify>>

(* group_report looks for the nearest living subreaper among the ancestors,*)
(* one task_find_by_pid a step, and takes init when there is none.  (The   *)
(* walk ends after 64 tasks: the trees here are not as deep.)              *)
Walk(t) == LET u == up[t] IN
    /\ At(t, "heir")
    /\ \/ /\ u \in pids \ {Init1, t}
          /\ ~(u \in SubReaper /\ Alive(u))
          /\ up' = [up EXCEPT ![t] = ppid[u]]
          /\ UNCHANGED pc
       \/ /\ u \in pids \ {Init1, t}
          /\ u \in SubReaper /\ Alive(u)
          /\ Goto(t, "adopt")
          /\ UNCHANGED up
       \/ /\ u \notin pids \ {Init1, t}
          /\ up' = [up EXCEPT ![t] = Init1]
          /\ Goto(t, "adopt")
    /\ UNCHANGED <<schedVars, treeVars, wait_for_pid, pend, waitVars, notify>>

(* Mutation: only the children that live are handed on. *)
AdoptMut(t) == LET h == up[t]
                   cs == {c \in children[t] : state[c] # "ZOMBIE"} IN
    /\ At(t, "adopt")
    /\ children' = [children EXCEPT ![t] = {}, ![h] = @ \cup cs]
    /\ ppid' = [c \in Task |-> IF c \in cs THEN h ELSE ppid[c]]
    /\ notify' = [notify EXCEPT ![t] = cs \cap PDeath]
    /\ up' = [up EXCEPT ![t] = NoTask]
    /\ Goto(t, "tell")
    /\ UNCHANGED <<schedVars, pids, wait_for_pid, pend, waitVars>>

(* Mutation: leader->children is not cleared. *)
AdoptKeepMut(t) == LET h == up[t]
                       cs == children[t] IN
    /\ At(t, "adopt")
    /\ children' = [children EXCEPT ![h] = @ \cup cs]
    /\ ppid' = [c \in Task |-> IF c \in cs THEN h ELSE ppid[c]]
    /\ notify' = [notify EXCEPT ![t] = cs \cap PDeath]
    /\ up' = [up EXCEPT ![t] = NoTask]
    /\ Goto(t, "tell")
    /\ UNCHANGED <<schedVars, pids, wait_for_pid, pend, waitVars>>

(* task_reparent of every child, under children_lock. *)
Adopt(t) == LET h == up[t]
                cs == children[t] IN
    /\ At(t, "adopt")
    /\ children' = [children EXCEPT ![t] = {}, ![h] = @ \cup cs]
    /\ ppid' = [c \in Task |-> IF c \in cs THEN h ELSE ppid[c]]
    /\ notify' = [notify EXCEPT ![t] = (cs \cap PDeath) \cup
                      IF h # Init1 /\ \E c \in cs : state[c] = "ZOMBIE" THEN {h} \cap Catch ELSE {}]
    /\ up' = [up EXCEPT ![t] = NoTask]
    /\ Goto(t, "tell")
    /\ UNCHANGED <<schedVars, pids, wait_for_pid, pend, waitVars>>

(* SIGCHLD to the subreaper that got a zombie, its pdeathsig to a child. *)
Tell(t) == /\ At(t, "tell")
           /\ Post({u \in notify[t] : Alive(u)})
           /\ notify' = [notify EXCEPT ![t] = {}]
           /\ Goto(t, "wake")
           /\ UNCHANGED <<treeVars, wait_for_pid, waitVars, up>>

(* Who waits for t, or for any task whoever is its parent. *)
Waiters(t) == {u \in pids : state[u] = "BLOCKED" /\ wait_for_pid[u] \in {t, AnyChild}}

(* task_wakeup_waiters: the first WAKE_MAX of them in the pid table. *)
WakeWaiters(t) == /\ At(t, "wake")
                  /\ \E W \in SUBSET Waiters(t) :
                        /\ W = Waiters(t) \/ Cardinality(W) = WAKE_MAX
                        /\ Cardinality(W) <= WAKE_MAX
                        /\ state' = Unblocked(W)
                        /\ wait_for_pid' = [u \in Task |-> IF u \in W THEN NoTask ELSE wait_for_pid[u]]
                  /\ Goto(t, "chld")
                  /\ UNCHANGED <<oncpu, treeVars, pend, waitVars, exitVars>>

(* Mutation: the parent gets no signal. *)
SendChildMut(t) == /\ At(t, "chld")
                   /\ Post({})
                   /\ Goto(t, "off")
                   /\ UNCHANGED <<treeVars, wait_for_pid, waitVars, exitVars>>

(* SIGCHLD to the parent, which ignores it by default. *)
SendChild(t) == /\ At(t, "chld")
                /\ Post({u \in Catch \ {t} : u = ppid[t] /\ Alive(u)})
                /\ Goto(t, "off")
                /\ UNCHANGED <<treeVars, wait_for_pid, waitVars, exitVars>>

(* The last sched_reschedule. *)
Off(t) == /\ At(t, "off")
          /\ oncpu' = [oncpu EXCEPT ![t] = FALSE]
          /\ Goto(t, "dead")
          /\ UNCHANGED <<state, treeVars, wait_for_pid, pend, waitVars, exitVars>>
-----------------------------------------------------------------------------
(* The signal is delivered on the way back to user mode. *)
Deliver(t) == /\ At(t, "out")
              /\ pend[t]
              /\ pend' = [pend EXCEPT ![t] = FALSE]
              /\ UNCHANGED <<schedVars, treeVars, wait_for_pid, waitVars, exitVars, pc>>

(* The scheduler; a task that has a signal pending is not switched away,   *)
(* see Recheck.                                                            *)
Schedule(t) == /\ pc[t] # "new"
               /\ \/ SwitchAway(t) /\ ~pend[t]
                  \/ Dispatch(t)
               /\ UNCHANGED <<treeVars, wait_for_pid, pend, waitVars, exitVars, pc>>

Exiting(t) == \/ Walk(t) \/ Adopt(t) \/ Tell(t) \/ WakeWaiters(t) \/ SendChild(t) \/ Off(t)
Waiting(t) == \/ ScanReturns(t) \/ ScanFinds(t) \/ ScanSleeps(t) \/ Mark(t) \/ Recheck(t)
              \/ Resched(t) \/ Check(t) \/ Reap(t) \/ Free(t)
Calls(t)   == \E a \in Asks[t] : Call(t, a[1], a[2])

Next == \E t \in Task : \/ \E c \in Task : Fork(t, c)
                        \/ Calls(t) \/ Waiting(t) \/ Exit(t) \/ Exiting(t)
                        \/ Deliver(t) \/ Schedule(t)

Spec == Init /\ [][Next]_vars

(* A task that may run does.  No task has to fork, wait or exit, but init, *)
(* which calls wait for any child over and over (usr/apps/init.c).         *)
Fairness == \A t \in Task : WF_vars(Waiting(t) \/ Exiting(t) \/ Deliver(t)) /\ WF_vars(Schedule(t))
FairSpec == Spec /\ Fairness /\ SF_vars(Calls(Init1))
-----------------------------------------------------------------------------
Place == {"new", "out", "scan", "mark", "slp", "chk", "reap", "free",
          "heir", "adopt", "tell", "wake", "chld", "off", "dead"}

TypeOK == /\ SchedTypeOK
          /\ pids \subseteq Task
          /\ children \in [Task -> SUBSET Task]
          /\ ppid \in [Task -> Task \cup {NoTask}]
          /\ wait_for_pid \in [Task -> Task \cup {NoTask, AnyChild}]
          /\ pend \in [Task -> BOOLEAN]
          /\ sel \in [Task -> Task \cup {AnyChild}]
          /\ opt \in [Task -> {"hang", "WNOHANG", "WNOWAIT"}]
          /\ zombie \in [Task -> Task \cup {NoTask}]
          /\ up \in [Task -> Task \cup {NoTask}]
          /\ notify \in [Task -> SUBSET Task]
          /\ pc \in [Task -> Place]

(* A process that has handed its children on has none again: every process *)
(* that outlives its parent is the child of one that can wait for it.  It  *)
(* holds when no subreaper exits: group_report tests the state of the heir *)
(* before it takes children_lock.                                          *)
Adopted == \A t \in Task : pc[t] \in {"tell", "wake", "chld", "off", "dead"} => children[t] = {}

(* A task is freed only when it is off its CPU for good, and nobody has a  *)
(* freed task in hand: neither do_wait nor, when no subreaper exits,       *)
(* group_report.                                                           *)
FreedDead == \A t \in Task :
    /\ pc[t] # "new" /\ t \notin pids => pc[t] = "dead" /\ ~oncpu[t]
    /\ pc[t] \in {"reap", "free"} => zombie[t] \in pids
    /\ pc[t] = "adopt" => up[t] \in pids

(* "Blocks until a child exits and reports which one" (wait(2)): once a    *)
(* child has exited, a task that sleeps in do_wait for it goes on.         *)
ExitSeen == \A t, c \in Task :
    (pc[t] = "slp" /\ c \in Selected(t) /\ pc[c] = "dead") ~> pc[t] # "slp"

(* The same for the tasks that have a handler for SIGCHLD: the signal is   *)
(* tested for after the task marked itself.                                *)
ExitSeenCaught == \A t \in Catch :
    (pc[t] = "slp" /\ \E c \in Selected(t) : pc[c] = "dead") ~> pc[t] # "slp"

(* "Reaps orphans for the rest of the session" (init(1)): a process that  *)
(* has exited and is the child of init, or of nobody that could wait for   *)
(* it, is freed in the end.                                                *)
OrphanReaped == \A c \in MayExit :
    (pc[c] = "dead" /\ \A t \in Task : c \in children[t] => t = Init1 \/ pc[t] = "dead")
        ~> c \notin pids
=============================================================================
