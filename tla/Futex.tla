------------------------------- MODULE Futex -------------------------------
(***************************************************************************)
(* The kernel half of userspace locks, syscall/mem/futex.c.  Each section  *)
(* under g_futex_lock is one step.  A key is an address; the modules of    *)
(* the thread library extend this one with the words they keep there.      *)
(***************************************************************************)
EXTENDS Naturals, FiniteSets

CONSTANTS Task, NoTask,
          Addr,                \* the futex words
          FUTEX_WAITERS_MAX,
          MayInt,              \* the tasks whose sleep a signal may end
          MayTimeout           \* the tasks that sleep with a deadline

ASSUME FutexAssumption == /\ NoTask \notin Task
                          /\ FUTEX_WAITERS_MAX \in Nat
                          /\ MayInt \subseteq Task
                          /\ MayTimeout \subseteq Task

VARIABLES word,       \* word[a]: the user memory at a
          waiters,    \* g_waiters; for: the value a waiter sleeps on, which
                      \* only the properties look at
          blocked,    \* the tasks that are BLOCKED in futex_wait_until
          why,        \* why[t]: what ended the sleep of t, when not a wake-up
          ret         \* ret[t]: what the last futex_wait of t returned

futexVars == <<waiters, blocked, why, ret>>

Slot == 1 .. FUTEX_WAITERS_MAX
Free == [task |-> NoTask]
Results == {"none", "OK", "EAGAIN", "ENOMEM", "EINTR", "ETIMEDOUT"}

FutexInit == /\ waiters = [i \in Slot |-> Free]
             /\ blocked = {}
             /\ why = [t \in Task |-> "OK"]
             /\ ret = [t \in Task |-> "none"]

Used(i)  == waiters[i] # Free
Waits(t) == \E i \in Slot : waiters[i].task = t

(* The slots of unwoken waiters at a, and the first n of them. *)
At(a) == {i \in Slot : Used(i) /\ waiters[i].addr = a /\ ~waiters[i].woken}
First(S, n) == {i \in S : Cardinality({j \in S : j < i}) < n}

(* futex_wait_until up to sched_reschedule: the word is compared, a slot is*)
(* taken and the task is BLOCKED under the lock that wakers take.          *)
Wait(t, a, v) ==
    \/ /\ word[a] # v
       /\ ret' = [ret EXCEPT ![t] = "EAGAIN"]
       /\ UNCHANGED <<waiters, blocked, why>>
    \/ /\ word[a] = v
       /\ \A i \in Slot : Used(i)
       /\ ret' = [ret EXCEPT ![t] = "ENOMEM"]
       /\ UNCHANGED <<waiters, blocked, why>>
    \/ \E i \in Slot :
       /\ word[a] = v
       /\ i \in First({j \in Slot : ~Used(j)}, 1)
       /\ waiters' = [waiters EXCEPT ![i] = [task |-> t, addr |-> a, for |-> {v}, woken |-> FALSE]]
       /\ blocked' = blocked \union {t}
       /\ ret' = [ret EXCEPT ![t] = "none"]
       /\ UNCHANGED why

(* A signal, or the deadline, ends the sleep of t. *)
Interrupt(t) == /\ t \in MayInt \intersect blocked
                /\ blocked' = blocked \ {t}
                /\ why' = [why EXCEPT ![t] = "EINTR"]
                /\ UNCHANGED <<word, waiters, ret>>

Timeout(t) == /\ t \in MayTimeout \intersect blocked
              /\ blocked' = blocked \ {t}
              /\ why' = [why EXCEPT ![t] = "ETIMEDOUT"]
              /\ UNCHANGED <<word, waiters, ret>>

(* The rest of futex_wait_until: the slot is given back, and a wake-up     *)
(* counts more than a signal or the deadline.                              *)
Return(t) == /\ Waits(t)
             /\ t \notin blocked
             /\ ret' = [ret EXCEPT ![t] =
                          IF \E i \in Slot : waiters[i].task = t /\ waiters[i].woken
                          THEN "OK" ELSE why[t]]
             /\ why' = [why EXCEPT ![t] = "OK"]
             /\ waiters' = [i \in Slot |-> IF waiters[i].task = t THEN Free ELSE waiters[i]]
             /\ UNCHANGED <<word, blocked>>

(* What waking the slots of S does to a table of waiters. *)
Marked(S) == [i \in Slot |-> IF i \in S THEN [waiters[i] EXCEPT !.woken = TRUE] ELSE waiters[i]]
Owners(S) == {waiters[i].task : i \in S}

(* Mutation: the waiters are marked and stay BLOCKED. *)
WakeMut(a, n) == /\ waiters' = Marked(First(At(a), n))
                 /\ UNCHANGED <<blocked, why, ret>>

(* futex_wake_key. *)
Wake(a, n) == /\ waiters' = Marked(First(At(a), n))
              /\ blocked' = blocked \ Owners(First(At(a), n))
              /\ UNCHANGED <<why, ret>>

FutexStep(t) == Interrupt(t) \/ Timeout(t) \/ Return(t)
=============================================================================
