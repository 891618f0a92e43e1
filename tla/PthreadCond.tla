----------------------------- MODULE PthreadCond -----------------------------
(***************************************************************************)
(* pthread condition variables of libcervus (pthread.c): one condition     *)
(* variable with its seq at C, used with the mutex of PthreadMutex.        *)
(* Places of a thread: cwait and cback before and after the futex_wait of  *)
(* pthread_cond_wait, swake before the futex_wake of signal or broadcast.  *)
(***************************************************************************)
EXTENDS PthreadMutex

CONSTANTS C,
          MaxSeq,        \* bound on the number of signals
          MayCondWait,   \* the threads that wait on the condition variable
          Wakes          \* how many a signal wakes: 1, or all for broadcast

ASSUME CondAssumption == /\ C \in Addr \ {M}
                         /\ MaxSeq \in Nat
                         /\ MayCondWait \subseteq Task
                         /\ Wakes \in Nat \ {0}

VARIABLE seq             \* seq[t]: the local variable of pthread_cond_wait

condVars == <<vars, seq>>

CondInit == MutexInit /\ seq = [t \in Task |-> 0]
-----------------------------------------------------------------------------
(* pthread_cond_wait: seq is read while the mutex is held. *)
CondWait(t) == /\ t \in MayCondWait
               /\ Here(t, "cs")
               /\ count <= 1
               /\ seq' = [seq EXCEPT ![t] = word[C]]
               /\ Leave(t, "cwait")
               /\ UNCHANGED <<word, futexVars>>

(* Mutation: seq is read when the mutex has been released. *)
CondSleepMut(t) == /\ Here(t, "cwait")
                   /\ Wait(t, C, word[C])
                   /\ Goto(t, "cback")
                   /\ UNCHANGED <<word, then, owner, count, seq>>

CondSleep(t) == /\ Here(t, "cwait")
                /\ Wait(t, C, seq[t])
                /\ Goto(t, "cback")
                /\ UNCHANGED <<word, then, owner, count, seq>>

(* Mutation: the mutex is not locked again. *)
CondBackMut(t) == /\ Here(t, "cback")
                  /\ Goto(t, "cs")
                  /\ seq' = [seq EXCEPT ![t] = 0]
                  /\ UNCHANGED <<word, futexVars, then, owner, count>>

(* Whatever ended the wait, the mutex is locked again. *)
CondBack(t) == /\ Here(t, "cback")
               /\ Call(t, "lock", "cs")
               /\ seq' = [seq EXCEPT ![t] = 0]
               /\ UNCHANGED <<word, futexVars, owner, count>>

(* pthread_cond_signal and pthread_cond_broadcast, with or without the     *)
(* mutex.                                                                  *)
Signal(t) == /\ Here(t, "cs") \/ Here(t, "out")
             /\ word[C] < MaxSeq
             /\ Set(C, word[C] + 1)
             /\ Call(t, "swake", pc[t])
             /\ UNCHANGED <<futexVars, owner, count, seq>>

SignalWake(t) == /\ Here(t, "swake")
                 /\ Wake(C, Wakes)
                 /\ Call(t, then[t], "out")
                 /\ UNCHANGED <<word, owner, count, seq>>

CondStep(t) == CondSleep(t) \/ CondBack(t) \/ SignalWake(t)
-----------------------------------------------------------------------------
CondNext == \E t \in Task :
               \/ CondStep(t) \/ CondWait(t) \/ Signal(t)
               \/ MutexNext(t) /\ UNCHANGED seq

CondSpec == CondInit /\ [][CondNext]_condVars
-----------------------------------------------------------------------------
HoldsM(t) == Holds(t) \/ (pc[t] = "swake" /\ then[t] = "cs")

(* One thread at a time is between pthread_mutex_lock, trylock, timedlock  *)
(* or the return of pthread_cond_wait, which comes back with the mutex     *)
(* whatever ended it, and the exchange of pthread_mutex_unlock; an owner   *)
(* that is recorded is that thread.                                        *)
CondExclusion == \A t \in Task : HoldsM(t) =>
                    /\ word[M] # 0
                    /\ \A u \in Task \ {t} : ~HoldsM(u)
                    /\ owner \in {NoTask, t}

(* A signal or broadcast that comes after pthread_cond_wait read seq under *)
(* the mutex finds the waiter asleep or keeps it from sleeping: a thread   *)
(* that still sleeps on an older seq has its futex_wake under way.  (With  *)
(* broadcast; pthread_cond_signal wakes one of them.)                      *)
CondKept == \A i \in At(C) : seq[waiters[i].task] # word[C] =>
                \E u \in Task : pc[u] = "swake"
==============================================================================
