---------------------------- MODULE PthreadMutex ----------------------------
(***************************************************************************)
(* pthread mutexes of libcervus (pthread.c) over the kernel's futexes: one *)
(* mutex with its state word at M.  Every atomic operation on the word and *)
(* every system call is a step.  pc[t] is where a thread is:               *)
(*   out cs           does not hold / holds the mutex                      *)
(*   lock slow        mutex_acquire: the first compare-and-exchange, the   *)
(*                    loop                                                 *)
(*   fwait            before the futex_wait of the loop                    *)
(*   unlock uwake     pthread_mutex_unlock: the exchange, the futex_wake   *)
(* then[t] is where it goes after the call it is in; the modules of what   *)
(* the library builds on mutexes add places of their own.                  *)
(***************************************************************************)
EXTENDS Futex

CONSTANTS M,
          Recursive,     \* the mutex is PTHREAD_MUTEX_RECURSIVE
          MaxCount,      \* bound on the depth of recursive locking
          MayTry,        \* the threads that use trylock
          MayTimedLock   \* the threads that use timedlock

ASSUME MutexAssumption == /\ M \in Addr
                          /\ Recursive \in BOOLEAN
                          /\ MaxCount \in Nat \ {0}
                          /\ MayTry \subseteq Task
                          /\ MayTimedLock \subseteq Task

VARIABLES pc, then,
          owner, count      \* fields of a mutex that is not NORMAL

mutexVars == <<pc, then, owner, count>>
vars == <<word, futexVars, mutexVars>>

MutexInit ==
        /\ FutexInit
        /\ word = [a \in Addr |-> 0]
        /\ pc = [t \in Task |-> "out"]
        /\ then = [t \in Task |-> "out"]
        /\ owner = NoTask
        /\ count = 0

(* A thread at p, not inside the kernel. *)
Here(t, p) == pc[t] = p /\ ~Waits(t)
Goto(t, p) == pc' = [pc EXCEPT ![t] = p]
Call(t, p, q) == Goto(t, p) /\ then' = [then EXCEPT ![t] = q]
Set(a, v) == word' = [word EXCEPT ![a] = v]

(* The mutex is t's: the owner field is set when the type has one. *)
Got(t) == /\ Goto(t, then[t])
          /\ then' = [then EXCEPT ![t] = "out"]
          /\ owner' = IF Recursive THEN t ELSE owner
          /\ count' = IF Recursive THEN 1 ELSE count
-----------------------------------------------------------------------------
(* pthread_mutex_lock, of a thread that does not own the mutex. *)
Lock(t) == /\ Here(t, "out")
           /\ Call(t, "lock", "cs")
           /\ UNCHANGED <<word, futexVars, owner, count>>

(* The owner of a recursive mutex only counts. *)
Relock(t) == /\ Here(t, "cs")
             /\ owner = t
             /\ count < MaxCount
             /\ count' = count + 1
             /\ UNCHANGED <<word, futexVars, pc, then, owner>>

(* mutex_acquire, or mutex_acquire_until: one compare-and-exchange. *)
LockFast(t) == /\ Here(t, "lock")
               /\ IF word[M] = 0
                  THEN Set(M, 1) /\ Got(t)
                  ELSE Goto(t, "slow") /\ UNCHANGED <<word, then, owner, count>>
               /\ UNCHANGED <<futexVars>>

(* Mutation: the loop takes the mutex without leaving a mark for the       *)
(* threads that still sleep.                                               *)
LockSlowMut(t) == /\ Here(t, "slow")
                  /\ IF word[M] = 0
                     THEN Set(M, 1) /\ Got(t)
                     ELSE Set(M, 2) /\ Goto(t, "fwait") /\ UNCHANGED <<then, owner, count>>
                  /\ UNCHANGED <<futexVars>>

(* The loop of mutex_acquire: whoever comes through it leaves 2 behind. *)
LockSlow(t) == /\ Here(t, "slow")
               /\ Set(M, 2)
               /\ IF word[M] = 0
                  THEN Got(t)
                  ELSE Goto(t, "fwait") /\ UNCHANGED <<then, owner, count>>
               /\ UNCHANGED <<futexVars>>

LockWait(t) == /\ Here(t, "fwait")
               /\ Wait(t, M, 2)
               /\ Goto(t, "slow")
               /\ UNCHANGED <<word, then, owner, count>>

(* mutex_acquire_until gives up when the time is over. *)
LockTimeout(t) == /\ t \in MayTimedLock
                  /\ Here(t, "fwait")
                  /\ Call(t, "out", "out")
                  /\ UNCHANGED <<word, futexVars, owner, count>>

(* pthread_mutex_trylock when it succeeds; EBUSY changes nothing. *)
TryLock(t) == /\ t \in MayTry
              /\ Here(t, "out")
              /\ word[M] = 0
              /\ Set(M, 1)
              /\ Goto(t, "cs")
              /\ owner' = IF Recursive THEN t ELSE owner
              /\ count' = IF Recursive THEN 1 ELSE count
              /\ UNCHANGED <<futexVars, then>>

(* pthread_mutex_unlock: a recursive mutex that is still held counts down, *)
(* and else forgets its owner before it is released.                       *)
Leave(t, q) == IF Recursive /\ count > 1
               THEN count' = count - 1 /\ UNCHANGED <<pc, then, owner>>
               ELSE /\ Call(t, "unlock", q)
                    /\ owner' = NoTask
                    /\ count' = 0

Unlock(t) == /\ Here(t, "cs")
             /\ Leave(t, "out")
             /\ UNCHANGED <<word, futexVars>>

Release(t) == /\ Here(t, "unlock")
              /\ Set(M, 0)
              /\ IF word[M] = 2 THEN Goto(t, "uwake") /\ UNCHANGED then
                 ELSE Call(t, then[t], "out")
              /\ UNCHANGED <<futexVars, owner, count>>

UnlockWake(t) == /\ Here(t, "uwake")
                 /\ Wake(M, 1)
                 /\ Call(t, then[t], "out")
                 /\ UNCHANGED <<word, owner, count>>
-----------------------------------------------------------------------------
Kernel(t) == FutexStep(t) /\ UNCHANGED mutexVars

(* The steps a thread takes inside the calls. *)
MutexStep(t) == LockFast(t) \/ LockSlow(t) \/ LockWait(t) \/ Release(t) \/ UnlockWake(t)

MutexNext(t) == \/ Kernel(t) \/ MutexStep(t) \/ LockTimeout(t)
                \/ Lock(t) \/ Relock(t) \/ TryLock(t) \/ Unlock(t)
-----------------------------------------------------------------------------
Holds(t) == pc[t] \in {"cs", "unlock"}

(* Nobody sleeps beside a mutex that will not wake them: the word says 2,  *)
(* so that the holder's unlock wakes one, or an unlock is about to, or a   *)
(* thread awake in the loop of mutex_acquire is going to write 2 (signals, *)
(* time-outs and a full table of waiters included).                        *)
NoStranded == At(M) # {} => \/ word[M] = 2
                            \/ \E t \in Task : pc[t] = "uwake"
                            \/ \E t \in Task : pc[t] = "slow" /\ t \notin blocked
=============================================================================
