--------------------------- MODULE KMutexProofs ---------------------------
(***************************************************************************)
(* Proofs about module KMutex, for any set of tasks.                       *)
(***************************************************************************)
EXTENDS KMutex, SequenceTheorems, TLAPS

InQueue(t) == \E i \in 1..Len(queue) : queue[i] = t

(* The queue holds exactly the tasks that sleep and were not granted the   *)
(* mutex, each once.                                                       *)
QueueExact ==
    /\ \A t \in Task : InQueue(t) <=> Sleeping(t) /\ ~granted[t]
    /\ \A i, j \in 1..Len(queue) : queue[i] = queue[j] => i = j

(* locked says whether somebody holds the mutex; waiters imply a holder.   *)
LockedExact ==
    /\ locked = 1 <=> \E t \in Task : Holds(t)
    /\ queue # <<>> => locked = 1

OwnerExact == /\ \A t \in Task : pc[t] = "cs" => owner = t
              /\ owner # NoTask => pc[owner] = "cs"

WakeTarget == \A u \in Task : pc[u] = "wake" => target[u] \in Task

(* The inductive invariant of the mutex. *)
IInv == /\ TypeOK
        /\ QueueExact
        /\ LockedExact
        /\ MutualExclusion
        /\ OwnerExact
        /\ WakeTarget
        /\ HandoffReaches

(* What Append does to the list of waiters. *)
LEMMA AppendFacts ==
    ASSUME NEW s \in Seq(Task), NEW t \in Task
    PROVE  /\ Append(s, t) \in Seq(Task)
           /\ Append(s, t) # <<>>
           /\ Len(s) \in Nat
           /\ Len(Append(s, t)) = Len(s) + 1
           /\ \A i \in 1..Len(s) : Append(s, t)[i] = s[i]
           /\ Append(s, t)[Len(s) + 1] = t
  BY AppendProperties

(* What removing the head does to the list of waiters. *)
LEMMA TailFacts ==
    ASSUME NEW s \in Seq(Task), s # <<>>
    PROVE  /\ Len(s) \in Nat \ {0}
           /\ Head(s) \in Task
           /\ Head(s) = s[1]
           /\ Tail(s) \in Seq(Task)
           /\ Len(Tail(s)) = Len(s) - 1
           /\ \A i \in 1..(Len(s) - 1) : Tail(s)[i] = s[i+1]
  BY HeadTailProperties, EmptySeq

(* A fresh mutex (kmutex_init) satisfies the invariant. *)
LEMMA InitIInv == Init => IInv
<1>1. SUFFICES ASSUME Init PROVE IInv
  BY Zenon
<1>2. TypeOK
  BY <1>1 DEF Init, TypeOK, SchedInit, SchedTypeOK, TaskState, Places
<1>3. Len(queue) = 0
  BY Zenon, <1>1 DEF Init
<1>4. QueueExact
  BY <1>1, <1>3 DEF Init, QueueExact, InQueue, Sleeping
<1>5. QED
  BY <1>1, <1>2, <1>4, NoTaskAssumption
     DEF Init, SchedInit, IInv, LockedExact, MutualExclusion, OwnerExact, WakeTarget,
         HandoffReaches, Holds, Sleeping

(* Every step of every task, and every step of the scheduler, keeps IInv. *)
LEMMA StepIInv == IInv /\ [Next]_vars => IInv'
<1> SUFFICES ASSUME IInv, [Next]_vars PROVE IInv'
  BY Zenon
<1> USE NoTaskAssumption
    DEF IInv, TypeOK, SchedTypeOK, TaskState, Places, QueueExact, InQueue, LockedExact,
        MutualExclusion, OwnerExact, WakeTarget, HandoffReaches, Holds, Sleeping,
        At, Goto, mutexVars, schedVars
<1>1. ASSUME NEW t \in Task, LockFast(t) PROVE IInv'
  BY <1>1 DEF LockFast, CasLocked
<1>2. ASSUME NEW t \in Task, LockContended(t) PROVE IInv'
  BY <1>2 DEF LockContended
<1>3. ASSUME NEW t \in Task, Spin(t) PROVE IInv'
  BY <1>3 DEF Spin, CasLocked
<1>4. ASSUME NEW t \in Task, SlowTake(t) PROVE IInv'
  BY <1>4 DEF SlowTake, CasLocked
<1>5. ASSUME NEW t \in Task, SlowWait(t) PROVE IInv'
  <2>1. /\ Append(queue, t) \in Seq(Task) /\ Len(queue) \in Nat
        /\ Len(Append(queue, t)) = Len(queue) + 1
        /\ \A i \in 1..Len(queue) : Append(queue, t)[i] = queue[i]
        /\ Append(queue, t)[Len(queue) + 1] = t
    BY AppendFacts
  <2>2. QueueExact'
    BY <1>5, <2>1 DEF SlowWait
  <2> QED
    BY <1>5, <2>1, <2>2 DEF SlowWait, SetBlocked
<1>6. ASSUME NEW t \in Task, Own(t) PROVE IInv'
  BY <1>6 DEF Own
<1>7. ASSUME NEW t \in Task, Check(t) PROVE IInv'
  BY <1>7 DEF Check
<1>8. ASSUME NEW t \in Task, Resched(t) PROVE IInv'
  BY <1>8 DEF Resched, ReschedReturns
<1>9. ASSUME NEW t \in Task, Recheck(t) PROVE IInv'
  BY <1>9 DEF Recheck
<1>10. ASSUME NEW t \in Task, Relock(t) PROVE IInv'
  BY <1>10 DEF Relock, SetBlocked
<1>11. ASSUME NEW t \in Task, Fin(t) PROVE IInv'
  BY <1>11 DEF Fin
<1>12. ASSUME NEW t \in Task, UnlockFree(t) PROVE IInv'
  BY <1>12 DEF UnlockFree
<1>13. ASSUME NEW t \in Task, UnlockHandoff(t) PROVE IInv'
  <2> DEFINE h == Head(queue)
  <2>1. /\ h \in Task /\ h = queue[1] /\ Tail(queue) \in Seq(Task)
        /\ Len(queue) \in Nat \ {0} /\ Len(Tail(queue)) = Len(queue) - 1
        /\ \A i \in 1..(Len(queue) - 1) : Tail(queue)[i] = queue[i+1]
    BY ZenonT(60), <1>13, TailFacts DEF UnlockHandoff
  <2>2. Sleeping(h) /\ ~granted[h] /\ h # t
    BY <1>13, <2>1 DEF UnlockHandoff
  <2>3. \A u \in Task : (\E i \in 1..Len(Tail(queue)) : Tail(queue)[i] = u)
                         <=> InQueue(u) /\ u # h
    <3> SUFFICES ASSUME NEW u \in Task
                 PROVE  (\E i \in 1..Len(Tail(queue)) : Tail(queue)[i] = u) <=> InQueue(u) /\ u # h
      BY Zenon
    <3>1. ASSUME NEW i \in 1..Len(Tail(queue)), Tail(queue)[i] = u PROVE InQueue(u) /\ u # h
      BY <2>1, <3>1
    <3>2. ASSUME NEW i \in 1..Len(queue), queue[i] = u, u # h
          PROVE  \E j \in 1..Len(Tail(queue)) : Tail(queue)[j] = u
      <4>1. i # 1 /\ i - 1 \in 1..Len(Tail(queue)) /\ Tail(queue)[i - 1] = queue[i]
        BY <2>1, <3>2
      <4> QED
        BY Zenon, <3>2, <4>1
    <3> QED
      BY Zenon, <3>1, <3>2
  <2>4. QueueExact'
    BY <1>13, <2>1, <2>2, <2>3 DEF UnlockHandoff
  <2>5. (LockedExact /\ MutualExclusion)'
    BY <1>13, <2>1, <2>2 DEF UnlockHandoff
  <2> QED
    BY <1>13, <2>1, <2>2, <2>4, <2>5 DEF UnlockHandoff
<1>14. ASSUME NEW t \in Task, Wake(t) PROVE IInv'
  BY <1>14 DEF Wake, task_unblock, Unblocked
<1>15. ASSUME NEW t \in Task, Preempt(t) PROVE IInv'
  BY <1>15 DEF Preempt, SwitchAway
<1>16. ASSUME NEW t \in Task, RunAgain(t) PROVE IInv'
  BY <1>16 DEF RunAgain, Dispatch
<1>17. ASSUME NEW t \in Task, StrayWake(t) PROVE IInv'
  BY <1>17 DEF StrayWake, task_unblock, Unblocked
<1>18. CASE UNCHANGED vars
  BY <1>18 DEF vars
<1> QED
  BY ZenonT(60), <1>1, <1>2, <1>3, <1>4, <1>5, <1>6, <1>7, <1>8, <1>9, <1>10, <1>11, <1>12, <1>13, <1>14, <1>15, <1>16, <1>17, <1>18 DEF Next, Locking, Waiting, Leaving

(* IInv is an invariant of the mutex. *)
LEMMA Inductive == Spec => []IInv
  BY InitIInv, StepIInv, PTL DEF Spec

(***************************************************************************)
(* kmutex.c excludes: for any number of tasks, at most one is between the  *)
(* return of kmutex_lock or trylock and its kmutex_unlock, or is being     *)
(* handed the mutex.                                                       *)
(***************************************************************************)
THEOREM MutexSafe == Spec => []MutualExclusion
<1>1. IInv => MutualExclusion
  BY Zenon DEF IInv
<1> QED
  BY <1>1, Inductive, PTL

(* kmutex_held_by_me is exact for every task at every moment. *)
THEOREM HeldByMeExact == Spec => []HeldByMeCorrect
<1>1. IInv => HeldByMeCorrect
  BY Zenon, NoTaskAssumption
     DEF IInv, TypeOK, HeldByMeCorrect, HeldByMe, OwnerExact, LockedExact, Holds
<1> QED
  BY <1>1, Inductive, PTL

(* The wake that follows a hand-off is never lost: kmutex_unlock's         *)
(* task_unblock comes after the grant, and kmutex_lock re-marks itself     *)
(* BLOCKED only under wait_lock and only when not granted.                 *)
THEOREM HandoffNotLost == Spec => []HandoffReaches
<1>1. IInv => HandoffReaches
  BY Zenon DEF IInv
<1> QED
  BY <1>1, Inductive, PTL

HolderFacts == /\ \A t \in Task : Holds(t) => Holder = t
               /\ (\A t \in Task : ~Holds(t)) => Holder = NoTask

(* Holder names the task that holds the mutex, when one does. *)
LEMMA HolderIsHolder == MutualExclusion => HolderFacts
  BY Zenon DEF HolderFacts, Holder, MutualExclusion

(* A step that changes neither the queue nor who holds the mutex is a      *)
(* stuttering step of the fair lock.                                       *)
LEMMA SameHolder ==
    ASSUME HolderFacts, HolderFacts', UNCHANGED queue,
           \A u \in Task : Holds(u)' <=> Holds(u)
    PROVE  UNCHANGED Abs!vars
<1>1. Holder' = Holder
  BY Zenon DEF HolderFacts
<1> QED
  BY Zenon, <1>1 DEF Abs!vars

(***************************************************************************)
(* kmutex.c implements a fair lock: a fast path never overtakes a queued   *)
(* waiter, and the waiters get the mutex in the order they queued.         *)
(***************************************************************************)
THEOREM MutexIsFairLock == Spec => ImplementsFairLock
<1> USE NoTaskAssumption
<1>1. Init => Abs!Init
  BY Zenon DEF Init, Abs!Init, Holder, Holds, Sleeping
<1>2. IInv /\ IInv' /\ [Next]_vars => [Abs!Next]_Abs!vars
  <2> SUFFICES ASSUME IInv, IInv', [Next]_vars PROVE [Abs!Next]_Abs!vars
    BY Zenon
  <2>1. HolderFacts /\ HolderFacts'
    <3>1. MutualExclusion /\ MutualExclusion'
      BY Zenon DEF IInv
    <3>2. HolderFacts'
      BY Zenon, <3>1 DEF HolderFacts, Holder, MutualExclusion
    <3> QED
      BY Zenon, <3>1, <3>2, HolderIsHolder
  <2>2. ASSUME NEW t \in Task, oncpu[t], CasLocked(t),
               pc[t] \in {"out", "spin", "slow"}
        PROVE  Abs!Take(t)
    <3>1. Holder = NoTask /\ queue = <<>>
      BY <2>1, <2>2 DEF CasLocked, IInv, LockedExact, HolderFacts
    <3>2. Holds(t)'
      BY Zenon, <2>2 DEF CasLocked, Goto, Holds, IInv, TypeOK
    <3>3. Holder' = t
      BY Zenon, <2>1, <3>2 DEF HolderFacts
    <3> QED
      BY Zenon, <2>2, <3>1, <3>3 DEF Abs!Take, CasLocked
  <2>3. ASSUME NEW t \in Task, SlowWait(t) PROVE Abs!Join(t)
    <3>1. PICK u \in Task : Holds(u)
      BY Zenon, <2>3 DEF SlowWait, IInv, LockedExact
    <3>2. Holder = u /\ u # t /\ u # NoTask
      BY Zenon, <2>1, <2>3, <3>1 DEF SlowWait, At, Holds, Sleeping, HolderFacts
    <3>3. Holds(u)'
      BY Zenon, <2>3, <3>1, <3>2 DEF SlowWait, Goto, Holds, Sleeping, IInv, TypeOK
    <3>4. Holder' = u
      BY Zenon, <2>1, <3>3 DEF HolderFacts
    <3> QED
      BY Zenon, <2>3, <3>2, <3>4 DEF Abs!Join, SlowWait
  <2>4. ASSUME NEW t \in Task, UnlockFree(t) PROVE Abs!Release
    <3>1. Holder = t /\ t # NoTask
      BY Zenon, <2>1, <2>4 DEF UnlockFree, At, Holds, HolderFacts
    <3>2. \A u \in Task : ~Holds(u)'
      BY <2>4 DEF UnlockFree, IInv, LockedExact
    <3>3. Holder' = NoTask
      BY Zenon, <2>1, <3>2 DEF HolderFacts
    <3> QED
      BY Zenon, <2>4, <3>1, <3>3 DEF Abs!Release, UnlockFree
  <2>5. ASSUME NEW t \in Task, UnlockHandoff(t) PROVE Abs!Release
    <3>1. Holder = t /\ t # NoTask
      BY Zenon, <2>1, <2>5 DEF UnlockHandoff, At, Holds, HolderFacts
    <3>2. Head(queue) \in Task /\ Head(queue) = queue[1] /\ Len(queue) \in Nat \ {0}
      BY Zenon, <2>5, TailFacts DEF UnlockHandoff, IInv, TypeOK
    <3>3. PICK h \in Task : h = Head(queue)
      BY Zenon, <3>2
    <3>4. Sleeping(h) /\ h # t
      BY <2>5, <3>2, <3>3 DEF UnlockHandoff, At, Sleeping, IInv, QueueExact, InQueue
    <3>5. Holds(h)'
      BY Zenon, <2>5, <3>3, <3>4 DEF UnlockHandoff, Goto, Holds, Sleeping, IInv, TypeOK
    <3>6. Holder' = h
      BY Zenon, <2>1, <3>5 DEF HolderFacts
    <3> QED
      BY Zenon, <2>5, <3>1, <3>3, <3>6 DEF Abs!Release, UnlockHandoff
  <2>6. ASSUME NEW t \in Task,
               \/ LockContended(t) \/ Own(t) \/ Check(t) \/ Resched(t) \/ Recheck(t)
               \/ Relock(t) \/ Fin(t) \/ Wake(t)
        PROVE  UNCHANGED Abs!vars
    <3>1. UNCHANGED queue /\ \A u \in Task : Holds(u)' <=> Holds(u)
      BY <2>6 DEF LockContended, Own, Check, Resched, Recheck, Relock, Fin, Wake, Goto, At,
                  Holds, Sleeping, mutexVars, IInv, TypeOK
    <3> QED
      BY Zenon, <2>1, <3>1, SameHolder
  <2>7. ASSUME UNCHANGED <<mutexVars, pc>> PROVE UNCHANGED Abs!vars
    <3>1. UNCHANGED queue /\ \A u \in Task : Holds(u)' <=> Holds(u)
      BY Zenon, <2>7 DEF Holds, Sleeping, mutexVars
    <3> QED
      BY Zenon, <2>1, <3>1, SameHolder
  <2> QED
    BY Zenon, <2>2, <2>3, <2>4, <2>5, <2>6, <2>7
       DEF Next, Locking, Waiting, Leaving, LockFast, Spin, SlowTake, At,
           Preempt, RunAgain, StrayWake, vars, mutexVars, Abs!Next
<1> QED
  BY <1>1, <1>2, Inductive, PTL DEF Spec, ImplementsFairLock, Abs!Spec

===========================================================================
