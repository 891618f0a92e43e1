------------------------- MODULE PthreadCondProofs --------------------------
(***************************************************************************)
(* For any number of threads and of slots in the kernel's table, with      *)
(* signals, deadlines and a full table: the mutex excludes, nobody is left *)
(* asleep beside it, and a broadcast leaves no waiter behind.  The         *)
(* invariant ties the kernel's table to the places of the library: who has *)
(* a slot for the mutex is in the loop of mutex_acquire, who has one for   *)
(* the condition variable in pthread_cond_wait.                            *)
(***************************************************************************)
EXTENDS PthreadCond, FiniteSetTheorems, WellFoundedInduction, TLAPS

Entry == [task : Task, addr : Addr, for : SUBSET Nat, woken : BOOLEAN]

Place == {"out", "cs", "lock", "slow", "fwait", "unlock", "uwake", "cwait", "cback", "swake"}

Shape == /\ word \in [Addr -> Nat]
         /\ waiters \in [Slot -> {Free} \union Entry]
         /\ pc \in [Task -> Place]
         /\ then \in [Task -> {"out", "cs", "cwait"}]
         /\ seq \in [Task -> Nat]
         /\ owner \in Task \union {NoTask}

(* Where a call goes on when it is over. *)
Thens == \A t \in Task :
            /\ pc[t] \in {"lock", "slow", "fwait"} => then[t] = "cs"
            /\ pc[t] \in {"unlock", "uwake"} => then[t] \in {"out", "cwait"}
            /\ pc[t] = "swake" => then[t] \in {"out", "cs"}

(* Where the owner of a slot is. *)
Sleeps == \A i \in Slot : Used(i) =>
             \/ waiters[i].addr = M /\ pc[waiters[i].task] = "slow"
             \/ waiters[i].addr = C /\ pc[waiters[i].task] = "cback"

(* Who holds the mutex, and whom it says it belongs to. *)
Inside(t) == pc[t] = "cs" \/ (pc[t] = "swake" /\ then[t] = "cs")

Excluded == \A t \in Task : HoldsM(t) => /\ word[M] # 0
                                         /\ \A u \in Task \ {t} : ~HoldsM(u)

Owned == owner # NoTask => Inside(owner)

IInv == Shape /\ Thens /\ Sleeps /\ Excluded /\ Owned
-----------------------------------------------------------------------------
(* A slot is free or belongs to a thread. *)
LEMMA SlotFacts ==
  ASSUME Shape, NEW i \in Slot
  PROVE  /\ ~Used(i) => waiters[i].task = NoTask
         /\ Used(i) => waiters[i] \in Entry /\ waiters[i].task \in Task
<1>1. Free.task = NoTask
  BY Zenon DEF Free
<1> QED
  BY Zenon, <1>1 DEF Shape, Used, Entry

(* A record of the table is not the free one. *)
LEMMA EntryUsed == ASSUME NEW e \in Entry PROVE e # Free /\ e.task \in Task
<1>1. e.task \in Task
  BY Zenon DEF Entry
<1>2. Free.task = NoTask
  BY Zenon DEF Free
<1> QED
  BY Zenon, <1>1, <1>2, FutexAssumption

(* What Wait of futex_wait_until leaves in the table: the table as it was,  *)
(* or a new slot of t where the word has the value it sleeps on.            *)
LEMMA WaitFacts ==
  ASSUME Shape, NEW t \in Task, NEW a \in Addr, NEW v \in Nat, Wait(t, a, v)
  PROVE  /\ waiters' \in [Slot -> {Free} \union Entry]
         /\ \/ waiters' = waiters /\ blocked' = blocked
            \/ \E i \in Slot : /\ word[a] = v
                               /\ ~Used(i)
                               /\ waiters'[i].task = t /\ waiters'[i].addr = a
                               /\ \A j \in Slot \ {i} : waiters'[j] = waiters[j]
                               /\ blocked' = blocked \union {t}
<1>1. CASE waiters' = waiters /\ blocked' = blocked
  BY Zenon, <1>1 DEF Shape
<1>2. ASSUME NEW i \in Slot, word[a] = v, i \in First({j \in Slot : ~Used(j)}, 1),
             waiters' = [waiters EXCEPT ![i] = [task |-> t, addr |-> a, for |-> {v}, woken |-> FALSE]],
             blocked' = blocked \union {t}
      PROVE  /\ waiters' \in [Slot -> {Free} \union Entry]
             /\ \E k \in Slot : /\ word[a] = v
                                /\ ~Used(k)
                                /\ waiters'[k].task = t /\ waiters'[k].addr = a
                                /\ \A j \in Slot \ {k} : waiters'[j] = waiters[j]
                                /\ blocked' = blocked \union {t}
  <2>1. PICK e \in Entry : e = [task |-> t, addr |-> a, for |-> {v}, woken |-> FALSE]
    BY Zenon DEF Entry
  <2>2. waiters' = [waiters EXCEPT ![i] = e] /\ e.task = t /\ e.addr = a
    BY Zenon, <1>2, <2>1
  <2>3. ~Used(i)
    BY Zenon, <1>2 DEF First
  <2>4. waiters'[i] = e /\ \A j \in Slot \ {i} : waiters'[j] = waiters[j]
    BY Zenon, <2>2 DEF Shape
  <2>5. waiters' \in [Slot -> {Free} \union Entry]
    BY Zenon, <2>2 DEF Shape
  <2> QED
    BY Zenon, <1>2, <2>2, <2>3, <2>4, <2>5
<1> QED
  BY Zenon, <1>1, <1>2 DEF Wait

(* futex_wake_key marks slots and leaves everything else of the table.      *)
LEMMA WakeFacts ==
  ASSUME Shape, NEW S \in SUBSET Slot, \A i \in S : Used(i), waiters' = Marked(S)
  PROVE  /\ waiters' \in [Slot -> {Free} \union Entry]
         /\ \A i \in Slot : /\ Used(i)' = Used(i)
                            /\ waiters'[i].task = waiters[i].task
                            /\ Used(i) => /\ waiters'[i].addr = waiters[i].addr
                                          /\ waiters'[i].woken = (waiters[i].woken \/ i \in S)
<1>1. ASSUME NEW i \in Slot, i \in S
      PROVE  /\ waiters'[i] \in Entry
             /\ waiters'[i].task = waiters[i].task /\ waiters'[i].addr = waiters[i].addr
             /\ waiters'[i].woken
  <2>1. PICK e \in Entry : e = waiters[i]
    BY Zenon, <1>1, SlotFacts
  <2>2. waiters'[i] = [e EXCEPT !.woken = TRUE]
    BY Zenon, <1>1, <2>1 DEF Marked
  <2> QED
    BY Zenon, <2>1, <2>2 DEF Entry
<1>2. ASSUME NEW i \in Slot, i \notin S PROVE waiters'[i] = waiters[i]
  BY Zenon, <1>2 DEF Marked
<1>3. waiters' \in [Slot -> {Free} \union Entry]
  <2>1. \A i \in Slot : waiters'[i] \in {Free} \union Entry
    BY Zenon, <1>1, <1>2 DEF Shape
  <2>2. waiters' = [i \in Slot |-> waiters'[i]]
    BY Zenon DEF Marked
  <2> QED
    BY Zenon, <2>1, <2>2
<1>4. \A i \in Slot : Used(i)' = Used(i)
  BY Zenon, <1>1, <1>2, EntryUsed DEF Used
<1>5. \A i \in Slot : waiters'[i].task = waiters[i].task
  BY Zenon, <1>1, <1>2
<1>6. ASSUME NEW i \in Slot, Used(i)
      PROVE  /\ waiters'[i].addr = waiters[i].addr
             /\ waiters'[i].woken = (waiters[i].woken \/ i \in S)
  <2>1. waiters[i].woken \in BOOLEAN
    BY Zenon, <1>6, SlotFacts DEF Entry
  <2> QED
    BY Zenon, <1>1, <1>2, <2>1
<1> QED
  BY Zenon, <1>3, <1>4, <1>5, <1>6

(* The slots futex_wake_key marks are unwoken waiters of its key. *)
LEMMA FirstFacts ==
  ASSUME NEW a, NEW n
  PROVE  First(At(a), n) \subseteq At(a) /\ At(a) \subseteq Slot /\ \A i \in At(a) : Used(i)
BY Zenon DEF First, At
-----------------------------------------------------------------------------
(* Nobody waits and nobody holds at the start. *)
LEMMA IInvInit == CondInit => IInv
<1> SUFFICES ASSUME CondInit PROVE IInv
  BY Zenon
<1> USE DEF CondInit, MutexInit, FutexInit
<1>1. Shape
  BY Zenon DEF Shape, Place
<1>2. Thens /\ Sleeps
  BY Zenon DEF Thens, Sleeps, Used
<1>3. Excluded /\ Owned
  BY Zenon DEF Excluded, Owned, HoldsM, Holds
<1> QED
  BY Zenon, <1>1, <1>2, <1>3 DEF IInv

(* A thread that has no slot may go anywhere. *)
LEMMA SleepsOn ==
  ASSUME Shape, Sleeps, NEW t \in Task, ~Waits(t),
         \A u \in Task \ {t} : pc'[u] = pc[u], waiters' = waiters
  PROVE  Sleeps'
<1> SUFFICES ASSUME NEW i \in Slot, Used(i)
             PROVE  \/ waiters[i].addr = M /\ pc'[waiters[i].task] = "slow"
                    \/ waiters[i].addr = C /\ pc'[waiters[i].task] = "cback"
  BY Zenon DEF Sleeps, Used
<1>1. waiters[i].task \in Task \ {t}
  BY Zenon, SlotFacts DEF Waits
<1> QED
  BY Zenon, <1>1 DEF Sleeps

(* A step of t that takes neither the mutex nor the owner's place in it. *)
LEMMA ExcludedOn ==
  ASSUME Excluded, Owned, NEW t \in Task,
         \A u \in Task \ {t} : pc'[u] = pc[u] /\ then'[u] = then[u],
         word'[M] = 0 => word[M] = 0, owner \in Task \union {NoTask},
         HoldsM(t)' => HoldsM(t),
         owner' = owner \/ owner' = NoTask,
         owner' = t => Inside(t)'
  PROVE  Excluded' /\ Owned'
<1>1. \A u \in Task \ {t} : HoldsM(u)' = HoldsM(u) /\ Inside(u)' = Inside(u)
  BY Zenon DEF HoldsM, Holds, Inside
<1>2. \A u \in Task : HoldsM(u)' => HoldsM(u)
  BY Zenon, <1>1
<1>3. Excluded'
  <2> SUFFICES ASSUME NEW u \in Task, HoldsM(u)'
               PROVE  word'[M] # 0 /\ \A w \in Task \ {u} : ~HoldsM(w)'
    BY Zenon DEF Excluded
  <2> QED
    BY Zenon, <1>2 DEF Excluded
<1>4. Owned'
  BY Zenon, <1>1 DEF Owned
<1> QED
  BY Zenon, <1>3, <1>4

(* The compare-and-exchange or the exchange finds the mutex free. *)
LEMMA Takes ==
  ASSUME Excluded, Owned, NEW t \in Task, word[M] = 0, word'[M] # 0,
         \A u \in Task \ {t} : pc'[u] = pc[u] /\ then'[u] = then[u],
         Inside(t)', owner \in Task \union {NoTask}, owner' \in {t, owner}
  PROVE  Excluded' /\ Owned'
<1>1. \A u \in Task : ~HoldsM(u) /\ ~Inside(u)
  BY Zenon DEF Excluded, Inside, HoldsM, Holds
<1>2. owner = NoTask
  BY Zenon, <1>1 DEF Owned
<1>3. \A u \in Task \ {t} : ~HoldsM(u)'
  BY Zenon, <1>1 DEF HoldsM, Holds
<1>4. Excluded'
  <2> SUFFICES ASSUME NEW u \in Task, HoldsM(u)'
               PROVE  word'[M] # 0 /\ \A w \in Task \ {u} : ~HoldsM(w)'
    BY Zenon DEF Excluded
  <2>1. u = t
    BY Zenon, <1>3
  <2> QED
    BY Zenon, <1>3, <2>1
<1>5. Owned'
  BY Zenon, <1>2 DEF Owned
<1> QED
  BY Zenon, <1>4, <1>5

(* A step that changes only the place of t. *)
Moves(t) == /\ pc' \in [Task -> Place]
            /\ then' \in [Task -> {"out", "cs", "cwait"}]
            /\ \A u \in Task \ {t} : pc'[u] = pc[u] /\ then'[u] = then[u]

(* The places of a thread fit together. *)
Fits(p, q) == /\ p \in {"lock", "slow", "fwait"} => q = "cs"
              /\ p \in {"unlock", "uwake"} => q \in {"out", "cwait"}
              /\ p = "swake" => q \in {"out", "cs"}

(* Goto and Call are such steps. *)
LEMMA MovesTo ==
  ASSUME Shape, NEW t \in Task, NEW p \in Place, NEW q \in {"out", "cs", "cwait"},
         pc' = [pc EXCEPT ![t] = p], then' = [then EXCEPT ![t] = q]
  PROVE  Moves(t) /\ pc'[t] = p /\ then'[t] = q
BY Zenon DEF Shape, Moves

(* The same when then is left alone. *)
LEMMA MovesOn ==
  ASSUME Shape, NEW t \in Task, NEW p \in Place, pc' = [pc EXCEPT ![t] = p], then' = then
  PROVE  Moves(t) /\ pc'[t] = p /\ then'[t] = then[t]
BY Zenon DEF Shape, Moves

(* What a step of t has to keep of the places. *)
LEMMA ThensOn ==
  ASSUME Thens, NEW t \in Task, Moves(t), Fits(pc'[t], then'[t])
  PROVE  Thens'
BY Zenon DEF Thens, Moves, Fits

(* A step of a thread outside the kernel that does not take the mutex. *)
LEMMA Walks ==
  ASSUME IInv, NEW t \in Task, ~Waits(t), Moves(t), Fits(pc'[t], then'[t]),
         waiters' = waiters, word' \in [Addr -> Nat], word'[M] = 0 => word[M] = 0,
         seq' \in [Task -> Nat],
         HoldsM(t)' => HoldsM(t),
         owner' = owner \/ owner' = NoTask,
         owner' = t => Inside(t)'
  PROVE  IInv'
<1>1. Shape'
  BY Zenon DEF IInv, Shape, Moves
<1>2. Thens' /\ Sleeps'
  BY Zenon, ThensOn, SleepsOn DEF IInv, Moves
<1>3. Excluded' /\ Owned'
  BY Zenon, ExcludedOn DEF IInv, Moves, Shape
<1> QED
  BY Zenon, <1>1, <1>2, <1>3 DEF IInv

(* A step that takes the mutex. *)
LEMMA WalksIn ==
  ASSUME IInv, NEW t \in Task, ~Waits(t), Moves(t), pc'[t] = "cs",
         waiters' = waiters, word' \in [Addr -> Nat], word[M] = 0, word'[M] # 0,
         seq' = seq, owner' \in {t, owner}
  PROVE  IInv'
<1>1. Shape'
  BY Zenon DEF IInv, Shape, Moves
<1>2. Thens' /\ Sleeps'
  BY Zenon, ThensOn, SleepsOn DEF IInv, Moves, Fits
<1>3. Excluded' /\ Owned'
  BY Zenon, Takes DEF IInv, Moves, Shape, Inside
<1> QED
  BY Zenon, <1>1, <1>2, <1>3 DEF IInv

(* A step that enters futex_wait, with or without a slot, on one of the two *)
(* words and goes on to the place where its sleepers are.                   *)
LEMMA WalksAsleep ==
  ASSUME IInv, NEW t \in Task, ~Waits(t), Moves(t), Fits(pc'[t], then'[t]),
         NEW a \in {M, C}, NEW v \in Nat, Wait(t, a, v),
         pc'[t] = IF a = M THEN "slow" ELSE "cback",
         UNCHANGED <<word, seq, owner>>, ~HoldsM(t)
  PROVE  IInv'
<1>0. a \in Addr /\ C # M
  BY Zenon, MutexAssumption, CondAssumption
<1>1. Shape'
  BY Zenon, <1>0, WaitFacts DEF IInv, Shape, Moves
<1>2. Thens'
  BY Zenon, ThensOn DEF IInv
<1>3. Sleeps'
  <2>1. CASE waiters' = waiters
    BY Zenon, <2>1, SleepsOn DEF IInv, Moves
  <2>2. CASE \E i \in Slot : /\ waiters'[i].task = t /\ waiters'[i].addr = a
                             /\ \A j \in Slot \ {i} : waiters'[j] = waiters[j]
    <3>1. PICK i \in Slot : /\ waiters'[i].task = t /\ waiters'[i].addr = a
                            /\ \A j \in Slot \ {i} : waiters'[j] = waiters[j]
      BY Zenon, <2>2
    <3>2. ASSUME NEW j \in Slot \ {i}, Used(j)
          PROVE  waiters[j].task \in Task \ {t}
      BY Zenon, <3>2, SlotFacts DEF Waits, IInv
    <3>3. ASSUME NEW j \in Slot, Used(j)'
          PROVE  \/ waiters'[j].addr = M /\ pc'[waiters'[j].task] = "slow"
                 \/ waiters'[j].addr = C /\ pc'[waiters'[j].task] = "cback"
      <4>1. CASE j = i
        BY Zenon, <3>1, <4>1, <1>0
      <4>2. CASE j # i
        BY <3>1, <3>2, <3>3, <4>2 DEF Used, IInv, Sleeps, Moves
      <4> QED
        BY Zenon, <4>1, <4>2
    <3> QED
      BY Zenon, <3>3 DEF Sleeps
  <2> QED
    BY <1>0, <2>1, <2>2, WaitFacts DEF IInv
<1>4. Excluded' /\ Owned'
  <2>1. ~HoldsM(t)'
    BY Zenon DEF HoldsM, Holds
  <2>2. owner # t
    BY Zenon, FutexAssumption DEF IInv, Owned, Inside, HoldsM, Holds
  <2> QED
    BY Zenon, <2>1, <2>2, ExcludedOn DEF IInv, Moves, Shape
<1> QED
  BY Zenon, <1>1, <1>2, <1>3, <1>4 DEF IInv

(* A step that wakes sleepers. *)
LEMMA WalksWaking ==
  ASSUME IInv, NEW t \in Task, ~Waits(t), Moves(t), Fits(pc'[t], then'[t]),
         NEW a, NEW n, Wake(a, n), UNCHANGED <<word, seq, owner>>,
         HoldsM(t)' => HoldsM(t), Inside(t) => Inside(t)'
  PROVE  IInv'
<1>0. PICK S \in SUBSET Slot : (\A i \in S : Used(i)) /\ waiters' = Marked(S)
  BY Zenon, FirstFacts DEF Wake
<1>1. /\ waiters' \in [Slot -> {Free} \union Entry]
      /\ \A i \in Slot : /\ Used(i)' = Used(i)
                         /\ waiters'[i].task = waiters[i].task
                         /\ Used(i) => waiters'[i].addr = waiters[i].addr
  BY Zenon, <1>0, WakeFacts DEF IInv
<1>2. Shape'
  BY Zenon, <1>1 DEF IInv, Shape, Moves
<1>3. Thens'
  BY Zenon, ThensOn DEF IInv
<1>4. Sleeps'
  <2> SUFFICES ASSUME NEW i \in Slot, Used(i)
               PROVE  \/ waiters'[i].addr = M /\ pc'[waiters'[i].task] = "slow"
                      \/ waiters'[i].addr = C /\ pc'[waiters'[i].task] = "cback"
    BY Zenon, <1>1 DEF Sleeps
  <2>1. waiters[i].task \in Task \ {t}
    BY Zenon, SlotFacts DEF Waits, IInv
  <2> QED
    BY ZenonT(60), <1>1, <2>1 DEF Sleeps, IInv, Moves
<1>5. Excluded' /\ Owned'
  <2>1. owner = t => Inside(t)'
    BY Zenon, FutexAssumption DEF IInv, Owned
  <2> QED
    BY Zenon, <2>1, ExcludedOn DEF IInv, Moves, Shape
<1> QED
  BY Zenon, <1>2, <1>3, <1>4, <1>5 DEF IInv

(* The end of futex_wait gives the slot back, a signal or a deadline leaves *)
(* the table as it is.                                                      *)
LEMMA KernelStep ==
  ASSUME IInv, NEW t \in Task, Kernel(t), seq' = seq
  PROVE  IInv'
<1>0. word' = word /\ pc' = pc /\ then' = then /\ owner' = owner /\ count' = count
  BY Zenon DEF Kernel, FutexStep, Interrupt, Timeout, Return, mutexVars
<1>1. \A i \in Slot : waiters'[i] = waiters[i] \/ waiters'[i] = Free
  BY Zenon DEF Kernel, FutexStep, Interrupt, Timeout, Return
<1>2. waiters' \in [Slot -> {Free} \union Entry]
  BY Zenon DEF Kernel, FutexStep, Interrupt, Timeout, Return, IInv, Shape
<1>3. Shape'
  BY Zenon, <1>0, <1>2 DEF IInv, Shape
<1>4. Sleeps'
  BY Zenon, <1>0, <1>1 DEF IInv, Sleeps, Used
<1>5. Thens' /\ Excluded' /\ Owned'
  BY Zenon, <1>0 DEF IInv, Thens, Excluded, Owned, Inside, HoldsM, Holds
<1> QED
  BY Zenon, <1>3, <1>4, <1>5 DEF IInv

(* Got after the exchange found 0. *)
LEMMA GotStep ==
  ASSUME IInv, NEW t \in Task, ~Waits(t), pc[t] \in {"lock", "slow"}, word[M] = 0,
         NEW v \in {1, 2}, word' = [word EXCEPT ![M] = v], Got(t),
         UNCHANGED <<waiters, seq>>
  PROVE  IInv'
<1>1. then[t] = "cs"
  BY Zenon DEF IInv, Thens
<1>2. pc' = [pc EXCEPT ![t] = "cs"] /\ then' = [then EXCEPT ![t] = "out"]
      /\ owner' \in {t, owner}
  BY Zenon, <1>1 DEF Got, Goto
<1>3. word' \in [Addr -> Nat] /\ word'[M] # 0
  BY SMTT(30), MutexAssumption DEF IInv, Shape
<1>4. Moves(t) /\ pc'[t] = "cs"
  BY Zenon, <1>2, MovesTo DEF IInv, Place
<1> QED
  BY Zenon, <1>2, <1>3, <1>4, WalksIn

(* pthread_mutex_unlock up to the exchange, also from pthread_cond_wait. *)
LEMMA LeaveStep ==
  ASSUME IInv, NEW t \in Task, ~Waits(t), pc[t] = "cs", NEW q \in {"out", "cwait"}, Leave(t, q),
         UNCHANGED <<word, waiters>>, seq' \in [Task -> Nat]
  PROVE  IInv'
<1>0. Shape /\ HoldsM(t) /\ Inside(t)
  BY Zenon DEF IInv, HoldsM, Holds, Inside
<1>1. CASE pc' = pc /\ then' = then /\ owner' = owner
  <2>1. Moves(t) /\ pc'[t] = "cs" /\ then'[t] = then[t]
    BY Zenon, <1>0, <1>1 DEF Moves, Shape
  <2> QED
    BY Zenon, <1>0, <1>1, <2>1, Walks DEF Fits, Shape, Inside
<1>2. CASE Call(t, "unlock", q) /\ owner' = NoTask
  <2>1. Moves(t) /\ pc'[t] = "unlock" /\ then'[t] = q
    BY Zenon, <1>0, <1>2, MovesTo DEF Call, Goto, Place
  <2> QED
    BY Zenon, <1>0, <1>2, <2>1, Walks, FutexAssumption DEF Fits, Shape
<1> QED
  BY Zenon, <1>1, <1>2 DEF Leave

(* Every step keeps the invariant. *)
LEMMA IInvNext == IInv /\ [CondNext]_condVars => IInv'
<1> SUFFICES ASSUME IInv, [CondNext]_condVars PROVE IInv'
  BY Zenon
<1>0. Shape /\ Thens
  BY Zenon DEF IInv
<1>1. CASE UNCHANGED condVars
  BY ZenonT(60), <1>1 DEF condVars, vars, futexVars, mutexVars, IInv, Shape, Thens, Sleeps, Excluded, Owned,
       Inside, HoldsM, Holds, Used
<1>2. ASSUME NEW t \in Task, Lock(t), seq' = seq PROVE IInv'
  <2>1. Moves(t) /\ pc'[t] = "lock" /\ then'[t] = "cs"
    BY Zenon, <1>0, <1>2, MovesTo DEF Lock, Call, Goto, Place
  <2>2. ~Waits(t) /\ pc[t] = "out" /\ waiters' = waiters /\ word' = word /\ owner' = owner
    BY Zenon, <1>2 DEF Lock, Here, futexVars
  <2>3. owner # t
    BY Zenon, <2>2, FutexAssumption DEF IInv, Owned, Inside
  <2> QED
    BY ZenonT(60), <1>0, <1>2, <2>1, <2>2, <2>3, Walks DEF Fits, HoldsM, Holds, Shape
<1>3. ASSUME NEW t \in Task, Relock(t), seq' = seq PROVE IInv'
  BY ZenonT(60), <1>3 DEF Relock, futexVars, IInv, Shape, Thens, Sleeps, Excluded, Owned, Inside, HoldsM, Holds, Used
<1>4. ASSUME NEW t \in Task, LockFast(t), seq' = seq PROVE IInv'
  <2>1. ~Waits(t) /\ pc[t] = "lock" /\ waiters' = waiters
    BY Zenon, <1>4 DEF LockFast, Here, futexVars
  <2>2. CASE word[M] = 0
    BY Zenon, <1>4, <2>1, <2>2, GotStep DEF LockFast, Set
  <2>3. CASE word[M] # 0
    <3>1. pc' = [pc EXCEPT ![t] = "slow"] /\ then' = then /\ word' = word /\ owner' = owner
      BY Zenon, <1>4, <2>3 DEF LockFast, Goto
    <3>2. Moves(t) /\ pc'[t] = "slow" /\ then'[t] = then[t]
      BY Zenon, <1>0, <3>1, MovesOn DEF Place
    <3>3. then[t] = "cs" /\ owner # t
      BY ZenonT(60), <2>1, FutexAssumption DEF IInv, Thens, Owned, Inside
    <3> QED
      BY ZenonT(60), <1>0, <1>4, <2>1, <3>1, <3>2, <3>3, Walks DEF Fits, HoldsM, Holds, Shape
  <2> QED
    BY Zenon, <2>2, <2>3
<1>5. ASSUME NEW t \in Task, LockSlow(t), seq' = seq PROVE IInv'
  <2>1. ~Waits(t) /\ pc[t] = "slow" /\ waiters' = waiters /\ word' = [word EXCEPT ![M] = 2]
    BY Zenon, <1>5 DEF LockSlow, Here, futexVars, Set
  <2>2. CASE word[M] = 0
    BY Zenon, <1>5, <2>1, <2>2, GotStep DEF LockSlow
  <2>3. CASE word[M] # 0
    <3>1. pc' = [pc EXCEPT ![t] = "fwait"] /\ then' = then /\ owner' = owner
      BY Zenon, <1>5, <2>3 DEF LockSlow, Goto
    <3>2. Moves(t) /\ pc'[t] = "fwait" /\ then'[t] = then[t]
      BY Zenon, <1>0, <3>1, MovesOn DEF Place
    <3>3. then[t] = "cs" /\ owner # t
      BY Zenon, <2>1, FutexAssumption DEF IInv, Thens, Owned, Inside
    <3>4. word' \in [Addr -> Nat] /\ word'[M] # 0
      BY <1>0, <2>1, MutexAssumption DEF Shape
    <3> QED
      BY ZenonT(60), <1>0, <1>5, <2>1, <3>1, <3>2, <3>3, <3>4, Walks DEF Fits, HoldsM, Holds, Shape
  <2> QED
    BY Zenon, <2>2, <2>3
<1>6. ASSUME NEW t \in Task, LockWait(t), seq' = seq PROVE IInv'
  <2>1. /\ ~Waits(t) /\ pc[t] = "fwait" /\ Wait(t, M, 2)
        /\ pc' = [pc EXCEPT ![t] = "slow"] /\ then' = then /\ UNCHANGED <<word, owner>>
    BY Zenon, <1>6 DEF LockWait, Here, Goto
  <2>2. Moves(t) /\ pc'[t] = "slow" /\ then'[t] = then[t]
    BY Zenon, <1>0, <2>1, MovesOn DEF Place
  <2>3. Fits(pc'[t], then'[t]) /\ ~HoldsM(t)
    BY Zenon, <1>0, <2>1, <2>2 DEF Thens, Fits, HoldsM, Holds
  <2> QED
    BY Zenon, <1>6, <2>1, <2>2, <2>3, WalksAsleep
<1>7. ASSUME NEW t \in Task, LockTimeout(t), seq' = seq PROVE IInv'
  <2>1. Moves(t) /\ pc'[t] = "out" /\ then'[t] = "out"
    BY Zenon, <1>0, <1>7, MovesTo DEF LockTimeout, Call, Goto, Place
  <2>2. ~Waits(t) /\ pc[t] = "fwait" /\ waiters' = waiters /\ word' = word /\ owner' = owner
    BY Zenon, <1>7 DEF LockTimeout, Here, futexVars
  <2>3. owner # t
    BY Zenon, <2>2, FutexAssumption DEF IInv, Owned, Inside
  <2> QED
    BY Zenon, <1>0, <1>7, <2>1, <2>2, <2>3, Walks DEF Fits, HoldsM, Holds, Shape
<1>8. ASSUME NEW t \in Task, TryLock(t), seq' = seq PROVE IInv'
  <2>1. /\ ~Waits(t) /\ word[M] = 0 /\ word' = [word EXCEPT ![M] = 1] /\ waiters' = waiters
        /\ pc' = [pc EXCEPT ![t] = "cs"] /\ then' = then /\ owner' \in {t, owner}
    BY Zenon, <1>8 DEF TryLock, Here, Set, Goto, futexVars
  <2>2. Moves(t) /\ pc'[t] = "cs"
    BY Zenon, <1>0, <2>1, MovesOn DEF Place
  <2>3. word' \in [Addr -> Nat] /\ word'[M] # 0
    BY <1>0, <2>1, MutexAssumption DEF Shape
  <2> QED
    BY ZenonT(60), <1>8, <2>1, <2>2, <2>3, WalksIn
<1>9. ASSUME NEW t \in Task, Unlock(t), seq' = seq PROVE IInv'
  BY Zenon, <1>0, <1>9, LeaveStep DEF Unlock, Here, futexVars, Shape
<1>10. ASSUME NEW t \in Task, Release(t), seq' = seq PROVE IInv'
  <2>1. /\ ~Waits(t) /\ pc[t] = "unlock" /\ waiters' = waiters /\ owner' = owner
        /\ word' = [word EXCEPT ![M] = 0]
    BY Zenon, <1>10 DEF Release, Here, futexVars, Set
  <2>2. then[t] \in {"out", "cwait"} /\ HoldsM(t) /\ ~Inside(t)
    BY Zenon, <1>0, <2>1 DEF Thens, HoldsM, Holds, Inside
  <2>3. Moves(t) /\ \/ pc'[t] = "uwake" /\ then'[t] = then[t]
                    \/ pc'[t] = then[t] /\ then'[t] = "out"
    BY Zenon, <1>0, <1>10, <2>2, MovesTo, MovesOn DEF Release, Call, Goto, Place
  <2>4. \A u \in Task : ~HoldsM(u)'
    <3>1. ~HoldsM(t)'
      BY Zenon, <2>2, <2>3 DEF HoldsM, Holds
    <3>2. \A u \in Task \ {t} : ~HoldsM(u) /\ pc'[u] = pc[u] /\ then'[u] = then[u]
      BY Zenon, <2>2, <2>3 DEF IInv, Excluded, Moves
    <3> QED
      BY Zenon, <3>1, <3>2 DEF HoldsM, Holds
  <2>5. owner = NoTask
    <3>1. ASSUME NEW u \in Task PROVE ~Inside(u)
      BY Zenon, <2>2 DEF IInv, Excluded, Inside, HoldsM, Holds
    <3> QED
      BY Zenon, <3>1, <1>0 DEF IInv, Owned, Shape
  <2>6. Excluded' /\ Owned'
    BY Zenon, <2>1, <2>4, <2>5 DEF Excluded, Owned
  <2>7. Shape'
    BY ZenonT(60), <1>0, <1>10, <2>1, <2>3 DEF Shape, Moves
  <2>8. Thens' /\ Sleeps'
    BY ZenonT(60), <2>1, <2>2, <2>3, ThensOn, SleepsOn DEF Fits, IInv, Moves
  <2> QED
    BY Zenon, <2>6, <2>7, <2>8 DEF IInv
<1>11. ASSUME NEW t \in Task, UnlockWake(t), seq' = seq PROVE IInv'
  <2>1. ~Waits(t) /\ pc[t] = "uwake" /\ Wake(M, 1) /\ UNCHANGED <<word, owner>>
    BY Zenon, <1>11 DEF UnlockWake, Here
  <2>2. then[t] \in {"out", "cwait"} /\ ~Inside(t)
    BY Zenon, <1>0, <2>1 DEF Thens, Inside
  <2>3. Moves(t) /\ pc'[t] = then[t] /\ then'[t] = "out"
    BY ZenonT(60), <1>0, <1>11, <2>2, MovesTo DEF UnlockWake, Call, Goto, Place
  <2>4. Fits(pc'[t], then'[t]) /\ ~HoldsM(t)'
    BY Zenon, <2>2, <2>3 DEF Fits, HoldsM, Holds
  <2> QED
    BY Zenon, <1>11, <2>1, <2>2, <2>3, <2>4, WalksWaking
<1>12. ASSUME NEW t \in Task, Kernel(t), seq' = seq PROVE IInv'
  BY Zenon, <1>12, KernelStep
<1>13. ASSUME NEW t \in Task, CondWait(t) PROVE IInv'
  <2>1. seq' \in [Task -> Nat]
    BY Zenon, <1>0, <1>13, CondAssumption DEF CondWait, Shape
  <2> QED
    BY Zenon, <1>13, <2>1, LeaveStep DEF CondWait, Here, futexVars
<1>14. ASSUME NEW t \in Task, CondSleep(t) PROVE IInv'
  <2>1. /\ ~Waits(t) /\ pc[t] = "cwait" /\ Wait(t, C, seq[t])
        /\ pc' = [pc EXCEPT ![t] = "cback"] /\ then' = then /\ UNCHANGED <<word, owner, seq>>
    BY Zenon, <1>14 DEF CondSleep, Here, Goto
  <2>2. Moves(t) /\ pc'[t] = "cback" /\ then'[t] = then[t]
    BY Zenon, <1>0, <2>1, MovesOn DEF Place
  <2>3. Fits(pc'[t], then'[t]) /\ ~HoldsM(t)
    BY Zenon, <2>1, <2>2 DEF Fits, HoldsM, Holds
  <2>4. seq[t] \in Nat /\ C # M
    BY Zenon, <1>0, CondAssumption DEF Shape
  <2> QED
    BY ZenonT(60), <2>1, <2>2, <2>3, <2>4, WalksAsleep
<1>15. ASSUME NEW t \in Task, CondBack(t) PROVE IInv'
  <2>1. Moves(t) /\ pc'[t] = "lock" /\ then'[t] = "cs"
    BY Zenon, <1>0, <1>15, MovesTo DEF CondBack, Call, Goto, Place
  <2>2. ~Waits(t) /\ pc[t] = "cback" /\ waiters' = waiters /\ word' = word /\ owner' = owner
    BY Zenon, <1>15 DEF CondBack, Here, futexVars
  <2>3. owner # t
    BY Zenon, <2>2, FutexAssumption DEF IInv, Owned, Inside
  <2>4. seq' \in [Task -> Nat]
    BY Zenon, <1>0, <1>15 DEF CondBack, Shape
  <2> QED
    BY ZenonT(60), <1>0, <2>1, <2>2, <2>3, <2>4, Walks DEF Fits, HoldsM, Holds, Shape
<1>16. ASSUME NEW t \in Task, Signal(t) PROVE IInv'
  <2>1. /\ ~Waits(t) /\ pc[t] \in {"cs", "out"} /\ waiters' = waiters /\ UNCHANGED <<owner, seq>>
        /\ word' = [word EXCEPT ![C] = word[C] + 1]
    BY Zenon, <1>16 DEF Signal, Here, futexVars, Set
  <2>2. Moves(t) /\ pc'[t] = "swake" /\ then'[t] = pc[t]
    BY ZenonT(60), <1>0, <1>16, <2>1, MovesTo DEF Signal, Call, Goto, Place
  <2>3. word' \in [Addr -> Nat] /\ word'[M] = word[M]
    BY <1>0, <2>1, CondAssumption, MutexAssumption DEF Shape
  <2>4. (HoldsM(t)' => HoldsM(t)) /\ (Inside(t) => Inside(t)')
    BY Zenon, <2>1, <2>2 DEF HoldsM, Holds, Inside
  <2>5. owner' = t => Inside(t)'
    BY Zenon, <2>1, <2>4, FutexAssumption DEF IInv, Owned
  <2> QED
    BY ZenonT(60), <1>0, <2>1, <2>2, <2>3, <2>4, <2>5, Walks DEF Fits, Shape
<1>17. ASSUME NEW t \in Task, SignalWake(t) PROVE IInv'
  <2>1. ~Waits(t) /\ pc[t] = "swake" /\ Wake(C, Wakes) /\ UNCHANGED <<word, owner, seq>>
    BY Zenon, <1>17 DEF SignalWake, Here
  <2>2. then[t] \in {"out", "cs"}
    BY Zenon, <1>0, <2>1 DEF Thens
  <2>3. Moves(t) /\ pc'[t] = then[t] /\ then'[t] = "out"
    BY Zenon, <1>0, <1>17, <2>2, MovesTo DEF SignalWake, Call, Goto, Place
  <2>4. Fits(pc'[t], then'[t]) /\ (HoldsM(t)' => HoldsM(t)) /\ (Inside(t) => Inside(t)')
    BY Zenon, <2>1, <2>2, <2>3 DEF Fits, HoldsM, Holds, Inside
  <2> QED
    BY Zenon, <2>1, <2>3, <2>4, WalksWaking
<1> QED
  BY ZenonT(60), <1>1, <1>2, <1>3, <1>4, <1>5, <1>6, <1>7, <1>8, <1>9, <1>10, <1>11, <1>12, <1>13, <1>14, <1>15,
     <1>16, <1>17 DEF CondNext, CondStep, MutexNext, MutexStep

(* The invariant holds always. *)
LEMMA IInvAlways == CondSpec => []IInv
BY IInvInit, IInvNext, PTL DEF CondSpec

(* Whoever came out of pthread_mutex_lock, trylock, timedlock or            *)
(* pthread_cond_wait and has not released the mutex is alone, the word of   *)
(* the mutex is not 0 meanwhile, and a recorded owner is that thread.       *)
THEOREM CondExcludes == CondSpec => []CondExclusion
<1>1. IInv => CondExclusion
  <2> SUFFICES ASSUME IInv, NEW t \in Task, HoldsM(t)
               PROVE  /\ word[M] # 0
                      /\ \A u \in Task \ {t} : ~HoldsM(u)
                      /\ owner \in {NoTask, t}
    BY Zenon DEF CondExclusion
  <2>1. word[M] # 0 /\ \A u \in Task \ {t} : ~HoldsM(u)
    BY Zenon DEF IInv, Excluded
  <2>2. owner # NoTask => owner \in Task /\ HoldsM(owner)
    BY Zenon DEF IInv, Shape, Owned, Inside, HoldsM, Holds
  <2> QED
    BY Zenon, <2>1, <2>2
<1> QED
  BY <1>1, IInvAlways, PTL
-----------------------------------------------------------------------------
(* No new sleeper at a. *)
Shrinks(a) == At(a)' \subseteq At(a) /\ \A i \in At(a)' : waiters'[i].task = waiters[i].task

(* futex_wake_key, the end of a futex_wait and a futex_wait on another word *)
(* add no sleeper.                                                          *)
LEMMA ShrinksWake ==
  ASSUME Shape, NEW a, NEW b, NEW n, Wake(b, n)
  PROVE  Shrinks(a) /\ First(At(b), n) \intersect At(b)' = {}
<1>0. PICK S \in SUBSET Slot : S = First(At(b), n) /\ (\A i \in S : Used(i)) /\ waiters' = Marked(S)
  BY Zenon, FirstFacts DEF Wake
<1>1. \A i \in Slot : /\ Used(i)' = Used(i)
                      /\ waiters'[i].task = waiters[i].task
                      /\ Used(i) => /\ waiters'[i].addr = waiters[i].addr
                                    /\ waiters'[i].woken = (waiters[i].woken \/ i \in S)
  BY Zenon, <1>0, WakeFacts
<1> QED
  BY Zenon, <1>0, <1>1 DEF Shrinks, At

(* A signal, a deadline and the return from futex_wait only free slots.     *)
LEMMA ShrinksKernel ==
  ASSUME NEW t \in Task, FutexStep(t), NEW a
  PROVE  Shrinks(a) /\ blocked' \subseteq blocked
<1>1. blocked' \subseteq blocked
  BY Zenon DEF FutexStep, Interrupt, Timeout, Return
<1>2. \A i \in Slot : waiters'[i] = waiters[i] \/ waiters'[i] = Free
  BY Zenon DEF FutexStep, Interrupt, Timeout, Return
<1>3. Shrinks(a)
  BY Zenon, <1>2 DEF Shrinks, At, Used
<1> QED
  BY Zenon, <1>1, <1>3

(* A sleep on another word, or none, adds no sleeper for this one.          *)
LEMMA ShrinksWait ==
  ASSUME Shape, NEW t \in Task, NEW a \in Addr, NEW b \in Addr, NEW v \in Nat, Wait(t, b, v),
         a # b \/ waiters' = waiters
  PROVE  Shrinks(a)
<1>1. CASE waiters' = waiters
  BY Zenon, <1>1 DEF Shrinks, At, Used
<1>2. CASE /\ a # b
           /\ \E i \in Slot : /\ waiters'[i].addr = b
                              /\ \A j \in Slot \ {i} : waiters'[j] = waiters[j]
  <2>1. PICK i \in Slot : /\ waiters'[i].addr = b
                          /\ \A j \in Slot \ {i} : waiters'[j] = waiters[j]
    BY Zenon, <1>2
  <2>2. i \notin At(a)'
    BY Zenon, <1>2, <2>1 DEF At
  <2>3. \A j \in Slot \ {i} : j \in At(a)' => j \in At(a)
    BY Zenon, <2>1 DEF At, Used
  <2> QED
    BY Zenon, <2>1, <2>2, <2>3 DEF Shrinks, At
<1> QED
  BY <1>1, <1>2, WaitFacts

(* The first of some slots exists. *)
LEMMA FirstExists ==
  ASSUME NEW S \in SUBSET Slot, S # {}
  PROVE  First(S, 1) # {}
<1>1. S \subseteq Nat
  BY FutexAssumption DEF Slot
<1>2. PICK x \in S : \A y \in S : ~(<<y, x>> \in OpToRel(<, Nat))
  BY Zenon, <1>1, NatLessThanWellFounded, WFMin
<1>3. \A y \in S : ~(y < x)
  BY Zenon, <1>1, <1>2 DEF OpToRel
<1>4. {j \in S : j < x} = {}
  BY Zenon, <1>3
<1>5. Cardinality({j \in S : j < x}) < 1
  BY <1>4, FS_EmptySet
<1> QED
  BY Zenon, <1>5 DEF First

(* All of them are among the first when as many as there are slots are      *)
(* woken.                                                                   *)
LEMMA FirstAll ==
  ASSUME NEW S \in SUBSET Slot, NEW n \in Nat, n >= FUTEX_WAITERS_MAX
  PROVE  First(S, n) = S
<1>1. IsFiniteSet(Slot) /\ Cardinality(Slot) = FUTEX_WAITERS_MAX
  <2>1. 1 \in Int /\ FUTEX_WAITERS_MAX \in Int
    BY FutexAssumption
  <2>2. IsFiniteSet(1 .. FUTEX_WAITERS_MAX) /\
        Cardinality(1 .. FUTEX_WAITERS_MAX) = IF 1 > FUTEX_WAITERS_MAX THEN 0 ELSE FUTEX_WAITERS_MAX - 1 + 1
    BY Zenon, <2>1, FS_Interval
  <2> QED
    BY <2>2, FutexAssumption DEF Slot
<1>2. ASSUME NEW i \in S PROVE Cardinality({j \in S : j < i}) < n
  <2> DEFINE B == {j \in S : j < i}
  <2>0. ~(i < i)
    BY FutexAssumption DEF Slot
  <2>1. i \in Slot /\ B \subseteq Slot \ {i}
    BY Zenon, <2>0
  <2>2. IsFiniteSet(Slot \ {i}) /\ Cardinality(Slot \ {i}) = Cardinality(Slot) - 1
    BY ZenonT(60), <1>1, <2>1, FS_RemoveElement
  <2>3. Cardinality(B) <= Cardinality(Slot \ {i}) /\ IsFiniteSet(B)
    BY Zenon, <2>1, <2>2, FS_Subset
  <2>4. Cardinality(B) \in Nat /\ Cardinality(Slot \ {i}) \in Nat
    BY ZenonT(60), <2>2, <2>3, FS_CardinalityType
  <2>5. Cardinality(B) <= FUTEX_WAITERS_MAX - 1
    BY Zenon, <1>1, <2>2, <2>3
  <2> QED
    BY <2>4, <2>5, FutexAssumption
<1> QED
  BY Zenon, <1>2 DEF First
-----------------------------------------------------------------------------
(* Only a thread that has a slot is BLOCKED in futex_wait. *)
Dozing == \A t \in Task : t \in blocked => Waits(t)

(* futex_wait marks the task BLOCKED together with its slot.                *)
LEMMA DozingWait ==
  ASSUME Shape, Dozing, NEW t \in Task, NEW a \in Addr, NEW v \in Nat, Wait(t, a, v)
  PROVE  Dozing'
<1>1. CASE waiters' = waiters /\ blocked' = blocked
  BY Zenon, <1>1 DEF Dozing, Waits
<1>2. CASE \E i \in Slot : /\ ~Used(i)
                           /\ waiters'[i].task = t
                           /\ \A j \in Slot \ {i} : waiters'[j] = waiters[j]
                           /\ blocked' = blocked \union {t}
  <2>1. PICK i \in Slot : /\ ~Used(i)
                          /\ waiters'[i].task = t
                          /\ \A j \in Slot \ {i} : waiters'[j] = waiters[j]
                          /\ blocked' = blocked \union {t}
    BY Zenon, <1>2
  <2>2. waiters[i].task = NoTask
    BY Zenon, <2>1, SlotFacts
  <2> QED
    BY ZenonT(60), <2>1, <2>2, FutexAssumption DEF Dozing, Waits
<1> QED
  BY <1>1, <1>2, WaitFacts

(* No other step marks one, and a slot is freed by a task that runs.        *)
LEMMA DozingKept ==
  ASSUME Shape, Dozing,
         \/ UNCHANGED <<waiters, blocked>>
         \/ \E a, n : Wake(a, n)
         \/ \E t \in Task : FutexStep(t)
  PROVE  Dozing'
<1>1. CASE UNCHANGED <<waiters, blocked>>
  BY Zenon, <1>1 DEF Dozing, Waits
<1>2. ASSUME NEW a, NEW n, Wake(a, n) PROVE Dozing'
  <2>1. PICK S \in SUBSET Slot : (\A i \in S : Used(i)) /\ waiters' = Marked(S)
    BY Zenon, <1>2, FirstFacts DEF Wake
  <2>2. \A i \in Slot : waiters'[i].task = waiters[i].task
    BY Zenon, <2>1, WakeFacts
  <2>3. blocked' \subseteq blocked
    BY Zenon, <1>2 DEF Wake
  <2> QED
    BY Zenon, <2>2, <2>3 DEF Dozing, Waits
<1>3. ASSUME NEW t \in Task, Interrupt(t) \/ Timeout(t) PROVE Dozing'
  BY Zenon, <1>3 DEF Interrupt, Timeout, Dozing, Waits
<1>4. ASSUME NEW t \in Task, Return(t) PROVE Dozing'
  BY Zenon, <1>4 DEF Return, Dozing, Waits
<1> QED
  BY Zenon, <1>1, <1>2, <1>3, <1>4 DEF FutexStep

(* Somebody is going to wake a sleeper at the mutex. *)
Helped == \/ word[M] = 2
          \/ \E t \in Task : pc[t] = "uwake"
          \/ \E t \in Task : pc[t] = "slow" /\ t \notin blocked

(* A step of a thread that is neither in the loop nor about to wake. *)
LEMMA HelpedOn ==
  ASSUME Helped, NEW t \in Task, \A u \in Task \ {t} : pc'[u] = pc[u],
         pc[t] = "uwake" => pc'[t] = "uwake", pc[t] = "slow" => pc'[t] = "slow",
         word'[M] = word[M] \/ word'[M] = 2 \/ word[M] = 0, blocked' \subseteq blocked \union {t},
         t \in blocked' => t \in blocked \/ pc[t] # "slow"
  PROVE  Helped'
<1>1. CASE word[M] = 2
  BY <1>1 DEF Helped
<1>2. ASSUME NEW u \in Task, pc[u] = "uwake" PROVE Helped'
  BY Zenon, <1>2 DEF Helped
<1>3. ASSUME NEW u \in Task, pc[u] = "slow", u \notin blocked PROVE Helped'
  BY Zenon, <1>3 DEF Helped
<1> QED
  BY Zenon, <1>1, <1>2, <1>3 DEF Helped

(* Every step leaves somebody who wakes the sleepers at the mutex. *)
LEMMA StrandedNext ==
  ASSUME IInv, Dozing, NoStranded, CondNext
  PROVE  NoStranded' /\ Dozing'
<1>0. Shape /\ M \in Addr /\ C \in Addr /\ C # M
  BY Zenon, MutexAssumption, CondAssumption DEF IInv
<1>1. (At(M) # {} => Helped) /\ ((At(M)' # {} => Helped') => NoStranded')
  BY Zenon DEF NoStranded, Helped
<1> HIDE DEF Helped
<1>2. ASSUME NEW t \in Task, pc[t] \notin {"uwake", "slow"}, ~Waits(t),
             \A u \in Task \ {t} : pc'[u] = pc[u],
             word'[M] = word[M] \/ word'[M] = 2 \/ word[M] = 0,
             UNCHANGED <<waiters, blocked>>
      PROVE  NoStranded' /\ Dozing'
  <2>1. At(M)' = At(M)
    BY Zenon, <1>2 DEF At, Used
  <2>2. Helped => Helped'
    BY ZenonT(60), <1>2, HelpedOn
  <2> QED
    BY Zenon, <1>0, <1>1, <1>2, <2>1, <2>2, DozingKept
<1>3. ASSUME NEW t \in Task, Kernel(t) PROVE NoStranded' /\ Dozing'
  <2>1. FutexStep(t) /\ word' = word /\ pc' = pc
    BY Zenon, <1>3 DEF Kernel, FutexStep, Interrupt, Timeout, Return, mutexVars
  <2>2. At(M)' \subseteq At(M) /\ blocked' \subseteq blocked
    BY ZenonT(60), <2>1, ShrinksKernel DEF Shrinks
  <2>3. Helped => Helped'
    BY Zenon, <2>1, <2>2 DEF Helped
  <2> QED
    BY ZenonT(60), <1>0, <1>1, <2>1, <2>2, <2>3, DozingKept
<1>4. ASSUME NEW t \in Task, LockSlow(t) PROVE NoStranded' /\ Dozing'
  <2>1. word'[M] = 2 /\ UNCHANGED <<waiters, blocked>>
    BY Zenon, <1>0, <1>4 DEF LockSlow, Set, futexVars, Shape
  <2> QED
    BY ZenonT(60), <1>0, <1>1, <2>1, DozingKept DEF Helped
<1>5. ASSUME NEW t \in Task, LockWait(t) PROVE NoStranded' /\ Dozing'
  <2>1. /\ Wait(t, M, 2) /\ word' = word /\ ~Waits(t)
        /\ pc'[t] = "slow" /\ pc[t] = "fwait" /\ \A u \in Task \ {t} : pc'[u] = pc[u]
    BY ZenonT(60), <1>0, <1>5 DEF LockWait, Here, Goto, Shape
  <2>2. Dozing'
    BY ZenonT(60), <1>0, <2>1, DozingWait
  <2>3. CASE word[M] = 2
    BY Zenon, <1>1, <2>1, <2>2, <2>3 DEF Helped
  <2>4. CASE word[M] # 2
    <3>1. blocked' = blocked
      BY ZenonT(60), <2>1, <2>4 DEF Wait
    <3>2. t \notin blocked'
      BY ZenonT(60), <2>1, <3>1 DEF Dozing
    <3> QED
      BY ZenonT(60), <1>1, <2>1, <2>2, <3>2 DEF Helped
  <2> QED
    BY ZenonT(60), <2>3, <2>4
<1>6. ASSUME NEW t \in Task, Release(t) PROVE NoStranded' /\ Dozing'
  <2>1. /\ pc[t] = "unlock" /\ \A u \in Task \ {t} : pc'[u] = pc[u]
        /\ UNCHANGED <<waiters, blocked>>
        /\ word[M] = 2 => pc'[t] = "uwake"
    BY Zenon, <1>0, <1>6 DEF Release, Here, Call, Goto, futexVars, Shape
  <2>2. At(M)' = At(M)
    BY Zenon, <2>1 DEF At, Used
  <2>3. Helped => Helped'
    <3>1. CASE word[M] = 2
      BY Zenon, <2>1, <3>1 DEF Helped
    <3>2. ASSUME NEW u \in Task, pc[u] = "uwake" \/ (pc[u] = "slow" /\ u \notin blocked)
          PROVE  Helped'
      <4>1. pc'[u] = pc[u]
        BY ZenonT(60), <2>1, <3>2
      <4> QED
        BY Zenon, <2>1, <3>2, <4>1 DEF Helped
    <3> QED
      BY Zenon, <3>1, <3>2 DEF Helped
  <2> QED
    BY ZenonT(60), <1>0, <1>1, <2>1, <2>2, <2>3, DozingKept
<1>7. ASSUME NEW t \in Task, UnlockWake(t) PROVE NoStranded' /\ Dozing'
  <2>1. /\ Wake(M, 1) /\ ~Waits(t) /\ \A u \in Task \ {t} : pc'[u] = pc[u]
    BY Zenon, <1>0, <1>7 DEF UnlockWake, Here, Call, Goto, Shape
  <2>2. Dozing'
    BY Zenon, <1>0, <2>1, DozingKept
  <2>3. At(M)' \subseteq At(M)
    BY Zenon, <1>0, <2>1, ShrinksWake DEF Shrinks
  <2>4. ASSUME At(M) # {} PROVE Helped'
    <3>1. PICK i : i \in First(At(M), 1)
      BY Zenon, <2>4, FirstExists DEF At
    <3>2. i \in Slot /\ Used(i) /\ waiters[i].addr = M
      BY Zenon, <3>1 DEF First, At
    <3>3. waiters[i].task \in Task \ {t} /\ pc[waiters[i].task] = "slow"
      BY Zenon, <1>0, <2>1, <3>2, SlotFacts DEF IInv, Sleeps, Waits
    <3>4. waiters[i].task \notin blocked'
      BY Zenon, <2>1, <3>1 DEF Wake, Owners
    <3> QED
      BY ZenonT(60), <2>1, <3>3, <3>4 DEF Helped
  <2> QED
    BY Zenon, <1>1, <2>2, <2>3, <2>4
<1>8. ASSUME NEW t \in Task, CondSleep(t) PROVE NoStranded' /\ Dozing'
  <2>1. /\ Wait(t, C, seq[t]) /\ seq[t] \in Nat /\ word' = word
        /\ pc[t] = "cwait" /\ \A u \in Task \ {t} : pc'[u] = pc[u]
    BY Zenon, <1>0, <1>8 DEF CondSleep, Here, Goto, Shape
  <2>2. Dozing'
    BY ZenonT(60), <1>0, <2>1, DozingWait
  <2>3. At(M)' \subseteq At(M)
    BY Zenon, <1>0, <2>1, ShrinksWait DEF Shrinks
  <2>4. blocked' \subseteq blocked \union {t}
    BY Zenon, <2>1 DEF Wait
  <2>5. Helped => Helped'
    BY ZenonT(60), <2>1, <2>4, HelpedOn
  <2> QED
    BY Zenon, <1>1, <2>2, <2>3, <2>5
<1>9. ASSUME NEW t \in Task, SignalWake(t) PROVE NoStranded' /\ Dozing'
  <2>1. /\ Wake(C, Wakes) /\ word' = word /\ pc[t] = "swake" /\ \A u \in Task \ {t} : pc'[u] = pc[u]
    BY Zenon, <1>0, <1>9 DEF SignalWake, Here, Call, Goto, Shape
  <2>2. Dozing'
    BY Zenon, <1>0, <2>1, DozingKept
  <2>3. At(M)' \subseteq At(M)
    BY Zenon, <1>0, <2>1, ShrinksWake DEF Shrinks
  <2>4. blocked' \subseteq blocked
    BY Zenon, <2>1 DEF Wake
  <2>5. Helped => Helped'
    BY Zenon, <2>1, <2>4, HelpedOn
  <2> QED
    BY Zenon, <1>1, <2>2, <2>3, <2>5
<1>10. ASSUME NEW t \in Task, Lock(t) PROVE NoStranded' /\ Dozing'
  <2>1. pc[t] \notin {"uwake", "slow"} /\ ~Waits(t) /\ UNCHANGED <<waiters, blocked>>
    BY Zenon, <1>10 DEF Lock, Here, futexVars
  <2>2. /\ \A u \in Task \ {t} : pc'[u] = pc[u]
        /\ word'[M] = word[M] \/ word'[M] = 2
    BY ZenonT(60), <1>0, <1>10 DEF Lock, Call, Goto, Shape
  <2> QED
    BY ZenonT(60), <1>2, <2>1, <2>2
<1>11. ASSUME NEW t \in Task, Relock(t) PROVE NoStranded' /\ Dozing'
  <2>1. pc[t] \notin {"uwake", "slow"} /\ ~Waits(t) /\ UNCHANGED <<waiters, blocked>>
    BY Zenon, <1>11 DEF Relock, Here, futexVars
  <2>2. /\ \A u \in Task \ {t} : pc'[u] = pc[u]
        /\ word'[M] = word[M] \/ word'[M] = 2
    BY ZenonT(60), <1>0, <1>11 DEF Relock, Shape
  <2> QED
    BY ZenonT(60), <1>2, <2>1, <2>2
<1>12. ASSUME NEW t \in Task, LockFast(t) PROVE NoStranded' /\ Dozing'
  <2>1. pc[t] \notin {"uwake", "slow"} /\ ~Waits(t) /\ UNCHANGED <<waiters, blocked>>
    BY Zenon, <1>12 DEF LockFast, Here, futexVars
  <2>2. /\ \A u \in Task \ {t} : pc'[u] = pc[u]
        /\ word'[M] = word[M] \/ word'[M] = 2 \/ word[M] = 0
    BY ZenonT(60), <1>0, <1>12 DEF LockFast, Goto, Got, Set, Shape
  <2> QED
    BY ZenonT(60), <1>2, <2>1, <2>2
<1>13. ASSUME NEW t \in Task, LockTimeout(t) PROVE NoStranded' /\ Dozing'
  <2>1. pc[t] \notin {"uwake", "slow"} /\ ~Waits(t) /\ UNCHANGED <<waiters, blocked>>
    BY Zenon, <1>13 DEF LockTimeout, Here, futexVars
  <2>2. /\ \A u \in Task \ {t} : pc'[u] = pc[u]
        /\ word'[M] = word[M] \/ word'[M] = 2
    BY ZenonT(60), <1>0, <1>13 DEF LockTimeout, Call, Goto, Shape
  <2> QED
    BY ZenonT(60), <1>2, <2>1, <2>2
<1>14. ASSUME NEW t \in Task, TryLock(t) PROVE NoStranded' /\ Dozing'
  <2>1. pc[t] \notin {"uwake", "slow"} /\ ~Waits(t) /\ UNCHANGED <<waiters, blocked>>
    BY Zenon, <1>14 DEF TryLock, Here, futexVars
  <2>2. /\ \A u \in Task \ {t} : pc'[u] = pc[u]
        /\ word'[M] = word[M] \/ word'[M] = 2 \/ word[M] = 0
    BY ZenonT(60), <1>0, <1>14 DEF TryLock, Goto, Set, Shape
  <2> QED
    BY ZenonT(60), <1>2, <2>1, <2>2
<1>15. ASSUME NEW t \in Task, Unlock(t) PROVE NoStranded' /\ Dozing'
  <2>1. pc[t] \notin {"uwake", "slow"} /\ ~Waits(t) /\ UNCHANGED <<waiters, blocked>>
    BY Zenon, <1>15 DEF Unlock, Here, futexVars
  <2>2. /\ \A u \in Task \ {t} : pc'[u] = pc[u]
        /\ word'[M] = word[M] \/ word'[M] = 2
    BY ZenonT(60), <1>0, <1>15 DEF Unlock, Leave, Call, Goto, Shape
  <2> QED
    BY ZenonT(60), <1>2, <2>1, <2>2
<1>16. ASSUME NEW t \in Task, CondWait(t) PROVE NoStranded' /\ Dozing'
  <2>1. pc[t] \notin {"uwake", "slow"} /\ ~Waits(t) /\ UNCHANGED <<waiters, blocked>>
    BY Zenon, <1>16 DEF CondWait, Here, futexVars
  <2>2. /\ \A u \in Task \ {t} : pc'[u] = pc[u]
        /\ word'[M] = word[M] \/ word'[M] = 2
    BY ZenonT(60), <1>0, <1>16 DEF CondWait, Leave, Call, Goto, Shape
  <2> QED
    BY ZenonT(60), <1>2, <2>1, <2>2
<1>17. ASSUME NEW t \in Task, CondBack(t) PROVE NoStranded' /\ Dozing'
  <2>1. pc[t] \notin {"uwake", "slow"} /\ ~Waits(t) /\ UNCHANGED <<waiters, blocked>>
    BY Zenon, <1>17 DEF CondBack, Here, futexVars
  <2>2. /\ \A u \in Task \ {t} : pc'[u] = pc[u]
        /\ word'[M] = word[M] \/ word'[M] = 2
    BY ZenonT(60), <1>0, <1>17 DEF CondBack, Call, Goto, Shape
  <2> QED
    BY ZenonT(60), <1>2, <2>1, <2>2
<1>18. ASSUME NEW t \in Task, Signal(t) PROVE NoStranded' /\ Dozing'
  <2>1. pc[t] \notin {"uwake", "slow"} /\ ~Waits(t) /\ UNCHANGED <<waiters, blocked>>
    BY Zenon, <1>18 DEF Signal, Here, futexVars
  <2>2. /\ \A u \in Task \ {t} : pc'[u] = pc[u]
        /\ word'[M] = word[M] \/ word'[M] = 2
    BY Zenon, <1>0, <1>18 DEF Signal, Call, Goto, Set, Shape
  <2> QED
    BY ZenonT(60), <1>2, <2>1, <2>2
<1> QED
  BY ZenonT(60), <1>3, <1>4, <1>5, <1>6, <1>7, <1>8, <1>9, <1>10, <1>11, <1>12, <1>13, <1>14, <1>15, <1>16, <1>17, <1>18
     DEF CondNext, CondStep, MutexNext, MutexStep

(* No thread is left asleep beside a mutex that nobody is going to hand on: *)
(* not by unlock, not by a signal or a deadline, not by a full table.       *)
THEOREM NobodyStranded == CondSpec => []NoStranded
<1>1. CondInit => NoStranded /\ Dozing
  BY DEF CondInit, MutexInit, FutexInit, NoStranded, Dozing, At, Used
<1>2. ASSUME IInv, NoStranded, Dozing, [CondNext]_condVars PROVE NoStranded' /\ Dozing'
  <2>1. CASE UNCHANGED condVars
    BY Zenon, <1>2, <2>1 DEF condVars, vars, futexVars, mutexVars, NoStranded, Dozing, At, Used, Waits
  <2> QED
    BY Zenon, <1>2, <2>1, StrandedNext
<1> QED
  BY <1>1, <1>2, IInvAlways, PTL DEF CondSpec
-----------------------------------------------------------------------------
(* Who sleeps at the condition variable sleeps on the seq it read. *)
LEMMA KeptOn ==
  ASSUME CondKept, Shape, Shrinks(C), word'[C] = word[C],
         \A i \in At(C) : seq'[waiters[i].task] = seq[waiters[i].task],
         \A u \in Task : pc[u] = "swake" => pc'[u] = "swake"
  PROVE  CondKept'
<1> SUFFICES ASSUME NEW i \in At(C)', seq'[waiters'[i].task] # word'[C]
             PROVE  \E u \in Task : pc'[u] = "swake"
  BY Zenon DEF CondKept
<1>1. i \in At(C) /\ waiters'[i].task = waiters[i].task
  BY Zenon DEF Shrinks
<1>2. seq[waiters[i].task] # word[C]
  BY Zenon, <1>1
<1> QED
  BY Zenon, <1>1, <1>2 DEF CondKept

(* A thread outside the kernel has no slot whose seq its step could change. *)
LEMMA KeptWalk ==
  ASSUME CondKept, Shape, NEW t \in Task, ~Waits(t), pc[t] # "swake",
         \A u \in Task \ {t} : pc'[u] = pc[u] /\ seq'[u] = seq[u],
         word'[C] = word[C], Shrinks(C)
  PROVE  CondKept'
<1>1. \A i \in At(C) : waiters[i].task \in Task \ {t}
  BY Zenon, SlotFacts DEF At, Waits
<1>2. \A i \in At(C) : seq'[waiters[i].task] = seq[waiters[i].task]
  BY Zenon, <1>1
<1> QED
  BY Zenon, <1>2, KeptOn

(* Every step leaves nobody asleep on an old seq without a wake-up.  *)
LEMMA KeptNext ==
  ASSUME IInv, CondKept, CondNext, Wakes >= FUTEX_WAITERS_MAX
  PROVE  CondKept'
<1>0. Shape /\ M \in Addr /\ C \in Addr /\ C # M
  BY Zenon, MutexAssumption, CondAssumption DEF IInv
<1>1. ASSUME waiters' = waiters PROVE Shrinks(C)
  BY Zenon, <1>1 DEF Shrinks, At, Used
<1>3. ASSUME NEW t \in Task, Kernel(t), seq' = seq PROVE CondKept'
  <2>1. FutexStep(t) /\ word' = word /\ pc' = pc
    BY Zenon, <1>3 DEF Kernel, FutexStep, Interrupt, Timeout, Return, mutexVars
  <2> QED
    BY ZenonT(60), <1>0, <1>3, <2>1, ShrinksKernel, KeptOn
<1>4. ASSUME NEW t \in Task, Relock(t), seq' = seq PROVE CondKept'
  BY ZenonT(60), <1>0, <1>1, <1>4, KeptOn DEF Relock, futexVars
<1>5. ASSUME NEW t \in Task, LockWait(t), seq' = seq PROVE CondKept'
  <2>1. /\ Wait(t, M, 2) /\ word' = word /\ ~Waits(t)
        /\ pc[t] = "fwait" /\ \A u \in Task \ {t} : pc'[u] = pc[u]
    BY Zenon, <1>0, <1>5 DEF LockWait, Here, Goto, Shape
  <2>2. Shrinks(C)
    BY Zenon, <1>0, <2>1, ShrinksWait
  <2> QED
    BY Zenon, <1>0, <1>5, <2>1, <2>2, KeptWalk
<1>6. ASSUME NEW t \in Task, UnlockWake(t), seq' = seq PROVE CondKept'
  <2>1. /\ Wake(M, 1) /\ word' = word /\ ~Waits(t)
        /\ pc[t] = "uwake" /\ \A u \in Task \ {t} : pc'[u] = pc[u]
    BY Zenon, <1>0, <1>6 DEF UnlockWake, Here, Call, Goto, Shape
  <2>2. Shrinks(C)
    BY Zenon, <1>0, <2>1, ShrinksWake
  <2> QED
    BY Zenon, <1>0, <1>6, <2>1, <2>2, KeptWalk
<1>7. ASSUME NEW t \in Task, CondSleep(t) PROVE CondKept'
  <2>1. /\ Wait(t, C, seq[t]) /\ seq[t] \in Nat /\ word' = word /\ seq' = seq /\ ~Waits(t)
        /\ pc[t] = "cwait" /\ \A u \in Task \ {t} : pc'[u] = pc[u]
    BY Zenon, <1>0, <1>7 DEF CondSleep, Here, Goto, Shape
  <2>2. CASE waiters' = waiters
    BY ZenonT(60), <1>0, <1>1, <2>1, <2>2, KeptWalk
  <2>3. CASE \E i \in Slot : /\ word[C] = seq[t] /\ waiters'[i].task = t
                             /\ \A j \in Slot \ {i} : waiters'[j] = waiters[j]
    <3>1. PICK i \in Slot : /\ word[C] = seq[t] /\ waiters'[i].task = t
                            /\ \A j \in Slot \ {i} : waiters'[j] = waiters[j]
      BY Zenon, <2>3
    <3> SUFFICES ASSUME NEW j \in At(C)', seq'[waiters'[j].task] # word'[C]
                 PROVE  \E u \in Task : pc'[u] = "swake"
      BY Zenon DEF CondKept
    <3>2. j \in Slot \ {i}
      BY Zenon, <2>1, <3>1 DEF At
    <3>3. j \in At(C) /\ seq[waiters[j].task] # word[C]
      BY Zenon, <2>1, <3>1, <3>2 DEF At, Used
    <3>4. PICK u \in Task : pc[u] = "swake"
      BY Zenon, <3>3 DEF CondKept
    <3> QED
      BY Zenon, <2>1, <3>4
  <2> QED
    BY <1>0, <2>1, <2>2, <2>3, WaitFacts
<1>8. ASSUME NEW t \in Task, Signal(t) PROVE CondKept'
  <2>1. pc'[t] = "swake"
    BY Zenon, <1>0, <1>8 DEF Signal, Call, Goto, Shape
  <2> QED
    BY Zenon, <2>1 DEF CondKept
<1>9. ASSUME NEW t \in Task, SignalWake(t) PROVE CondKept'
  <2>1. Wake(C, Wakes)
    BY Zenon, <1>9 DEF SignalWake
  <2>2. First(At(C), Wakes) = At(C)
    BY Zenon, CondAssumption, FirstAll DEF At
  <2>3. At(C)' \subseteq At(C) /\ At(C) \intersect At(C)' = {}
    BY Zenon, <1>0, <2>1, <2>2, ShrinksWake DEF Shrinks
  <2> QED
    BY Zenon, <2>3 DEF CondKept
<1>10. ASSUME NEW t \in Task, Lock(t), seq' = seq PROVE CondKept'
  <2>1. pc[t] # "swake" /\ ~Waits(t) /\ waiters' = waiters
    BY Zenon, <1>10 DEF Lock, Here, futexVars
  <2>2. /\ \A u \in Task \ {t} : pc'[u] = pc[u] /\ seq'[u] = seq[u]
        /\ word'[C] = word[C]
    BY ZenonT(60), <1>0, <1>10 DEF Lock, Call, Goto, Shape
  <2> QED
    BY Zenon, <1>0, <1>1, <2>1, <2>2, KeptWalk
<1>11. ASSUME NEW t \in Task, LockFast(t), seq' = seq PROVE CondKept'
  <2>1. pc[t] # "swake" /\ ~Waits(t) /\ waiters' = waiters
    BY Zenon, <1>11 DEF LockFast, Here, futexVars
  <2>2. /\ \A u \in Task \ {t} : pc'[u] = pc[u] /\ seq'[u] = seq[u]
        /\ word'[C] = word[C]
    BY ZenonT(60), <1>0, <1>11 DEF LockFast, Goto, Got, Set, Shape
  <2> QED
    BY Zenon, <1>0, <1>1, <2>1, <2>2, KeptWalk
<1>12. ASSUME NEW t \in Task, LockSlow(t), seq' = seq PROVE CondKept'
  <2>1. pc[t] # "swake" /\ ~Waits(t) /\ waiters' = waiters
    BY Zenon, <1>12 DEF LockSlow, Here, futexVars
  <2>2. /\ \A u \in Task \ {t} : pc'[u] = pc[u] /\ seq'[u] = seq[u]
        /\ word'[C] = word[C]
    BY ZenonT(60), <1>0, <1>12 DEF LockSlow, Goto, Got, Set, Shape
  <2> QED
    BY Zenon, <1>0, <1>1, <2>1, <2>2, KeptWalk
<1>13. ASSUME NEW t \in Task, LockTimeout(t), seq' = seq PROVE CondKept'
  <2>1. pc[t] # "swake" /\ ~Waits(t) /\ waiters' = waiters
    BY Zenon, <1>13 DEF LockTimeout, Here, futexVars
  <2>2. /\ \A u \in Task \ {t} : pc'[u] = pc[u] /\ seq'[u] = seq[u]
        /\ word'[C] = word[C]
    BY ZenonT(60), <1>0, <1>13 DEF LockTimeout, Call, Goto, Shape
  <2> QED
    BY Zenon, <1>0, <1>1, <2>1, <2>2, KeptWalk
<1>14. ASSUME NEW t \in Task, TryLock(t), seq' = seq PROVE CondKept'
  <2>1. pc[t] # "swake" /\ ~Waits(t) /\ waiters' = waiters
    BY Zenon, <1>14 DEF TryLock, Here, futexVars
  <2>2. /\ \A u \in Task \ {t} : pc'[u] = pc[u] /\ seq'[u] = seq[u]
        /\ word'[C] = word[C]
    BY ZenonT(60), <1>0, <1>14 DEF TryLock, Goto, Set, Shape
  <2> QED
    BY Zenon, <1>0, <1>1, <2>1, <2>2, KeptWalk
<1>15. ASSUME NEW t \in Task, Unlock(t), seq' = seq PROVE CondKept'
  <2>1. pc[t] # "swake" /\ ~Waits(t) /\ waiters' = waiters
    BY Zenon, <1>15 DEF Unlock, Here, futexVars
  <2>2. /\ \A u \in Task \ {t} : pc'[u] = pc[u] /\ seq'[u] = seq[u]
        /\ word'[C] = word[C]
    BY ZenonT(60), <1>0, <1>15 DEF Unlock, Leave, Call, Goto, Shape
  <2> QED
    BY Zenon, <1>0, <1>1, <2>1, <2>2, KeptWalk
<1>16. ASSUME NEW t \in Task, Release(t), seq' = seq PROVE CondKept'
  <2>1. pc[t] # "swake" /\ ~Waits(t) /\ waiters' = waiters
    BY Zenon, <1>16 DEF Release, Here, futexVars
  <2>2. /\ \A u \in Task \ {t} : pc'[u] = pc[u] /\ seq'[u] = seq[u]
        /\ word'[C] = word[C]
    BY ZenonT(60), <1>0, <1>16 DEF Release, Call, Goto, Set, Shape
  <2> QED
    BY Zenon, <1>0, <1>1, <2>1, <2>2, KeptWalk
<1>17. ASSUME NEW t \in Task, CondWait(t) PROVE CondKept'
  <2>1. pc[t] # "swake" /\ ~Waits(t) /\ waiters' = waiters
    BY Zenon, <1>17 DEF CondWait, Here, futexVars
  <2>2. /\ \A u \in Task \ {t} : pc'[u] = pc[u] /\ seq'[u] = seq[u]
        /\ word'[C] = word[C]
    BY ZenonT(60), <1>0, <1>17 DEF CondWait, Leave, Call, Goto, Shape
  <2> QED
    BY Zenon, <1>0, <1>1, <2>1, <2>2, KeptWalk
<1>18. ASSUME NEW t \in Task, CondBack(t) PROVE CondKept'
  <2>1. pc[t] # "swake" /\ ~Waits(t) /\ waiters' = waiters
    BY Zenon, <1>18 DEF CondBack, Here, futexVars
  <2>2. /\ \A u \in Task \ {t} : pc'[u] = pc[u] /\ seq'[u] = seq[u]
        /\ word'[C] = word[C]
    BY Zenon, <1>0, <1>18 DEF CondBack, Call, Goto, Shape
  <2> QED
    BY Zenon, <1>0, <1>1, <2>1, <2>2, KeptWalk
<1> QED
  BY ZenonT(60), <1>3, <1>4, <1>5, <1>6, <1>7, <1>8, <1>9, <1>10, <1>11, <1>12, <1>13, <1>14, <1>15, <1>16, <1>17, <1>18
     DEF CondNext, CondStep, MutexNext, MutexStep

(* pthread_cond_broadcast loses no waiter: who read seq before the          *)
(* broadcast does not sleep past it (seq is read under the mutex, and the   *)
(* kernel compares it again under the lock that wakers take).               *)
THEOREM BroadcastKept ==
  ASSUME Wakes >= FUTEX_WAITERS_MAX PROVE CondSpec => []CondKept
<1>1. CondInit => CondKept
  BY DEF CondInit, MutexInit, FutexInit, CondKept, At, Used
<1>2. ASSUME IInv, CondKept, [CondNext]_condVars PROVE CondKept'
  <2>1. CASE UNCHANGED condVars
    BY Zenon, <1>2, <2>1 DEF condVars, vars, futexVars, mutexVars, CondKept, At, Used
  <2> QED
    BY Zenon, <1>2, <2>1, KeptNext
<1> QED
  BY <1>1, <1>2, IInvAlways, PTL DEF CondSpec
=============================================================================
