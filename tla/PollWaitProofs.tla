--------------------------- MODULE PollWaitProofs ---------------------------
(***************************************************************************)
(* Theorems about PollWait for any number of pollers, wakers and files and *)
(* any size of the two arrays.  The inductive invariant says of every      *)
(* poller that has scanned a file: it is registered with the file, or a    *)
(* counter it read has moved, or it sleeps for a limited time only.        *)
(***************************************************************************)
EXTENDS PollWait, FiniteSetTheorems, TLAPS

(* From the first poll_wait of a round to the end of the sleep. *)
Scanning == {"reg", "see", "leg", "slot", "blk", "tst", "slp"}
Sleeping == {"blk", "tst", "slp", "unl"}

(* Somebody made file f ready and has yet to look at its pollers. *)
Bumping(f) == \E w \in Waker : pc[w] = "bump" /\ cur[w] = f

(* Where a file is at hand it is one that was asked about or that has a    *)
(* queue, and only such a file has pollers; who is told is told at once.   *)
CurOk == /\ \A t \in Poller : pc[t] = "see" => cur[t] \in Want[t] /\ cur[t] \notin todo[t]
         /\ \A w \in Waker : pc[w] = "bump" => cur[w] \in File \ NoQueue
         /\ \A f \in NoQueue : poller[f] = {}
         /\ \A w \in Waker : told[w] # {} => pc[w] = "unb"

(* What the local variables of poller t say at each place. *)
Placed(t) ==
    /\ todo[t] \subseteq Want[t]
    /\ hit[t] \/ todo[t] # {} => pc[t] \in {"reg", "see"}
    /\ pc[t] \in {"leg", "slot", "unl"} => legacy[t]
    /\ t \in g_slots => legacy[t] /\ pc[t] \in Sleeping
    /\ \A f \in File : t \in poller[f] => pc[t] \notin {"out", "beg"}
    /\ pc[t] \in {"tst", "slp"} /\ state[t] = "BLOCKED" /\ legacy[t] => timed[t]
    /\ pc[t] = "slp" /\ state[t] = "BLOCKED" /\ wchg[t] => \E w \in Waker : t \in told[w]

(* What t knows of a file f that it has scanned in this round. *)
Known(t, f) ==
    pc[t] \in Scanning /\ f \notin todo[t] =>
        /\ t \in poller[f] \/ wchg[t] \/ legacy[t]
        /\ ready[f] => \/ pc[t] = "see" /\ cur[t] = f
                       \/ hit[t] \/ wchg[t] \/ legacy[t] \/ Bumping(f)

Slotted == {t \in Poller : legacy[t] /\ pc[t] \in Sleeping}

Inv == /\ TypeOK
       /\ CurOk
       /\ \A t \in Poller : Placed(t)
       /\ \A t \in Poller : \A f \in Want[t] : Known(t, f)
       /\ g_nwait = Cardinality(Slotted)

(* Nobody polls at the start. *)
LEMMA InvInit == Init => Inv
<1> SUFFICES ASSUME Init PROVE Inv
  BY Zenon
<1>1. TypeOK
  BY Zenon, PollAssumption DEF Init, SchedInit, TypeOK, SchedTypeOK, TaskState, PollPlace, WakePlace
<1>2. \A t \in Task : pc[t] \in {"out", "idle"}
  BY Zenon DEF Init
<1>3. CurOk
  BY Zenon, <1>2, PollAssumption DEF Init, CurOk
<1>4. ASSUME NEW t \in Poller PROVE Placed(t) /\ \A f \in Want[t] : Known(t, f)
  BY Zenon, <1>2, PollAssumption DEF Init, Placed, Known, Sleeping, Scanning
<1>5. Slotted = {}
  BY Zenon DEF Init, Slotted
<1>6. g_nwait = Cardinality(Slotted)
  BY Zenon, <1>5, FS_EmptySet DEF Init
<1> QED
  BY Zenon, <1>1, <1>3, <1>4, <1>6 DEF Inv

(* What a step leaves alone that poller u relies on. *)
Same(u) == /\ pc'[u] = pc[u] /\ cur'[u] = cur[u] /\ todo'[u] = todo[u]
           /\ hit'[u] = hit[u] /\ legacy'[u] = legacy[u] /\ wchg'[u] = wchg[u]
           /\ \A f \in File : u \in poller'[f] <=> u \in poller[f]
           /\ u \in g_slots' => u \in g_slots
           /\ state'[u] = "BLOCKED" => state[u] = "BLOCKED" /\ timed'[u] = timed[u]

(* A step that concerns neither poller u nor the wakers. *)
LEMMA Untouched ==
  ASSUME Inv, NEW u \in Poller, Same(u), UNCHANGED <<ready, told>>,
         \A w \in Waker : pc'[w] = pc[w] /\ cur'[w] = cur[w]
  PROVE  Placed(u)' /\ \A f \in Want[u] : Known(u, f)'
<1>1. Placed(u) /\ \A f \in Want[u] : Known(u, f)
  BY Zenon DEF Inv
<1>2. Placed(u)'
  BY Zenon, <1>1 DEF Placed, Same
<1>3. ASSUME NEW f \in Want[u] PROVE Known(u, f)'
  <2>1. f \in File
    BY Zenon, PollAssumption
  <2>2. Bumping(f) => Bumping(f)'
    BY Zenon DEF Bumping
  <2> QED
    BY Zenon, <1>1, <2>1, <2>2 DEF Known, Same
<1> QED
  BY Zenon, <1>2, <1>3

(* A step of poller t alone. *)
Only(t) == /\ \A u \in Poller : u # t => Same(u)
           /\ UNCHANGED <<ready, told>>
           /\ \A w \in Waker : pc'[w] = pc[w] /\ cur'[w] = cur[w]
           /\ \A f \in NoQueue : poller[f] = {} => poller'[f] = {}

(* What is left to show of a step of poller t. *)
LEMMA PollerStep ==
  ASSUME Inv, NEW t \in Poller, TypeOK', Only(t), Placed(t)',
         \A f \in Want[t] : Known(t, f)',
         pc'[t] = "see" => cur'[t] \in Want[t] /\ cur'[t] \notin todo'[t],
         g_nwait' = Cardinality(Slotted)'
  PROVE  Inv'
<1>1. \A u \in Poller : Placed(u)' /\ \A f \in Want[u] : Known(u, f)'
  BY Zenon, Untouched DEF Only
<1>2. CurOk'
  BY DEF CurOk, Only, Same, Inv
<1> QED
  BY Zenon, <1>1, <1>2 DEF Inv

(* A step of t that neither takes nor gives back a slot. *)
LEMMA SameSlots ==
  ASSUME Inv, NEW t \in Poller, Only(t), g_nwait' = g_nwait,
         t \in Slotted' <=> t \in Slotted
  PROVE  g_nwait' = Cardinality(Slotted)'
<1>1. \A u \in Poller : u \in Slotted' <=> u \in Slotted
  BY ZenonT(60) DEF Only, Same, Slotted
<1>2. Slotted' = Slotted
  BY Zenon, <1>1 DEF Slotted
<1> QED
  BY Zenon, <1>2 DEF Inv

(* A step that changes the place of t and its own sleep, at most. *)
LEMMA Plain ==
  ASSUME TypeOK, NEW t \in Poller, NEW p, pc' = [pc EXCEPT ![t] = p],
         UNCHANGED <<ready, told, cur, todo, hit, legacy, wchg, poller, g_slots>>,
         \A u \in Poller : u # t => state'[u] = state[u] /\ timed'[u] = timed[u]
  PROVE  Only(t) /\ pc'[t] = p
<1>1. pc'[t] = p /\ \A u \in Task : u # t => pc'[u] = pc[u]
  BY Zenon, PollAssumption DEF TypeOK
<1> QED
  BY Zenon, <1>1, PollAssumption DEF Only, Same

(* Poller t goes to another place and changes nothing else but g_lock. *)
LEMMA Moves ==
  ASSUME Inv, NEW t \in Poller, NEW p \in PollPlace \ {"see"}, pc' = [pc EXCEPT ![t] = p],
         UNCHANGED <<schedVars, ready, poller, g_slots, g_nwait, seqVars, callVars, timeVars, pend, told>>,
         g_lock' \in Poller \cup {NoTask},
         p \in Scanning => pc[t] \in Scanning \ {"see"},
         legacy[t] => (p \in Sleeping <=> pc[t] \in Sleeping),
         Placed(t)'
  PROVE  Inv'
<1> USE DEF schedVars, seqVars, callVars, timeVars
<1>1. TypeOK'
  BY Zenon DEF Inv, TypeOK, SchedTypeOK
<1>2. Only(t) /\ pc'[t] = p
  BY Zenon, Plain DEF Inv
<1>3. ASSUME NEW f \in Want[t] PROVE Known(t, f)'
  <2>1. Known(t, f)
    BY Zenon DEF Inv
  <2>2. Bumping(f) => Bumping(f)'
    BY Zenon, <1>2 DEF Bumping, Only
  <2> QED
    BY Zenon, <1>2, <2>1, <2>2 DEF Known
<1>4. t \in Slotted' <=> t \in Slotted
  BY Zenon, <1>2 DEF Slotted
<1>5. g_nwait' = Cardinality(Slotted)'
  BY Zenon, <1>2, <1>4, SameSlots
<1> QED
  BY Zenon, <1>1, <1>2, <1>3, <1>5, PollerStep

(* A step that only unblocks, dispatches or switches tasks, or changes a   *)
(* time-out; who loses its time-out is unblocked as well.                  *)
LEMMA Woken ==
  ASSUME Inv, state' \in [Task -> TaskState], oncpu' \in [Task -> BOOLEAN], g_slots' \subseteq g_slots,
         timed' \in [Poller -> BOOLEAN], over' \in [Poller -> BOOLEAN], pend' \in [Poller -> BOOLEAN],
         \A u \in Poller : state'[u] = "BLOCKED" => state[u] = "BLOCKED" /\ timed'[u] = timed[u],
         UNCHANGED <<ready, poller, g_nwait, g_lock, wchg, gchg, todo, cur, hit, legacy, told, pc>>
  PROVE  Inv'
<1>1. TypeOK
  BY Zenon DEF Inv
<1>2. TypeOK'
  BY Zenon, <1>1 DEF TypeOK, SchedTypeOK
<1>3. \A u \in Poller : Same(u)
  BY Zenon, PollAssumption DEF Same
<1>4. \A u \in Poller : Placed(u)' /\ \A f \in Want[u] : Known(u, f)'
  BY Zenon, <1>3, Untouched
<1>5. CurOk' /\ Slotted' = Slotted
  BY Zenon DEF Inv, CurOk, Slotted
<1> QED
  BY Zenon, <1>2, <1>4, <1>5 DEF Inv

(* task_unblock. *)
LEMMA UnblockedType ==
  ASSUME TypeOK, NEW S
  PROVE  /\ Unblocked(S) \in [Task -> TaskState]
         /\ \A u \in Task : Unblocked(S)[u] = "BLOCKED" => state[u] = "BLOCKED" /\ u \notin S
BY Zenon DEF TypeOK, SchedTypeOK, Unblocked, TaskState

(* One step of a poller inside its call. *)
LEMMA PollsStep ==
  ASSUME Inv, NEW t \in Poller, Call(t) \/ Polls(t)
  PROVE  Inv'
<1> USE DEF Goto, At, schedVars, tabVars, seqVars, callVars, timeVars
<1>0. TypeOK /\ Placed(t) /\ t \in Task /\ \A f \in Want[t] : Known(t, f) /\ f \in File
  BY Zenon, PollAssumption DEF Inv
<1>1. CASE Call(t)
  <2>1. pc[t] = "out" /\ pc' = [pc EXCEPT ![t] = "beg"]
    BY Zenon, <1>1 DEF Call
  <2>2. pc'[t] = "beg"
    BY Zenon, <1>0, <2>1 DEF TypeOK
  <2>3. Placed(t)'
    BY Zenon, <1>0, <1>1, <2>1, <2>2 DEF Call, Placed, Sleeping
  <2> QED
    BY Zenon, <1>1, <1>0, <2>1, <2>3, Moves DEF Call, PollPlace, Scanning, Sleeping, TypeOK
<1>2. CASE Begin(t)
  <2>1. /\ pc[t] = "beg" /\ pc' = [pc EXCEPT ![t] = "reg"]
        /\ wchg' = [wchg EXCEPT ![t] = FALSE]
        /\ gchg' = [gchg EXCEPT ![t] = FALSE]
        /\ todo' = [todo EXCEPT ![t] = Want[t]]
        /\ legacy' = [legacy EXCEPT ![t] = FALSE]
        /\ UNCHANGED <<state, oncpu, ready, poller, g_slots, g_nwait, g_lock, cur, hit, timed, over, pend, told>>
    BY Zenon, <1>2 DEF Begin
  <2>2. TypeOK'
    BY Zenon, <1>0, <2>1, PollAssumption DEF TypeOK, SchedTypeOK, PollPlace
  <2>3. /\ pc'[t] = "reg" /\ ~wchg'[t] /\ todo'[t] = Want[t] /\ ~legacy'[t]
        /\ \A u \in Task : u # t => pc'[u] = pc[u]
        /\ \A u \in Poller : u # t => wchg'[u] = wchg[u] /\ todo'[u] = todo[u] /\ legacy'[u] = legacy[u]
    BY Zenon, <1>0, <2>1 DEF TypeOK
  <2>4. Only(t)
    BY Zenon, <2>1, <2>3, PollAssumption DEF Only, Same
  <2>5. Placed(t)'
    BY Zenon, <1>0, <2>1, <2>3 DEF Placed, Sleeping
  <2>6. \A f \in Want[t] : Known(t, f)'
    BY Zenon, <2>3 DEF Known
  <2>7. t \in Slotted' <=> t \in Slotted
    BY Zenon, <2>1, <2>3 DEF Slotted, Sleeping
  <2>8. g_nwait' = Cardinality(Slotted)'
    BY Zenon, <2>1, <2>4, <2>7, SameSlots
  <2> QED
    BY Zenon, <2>2, <2>3, <2>4, <2>5, <2>6, <2>8, PollerStep
<1>3. CASE Register(t)
  <2>1. PICK f \in todo[t] :
          /\ \/ /\ HasPlace(t, f)
                /\ poller' = [poller EXCEPT ![f] = @ \cup {t}]
                /\ UNCHANGED legacy
             \/ /\ ~HasPlace(t, f)
                /\ legacy' = [legacy EXCEPT ![t] = TRUE]
                /\ UNCHANGED poller
          /\ cur' = [cur EXCEPT ![t] = f]
          /\ todo' = [todo EXCEPT ![t] = @ \ {f}]
    BY Zenon, <1>3 DEF Register
  <2>2. /\ pc[t] = "reg" /\ pc' = [pc EXCEPT ![t] = "see"]
        /\ UNCHANGED <<state, oncpu, ready, g_slots, g_nwait, g_lock, wchg, gchg, hit, timed, over, pend, told>>
    BY Zenon, <1>3 DEF Register
  <2>3. TypeOK' /\ f \in File
    <3>1. f \in File /\ cur' \in [Task -> File \cup {NoFile}] /\ todo' \in [Poller -> SUBSET File]
      BY Zenon, <1>0, <2>1 DEF TypeOK
    <3>2. poller \in [File -> SUBSET Poller] /\ legacy \in [Poller -> BOOLEAN]
      BY Zenon, <1>0 DEF TypeOK
    <3>3. legacy' \in [Poller -> BOOLEAN]
      BY Zenon, <2>1, <3>2
    <3>4. poller' \in [File -> SUBSET Poller]
      BY <2>1, <3>1, <3>2
    <3> QED
      BY Zenon, <1>0, <2>2, <3>1, <3>3, <3>4 DEF TypeOK, SchedTypeOK, PollPlace
  <2>4. /\ pc'[t] = "see" /\ cur'[t] = f /\ todo'[t] = todo[t] \ {f}
        /\ \A u \in Task : u # t => pc'[u] = pc[u] /\ cur'[u] = cur[u]
        /\ \A u \in Poller : u # t => todo'[u] = todo[u] /\ legacy'[u] = legacy[u]
    BY Zenon, <1>0, <2>1, <2>2 DEF TypeOK
  <2>5. /\ \A u \in Poller, g \in File : u # t => (u \in poller'[g] <=> u \in poller[g])
        /\ \A g \in File : t \in poller[g] => t \in poller'[g]
        /\ t \in poller'[f] \/ legacy'[t]
        /\ legacy[t] => legacy'[t]
        /\ f \in NoQueue => poller' = poller
        /\ \A g \in File : g # f => poller'[g] = poller[g]
    <3>1. poller \in [File -> SUBSET Poller] /\ legacy \in [Poller -> BOOLEAN]
      BY Zenon, <1>0 DEF TypeOK
    <3>2. CASE HasPlace(t, f)
      <4>1. poller' = [poller EXCEPT ![f] = @ \cup {t}] /\ legacy' = legacy /\ f \notin NoQueue
        BY Zenon, <2>1, <3>2 DEF HasPlace
      <4>2. /\ poller'[f] = poller[f] \cup {t}
            /\ \A g \in File : g # f => poller'[g] = poller[g]
        BY Zenon, <2>3, <3>1, <4>1
      <4> QED
        BY Zenon, <4>1, <4>2
    <3>3. CASE ~HasPlace(t, f)
      <4>1. poller' = poller /\ legacy' = [legacy EXCEPT ![t] = TRUE]
        BY Zenon, <2>1, <3>3
      <4>2. legacy'[t]
        BY Zenon, <3>1, <4>1
      <4> QED
        BY Zenon, <4>1, <4>2
    <3> QED
      BY Zenon, <3>2, <3>3
  <2>6. Only(t)
    BY ZenonT(60), <2>2, <2>4, <2>5, PollAssumption DEF Only, Same
  <2>7. Placed(t)'
    BY Zenon, <1>0, <2>2, <2>4, <2>5 DEF Placed, Sleeping
  <2>8. ASSUME NEW g \in Want[t] PROVE Known(t, g)'
    <3>1. Bumping(g) => Bumping(g)'
      BY Zenon, <2>6 DEF Bumping, Only
    <3>2. Known(t, g) /\ g \in File
      BY Zenon, <1>0
    <3>3. CASE g = f
      BY Zenon, <2>4, <2>5, <3>3 DEF Known
    <3>4. CASE g # f
      BY Zenon, <2>2, <2>4, <2>5, <3>1, <3>2, <3>4 DEF Known, Scanning
    <3> QED
      BY Zenon, <3>3, <3>4
  <2>9. t \in Slotted' <=> t \in Slotted
    BY Zenon, <2>2, <2>4 DEF Slotted, Sleeping
  <2>10. g_nwait' = Cardinality(Slotted)'
    BY Zenon, <2>2, <2>6, <2>9, SameSlots
  <2>11. cur'[t] \in Want[t] /\ cur'[t] \notin todo'[t]
    BY Zenon, <1>0, <2>4 DEF Placed
  <2> QED
    BY Zenon, <2>3, <2>6, <2>7, <2>8, <2>10, <2>11, PollerStep
<1>4. CASE See(t)
  <2>1. /\ pc[t] = "see" /\ pc' = [pc EXCEPT ![t] = "reg"]
        /\ hit' = [hit EXCEPT ![t] = @ \/ ready[cur[t]]]
        /\ cur' = [cur EXCEPT ![t] = NoFile]
        /\ UNCHANGED <<state, oncpu, ready, poller, g_slots, g_nwait, g_lock, wchg, gchg, todo, legacy,
                       timed, over, pend, told>>
    BY Zenon, <1>4 DEF See
  <2>2. cur[t] \in File /\ ready[cur[t]] \in BOOLEAN
    BY Zenon, <1>0, <2>1, PollAssumption DEF Inv, CurOk, TypeOK
  <2>3. hit' \in [Poller -> BOOLEAN] /\ cur' \in [Task -> File \cup {NoFile}]
    BY Zenon, <1>0, <2>1, <2>2 DEF TypeOK
  <2>4. TypeOK'
    BY Zenon, <1>0, <2>1, <2>3 DEF TypeOK, SchedTypeOK, PollPlace
  <2>5. /\ pc'[t] = "reg" /\ (hit'[t] <=> (hit[t] \/ ready[cur[t]]))
        /\ \A u \in Task : u # t => pc'[u] = pc[u] /\ cur'[u] = cur[u]
        /\ \A u \in Poller : u # t => hit'[u] = hit[u]
    BY Zenon, <1>0, <2>1, <2>2 DEF TypeOK
  <2>6. Only(t)
    BY ZenonT(60), <2>1, <2>5, PollAssumption DEF Only, Same
  <2>7. Placed(t)'
    BY Zenon, <1>0, <2>1, <2>5 DEF Placed, Sleeping
  <2>8. ASSUME NEW g \in Want[t] PROVE Known(t, g)'
    <3>1. Bumping(g) => Bumping(g)'
      BY Zenon, <2>6 DEF Bumping, Only
    <3>2. Known(t, g)
      BY Zenon, <1>0
    <3> QED
      BY Zenon, <2>1, <2>5, <3>1, <3>2 DEF Known, Scanning
  <2>9. t \in Slotted' <=> t \in Slotted
    BY Zenon, <2>1, <2>5 DEF Slotted, Sleeping
  <2>10. g_nwait' = Cardinality(Slotted)'
    BY Zenon, <2>1, <2>6, <2>9, SameSlots
  <2> QED
    BY Zenon, <2>4, <2>5, <2>6, <2>7, <2>8, <2>10, PollerStep
<1>5. CASE Return(t)
  <2>1. /\ pc[t] = "reg" /\ todo[t] = {} /\ pc' = [pc EXCEPT ![t] = "out"]
        /\ poller' = [f \in File |-> poller[f] \ {t}]
        /\ hit' = [hit EXCEPT ![t] = FALSE]
        /\ legacy' = [legacy EXCEPT ![t] = FALSE]
        /\ over' = [over EXCEPT ![t] = FALSE]
        /\ wchg' = [wchg EXCEPT ![t] = FALSE]
        /\ gchg' = [gchg EXCEPT ![t] = FALSE]
        /\ UNCHANGED <<state, oncpu, ready, g_slots, g_nwait, g_lock, todo, cur, timed, pend, told>>
    BY Zenon, <1>5 DEF Return, Leave
  <2>2. poller' \in [File -> SUBSET Poller]
    BY Zenon, <1>0, <2>1 DEF TypeOK
  <2>3. TypeOK'
    BY Zenon, <1>0, <2>1, <2>2 DEF TypeOK, SchedTypeOK, PollPlace
  <2>4. /\ pc'[t] = "out" /\ ~hit'[t]
        /\ \A u \in Task : u # t => pc'[u] = pc[u]
        /\ \A u \in Poller : u # t => hit'[u] = hit[u] /\ legacy'[u] = legacy[u] /\ wchg'[u] = wchg[u]
    BY Zenon, <1>0, <2>1 DEF TypeOK
  <2>5. \A f \in File : poller'[f] = poller[f] \ {t}
    BY Zenon, <2>1
  <2>6. Only(t)
    BY ZenonT(60), <2>1, <2>4, <2>5, PollAssumption DEF Only, Same
  <2>7. Placed(t)'
    BY Zenon, <1>0, <2>1, <2>4, <2>5 DEF Placed, Sleeping
  <2>8. \A f \in Want[t] : Known(t, f)'
    BY Zenon, <2>4 DEF Known, Scanning
  <2>9. t \in Slotted' <=> t \in Slotted
    BY Zenon, <2>1, <2>4 DEF Slotted, Sleeping
  <2>10. g_nwait' = Cardinality(Slotted)'
    BY Zenon, <2>1, <2>6, <2>9, SameSlots
  <2> QED
    BY Zenon, <2>3, <2>4, <2>6, <2>7, <2>8, <2>10, PollerStep
<1>6. CASE Sleep(t)
  <2>1. PICK p \in {"leg", "blk"} : pc' = [pc EXCEPT ![t] = p] /\ (p = "leg" <=> legacy[t])
    BY Zenon, <1>6 DEF Sleep
  <2>2. pc[t] = "reg" /\ todo[t] = {} /\ ~hit[t]
    BY Zenon, <1>6 DEF Sleep
  <2>3. pc'[t] = p
    BY Zenon, <1>0, <2>1 DEF TypeOK
  <2>4. Placed(t)'
    BY Zenon, <1>0, <1>6, <2>1, <2>2, <2>3 DEF Sleep, Placed, Sleeping
  <2> QED
    BY Zenon, <1>0, <1>6, <2>1, <2>2, <2>4, Moves DEF Sleep, PollPlace, Scanning, Sleeping, TypeOK
<1>7. CASE LegacyMoved(t)
  <2>1. pc[t] = "leg" /\ pc' = [pc EXCEPT ![t] = "rel"]
    BY Zenon, <1>7 DEF LegacyMoved
  <2>2. pc'[t] = "rel"
    BY Zenon, <1>0, <2>1 DEF TypeOK
  <2>3. Placed(t)'
    BY Zenon, <1>0, <1>7, <2>1, <2>2 DEF LegacyMoved, Placed, Sleeping
  <2> QED
    BY Zenon, <1>0, <1>7, <2>1, <2>3, Moves DEF LegacyMoved, PollPlace, Scanning, Sleeping, TypeOK
<1>8. CASE LegacyLock(t)
  <2>1. pc[t] = "leg" /\ pc' = [pc EXCEPT ![t] = "slot"]
    BY Zenon, <1>8 DEF LegacyLock
  <2>2. pc'[t] = "slot"
    BY Zenon, <1>0, <2>1 DEF TypeOK
  <2>3. Placed(t)'
    BY Zenon, <1>0, <1>8, <2>1, <2>2 DEF LegacyLock, Placed, Sleeping
  <2> QED
    BY Zenon, <1>0, <1>8, <2>1, <2>3, Moves DEF LegacyLock, PollPlace, Scanning, Sleeping, TypeOK
<1>9. CASE LegacyNap(t) \/ Block(t)
  <2>1. PICK p \in {"nap", "tst"} :
          /\ pc[t] = (IF p = "nap" THEN "leg" ELSE "blk") /\ pc' = [pc EXCEPT ![t] = p]
          /\ state' = [state EXCEPT ![t] = "BLOCKED"]
          /\ timed' = [timed EXCEPT ![t] = (p = "nap" \/ legacy[t] \/ t \in Finite)]
          /\ UNCHANGED <<oncpu, ready, poller, g_slots, g_nwait, g_lock, wchg, gchg, todo, cur, hit, legacy,
                         over, pend, told>>
    <3>1. CASE LegacyNap(t)
      BY Zenon, <3>1 DEF LegacyNap, SetBlocked
    <3>2. CASE Block(t)
      BY Zenon, <3>2 DEF Block, SetBlocked
    <3> QED
      BY Zenon, <1>9, <3>1, <3>2
  <2>2. /\ state' \in [Task -> TaskState] /\ timed' \in [Poller -> BOOLEAN]
        /\ \A u \in Poller : u # t => state'[u] = state[u] /\ timed'[u] = timed[u]
        /\ legacy[t] => timed'[t]
    BY Zenon, <1>0, <2>1, PollAssumption DEF TypeOK, SchedTypeOK, TaskState
  <2>3. TypeOK'
    BY Zenon, <1>0, <2>1, <2>2 DEF TypeOK, SchedTypeOK, PollPlace
  <2>4. Only(t) /\ pc'[t] = p
    BY ZenonT(60), <1>0, <2>1, <2>2, Plain
  <2>5. Placed(t)'
    BY Zenon, <1>0, <2>1, <2>2, <2>4 DEF Placed, Sleeping
  <2>6. ASSUME NEW g \in Want[t] PROVE Known(t, g)'
    <3>1. Bumping(g) => Bumping(g)'
      BY Zenon, <2>4 DEF Bumping, Only
    <3>2. Known(t, g)
      BY Zenon, <1>0
    <3> QED
      BY Zenon, <2>1, <2>4, <3>1, <3>2 DEF Known, Scanning
  <2>7. t \in Slotted' <=> t \in Slotted
    BY Zenon, <2>1, <2>4 DEF Slotted, Sleeping
  <2>8. g_nwait' = Cardinality(Slotted)'
    BY Zenon, <2>1, <2>4, <2>7, SameSlots
  <2> QED
    BY Zenon, <2>1, <2>3, <2>4, <2>5, <2>6, <2>8, PollerStep
<1>10. CASE LegacySlot(t)
  <2>1. /\ pc[t] = "slot" /\ pc' = [pc EXCEPT ![t] = "blk"]
        /\ g_slots' = g_slots \cup {t}
        /\ g_nwait' = g_nwait + 1
        /\ UNCHANGED <<state, oncpu, ready, poller, g_lock, wchg, gchg, todo, cur, hit, legacy,
                       timed, over, pend, told>>
    BY Zenon, <1>10 DEF LegacySlot
  <2>2. TypeOK'
    BY <1>0, <2>1 DEF TypeOK, SchedTypeOK, PollPlace
  <2>3. pc'[t] = "blk" /\ legacy[t] /\ \A u \in Task : u # t => pc'[u] = pc[u]
    BY Zenon, <1>0, <2>1 DEF TypeOK, Placed
  <2>4. Only(t)
    BY Zenon, <2>1, <2>3, PollAssumption DEF Only, Same
  <2>5. Placed(t)'
    BY Zenon, <1>0, <2>1, <2>3 DEF Placed, Sleeping
  <2>6. ASSUME NEW g \in Want[t] PROVE Known(t, g)'
    BY Zenon, <2>1, <2>3 DEF Known
  <2>7. Slotted' = Slotted \cup {t} /\ t \notin Slotted
    BY ZenonT(60), <2>1, <2>3, PollAssumption DEF Slotted, Sleeping
  <2>8. IsFiniteSet(Slotted)
    BY Zenon, PollAssumption, FS_Subset DEF Slotted
  <2>9. Cardinality(Slotted') = Cardinality(Slotted) + 1
    BY Zenon, <2>7, <2>8, FS_AddElement
  <2>10. g_nwait' = Cardinality(Slotted)'
    BY Zenon, <2>1, <2>9 DEF Inv
  <2> QED
    BY Zenon, <2>2, <2>3, <2>4, <2>5, <2>6, <2>10, PollerStep
<1>11. CASE Test(t)
  <2>1. /\ pc[t] = "tst" /\ pc' = [pc EXCEPT ![t] = "slp"]
        /\ g_lock' \in {g_lock, NoTask}
        /\ UNCHANGED <<oncpu, ready, poller, g_slots, g_nwait, wchg, gchg, todo, cur, hit, legacy,
                       timed, over, pend, told>>
    BY Zenon, <1>11 DEF Test
  <2>2. /\ state' \in [Task -> TaskState]
        /\ \A u \in Task : u # t => state'[u] = state[u]
        /\ state'[t] = "BLOCKED" => state[t] = "BLOCKED" /\ ~wchg[t]
    <3>1. state \in [Task -> TaskState]
      BY Zenon, <1>0 DEF TypeOK, SchedTypeOK
    <3>2. CASE wchg[t]
      BY ZenonT(60), <1>0, <1>11, <3>1, <3>2 DEF Test, task_unblock, Unblocked, TaskState
    <3>3. CASE ~wchg[t]
      BY Zenon, <1>11, <3>1, <3>3 DEF Test
    <3> QED
      BY Zenon, <3>2, <3>3
  <2>3. TypeOK'
    BY ZenonT(60), <1>0, <2>1, <2>2 DEF TypeOK, SchedTypeOK, PollPlace
  <2>4. Only(t) /\ pc'[t] = "slp"
    BY ZenonT(60), <1>0, <2>1, <2>2, Plain, PollAssumption
  <2>5. Placed(t)'
    BY ZenonT(60), <1>0, <2>1, <2>2, <2>4 DEF Placed, Sleeping
  <2>6. ASSUME NEW g \in Want[t] PROVE Known(t, g)'
    <3>1. Bumping(g) => Bumping(g)'
      BY Zenon, <2>4 DEF Bumping, Only
    <3>2. Known(t, g)
      BY Zenon, <1>0
    <3> QED
      BY Zenon, <2>1, <2>4, <3>1, <3>2 DEF Known, Scanning
  <2>7. t \in Slotted' <=> t \in Slotted
    BY Zenon, <2>1, <2>4 DEF Slotted, Sleeping
  <2>8. g_nwait' = Cardinality(Slotted)'
    BY ZenonT(60), <2>1, <2>4, <2>7, SameSlots
  <2> QED
    BY ZenonT(60), <2>3, <2>4, <2>5, <2>6, <2>8, PollerStep
<1>12. CASE Recheck(t)
  <2>1. /\ UNCHANGED <<oncpu, ready, poller, g_slots, g_nwait, g_lock, wchg, gchg, todo, cur, hit, legacy,
                       timed, over, pend, told, pc>>
        /\ state' = Unblocked({t})
    BY Zenon, <1>12 DEF Recheck, task_unblock
  <2> QED
    BY <1>0, <2>1, UnblockedType, Woken, PollAssumption DEF TypeOK, SchedTypeOK
<1>13. CASE Resched(t)
  <2>1. PICK p \in {"unl", "rel"} :
        /\ pc[t] \in {"slp", "nap"} /\ pc' = [pc EXCEPT ![t] = p]
        /\ p = "unl" <=> (pc[t] = "slp" /\ legacy[t])
        /\ timed' = [timed EXCEPT ![t] = FALSE]
        /\ state' = [state EXCEPT ![t] = "RUNNING"]
        /\ UNCHANGED <<oncpu, ready, poller, g_slots, g_nwait, g_lock, wchg, gchg, todo, cur, hit, legacy,
                       over, pend, told>>
    BY Zenon, <1>13 DEF Resched, ReschedReturns
  <2>2. /\ state' \in [Task -> TaskState] /\ timed' \in [Poller -> BOOLEAN]
        /\ \A u \in Poller : u # t => state'[u] = state[u] /\ timed'[u] = timed[u]
    BY Zenon, <1>0, <2>1, PollAssumption DEF TypeOK, SchedTypeOK, TaskState
  <2>3. TypeOK'
    BY Zenon, <1>0, <2>1, <2>2 DEF TypeOK, SchedTypeOK, PollPlace
  <2>4. Only(t) /\ pc'[t] = p
    BY ZenonT(60), <1>0, <2>1, <2>2, Plain
  <2>5. Placed(t)'
    BY Zenon, <1>0, <2>1, <2>4 DEF Placed, Sleeping
  <2>6. \A g \in Want[t] : Known(t, g)'
    BY Zenon, <2>1, <2>4 DEF Known, Scanning
  <2>7. t \in Slotted' <=> t \in Slotted
    BY Zenon, <2>1, <2>4 DEF Slotted, Sleeping
  <2>8. g_nwait' = Cardinality(Slotted)'
    BY Zenon, <2>1, <2>4, <2>7, SameSlots
  <2> QED
    BY Zenon, <2>1, <2>3, <2>4, <2>5, <2>6, <2>8, PollerStep
<1>14. CASE Unlock(t)
  <2>1. /\ pc[t] = "unl" /\ pc' = [pc EXCEPT ![t] = "rel"]
        /\ g_slots' = g_slots \ {t}
        /\ g_nwait' = g_nwait - 1
        /\ UNCHANGED <<state, oncpu, ready, poller, g_lock, wchg, gchg, todo, cur, hit, legacy,
                       timed, over, pend, told>>
    BY Zenon, <1>14 DEF Unlock
  <2>2. pc'[t] = "rel" /\ legacy[t] /\ \A u \in Task : u # t => pc'[u] = pc[u]
    BY Zenon, <1>0, <2>1 DEF TypeOK, Placed
  <2>3. Slotted' = Slotted \ {t} /\ t \in Slotted
    BY Zenon, <2>1, <2>2, PollAssumption DEF Slotted, Sleeping
  <2>4. IsFiniteSet(Slotted)
    BY Zenon, PollAssumption, FS_Subset DEF Slotted
  <2>5. Cardinality(Slotted') = Cardinality(Slotted) - 1 /\ Cardinality(Slotted') \in Nat
    BY Zenon, <2>3, <2>4, FS_RemoveElement, FS_Subset, FS_CardinalityType
  <2>6. g_nwait' = Cardinality(Slotted)' /\ g_nwait' \in Nat
    BY Zenon, <2>1, <2>5 DEF Inv
  <2>7. TypeOK'
    BY Zenon, <1>0, <2>1, <2>6 DEF TypeOK, SchedTypeOK, PollPlace
  <2>8. Only(t)
    BY Zenon, <2>1, <2>2, PollAssumption DEF Only, Same
  <2>9. Placed(t)'
    BY Zenon, <1>0, <2>1, <2>2 DEF Placed, Sleeping
  <2>10. \A g \in Want[t] : Known(t, g)'
    BY Zenon, <2>2 DEF Known, Scanning
  <2> QED
    BY Zenon, <2>2, <2>6, <2>7, <2>8, <2>9, <2>10, PollerStep
<1>15. CASE Release(t)
  <2>1. /\ pc[t] = "rel" /\ pc' = [pc EXCEPT ![t] = "beg"]
        /\ poller' = [f \in File |-> poller[f] \ {t}]
        /\ UNCHANGED <<state, oncpu, ready, g_slots, g_nwait, g_lock, wchg, gchg, todo, cur, hit, legacy,
                       timed, over, pend, told>>
    BY Zenon, <1>15 DEF Release
  <2>2. poller' \in [File -> SUBSET Poller] /\ \A f \in File : poller'[f] = poller[f] \ {t}
    BY Zenon, <1>0, <2>1 DEF TypeOK
  <2>3. TypeOK'
    BY Zenon, <1>0, <2>1, <2>2 DEF TypeOK, SchedTypeOK, PollPlace
  <2>4. pc'[t] = "beg" /\ \A u \in Task : u # t => pc'[u] = pc[u]
    BY Zenon, <1>0, <2>1 DEF TypeOK
  <2>5. Only(t)
    BY Zenon, <2>1, <2>2, <2>4, PollAssumption DEF Only, Same
  <2>6. Placed(t)'
    BY Zenon, <1>0, <2>1, <2>2, <2>4 DEF Placed, Sleeping
  <2>7. \A f \in Want[t] : Known(t, f)'
    BY Zenon, <2>4 DEF Known, Scanning
  <2>8. t \in Slotted' <=> t \in Slotted
    BY Zenon, <2>1, <2>4 DEF Slotted, Sleeping
  <2>9. g_nwait' = Cardinality(Slotted)'
    BY ZenonT(60), <2>1, <2>5, <2>8, SameSlots
  <2> QED
    BY Zenon, <2>3, <2>4, <2>5, <2>6, <2>7, <2>9, PollerStep
<1> QED
  BY ZenonT(60), <1>1, <1>2, <1>3, <1>4, <1>5, <1>6, <1>7, <1>8, <1>9, <1>10, <1>11, <1>12, <1>13, <1>14, <1>15
        DEF Polls

(* Time, signals and the scheduler. *)
LEMMA OutsideStep ==
  ASSUME Inv, NEW t \in Poller,
         TimePasses(t) \/ Timeout(t) \/ Signal(t) \/ Deliver(t) \/ Schedule(t)
  PROVE  Inv'
<1> USE DEF Goto, At, schedVars, tabVars, seqVars, callVars, timeVars
<1>0. TypeOK /\ t \in Task
  BY Zenon, PollAssumption DEF Inv
<1>1. UNCHANGED <<ready, poller, g_slots, g_nwait, g_lock, wchg, gchg, todo, cur, hit, legacy, told, pc>>
  BY Zenon DEF TimePasses, Timeout, Signal, Deliver, Schedule
<1>2. timed' \in [Poller -> BOOLEAN] /\ over' \in [Poller -> BOOLEAN] /\ pend' \in [Poller -> BOOLEAN]
  BY ZenonT(60), <1>0 DEF TimePasses, Timeout, Signal, Deliver, Schedule, TypeOK
<1>3. CASE TimePasses(t) \/ Deliver(t)
  BY Zenon, <1>0, <1>1, <1>2, <1>3, Woken DEF TimePasses, Deliver, TypeOK, SchedTypeOK
<1>4. CASE Timeout(t) \/ Signal(t)
  <2>1. /\ state' = Unblocked({t}) /\ oncpu' = oncpu
        /\ timed' = timed \/ timed' = [timed EXCEPT ![t] = FALSE]
    BY Zenon, <1>4 DEF Timeout, Signal, task_unblock
  <2>2. \A u \in Poller : u # t => timed'[u] = timed[u]
    BY Zenon, <1>0, <2>1 DEF TypeOK
  <2>3. /\ state' \in [Task -> TaskState] /\ oncpu' \in [Task -> BOOLEAN]
        /\ \A u \in Poller : state'[u] = "BLOCKED" => state[u] = "BLOCKED" /\ u # t
    BY ZenonT(60), <1>0, <2>1, UnblockedType, PollAssumption DEF TypeOK, SchedTypeOK
  <2> QED
    BY Zenon, <1>1, <1>2, <2>2, <2>3, Woken
<1>5. CASE Schedule(t)
  <2>1. timed' = timed /\ (SwitchAway(t) \/ Dispatch(t))
    BY Zenon, <1>5 DEF Schedule
  <2>2. /\ state' \in [Task -> TaskState] /\ oncpu' \in [Task -> BOOLEAN]
        /\ \A u \in Task : state'[u] = "BLOCKED" => state[u] = "BLOCKED"
    BY Zenon, <1>0, <2>1 DEF TypeOK, SchedTypeOK, SwitchAway, Dispatch, TaskState
  <2> QED
    BY Zenon, <1>1, <1>2, <2>1, <2>2, Woken, PollAssumption
<1> QED
  BY Zenon, <1>3, <1>4, <1>5

(* A step of a waker leaves the places of the pollers alone: g_nwait still *)
(* counts them.                                                            *)
LEMMA WakerStep ==
  ASSUME Inv, TypeOK', CurOk', g_nwait' = g_nwait,
         \A t \in Poller : pc'[t] = pc[t] /\ legacy'[t] = legacy[t],
         \A t \in Poller : Placed(t)' /\ \A f \in Want[t] : Known(t, f)'
  PROVE  Inv'
<1>1. Slotted' = Slotted
  BY Zenon DEF Slotted
<1> QED
  BY Zenon, <1>1 DEF Inv

(* One step of a task that changes files or tells their pollers. *)
LEMMA WakesStep ==
  ASSUME Inv, NEW w \in Waker,
         Wakes(w) \/ \E f \in Feeds[w] : Set(w, f) \/ Consume(w, f)
  PROVE  Inv'
<1> USE DEF Goto, At, schedVars, tabVars, seqVars, callVars, timeVars
<1>0. TypeOK /\ CurOk /\ w \in Task /\ w \notin Poller
  BY Zenon, PollAssumption DEF Inv
<1>1. ASSUME NEW f \in Feeds[w], Set(w, f) PROVE Inv'
  <2>0. f \in File
    BY Zenon, PollAssumption
  <2> DEFINE g == IF f \in NoQueue THEN NoFile ELSE f
             p == IF f \in NoQueue THEN "idle" ELSE "bump"
  <2>1. /\ pc[w] = "idle" /\ pc' = [pc EXCEPT ![w] = p]
        /\ ready' = [ready EXCEPT ![f] = TRUE]
        /\ cur' = [cur EXCEPT ![w] = g]
        /\ UNCHANGED <<state, oncpu, poller, g_slots, g_nwait, g_lock, wchg, gchg, todo, hit, legacy,
                       timed, over, pend, told>>
    BY Zenon, <1>1 DEF Set
  <2>2. TypeOK'
    BY Zenon, <1>0, <2>0, <2>1 DEF TypeOK, SchedTypeOK, WakePlace
  <2>3. /\ pc'[w] = p /\ cur'[w] = g
        /\ \A u \in Task : u # w => pc'[u] = pc[u] /\ cur'[u] = cur[u]
        /\ \A h \in File : h # f => ready'[h] = ready[h]
    BY Zenon, <1>0, <2>1 DEF TypeOK
  <2>4. CurOk'
    BY <1>0, <2>0, <2>1, <2>3, PollAssumption DEF CurOk
  <2>5. ASSUME NEW t \in Poller PROVE Placed(t)'
    <3>1. Placed(t) /\ pc'[t] = pc[t]
      BY Zenon, <1>0, <2>3, PollAssumption DEF Inv
    <3> QED
      BY Zenon, <2>1, <3>1 DEF Placed
  <2>6. ASSUME NEW t \in Poller, NEW h \in Want[t] PROVE Known(t, h)'
    <3>1. Known(t, h) /\ h \in File /\ pc'[t] = pc[t] /\ cur'[t] = cur[t]
      BY Zenon, <1>0, <2>3, PollAssumption DEF Inv
    <3>2. Bumping(h) => Bumping(h)'
      BY Zenon, <2>1, <2>3, PollAssumption DEF Bumping
    <3>3. CASE h # f
      BY Zenon, <2>1, <2>3, <3>1, <3>2, <3>3 DEF Known
    <3>4. CASE h = f /\ f \notin NoQueue
      <4>1. Bumping(h)'
        BY Zenon, <2>3, <3>4 DEF Bumping
      <4> QED
        BY Zenon, <2>1, <3>1, <4>1 DEF Known
    <3>5. CASE h = f /\ f \in NoQueue
      <4>1. t \notin poller[h]
        BY Zenon, <1>0, <3>5 DEF CurOk
      <4> QED
        BY Zenon, <2>1, <3>1, <4>1 DEF Known
    <3> QED
      BY Zenon, <3>3, <3>4, <3>5
  <2>7. \A t \in Poller : pc'[t] = pc[t]
    BY Zenon, <1>0, <2>3, PollAssumption
  <2> QED
    BY Zenon, <2>1, <2>2, <2>4, <2>5, <2>6, <2>7, WakerStep
<1>2. ASSUME NEW f \in Feeds[w], Consume(w, f) PROVE Inv'
  <2>1. /\ ready' = [ready EXCEPT ![f] = FALSE]
        /\ UNCHANGED <<state, oncpu, poller, g_slots, g_nwait, g_lock, wchg, gchg, todo, cur, hit, legacy,
                       timed, over, pend, told, pc>>
    BY Zenon, <1>2 DEF Consume
  <2>2. TypeOK' /\ CurOk'
    BY Zenon, <1>0, <2>1 DEF TypeOK, SchedTypeOK, CurOk
  <2>3. \A h \in File : ready'[h] => ready[h]
    BY Zenon, <1>0, <2>1 DEF TypeOK
  <2>4. ASSUME NEW t \in Poller PROVE Placed(t)'
    <3>1. Placed(t)
      BY Zenon DEF Inv
    <3> QED
      BY Zenon, <2>1, <3>1 DEF Placed
  <2>5. ASSUME NEW t \in Poller, NEW h \in Want[t] PROVE Known(t, h)'
    <3>1. Known(t, h) /\ h \in File
      BY Zenon, PollAssumption DEF Inv
    <3> QED
      BY Zenon, <2>1, <2>3, <3>1 DEF Known, Bumping
  <2> QED
    BY Zenon, <2>1, <2>2, <2>4, <2>5, WakerStep
<1>3. CASE Bump(w)
  <2> DEFINE f == cur[w]
  <2>0. pc[w] = "bump" /\ f \in File \ NoQueue /\ told[w] = {}
    BY Zenon, <1>0, <1>3 DEF Bump, CurOk
  <2>1. /\ wchg' = [t \in Poller |-> wchg[t] \/ t \in poller[f]]
        /\ told' = [told EXCEPT ![w] = poller[f]]
        /\ poller' = [poller EXCEPT ![f] = {}]
        /\ cur' = [cur EXCEPT ![w] = NoFile]
        /\ pc' = [pc EXCEPT ![w] = "unb"]
        /\ UNCHANGED <<state, oncpu, ready, g_slots, g_nwait, g_lock, gchg, todo, hit, legacy, timed,
                       over, pend>>
    BY Zenon, <1>3 DEF Bump
  <2>2. TypeOK'
    BY Zenon, <1>0, <2>0, <2>1 DEF TypeOK, SchedTypeOK, WakePlace
  <2>3. /\ pc'[w] = "unb" /\ told'[w] = poller[f] /\ poller'[f] = {}
        /\ \A u \in Task : u # w => pc'[u] = pc[u] /\ cur'[u] = cur[u]
        /\ \A v \in Waker : v # w => told'[v] = told[v]
        /\ \A h \in File : h # f => poller'[h] = poller[h]
        /\ \A t \in Poller : wchg'[t] <=> (wchg[t] \/ t \in poller[f])
    BY ZenonT(60), <1>0, <2>0, <2>1 DEF TypeOK
  <2>4. CurOk'
    BY <1>0, <2>0, <2>1, <2>3, PollAssumption DEF CurOk
  <2>5. ASSUME NEW t \in Poller PROVE Placed(t)'
    <3>1. Placed(t) /\ pc'[t] = pc[t]
      BY Zenon, <1>0, <2>3, PollAssumption DEF Inv
    <3>2. \A h \in File : t \in poller'[h] => t \in poller[h]
      BY Zenon, <2>3
    <3>3. wchg'[t] => wchg[t] \/ \E v \in Waker : t \in told'[v]
      BY Zenon, <2>3
    <3>4. (\E v \in Waker : t \in told[v]) => \E v \in Waker : t \in told'[v]
      BY Zenon, <2>0, <2>3
    <3> QED
      BY Zenon, <2>1, <3>1, <3>2, <3>3, <3>4 DEF Placed
  <2>6. ASSUME NEW t \in Poller, NEW h \in Want[t] PROVE Known(t, h)'
    <3>1. Known(t, h) /\ h \in File /\ pc'[t] = pc[t] /\ cur'[t] = cur[t]
      BY Zenon, <1>0, <2>3, PollAssumption DEF Inv
    <3>2. wchg[t] => wchg'[t]
      BY Zenon, <2>3
    <3>3. t \in poller[h] => t \in poller'[h] \/ wchg'[t]
      BY Zenon, <2>3, <3>1
    <3>4. CASE h # f
      <4>1. Bumping(h) => Bumping(h)'
        BY ZenonT(60), <2>3, <3>4, PollAssumption DEF Bumping
      <4> QED
        BY ZenonT(60), <2>1, <3>1, <3>2, <3>3, <4>1 DEF Known
    <3>5. CASE h = f
      <4>1. t \in poller[h] => wchg'[t]
        BY Zenon, <2>3, <3>5
      <4> QED
        BY Zenon, <2>1, <3>1, <3>2, <3>3, <4>1 DEF Known
    <3> QED
      BY Zenon, <3>4, <3>5
  <2>7. \A t \in Poller : pc'[t] = pc[t]
    BY ZenonT(60), <1>0, <2>3, PollAssumption
  <2> QED
    BY Zenon, <2>1, <2>2, <2>4, <2>5, <2>6, <2>7, WakerStep
<1>4. CASE Unblock(w)
  <2>1. /\ pc[w] = "unb" /\ pc' = [pc EXCEPT ![w] = "seq"]
        /\ told' = [told EXCEPT ![w] = {}]
        /\ state' = Unblocked(told[w])
        /\ UNCHANGED <<oncpu, ready, poller, g_slots, g_nwait, g_lock, wchg, gchg, todo, cur, hit, legacy,
                       timed, over, pend>>
    BY Zenon, <1>4 DEF Unblock
  <2>2. /\ state' \in [Task -> TaskState]
        /\ \A u \in Task : state'[u] = "BLOCKED" => state[u] = "BLOCKED" /\ u \notin told[w]
    BY Zenon, <1>0, <2>1, UnblockedType
  <2>3. TypeOK'
    BY Zenon, <1>0, <2>1, <2>2 DEF TypeOK, SchedTypeOK, WakePlace
  <2>4. /\ pc'[w] = "seq" /\ told'[w] = {}
        /\ \A u \in Task : u # w => pc'[u] = pc[u]
        /\ \A v \in Waker : v # w => told'[v] = told[v]
    BY Zenon, <1>0, <2>1 DEF TypeOK
  <2>5. CurOk'
    BY ZenonT(60), <1>0, <2>1, <2>4, PollAssumption DEF CurOk
  <2>6. ASSUME NEW t \in Poller PROVE Placed(t)'
    <3>1. Placed(t) /\ pc'[t] = pc[t] /\ t \in Task
      BY Zenon, <1>0, <2>4, PollAssumption DEF Inv
    <3>2. state'[t] = "BLOCKED" /\ (\E v \in Waker : t \in told[v]) => \E v \in Waker : t \in told'[v]
      BY Zenon, <2>2, <2>4, <3>1
    <3>3. state'[t] = "BLOCKED" => state[t] = "BLOCKED"
      BY Zenon, <2>2, <3>1
    <3> QED
      BY Zenon, <2>1, <3>1, <3>2, <3>3 DEF Placed
  <2>7. ASSUME NEW t \in Poller, NEW h \in Want[t] PROVE Known(t, h)'
    <3>1. Known(t, h) /\ pc'[t] = pc[t]
      BY Zenon, <1>0, <2>4, PollAssumption DEF Inv
    <3>2. Bumping(h) => Bumping(h)'
      BY Zenon, <2>1, <2>4, PollAssumption DEF Bumping
    <3> QED
      BY Zenon, <2>1, <3>1, <3>2 DEF Known
  <2>8. \A t \in Poller : pc'[t] = pc[t]
    BY Zenon, <1>0, <2>4, PollAssumption
  <2> QED
    BY ZenonT(60), <2>1, <2>3, <2>5, <2>6, <2>7, <2>8, WakerStep
<1>5. CASE NotifySeq(w) \/ NotifyCount(w) \/ NotifyAll(w)
  <2>1. /\ pc[w] \in {"seq", "cnt", "all"}
        /\ \E q \in {"cnt", "idle", "all"} : pc' = [pc EXCEPT ![w] = q]
        /\ UNCHANGED <<oncpu, ready, poller, g_nwait, g_lock, wchg, todo, cur, hit, legacy, over, pend, told>>
    BY Zenon, <1>5 DEF NotifySeq, NotifyCount, NotifyAll
  <2>2. /\ gchg' \in [Poller -> BOOLEAN] /\ timed' \in [Poller -> BOOLEAN]
        /\ g_slots' \subseteq g_slots
    BY ZenonT(60), <1>0, <1>5 DEF NotifySeq, NotifyCount, NotifyAll, TypeOK
  <2>3. /\ state' \in [Task -> TaskState]
        /\ \A u \in Poller : state'[u] = "BLOCKED" => state[u] = "BLOCKED" /\ timed'[u] = timed[u]
    <3>1. CASE NotifySeq(w) \/ NotifyCount(w)
      BY Zenon, <1>0, <3>1 DEF NotifySeq, NotifyCount, TypeOK, SchedTypeOK
    <3>2. CASE NotifyAll(w)
      <4>1. /\ state' = Unblocked(g_slots)
            /\ timed' = [t \in Poller |-> timed[t] /\ t \notin g_slots]
        BY Zenon, <3>2 DEF NotifyAll
      <4>2. /\ state' \in [Task -> TaskState]
            /\ \A u \in Poller : state'[u] = "BLOCKED" => state[u] = "BLOCKED" /\ u \notin g_slots
        BY Zenon, <1>0, <4>1, UnblockedType, PollAssumption
      <4>3. \A u \in Poller : u \notin g_slots => timed'[u] = timed[u]
        BY Zenon, <1>0, <4>1 DEF TypeOK
      <4> QED
        BY Zenon, <4>2, <4>3
    <3> QED
      BY Zenon, <1>5, <3>1, <3>2
  <2>4. TypeOK'
    BY ZenonT(60), <1>0, <2>1, <2>2, <2>3 DEF TypeOK, SchedTypeOK, WakePlace
  <2>5. /\ pc'[w] \in {"cnt", "idle", "all"}
        /\ \A u \in Task : u # w => pc'[u] = pc[u]
    BY Zenon, <1>0, <2>1 DEF TypeOK
  <2>6. CurOk'
    BY Zenon, <1>0, <2>1, <2>5, PollAssumption DEF CurOk
  <2>7. ASSUME NEW t \in Poller PROVE Placed(t)'
    <3>1. Placed(t) /\ pc'[t] = pc[t]
      BY Zenon, <1>0, <2>5, PollAssumption DEF Inv
    <3> QED
      BY Zenon, <2>1, <2>2, <2>3, <3>1 DEF Placed
  <2>8. ASSUME NEW t \in Poller, NEW h \in Want[t] PROVE Known(t, h)'
    <3>1. Known(t, h) /\ pc'[t] = pc[t]
      BY Zenon, <1>0, <2>5, PollAssumption DEF Inv
    <3>2. Bumping(h) => Bumping(h)'
      BY Zenon, <2>1, <2>5, PollAssumption DEF Bumping
    <3> QED
      BY Zenon, <2>1, <3>1, <3>2 DEF Known
  <2>9. \A t \in Poller : pc'[t] = pc[t]
    BY Zenon, <1>0, <2>5, PollAssumption
  <2> QED
    BY Zenon, <2>1, <2>4, <2>6, <2>7, <2>8, <2>9, WakerStep
<1> QED
  BY Zenon, <1>1, <1>2, <1>3, <1>4, <1>5 DEF Wakes

(* Every step keeps the invariant. *)
LEMMA InvNext == Inv /\ [Next]_vars => Inv'
<1>1. ASSUME Inv, UNCHANGED vars PROVE Inv'
  BY <1>1 DEF vars, schedVars, tabVars, seqVars, callVars, timeVars, Inv, TypeOK, SchedTypeOK, CurOk,
              Placed, Known, Bumping, Slotted
<1>2. ASSUME Inv, Next PROVE Inv'
  BY Zenon, <1>2, PollsStep, OutsideStep, WakesStep DEF Next
<1> QED
  BY ZenonT(60), <1>1, <1>2

(* The invariant holds throughout. *)
LEMMA InvAlways == Spec => []Inv
BY InvInit, InvNext, PTL DEF Spec

(* The kernel's poll state always has its type, whatever the sizes. *)
THEOREM PollTypes == Spec => []TypeOK
<1>1. Inv => TypeOK
  BY Zenon DEF Inv
<1> QED
  BY <1>1, InvAlways, PTL

(* A poller that sleeps although one of its files is ready will be woken:  *)
(* by a tick, by a waker that already took it off the queue, or by one     *)
(* that has yet to look at the queue (vfs_poll_wait registers before it    *)
(* asks, and the counters are read before that).                           *)
THEOREM PollsNotLost == Spec => []NoLostPoll
<1>1. ASSUME Inv PROVE NoLostPoll
  <2> SUFFICES ASSUME NEW t \in Poller, pc[t] = "slp", state[t] = "BLOCKED",
                      NEW f \in Want[t], ready[f]
               PROVE  timed[t] \/ \E w \in Waker : t \in told[w] \/ (pc[w] = "bump" /\ cur[w] = f)
    BY Zenon DEF NoLostPoll
  <2>1. Placed(t) /\ Known(t, f)
    BY Zenon, <1>1 DEF Inv
  <2>2. ~hit[t] /\ todo[t] = {}
    BY Zenon, <2>1 DEF Placed
  <2>3. wchg[t] \/ legacy[t] \/ Bumping(f)
    BY Zenon, <2>1, <2>2 DEF Known, Scanning
  <2> QED
    BY Zenon, <2>1, <2>3 DEF Placed, Bumping
<1> QED
  BY <1>1, InvAlways, PTL

(* Wait queues and slots refer only to tasks inside poll, and g_nwait is   *)
(* the number of tasks that took the slow path and have yet to leave it.   *)
THEOREM AlwaysRegistered == Spec => []Registered
<1>1. Inv => Registered
  BY Zenon DEF Inv, Registered, Placed, Slotted, Sleeping
<1> QED
  BY <1>1, InvAlways, PTL
=============================================================================
