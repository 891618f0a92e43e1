----------------------------- MODULE PipeProofs -----------------------------
(***************************************************************************)
(* No wake-up is lost on a pipe, for any number of readers and writers,    *)
(* any buffer size and any number of waiter slots.                         *)
(***************************************************************************)
EXTENDS Pipe, Integers, FiniteSetTheorems, TLAPS

Shape == /\ state \in [Task -> TaskState]
         /\ used \in Nat /\ used <= PIPE_BUFSZ
         /\ readers \in Int /\ writers \in Int
         /\ wait \in [{"r", "w"} -> [Slot -> Task \cup {NoTask}]]
         /\ timed \in [Task -> BOOLEAN]
         /\ len \in [Task -> Nat]
         /\ done \in [Task -> Nat]
         /\ pc \in [Task -> {"out", "rd", "wr", "slp", "drp", "end"}]

(* Only readers read and only writers write. *)
PlaceOk == \A t \in Task : /\ pc[t] = "rd" => t \in Reader
                           /\ pc[t] = "wr" => t \in Writer
                           /\ pc[t] \in {"slp", "drp"} => t \in Reader \/ t \in Writer

Asleep(t) == pc[t] = "slp" /\ state[t] = "BLOCKED"
InList(t) == \E i \in Slot : wait[side(t)][i] = t
Justified(t) == \/ timed[t]
                \/ t \in Reader /\ used = 0 /\ writers > 0
                \/ t \in Writer /\ PIPE_BUFSZ - used < need(t) /\ readers > 0

(* A sleeper without a time-out is on the list that wake_all empties. *)
Held == \A t \in Task : Asleep(t) => (timed[t] \/ InList(t)) /\ Justified(t)

Inv == Shape /\ PlaceOk /\ Held

(* Both ends are open and the pipe is empty. *)
LEMMA InvInit == Init => Inv
<1> SUFFICES ASSUME Init PROVE Inv
  BY Zenon
<1>1. Cardinality(Reader) \in Nat /\ Cardinality(Writer) \in Nat
  BY Zenon, PipeAssumption, FS_Subset, FS_CardinalityType
<1>2. Shape
  BY <1>1, PipeAssumption DEF Init, SchedInit, Shape, TaskState, Slot
<1>3. PlaceOk /\ Held
  BY Zenon DEF Init, SchedInit, PlaceOk, Held, Asleep
<1> QED
  BY Zenon, <1>2, <1>3 DEF Inv

(* A step that puts nobody to sleep, takes no sleeper off its list and     *)
(* leaves the ring and the counts alone.                                   *)
LEMMA Quiet ==
    ASSUME Inv, Shape', PlaceOk', UNCHANGED <<used, readers, writers>>,
           \A t \in Task : Asleep(t)' => /\ Asleep(t)
                                         /\ timed'[t] = timed[t]
                                         /\ len'[t] = len[t] /\ done'[t] = done[t]
                                         /\ InList(t) => InList(t)'
    PROVE  Inv'
BY Zenon DEF Inv, Held, Justified, need

(* A step of task t that is not asleep after it and changes nobody else.   *)
LEMMA Alone ==
    ASSUME Inv, NEW t \in Task, Shape', UNCHANGED <<used, readers, writers>>,
           ~Asleep(t)',
           pc'[t] = "rd" => t \in Reader, pc'[t] = "wr" => t \in Writer,
           pc'[t] \in {"slp", "drp"} => t \in Reader \/ t \in Writer,
           \A u \in Task : u # t => /\ pc'[u] = pc[u] /\ timed'[u] = timed[u]
                                    /\ len'[u] = len[u] /\ done'[u] = done[u]
                                    /\ state'[u] = state[u]
                                    /\ InList(u) => InList(u)'
    PROVE  Inv'
<1>1. PlaceOk'
  BY Zenon DEF Inv, PlaceOk
<1>2. \A u \in Task : Asleep(u)' => u # t /\ Asleep(u)
  BY Zenon DEF Asleep
<1> QED
  BY Zenon, <1>1, <1>2, Quiet

(* What wake_all does to a sleeper. *)
LEMMA Woken ==
    ASSUME Inv, NEW S \in SUBSET {"r", "w"}, wake_all(S)
    PROVE  /\ state' \in [Task -> TaskState]
           /\ wait' \in [{"r", "w"} -> [Slot -> Task \cup {NoTask}]]
           /\ \A u \in Task : state'[u] = "BLOCKED" =>
                 /\ state[u] = "BLOCKED"
                 /\ InList(u) => side(u) \notin S /\ InList(u)'
<1>1. /\ state \in [Task -> TaskState] /\ wait \in [{"r", "w"} -> [Slot -> Task \cup {NoTask}]]
  BY Zenon DEF Inv, Shape
<1>2. state' \in [Task -> TaskState]
  BY Zenon, <1>1 DEF wake_all, Unblocked, TaskState
<1>3. wait' \in [{"r", "w"} -> [Slot -> Task \cup {NoTask}]]
  BY Zenon, <1>1 DEF wake_all, Empty
<1>4. ASSUME NEW u \in Task, state'[u] = "BLOCKED"
      PROVE  state[u] = "BLOCKED" /\ \A e \in S : u \notin Listed(e)
  BY Zenon, <1>1, <1>4 DEF wake_all, Unblocked
<1>5. ASSUME NEW u \in Task, state'[u] = "BLOCKED", InList(u)
      PROVE  side(u) \notin S /\ InList(u)'
  <2>1. PICK i \in Slot : wait[side(u)][i] = u
    BY Zenon, <1>5 DEF InList
  <2>2. u \in Listed(side(u))
    BY Zenon, <2>1, PipeAssumption DEF Listed
  <2>3. side(u) \notin S
    BY Zenon, <1>4, <1>5, <2>2
  <2>4. side(u) \in {"r", "w"}
    BY Zenon DEF side
  <2>5. wait'[side(u)] = wait[side(u)]
    BY Zenon, <2>3, <2>4 DEF wake_all
  <2> QED
    BY Zenon, <2>1, <2>3, <2>5 DEF InList, side
<1> QED
  BY Zenon, <1>2, <1>3, <1>4, <1>5

(* block_on: the task sleeps on its list or with a time-out. *)
LEMMA Blocks ==
    ASSUME Inv, NEW t \in Task, block_on(t), pc[t] \in {"rd", "wr"}, t \in Reader \/ t \in Writer,
           UNCHANGED <<used, readers, writers, len, done>>,
           \/ t \in Reader /\ used = 0 /\ writers > 0
           \/ t \in Writer /\ PIPE_BUFSZ - used < need(t) /\ readers > 0
    PROVE  Inv'
<1>1. Shape
  BY Zenon DEF Inv
<1>2. /\ pc' = [pc EXCEPT ![t] = "slp"] /\ state' = [state EXCEPT ![t] = "BLOCKED"]
  BY Zenon DEF block_on, Goto, SetBlocked
<1>3. side(t) \in {"r", "w"}
  BY Zenon DEF side
<1>4. /\ wait' \in [{"r", "w"} -> [Slot -> Task \cup {NoTask}]]
      /\ timed' \in [Task -> BOOLEAN]
      /\ timed'[t] \/ InList(t)'
      /\ \A u \in Task : u # t => timed'[u] = timed[u] /\ (InList(u) => InList(u)')
  <2>1. CASE t \in Listed(side(t)) /\ UNCHANGED <<wait, timed>>
    BY Zenon, <1>1, <2>1 DEF Shape, InList, Listed, side
  <2>2. ASSUME NEW i \in Slot, wait[side(t)][i] = NoTask,
               wait' = [wait EXCEPT ![side(t)][i] = t], UNCHANGED timed
        PROVE  <1>4!1 /\ <1>4!2 /\ <1>4!3 /\ <1>4!4
    <3>1. wait' \in [{"r", "w"} -> [Slot -> Task \cup {NoTask}]]
      BY Zenon, <1>1, <1>3, <2>2 DEF Shape
    <3>2. wait'[side(t)][i] = t
      BY Zenon, <1>1, <1>3, <2>2 DEF Shape
    <3>3. \A e \in {"r", "w"}, j \in Slot : wait[e][j] # NoTask => wait'[e][j] = wait[e][j]
      BY Zenon, <1>1, <1>3, <2>2 DEF Shape
    <3>4. InList(t)'
      BY Zenon, <3>2 DEF InList, side
    <3>5. \A u \in Task : InList(u) => InList(u)'
      BY Zenon, <3>3, PipeAssumption DEF InList, side
    <3> QED
      BY Zenon, <1>1, <2>2, <3>1, <3>4, <3>5 DEF Shape
  <2>3. CASE timed' = [timed EXCEPT ![t] = TRUE] /\ UNCHANGED wait
    BY Zenon, <1>1, <2>3 DEF Shape, InList, side
  <2> QED
    BY Zenon, <2>1, <2>2, <2>3 DEF block_on
<1>5. Shape'
  BY Zenon, <1>1, <1>2, <1>4 DEF Shape, TaskState
<1>6. PlaceOk'
  BY Zenon, <1>1, <1>2 DEF Inv, PlaceOk, Shape
<1>7. Justified(t)'
  BY Zenon DEF Justified, need
<1>8. \A u \in Task : u # t => (Asleep(u)' => Asleep(u))
  BY Zenon, <1>1, <1>2 DEF Asleep, Shape
<1>9. Held'
  BY Zenon, <1>4, <1>7, <1>8 DEF Inv, Held, Justified, need
<1> QED
  BY Zenon, <1>5, <1>6, <1>9 DEF Inv
(* The call returns and nothing else changes. *)
LEMMA Done ==
    ASSUME Inv, NEW t \in Task,
           pc' = [pc EXCEPT ![t] = "out"], len' = [len EXCEPT ![t] = 0], done' = [done EXCEPT ![t] = 0],
           UNCHANGED <<used, readers, writers, wait, state, timed>>
    PROVE  Inv'
<1>1. Shape
  BY Zenon DEF Inv
<1>2. Shape'
  BY Zenon, <1>1 DEF Shape
<1>3. pc'[t] = "out" /\ ~Asleep(t)'
  BY Zenon, <1>1 DEF Shape, Asleep
<1>4. \A u \in Task : u # t => /\ pc'[u] = pc[u] /\ timed'[u] = timed[u]
                               /\ len'[u] = len[u] /\ done'[u] = done[u]
                               /\ state'[u] = state[u]
                               /\ InList(u) => InList(u)'
  BY Zenon, <1>1 DEF Shape, InList, side
<1> QED
  BY Zenon, <1>2, <1>3, <1>4, Alone

(* A reader keeps the invariant, *)
LEMMA ReadStep ==
    ASSUME Inv, NEW t \in Task, Read(t)
    PROVE  Inv'
<1>1. Shape
  BY Zenon DEF Inv
<1>2. /\ pc' = [pc EXCEPT ![t] = "out"] /\ len' = [len EXCEPT ![t] = 0] /\ done' = [done EXCEPT ![t] = 0]
      /\ used' = used - Min(len[t], used)
      /\ wake_all({"w"})
      /\ UNCHANGED <<readers, writers, timed>>
  BY Zenon DEF Read, Returns, Goto
<1>3. /\ state' \in [Task -> TaskState]
      /\ wait' \in [{"r", "w"} -> [Slot -> Task \cup {NoTask}]]
      /\ \A u \in Task : state'[u] = "BLOCKED" =>
            /\ state[u] = "BLOCKED"
            /\ InList(u) => side(u) # "w" /\ InList(u)'
  BY Zenon, <1>2, Woken
<1>4. used' \in Nat /\ used' <= used /\ (used = 0 => used' = 0)
  BY <1>1, <1>2 DEF Shape, Min
<1>5. Shape'
  <2>1. /\ pc' \in [Task -> {"out", "rd", "wr", "slp", "drp", "end"}]
        /\ len' \in [Task -> Nat] /\ done' \in [Task -> Nat] /\ timed' \in [Task -> BOOLEAN]
        /\ readers' \in Int /\ writers' \in Int
    BY Zenon, <1>1, <1>2 DEF Shape
  <2>2. used' <= PIPE_BUFSZ
    BY <1>1, <1>4, PipeAssumption DEF Shape
  <2> QED
    BY Zenon, <1>3, <1>4, <2>1, <2>2 DEF Shape
<1>6. PlaceOk'
  BY Zenon, <1>1, <1>2 DEF Inv, PlaceOk, Shape
<1>7. ASSUME NEW u \in Task, Asleep(u)' PROVE (timed'[u] \/ InList(u)') /\ Justified(u)'
  <2>1. u # t /\ Asleep(u)
    BY Zenon, <1>1, <1>2, <1>3, <1>7 DEF Asleep, Shape
  <2>2. (timed[u] \/ InList(u)) /\ Justified(u)
    BY Zenon, <2>1 DEF Inv, Held
  <2>3. timed'[u] = timed[u] /\ (InList(u) => InList(u)' /\ side(u) # "w")
    BY Zenon, <1>2, <1>3, <1>7 DEF Asleep
  <2>4. CASE timed[u]
    BY Zenon, <2>3, <2>4 DEF Justified
  <2>5. CASE ~timed[u]
    <3>1. u \in Reader
      BY Zenon, <2>2, <2>3, <2>5 DEF side
    <3>2. used = 0 /\ writers > 0
      BY Zenon, <2>2, <2>5, <3>1, PipeAssumption DEF Justified
    <3> QED
      BY Zenon, <1>2, <1>4, <2>2, <2>3, <2>5, <3>1, <3>2 DEF Justified
  <2> QED
    BY Zenon, <2>4, <2>5
<1> QED
  BY Zenon, <1>5, <1>6, <1>7 DEF Inv, Held

(* a writer does, *)
LEMMA WriteStep ==
    ASSUME Inv, NEW t \in Task, Write(t)
    PROVE  Inv'
<1>1. Shape
  BY Zenon DEF Inv
<1>2. /\ done' = [done EXCEPT ![t] = done[t] + Min(len[t] - done[t], PIPE_BUFSZ - used)]
      /\ used' = used + Min(len[t] - done[t], PIPE_BUFSZ - used)
      /\ wake_all({"r"}) /\ done[t] < len[t] /\ pc[t] = "wr"
      /\ UNCHANGED <<readers, writers, timed, len, pc>>
  BY Zenon DEF Write, At
<1>3. /\ state' \in [Task -> TaskState]
      /\ wait' \in [{"r", "w"} -> [Slot -> Task \cup {NoTask}]]
      /\ \A u \in Task : state'[u] = "BLOCKED" =>
            /\ state[u] = "BLOCKED"
            /\ InList(u) => side(u) # "r" /\ InList(u)'
  BY Zenon, <1>2, Woken
<1>4. /\ used' \in Nat /\ used <= used' /\ used' <= PIPE_BUFSZ
      /\ Min(len[t] - done[t], PIPE_BUFSZ - used) \in Nat
  BY <1>1, <1>2, PipeAssumption DEF Shape, Min
<1>5. Shape'
  <2>1. /\ pc' \in [Task -> {"out", "rd", "wr", "slp", "drp", "end"}]
        /\ len' \in [Task -> Nat] /\ timed' \in [Task -> BOOLEAN]
        /\ readers' \in Int /\ writers' \in Int
    BY Zenon, <1>1, <1>2 DEF Shape
  <2>2. done' \in [Task -> Nat]
    BY <1>1, <1>2, <1>4 DEF Shape
  <2> QED
    BY Zenon, <1>3, <1>4, <2>1, <2>2 DEF Shape
<1>6. PlaceOk'
  BY Zenon, <1>2 DEF Inv, PlaceOk
<1>7. ASSUME NEW u \in Task, Asleep(u)' PROVE (timed'[u] \/ InList(u)') /\ Justified(u)'
  <2>1. u # t /\ Asleep(u)
    BY Zenon, <1>2, <1>3, <1>7 DEF Asleep
  <2>2. (timed[u] \/ InList(u)) /\ Justified(u)
    BY Zenon, <2>1 DEF Inv, Held
  <2>3. timed'[u] = timed[u] /\ (InList(u) => InList(u)' /\ side(u) # "r")
    BY Zenon, <1>2, <1>3, <1>7 DEF Asleep
  <2>4. CASE timed[u]
    BY Zenon, <2>3, <2>4 DEF Justified
  <2>5. CASE ~timed[u]
    <3>1. u \notin Reader
      BY Zenon, <2>2, <2>3, <2>5 DEF side
    <3>2. u \in Writer /\ PIPE_BUFSZ - used < need(u) /\ readers > 0
      BY Zenon, <2>2, <2>5, <3>1 DEF Justified
    <3>3. need(u)' = need(u) /\ need(u) \in Int
      BY <1>1, <1>2, <2>1 DEF need, Shape
    <3>4. PIPE_BUFSZ - used' < need(u)'
      BY <1>1, <1>4, <3>2, <3>3, PipeAssumption DEF Shape
    <3> QED
      BY Zenon, <1>2, <2>2, <2>3, <2>5, <3>2, <3>4 DEF Justified
  <2> QED
    BY Zenon, <2>4, <2>5
<1> QED
  BY Zenon, <1>5, <1>6, <1>7 DEF Inv, Held

(* the close of either end does, *)
LEMMA CloseStep ==
    ASSUME Inv, NEW t \in Task, Close(t)
    PROVE  Inv'
<1>1. Shape
  BY Zenon DEF Inv
<1> DEFINE S == (IF readers' = 0 THEN {"w"} ELSE {}) \cup (IF writers' = 0 THEN {"r"} ELSE {})
<1>2. /\ pc' = [pc EXCEPT ![t] = "end"]
      /\ readers' = IF t \in Reader THEN readers - 1 ELSE readers
      /\ writers' = IF t \in Writer THEN writers - 1 ELSE writers
      /\ wake_all(S)
      /\ UNCHANGED <<used, timed, len, done>>
  BY Zenon DEF Close, Goto, ringVars, callVars
<1>3. S \in SUBSET {"r", "w"}
  BY Zenon
<1>4. /\ readers' = 0 => "w" \in S
      /\ writers' = 0 => "r" \in S
  BY Zenon
<1> HIDE DEF S
<1>5. /\ state' \in [Task -> TaskState]
      /\ wait' \in [{"r", "w"} -> [Slot -> Task \cup {NoTask}]]
      /\ \A u \in Task : state'[u] = "BLOCKED" =>
            /\ state[u] = "BLOCKED"
            /\ InList(u) => side(u) \notin S /\ InList(u)'
  BY Zenon, <1>2, <1>3, Woken
<1>6. Shape'
  <2>1. /\ pc' \in [Task -> {"out", "rd", "wr", "slp", "drp", "end"}]
        /\ len' \in [Task -> Nat] /\ done' \in [Task -> Nat] /\ timed' \in [Task -> BOOLEAN]
        /\ used' \in Nat /\ used' <= PIPE_BUFSZ
    BY Zenon, <1>1, <1>2 DEF Shape
  <2>2. readers' \in Int /\ writers' \in Int
    BY <1>1, <1>2 DEF Shape
  <2> QED
    BY Zenon, <1>5, <2>1, <2>2 DEF Shape
<1>7. PlaceOk'
  BY Zenon, <1>1, <1>2 DEF Inv, PlaceOk, Shape
<1>8. ASSUME NEW u \in Task, Asleep(u)' PROVE (timed'[u] \/ InList(u)') /\ Justified(u)'
  <2>1. u # t /\ Asleep(u)
    BY Zenon, <1>1, <1>2, <1>5, <1>8 DEF Asleep, Shape
  <2>2. (timed[u] \/ InList(u)) /\ Justified(u)
    BY Zenon, <2>1 DEF Inv, Held
  <2>3. timed'[u] = timed[u] /\ (InList(u) => InList(u)' /\ side(u) \notin S)
    BY Zenon, <1>2, <1>5, <1>8 DEF Asleep
  <2>4. CASE timed[u]
    BY Zenon, <2>3, <2>4 DEF Justified
  <2>5. CASE ~timed[u] /\ u \in Reader
    <3>1. side(u) = "r"
      BY Zenon, <2>5 DEF side
    <3>2. used = 0 /\ writers > 0
      BY Zenon, <2>2, <2>5, PipeAssumption DEF Justified
    <3>3. writers' # 0
      BY Zenon, <1>4, <2>2, <2>3, <2>5, <3>1
    <3>4. writers' > 0
      BY <1>1, <1>2, <3>2, <3>3 DEF Shape
    <3> QED
      BY Zenon, <1>2, <2>2, <2>3, <2>5, <3>2, <3>4 DEF Justified
  <2>6. CASE ~timed[u] /\ u \notin Reader
    <3>1. side(u) = "w"
      BY Zenon, <2>6 DEF side
    <3>2. u \in Writer /\ PIPE_BUFSZ - used < need(u) /\ readers > 0
      BY Zenon, <2>2, <2>6 DEF Justified
    <3>3. readers' # 0
      BY Zenon, <1>4, <2>2, <2>3, <2>6, <3>1
    <3>4. readers' > 0
      BY <1>1, <1>2, <3>2, <3>3 DEF Shape
    <3>5. need(u)' = need(u)
      BY Zenon, <1>2 DEF need
    <3> QED
      BY Zenon, <1>2, <2>2, <2>3, <2>6, <3>2, <3>4, <3>5 DEF Justified
  <2> QED
    BY Zenon, <2>4, <2>5, <2>6
<1> QED
  BY Zenon, <1>6, <1>7, <1>8 DEF Inv, Held

(* and so does a woken task that leaves its wait slot. *)
LEMMA DropStep ==
    ASSUME Inv, NEW t \in Task, Drop(t)
    PROVE  Inv'
<1>1. Shape
  BY Zenon DEF Inv
<1>2. /\ pc' = [pc EXCEPT ![t] = IF t \in Reader THEN "rd" ELSE "wr"]
      /\ wait' = [wait EXCEPT ![side(t)] = [i \in Slot |-> IF wait[side(t)][i] = t THEN NoTask
                                                          ELSE wait[side(t)][i]]]
      /\ UNCHANGED <<state, used, readers, writers, timed, len, done>>
  BY Zenon DEF Drop, Goto, schedVars, ringVars, callVars
<1>3. side(t) \in {"r", "w"}
  BY Zenon DEF side
<1>4. wait' \in [{"r", "w"} -> [Slot -> Task \cup {NoTask}]]
  BY <1>1, <1>2, <1>3 DEF Shape
<1>5. Shape'
  BY Zenon, <1>1, <1>2, <1>4 DEF Shape
<1>6. \A u \in Task : u # t => (InList(u) => InList(u)')
  BY <1>1, <1>2, <1>3 DEF Shape, InList, side
<1>7. pc'[t] = (IF t \in Reader THEN "rd" ELSE "wr") /\ ~Asleep(t)'
  BY Zenon, <1>1, <1>2 DEF Shape, Asleep
<1>9. t \in Reader \/ t \in Writer
  BY Zenon DEF Inv, PlaceOk, Drop, At
<1>8. \A u \in Task : u # t => pc'[u] = pc[u]
  BY Zenon, <1>1, <1>2 DEF Shape
<1> QED
  BY <1>2, <1>5, <1>6, <1>7, <1>8, <1>9, Alone

(* Every step keeps the invariant. *)
LEMMA InvNext == Inv /\ [Next]_vars => Inv'
<1> SUFFICES ASSUME Inv, [Next]_vars PROVE Inv'
  BY Zenon
<1> USE DEF Goto, At, Returns, schedVars, ringVars, callVars
<1>1. Shape
  BY Zenon DEF Inv
<1>2. PlaceOk
  BY Zenon DEF Inv
<1>3. CASE UNCHANGED vars
  BY ZenonT(60), <1>3 DEF vars, Inv, Shape, PlaceOk, Held, Asleep, InList, Justified, need
<1>4. ASSUME NEW t \in Task, Step(t) PROVE Inv'
  <2>1. CASE ReadNothing(t)
    <3>1. /\ pc' = [pc EXCEPT ![t] = "out"] /\ len' = [len EXCEPT ![t] = 0] /\ done' = [done EXCEPT ![t] = 0]
          /\ UNCHANGED <<used, readers, writers, wait, state, timed>>
      BY Zenon, <2>1 DEF ReadNothing
    <3> QED
      BY Zenon, <3>1, Done
  <2>2. CASE WriteDone(t)
    <3>1. /\ pc' = [pc EXCEPT ![t] = "out"] /\ len' = [len EXCEPT ![t] = 0] /\ done' = [done EXCEPT ![t] = 0]
          /\ UNCHANGED <<used, readers, writers, wait, state, timed>>
      BY Zenon, <2>2 DEF WriteDone
    <3> QED
      BY Zenon, <3>1, Done
  <2>3. CASE WritePipe(t)
    <3>1. /\ pc' = [pc EXCEPT ![t] = "out"] /\ len' = [len EXCEPT ![t] = 0] /\ done' = [done EXCEPT ![t] = 0]
          /\ UNCHANGED <<used, readers, writers, wait, state, timed>>
      BY Zenon, <2>3 DEF WritePipe
    <3> QED
      BY Zenon, <3>1, Done
  <2>4. CASE WriteStop(t)
    <3>1. /\ pc' = [pc EXCEPT ![t] = "out"] /\ len' = [len EXCEPT ![t] = 0] /\ done' = [done EXCEPT ![t] = 0]
          /\ UNCHANGED <<used, readers, writers, wait, state, timed>>
      BY Zenon, <2>4 DEF WriteStop
    <3> QED
      BY Zenon, <3>1, Done
  <2>5. CASE ReadBlock(t)
    <3>1. pc[t] = "rd" /\ t \in Reader
      BY Zenon, <1>2, <2>5 DEF ReadBlock, PlaceOk
    <3> QED
      BY Zenon, <2>5, <3>1, Blocks DEF ReadBlock
  <2>6. CASE WriteBlock(t)
    <3>1. pc[t] = "wr" /\ t \in Writer
      BY Zenon, <1>2, <2>6 DEF WriteBlock, PlaceOk
    <3> QED
      BY Zenon, <2>6, <3>1, Blocks DEF WriteBlock
  <2>7. CASE Read(t)
    BY Zenon, <2>7, ReadStep
  <2>8. CASE Write(t)
    BY Zenon, <2>8, WriteStep
  <2>9. CASE Resched(t)
    <3>1. /\ pc' = [pc EXCEPT ![t] = "drp"] /\ state' = [state EXCEPT ![t] = "RUNNING"]
          /\ timed' = [timed EXCEPT ![t] = FALSE]
          /\ UNCHANGED <<used, readers, writers, wait, len, done>>
      BY Zenon, <2>9 DEF Resched, ReschedReturns
    <3>2. Shape'
      BY Zenon, <1>1, <3>1 DEF Shape, TaskState
    <3>3. pc'[t] = "drp" /\ ~Asleep(t)'
      BY Zenon, <1>1, <3>1 DEF Shape, Asleep
    <3>5. t \in Reader \/ t \in Writer
      BY Zenon, <1>2, <2>9 DEF PlaceOk, Resched
    <3>4. \A u \in Task : u # t => /\ pc'[u] = pc[u] /\ timed'[u] = timed[u]
                                   /\ len'[u] = len[u] /\ done'[u] = done[u]
                                   /\ state'[u] = state[u]
                                   /\ InList(u) => InList(u)'
      BY ZenonT(60), <1>1, <3>1 DEF Shape, InList, side
    <3> QED
      BY Zenon, <3>1, <3>2, <3>3, <3>4, <3>5, Alone
  <2>10. CASE Drop(t)
    BY Zenon, <2>10, DropStep
  <2> QED
    BY Zenon, <1>4, <2>1, <2>2, <2>3, <2>4, <2>5, <2>6, <2>7, <2>8, <2>9, <2>10 DEF Step
<1>5. ASSUME NEW t \in Task, Close(t) PROVE Inv'
  BY Zenon, <1>5, CloseStep
<1>6. ASSUME NEW t \in Task, Signal(t) \/ Timeout(t) \/ Deliver(t) \/ Schedule(t) PROVE Inv'
  <2>1. UNCHANGED <<used, readers, writers, wait, timed, len, done, pc>>
    BY Zenon, <1>6 DEF Signal, Timeout, Deliver, Schedule
  <2>2. /\ state' \in [Task -> TaskState]
        /\ \A u \in Task : state'[u] = "BLOCKED" => state[u] = "BLOCKED"
    <3>1. CASE task_unblock(t)
      BY Zenon, <1>1, <3>1 DEF Shape, task_unblock, Unblocked, TaskState
    <3>2. CASE UNCHANGED state
      BY Zenon, <1>1, <3>2 DEF Shape
    <3>3. CASE Dispatch(t)
      BY Zenon, <1>1, <3>3 DEF Shape, Dispatch, TaskState
    <3> QED
      BY Zenon, <1>6, <3>1, <3>2, <3>3 DEF Signal, Timeout, Deliver, Schedule, SwitchAway
  <2>3. Shape'
    BY Zenon, <1>1, <2>1, <2>2 DEF Shape
  <2>4. PlaceOk'
    BY Zenon, <1>2, <2>1 DEF PlaceOk
  <2>5. \A u \in Task : (Asleep(u)' => Asleep(u)) /\ (InList(u) => InList(u)')
    BY Zenon, <2>1, <2>2 DEF Asleep, InList, side
  <2> QED
    BY Zenon, <2>1, <2>3, <2>4, <2>5, Quiet
<1>7. ASSUME NEW t \in Task, NEW n \in Nat, NEW p \in {"rd", "wr"}, Call(t, p, n),
             p = "rd" => t \in Reader, p = "wr" => t \in Writer
      PROVE  Inv'
  <2>1. /\ pc' = [pc EXCEPT ![t] = p] /\ len' = [len EXCEPT ![t] = n]
        /\ UNCHANGED <<used, readers, writers, wait, state, timed, done>>
    BY Zenon, <1>7 DEF Call
  <2>2. Shape'
    BY Zenon, <1>1, <2>1 DEF Shape
  <2>3. pc'[t] = p /\ ~Asleep(t)'
    BY Zenon, <1>1, <2>1 DEF Shape, Asleep
  <2>4. \A u \in Task : u # t => /\ pc'[u] = pc[u] /\ timed'[u] = timed[u]
                                 /\ len'[u] = len[u] /\ done'[u] = done[u]
                                 /\ state'[u] = state[u]
                                 /\ InList(u) => InList(u)'
    BY Zenon, <1>1, <2>1 DEF Shape, InList, side
  <2> QED
    BY Zenon, <1>7, <2>1, <2>2, <2>3, <2>4, Alone
<1>8. ASSUME NEW t \in Task, t \in Reader, NEW n \in ReadLen, Call(t, "rd", n) PROVE Inv'
  BY Zenon, <1>7, <1>8, PipeAssumption
<1>9. ASSUME NEW t \in Task, t \in Writer, NEW n \in WriteLen[t], Call(t, "wr", n) PROVE Inv'
  BY Zenon, <1>7, <1>9, PipeAssumption
<1> QED
  BY Zenon, <1>3, <1>4, <1>5, <1>6, <1>8, <1>9 DEF Next

(* No wake-up is lost: whoever sleeps in block_on has a time-out or        *)
(* nothing to be woken for, whatever read, write, close and signal do in   *)
(* which order.                                                            *)
THEOREM WakesNotLost == Spec => []NoLostWake
<1>1. Inv => NoLostWake
  BY Zenon DEF Inv, Held, Asleep, Justified, NoLostWake
<1> QED
  BY <1>1, InvInit, InvNext, PTL DEF Spec
=============================================================================
