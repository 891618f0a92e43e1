-------------------------------- MODULE Pipe --------------------------------
(***************************************************************************)
(* A pipe, or a FIFO that every task here has opened,                      *)
(* src/kernel/src/syscall/io/pipe.c: a ring buffer under ps->lock, readers *)
(* and writers that sleep in block_on until wake_all takes them off their  *)
(* list, and the two counts whose fall to 0 ends a read or a write.        *)
(*                                                                         *)
(* What runs under ps->lock is one step.  pc[t] names where task t is:     *)
(*   out    not in pipe.c                                                  *)
(*   rd wr  before the lock is taken in pipe_read_op, pipe_write_op        *)
(*   slp    in block_on, inside sched_reschedule             (line 81)     *)
(*   drp    in block_on, before the lock is taken again      (line 83)     *)
(*   end    has closed its end                                             *)
(***************************************************************************)
EXTENDS Naturals, Sequences, FiniteSets, SchedAPI

CONSTANTS NoTask,
          Reader, Writer,  \* who has which end open, each through a vnode of its own
          NonBlock,        \* the tasks whose file has O_NONBLOCK
          PIPE_BUFSZ, PIPE_ATOMIC, PIPE_WAITERS,
          ReadLen, WriteLen,  \* the lengths of the calls a task makes
          MaySignal           \* the tasks that are sent signals

ASSUME PipeAssumption ==
    /\ IsFiniteSet(Task) /\ NoTask \notin Task
    /\ Reader \subseteq Task /\ Writer \subseteq Task /\ Reader \cap Writer = {}
    /\ NonBlock \subseteq Task
    /\ PIPE_BUFSZ \in Nat /\ PIPE_ATOMIC \in Nat /\ PIPE_WAITERS \in Nat
    /\ 0 < PIPE_ATOMIC /\ PIPE_ATOMIC <= PIPE_BUFSZ
    /\ ReadLen \subseteq Nat \ {0} /\ WriteLen \in [Writer -> SUBSET (Nat \ {0})]
    /\ MaySignal \subseteq Task

VARIABLES buf, head, used,  \* ps->buf, ps->head, ps->used
          readers, writers, \* ps->readers, ps->writers
          wait,             \* wait["r"]: ps->rwait, wait["w"]: ps->wwait
          timed,            \* timed[t]: wakeup_time_ns is not 0
          pend,             \* pend[t]: a signal is pending
          len, done,        \* the local variables of a call
          pc

ringVars == <<buf, head, used>>
callVars == <<len, done>>
vars == <<schedVars, ringVars, readers, writers, wait, timed, pend, callVars, pc>>

Slot == 1 .. PIPE_WAITERS
Nothing == <<NoTask, 0>>  \* a cell no byte is in

Init == /\ SchedInit
        /\ buf = [i \in 0 .. PIPE_BUFSZ - 1 |-> Nothing]
        /\ head = 0
        /\ used = 0
        /\ readers = Cardinality(Reader)
        /\ writers = Cardinality(Writer)
        /\ wait = [e \in {"r", "w"} |-> [i \in Slot |-> NoTask]]
        /\ timed = [t \in Task |-> FALSE]
        /\ pend = [t \in Task |-> FALSE]
        /\ len = [t \in Task |-> 0]
        /\ done = [t \in Task |-> 0]
        /\ pc = [t \in Task |-> "out"]

Goto(t, p) == pc' = [pc EXCEPT ![t] = p]
At(t, p)   == oncpu[t] /\ pc[t] = p
Min(a, b)  == IF a < b THEN a ELSE b
Empty      == [i \in Slot |-> NoTask]
Listed(e)  == {wait[e][i] : i \in Slot} \ {NoTask}
side(t)    == IF t \in Reader THEN "r" ELSE "w"

(* wake_all on the lists of S.  The pollers it wakes too are the subject   *)
(* of module PollWait.                                                     *)
wake_all(S) == /\ wait' = [e \in {"r", "w"} |-> IF e \in S THEN Empty ELSE wait[e]]
               /\ state' = Unblocked(UNION {Listed(e) : e \in S})
               /\ UNCHANGED oncpu

(* The call returns. *)
Returns(t) == /\ Goto(t, "out")
              /\ len' = [len EXCEPT ![t] = 0]
              /\ done' = [done EXCEPT ![t] = 0]
-----------------------------------------------------------------------------
Call(t, p, n) == /\ At(t, "out")
                 /\ len' = [len EXCEPT ![t] = n]
                 /\ Goto(t, p)
                 /\ UNCHANGED <<schedVars, ringVars, readers, writers, wait, timed, pend, done>>

(* Mutation: the writers that wait for room are not woken. *)
ReadMut(t) == LET n == Min(len[t], used) IN
    /\ At(t, "rd")
    /\ used > 0
    /\ buf' = [i \in DOMAIN buf |-> IF (i + PIPE_BUFSZ - head) % PIPE_BUFSZ < n THEN Nothing ELSE buf[i]]
    /\ head' = (head + n) % PIPE_BUFSZ
    /\ used' = used - n
    /\ wake_all({})
    /\ Returns(t)
    /\ UNCHANGED <<readers, writers, timed, pend>>

(* pipe_read_op: as much as there is, up to len, chunk by chunk around the *)
(* end of the ring.  A cell that was read is cleared: no one reads it      *)
(* again before it is written.                                             *)
Read(t) == LET n == Min(len[t], used) IN
    /\ At(t, "rd")
    /\ used > 0
    /\ buf' = [i \in DOMAIN buf |-> IF (i + PIPE_BUFSZ - head) % PIPE_BUFSZ < n THEN Nothing ELSE buf[i]]
    /\ head' = (head + n) % PIPE_BUFSZ
    /\ used' = used - n
    /\ wake_all({"w"})
    /\ Returns(t)
    /\ UNCHANGED <<readers, writers, timed, pend>>

(* End of file, -EAGAIN or -EINTR. *)
ReadNothing(t) == /\ At(t, "rd")
                  /\ used = 0
                  /\ writers = 0 \/ t \in NonBlock \/ pend[t]
                  /\ Returns(t)
                  /\ UNCHANGED <<schedVars, ringVars, readers, writers, wait, timed, pend>>

(* block_on up to the release of the lock: add_waiter, or a time-out of    *)
(* one millisecond when all slots are taken.                               *)
block_on(t) == LET e == side(t) IN
    /\ \/ /\ t \in Listed(e)
          /\ UNCHANGED <<wait, timed>>
       \/ \E i \in Slot : /\ t \notin Listed(e)
                          /\ wait[e][i] = NoTask
                          /\ \A j \in 1 .. i - 1 : wait[e][j] # NoTask
                          /\ wait' = [wait EXCEPT ![e][i] = t]
                          /\ UNCHANGED timed
       \/ /\ t \notin Listed(e)
          /\ \A i \in Slot : wait[e][i] # NoTask
          /\ timed' = [timed EXCEPT ![t] = TRUE]
          /\ UNCHANGED wait
    /\ SetBlocked(t)
    /\ Goto(t, "slp")
    /\ UNCHANGED oncpu

ReadBlock(t) == /\ At(t, "rd")
                /\ used = 0
                /\ writers > 0
                /\ t \notin NonBlock
                /\ ~pend[t]
                /\ block_on(t)
                /\ UNCHANGED <<ringVars, readers, writers, pend, callVars>>

Resched(t) == /\ At(t, "slp")
              /\ ReschedReturns(t)
              /\ timed' = [timed EXCEPT ![t] = FALSE]
              /\ Goto(t, "drp")
              /\ UNCHANGED <<ringVars, readers, writers, wait, pend, callVars>>

Drop(t) == /\ At(t, "drp")
           /\ wait' = [wait EXCEPT ![side(t)] =
                          [i \in Slot |-> IF @[i] = t THEN NoTask ELSE @[i]]]
           /\ Goto(t, IF t \in Reader THEN "rd" ELSE "wr")
           /\ UNCHANGED <<schedVars, ringVars, readers, writers, timed, pend, callVars>>
-----------------------------------------------------------------------------
(* What a write waits for: room for all of it, or for one byte. *)
need(t) == IF len[t] <= PIPE_ATOMIC THEN len[t] - done[t] ELSE 1

(* Mutation: room for one byte is enough for every write. *)
WriteMut(t) == LET n == Min(len[t] - done[t], PIPE_BUFSZ - used)
                   tail == (head + used) % PIPE_BUFSZ IN
    /\ At(t, "wr")
    /\ done[t] < len[t]
    /\ readers > 0
    /\ PIPE_BUFSZ - used >= 1
    /\ buf' = [i \in DOMAIN buf |-> LET k == (i + PIPE_BUFSZ - tail) % PIPE_BUFSZ IN
                                    IF k < n THEN <<t, done[t] + k + 1>> ELSE buf[i]]
    /\ done' = [done EXCEPT ![t] = @ + n]
    /\ used' = used + n
    /\ wake_all({"r"})
    /\ UNCHANGED <<head, readers, writers, timed, pend, len, pc>>

(* pipe_write_op: as much as fits, once there is room for need. *)
Write(t) == LET n == Min(len[t] - done[t], PIPE_BUFSZ - used)
                tail == (head + used) % PIPE_BUFSZ IN
    /\ At(t, "wr")
    /\ done[t] < len[t]
    /\ readers > 0
    /\ PIPE_BUFSZ - used >= need(t)
    /\ buf' = [i \in DOMAIN buf |-> LET k == (i + PIPE_BUFSZ - tail) % PIPE_BUFSZ IN
                                    IF k < n THEN <<t, done[t] + k + 1>> ELSE buf[i]]
    /\ done' = [done EXCEPT ![t] = @ + n]
    /\ used' = used + n
    /\ wake_all({"r"})
    /\ UNCHANGED <<head, readers, writers, timed, pend, len, pc>>

WriteDone(t) == /\ At(t, "wr")
                /\ done[t] = len[t]
                /\ Returns(t)
                /\ UNCHANGED <<schedVars, ringVars, readers, writers, wait, timed, pend>>

(* No reader: SIGPIPE. *)
WritePipe(t) == /\ At(t, "wr")
                /\ done[t] < len[t]
                /\ readers = 0
                /\ pend' = [pend EXCEPT ![t] = TRUE]
                /\ Returns(t)
                /\ UNCHANGED <<schedVars, ringVars, readers, writers, wait, timed>>

(* -EAGAIN, -EINTR, or what was written so far. *)
WriteStop(t) == /\ At(t, "wr")
                /\ done[t] < len[t]
                /\ readers > 0
                /\ PIPE_BUFSZ - used < need(t)
                /\ t \in NonBlock \/ pend[t]
                /\ Returns(t)
                /\ UNCHANGED <<schedVars, ringVars, readers, writers, wait, timed, pend>>

WriteBlock(t) == /\ At(t, "wr")
                 /\ done[t] < len[t]
                 /\ readers > 0
                 /\ PIPE_BUFSZ - used < need(t)
                 /\ t \notin NonBlock
                 /\ ~pend[t]
                 /\ block_on(t)
                 /\ UNCHANGED <<ringVars, readers, writers, pend, callVars>>
-----------------------------------------------------------------------------
(* Mutation: the readers are not told of the end of file. *)
CloseMut(t) == /\ At(t, "out")
               /\ readers' = IF t \in Reader THEN readers - 1 ELSE readers
               /\ writers' = IF t \in Writer THEN writers - 1 ELSE writers
               /\ wake_all(IF readers' = 0 THEN {"w"} ELSE {})
               /\ Goto(t, "end")
               /\ UNCHANGED <<ringVars, timed, pend, callVars>>

(* pipe_unref_op. *)
Close(t) == /\ At(t, "out")
            /\ readers' = IF t \in Reader THEN readers - 1 ELSE readers
            /\ writers' = IF t \in Writer THEN writers - 1 ELSE writers
            /\ wake_all((IF readers' = 0 THEN {"w"} ELSE {}) \cup (IF writers' = 0 THEN {"r"} ELSE {}))
            /\ Goto(t, "end")
            /\ UNCHANGED <<ringVars, timed, pend, callVars>>

(* signal_send to t: the signal is pending and a sleeper is woken; that    *)
(* no interleaving of the two with a task going to sleep loses it is       *)
(* property KillNotLost of module Sched.                                   *)
Signal(t) == /\ t \in MaySignal
             /\ ~pend[t]
             /\ pend' = [pend EXCEPT ![t] = TRUE]
             /\ task_unblock(t)
             /\ UNCHANGED <<oncpu, ringVars, readers, writers, wait, timed, callVars, pc>>

(* The signal is delivered on the way back to user mode. *)
Deliver(t) == /\ At(t, "out")
              /\ pend[t]
              /\ pend' = [pend EXCEPT ![t] = FALSE]
              /\ UNCHANGED <<schedVars, ringVars, readers, writers, wait, timed, callVars, pc>>

(* The scheduler: the time of a sleeper with a time-out is over, a task    *)
(* leaves its CPU or gets one.                                             *)
Timeout(t) == /\ timed[t]
              /\ state[t] = "BLOCKED"
              /\ task_unblock(t)
              /\ UNCHANGED <<oncpu, ringVars, readers, writers, wait, timed, pend, callVars, pc>>

Schedule(t) == /\ SwitchAway(t) \/ Dispatch(t)
               /\ UNCHANGED <<ringVars, readers, writers, wait, timed, pend, callVars, pc>>

Step(t) == \/ Read(t) \/ ReadNothing(t) \/ ReadBlock(t)
           \/ Write(t) \/ WriteDone(t) \/ WritePipe(t) \/ WriteStop(t) \/ WriteBlock(t)
           \/ Resched(t) \/ Drop(t)

Next == \E t \in Task : \/ t \in Reader /\ \E n \in ReadLen : Call(t, "rd", n)
                        \/ t \in Writer /\ \E n \in WriteLen[t] : Call(t, "wr", n)
                        \/ Step(t) \/ Close(t) \/ Signal(t) \/ Deliver(t)
                        \/ Timeout(t) \/ Schedule(t)

Spec == Init /\ [][Next]_vars

(* A task that may run does, and the tick looks for expired time-outs; no  *)
(* task has to call anything.                                              *)
Fairness == \A t \in Task : WF_vars(Step(t)) /\ WF_vars(Timeout(t)) /\ WF_vars(Schedule(t))
FairSpec == Spec /\ Fairness
-----------------------------------------------------------------------------
TypeOK == /\ SchedTypeOK
          /\ buf \in [0 .. PIPE_BUFSZ - 1 -> (Task \cup {NoTask}) \X Nat]
          /\ head \in 0 .. PIPE_BUFSZ - 1
          /\ used \in 0 .. PIPE_BUFSZ
          /\ readers \in Nat /\ writers \in Nat
          /\ wait \in [{"r", "w"} -> [Slot -> Task \cup {NoTask}]]
          /\ timed \in [Task -> BOOLEAN]
          /\ pend \in [Task -> BOOLEAN]
          /\ len \in [Task -> Nat]
          /\ done \in [Task -> Nat]
          /\ pc \in [Task -> {"out", "rd", "wr", "slp", "drp", "end"}]

(* No wake-up is lost: a reader sleeps although there is something to read,*)
(* or nothing will come any more, only with the time-out of block_on; the  *)
(* same for a writer for which there is room or no reader left.            *)
NoLostWake ==
    \A t \in Task : (pc[t] = "slp" /\ state[t] = "BLOCKED") =>
        \/ timed[t]
        \/ t \in Reader /\ used = 0 /\ writers > 0
        \/ t \in Writer /\ PIPE_BUFSZ - used < need(t) /\ readers > 0

(* The ring is the channel that pipe(2) promises. *)
Length == [t \in Task |-> IF t \in Writer THEN len[t] ELSE 0]
Contents == [i \in 1 .. used |-> buf[(head + i - 1) % PIPE_BUFSZ]]
Chan == INSTANCE Channel WITH Capacity <- PIPE_BUFSZ, Atomic <- PIPE_ATOMIC,
                              content <- Contents, put <- done, length <- Length
InOrder == Chan!ChannelSpec

(* "Once every writer has closed it, the read returns 0", and a write to a *)
(* pipe without a reader returns too: no task sleeps on for ever.          *)
EndSeen == /\ \A t \in Reader : writers = 0 ~> pc[t] \in {"out", "end"}
           /\ \A t \in Writer : readers = 0 ~> pc[t] \in {"out", "end"}
=============================================================================
