------------------------------ MODULE PollWait ------------------------------
(***************************************************************************)
(* poll and select: do_poll of src/kernel/src/syscall/io/poll.c, the poll  *)
(* tables of fs/pollwait.c and the pollers of a wait queue, sched/waitq.c. *)
(*                                                                         *)
(* A poller registers with the wait queue of every file it asks about and  *)
(* sleeps; waitq_wake_all tells the registered pollers, and poll_notify    *)
(* all those that found no place in some queue (legacy).  Nothing is held  *)
(* from the scan of the files to the sleep: the counters poll_wake_seq and *)
(* g_seq, read before the scan, tell whether a wake-up came in between.    *)
(* Only whether a counter moved since it was read matters, so that wchg[t] *)
(* and gchg[t] stand for them.                                             *)
(*                                                                         *)
(* pc[t] of a poller (what is done next):                                  *)
(*   out    not in poll                 beg    read the counters           *)
(*   reg    poll_wait on the next file, see    read its state              *)
(*          or decide after the scan    leg    legacy: take g_lock, test   *)
(*   slot   take a slot, g_lock held    blk    mark itself                 *)
(*   tst    test poll_wake_seq          slp    inside sched_reschedule     *)
(*   nap    inside task_sleep_ns        unl    give the slot back          *)
(*   rel    poll_table_release before another round                        *)
(* pc[w] of a task that changes the state of a file:                       *)
(*   idle   nothing to do               bump   wake_pollers, under plock   *)
(*   unb    still there: task_unblock   seq    poll_notify: g_seq          *)
(*   cnt    poll_notify: test g_nwait   all    poll_notify, under g_lock   *)
(***************************************************************************)
EXTENDS Naturals, FiniteSets, SchedAPI

CONSTANTS NoTask, NoFile, File,
          Poller, Waker,    \* Task is the two together
          Want,             \* Want[t]: the files poller t asks about
          Feeds,            \* Feeds[w]: the files that waker w changes
          NoQueue,          \* the files without a wait queue for pollers
          Finite,           \* the pollers that give a time-out
          MaySignal,        \* the pollers that are sent signals
          WAITQ_POLLERS, POLLWAIT_SLOTS

ASSUME PollAssumption ==
    /\ NoTask \notin Task /\ NoFile \notin File
    /\ Task = Poller \cup Waker /\ Poller \cap Waker = {}
    /\ IsFiniteSet(Poller)
    /\ Want \in [Poller -> SUBSET File]
    /\ Feeds \in [Waker -> SUBSET File] /\ NoQueue \subseteq File
    /\ Finite \subseteq Poller /\ MaySignal \subseteq Poller
    /\ WAITQ_POLLERS \in Nat /\ POLLWAIT_SLOTS \in Nat

VARIABLES ready,     \* ready[f]: what is asked of file f is there
          poller,    \* poller[f]: the tasks in the array of its wait queue
          g_slots,   \* the tasks in the array
          g_nwait, g_lock,
          wchg,      \* wchg[t]: poll_wake_seq moved since wseq was read
          gchg,      \* gchg[t]: g_seq moved since gseq was read
          todo, cur, \* the files not yet scanned, and the one being scanned
          hit,       \* a file was ready
          legacy,    \* pt->legacy
          timed,     \* wakeup_time_ns is not 0
          over,      \* the time-out of the call is over
          pend,      \* a signal is pending
          told,      \* told[w]: whom a waker is about to unblock
          pc

tabVars  == <<poller, g_slots, g_nwait, g_lock>>
seqVars  == <<wchg, gchg>>
callVars == <<todo, cur, hit, legacy>>
timeVars == <<timed, over>>
vars == <<schedVars, ready, tabVars, seqVars, callVars, timeVars, pend, told, pc>>

Init == /\ SchedInit
        /\ ready = [f \in File |-> FALSE]
        /\ poller = [f \in File |-> {}]
        /\ g_slots = {}
        /\ g_nwait = 0
        /\ g_lock = NoTask
        /\ wchg = [t \in Poller |-> FALSE]
        /\ gchg = [t \in Poller |-> FALSE]
        /\ todo = [t \in Poller |-> {}]
        /\ cur = [t \in Task |-> NoFile]
        /\ hit = [t \in Poller |-> FALSE]
        /\ legacy = [t \in Poller |-> FALSE]
        /\ timed = [t \in Poller |-> FALSE]
        /\ over = [t \in Poller |-> FALSE]
        /\ pend = [t \in Poller |-> FALSE]
        /\ told = [w \in Waker |-> {}]
        /\ pc = [t \in Task |-> IF t \in Poller THEN "out" ELSE "idle"]

Goto(t, p)  == pc' = [pc EXCEPT ![t] = p]
At(t, p)    == oncpu[t] /\ pc[t] = p
-----------------------------------------------------------------------------
Call(t) == /\ At(t, "out")
           /\ Goto(t, "beg")
           /\ UNCHANGED <<schedVars, ready, tabVars, seqVars, callVars, timeVars, pend, told>>

(* poll_seq and poll_table_begin. *)
Begin(t) == /\ At(t, "beg")
            /\ wchg' = [wchg EXCEPT ![t] = FALSE]
            /\ gchg' = [gchg EXCEPT ![t] = FALSE]
            /\ todo' = [todo EXCEPT ![t] = Want[t]]
            /\ legacy' = [legacy EXCEPT ![t] = FALSE]
            /\ Goto(t, "reg")
            /\ UNCHANGED <<schedVars, ready, tabVars, cur, hit, timeVars, pend, told>>

(* poll_wait on the next file, waitq_poll_add: the caller polls this file  *)
(* without a place when the array is full, or when the file has no queue   *)
(* (poll_table_note).                                                      *)
HasPlace(t, f) == /\ f \notin NoQueue
                  /\ t \in poller[f] \/ Cardinality(poller[f]) < WAITQ_POLLERS

Register(t) == /\ At(t, "reg")
               /\ \E f \in todo[t] :
                     /\ \/ /\ HasPlace(t, f)
                           /\ poller' = [poller EXCEPT ![f] = @ \cup {t}]
                           /\ UNCHANGED legacy
                        \/ /\ ~HasPlace(t, f)
                           /\ legacy' = [legacy EXCEPT ![t] = TRUE]
                           /\ UNCHANGED poller
                     /\ cur' = [cur EXCEPT ![t] = f]
                     /\ todo' = [todo EXCEPT ![t] = @ \ {f}]
               /\ Goto(t, "see")
               /\ UNCHANGED <<schedVars, ready, g_slots, g_nwait, g_lock, seqVars, hit, timeVars, pend, told>>

(* The file says, under its own lock, whether it is ready. *)
See(t) == /\ At(t, "see")
          /\ hit' = [hit EXCEPT ![t] = @ \/ ready[cur[t]]]
          /\ cur' = [cur EXCEPT ![t] = NoFile]
          /\ Goto(t, "reg")
          /\ UNCHANGED <<schedVars, ready, tabVars, seqVars, todo, legacy, timeVars, pend, told>>

(* poll_table_release on the way out, and the call is over. *)
Leave(t) == /\ poller' = [f \in File |-> poller[f] \ {t}]
            /\ hit' = [hit EXCEPT ![t] = FALSE]
            /\ legacy' = [legacy EXCEPT ![t] = FALSE]
            /\ over' = [over EXCEPT ![t] = FALSE]
            /\ wchg' = [wchg EXCEPT ![t] = FALSE]
            /\ gchg' = [gchg EXCEPT ![t] = FALSE]
            /\ Goto(t, "out")

(* Mutation: a call that times out or is interrupted stays registered. *)
ReturnMut(t) == /\ At(t, "reg")
                /\ todo[t] = {}
                /\ ~hit[t]
                /\ (t \in Finite /\ over[t]) \/ pend[t]
                /\ over' = [over EXCEPT ![t] = FALSE]
                /\ legacy' = [legacy EXCEPT ![t] = FALSE]
                /\ Goto(t, "out")
                /\ UNCHANGED <<schedVars, ready, tabVars, seqVars, todo, cur, hit, timed, pend, told>>

(* After the scan: a file was ready, the time is over, or -EINTR. *)
Return(t) == /\ At(t, "reg")
             /\ todo[t] = {}
             /\ \/ hit[t]
                \/ t \in Finite /\ over[t]
                \/ pend[t]
             /\ Leave(t)
             /\ UNCHANGED <<schedVars, ready, g_slots, g_nwait, g_lock, todo, cur, timed, pend, told>>

(* Otherwise poll_table_block. *)
Sleep(t) == /\ At(t, "reg")
            /\ todo[t] = {}
            /\ ~hit[t] /\ ~(t \in Finite /\ over[t]) /\ ~pend[t]
            /\ Goto(t, IF legacy[t] THEN "leg" ELSE "blk")
            /\ UNCHANGED <<schedVars, ready, tabVars, seqVars, callVars, timeVars, pend, told>>
-----------------------------------------------------------------------------
(* A poller without a place in some queue tests g_seq under g_lock: it is  *)
(* off to another round,                                                   *)
LegacyMoved(t) == /\ At(t, "leg")
                  /\ g_lock = NoTask
                  /\ gchg[t]
                  /\ Goto(t, "rel")
                  /\ UNCHANGED <<schedVars, ready, tabVars, seqVars, callVars, timeVars, pend, told>>

(* sleeps a millisecond when there is no free slot, not interruptibly,     *)
LegacyNap(t) == /\ At(t, "leg")
                /\ g_lock = NoTask
                /\ ~gchg[t]
                /\ Cardinality(g_slots) >= POLLWAIT_SLOTS
                /\ SetBlocked(t)
                /\ timed' = [timed EXCEPT ![t] = TRUE]
                /\ Goto(t, "nap")
                /\ UNCHANGED <<oncpu, ready, tabVars, seqVars, callVars, over, pend, told>>

(* or goes on to take a slot, g_lock held; *)
LegacyLock(t) == /\ At(t, "leg")
                 /\ g_lock = NoTask
                 /\ ~gchg[t]
                 /\ Cardinality(g_slots) < POLLWAIT_SLOTS
                 /\ g_lock' = t
                 /\ Goto(t, "slot")
                 /\ UNCHANGED <<schedVars, ready, poller, g_slots, g_nwait, seqVars, callVars, timeVars, pend, told>>

(* g_nwait tells poll_notify that there is somebody. *)
LegacySlot(t) == /\ At(t, "slot")
                 /\ g_slots' = g_slots \cup {t}
                 /\ g_nwait' = g_nwait + 1
                 /\ Goto(t, "blk")
                 /\ UNCHANGED <<schedVars, ready, poller, g_lock, seqVars, callVars, timeVars, pend, told>>

(* Mutation: the poller without a place has no time-out of its own. *)
BlockMut(t) == /\ At(t, "blk")
               /\ SetBlocked(t)
               /\ timed' = [timed EXCEPT ![t] = t \in Finite]
               /\ Goto(t, "tst")
               /\ UNCHANGED <<oncpu, ready, tabVars, seqVars, callVars, over, pend, told>>

(* The poller marks itself.  A legacy one wakes up after 20 milliseconds   *)
(* (POLL_FALLBACK_NS) if nobody wakes it.                                  *)
Block(t) == /\ At(t, "blk")
            /\ SetBlocked(t)
            /\ timed' = [timed EXCEPT ![t] = legacy[t] \/ t \in Finite]
            /\ Goto(t, "tst")
            /\ UNCHANGED <<oncpu, ready, tabVars, seqVars, callVars, over, pend, told>>

(* Mutation: poll_wake_seq is not tested. *)
TestMut(t) == /\ At(t, "tst")
              /\ UNCHANGED state
              /\ g_lock' = IF g_lock = t THEN NoTask ELSE g_lock
              /\ Goto(t, "slp")
              /\ UNCHANGED <<oncpu, ready, poller, g_slots, g_nwait, seqVars, callVars, timeVars, pend, told>>

(* A wake-up that came before the mark changed poll_wake_seq. *)
Test(t) == /\ At(t, "tst")
           /\ IF wchg[t] THEN task_unblock(t) ELSE UNCHANGED state
           /\ g_lock' = IF g_lock = t THEN NoTask ELSE g_lock
           /\ Goto(t, "slp")
           /\ UNCHANGED <<oncpu, ready, poller, g_slots, g_nwait, seqVars, callVars, timeVars, pend, told>>

(* sched_reschedule keeps no task that has a signal, unless it naps, *)
Recheck(t) == /\ At(t, "slp")
              /\ pend[t]
              /\ state[t] = "BLOCKED"
              /\ task_unblock(t)
              /\ UNCHANGED <<oncpu, ready, tabVars, seqVars, callVars, timeVars, pend, told, pc>>

(* and returns. *)
Resched(t) == /\ At(t, "slp") \/ At(t, "nap")
              /\ ReschedReturns(t)
              /\ timed' = [timed EXCEPT ![t] = FALSE]
              /\ Goto(t, IF pc[t] = "slp" /\ legacy[t] THEN "unl" ELSE "rel")
              /\ UNCHANGED <<ready, tabVars, seqVars, callVars, over, pend, told>>

(* Mutation: g_nwait is decremented for the slot and once more for the poller. *)
UnlockMut(t) == /\ At(t, "unl")
                /\ g_lock = NoTask
                /\ g_slots' = g_slots \ {t}
                /\ g_nwait' = g_nwait - (IF t \in g_slots THEN 2 ELSE 1)
                /\ Goto(t, "rel")
                /\ UNCHANGED <<schedVars, ready, poller, g_lock, seqVars, callVars, timeVars, pend, told>>

(* The slot, if it is still the poller's, is given back. *)
Unlock(t) == /\ At(t, "unl")
             /\ g_lock = NoTask
             /\ g_slots' = g_slots \ {t}
             /\ g_nwait' = g_nwait - 1
             /\ Goto(t, "rel")
             /\ UNCHANGED <<schedVars, ready, poller, g_lock, seqVars, callVars, timeVars, pend, told>>

(* poll_table_release before another round. *)
Release(t) == /\ At(t, "rel")
              /\ poller' = [f \in File |-> poller[f] \ {t}]
              /\ Goto(t, "beg")
              /\ UNCHANGED <<schedVars, ready, g_slots, g_nwait, g_lock, seqVars, callVars, timeVars, pend, told>>
-----------------------------------------------------------------------------
(* A file becomes ready, under its lock, and waitq_wake_all is called when *)
(* it has a queue; or it is no longer ready.                               *)
Set(w, f) == /\ At(w, "idle")
             /\ ~ready[f]
             /\ ready' = [ready EXCEPT ![f] = TRUE]
             /\ cur' = [cur EXCEPT ![w] = IF f \in NoQueue THEN NoFile ELSE f]
             /\ Goto(w, IF f \in NoQueue THEN "idle" ELSE "bump")
             /\ UNCHANGED <<schedVars, tabVars, seqVars, todo, hit, legacy, timeVars, pend, told>>

Consume(w, f) == /\ At(w, "idle")
                 /\ ready[f]
                 /\ ready' = [ready EXCEPT ![f] = FALSE]
                 /\ UNCHANGED <<schedVars, tabVars, seqVars, callVars, timeVars, pend, told, pc>>

(* waitq_wake_pollers: the counter of every poller moves, then it is       *)
(* unblocked.                                                              *)
Bump(w) == LET f == cur[w] IN
    /\ At(w, "bump")
    /\ wchg' = [t \in Poller |-> wchg[t] \/ t \in poller[f]]
    /\ told' = [told EXCEPT ![w] = poller[f]]
    /\ poller' = [poller EXCEPT ![f] = {}]
    /\ cur' = [cur EXCEPT ![w] = NoFile]
    /\ Goto(w, "unb")
    /\ UNCHANGED <<schedVars, ready, g_slots, g_nwait, g_lock, gchg, todo, hit, legacy, timeVars, pend>>

Unblock(w) == /\ At(w, "unb")
              /\ state' = Unblocked(told[w])
              /\ told' = [told EXCEPT ![w] = {}]
              /\ Goto(w, "seq")
              /\ UNCHANGED <<oncpu, ready, tabVars, seqVars, callVars, timeVars, pend>>

(* poll_notify: g_seq, then g_nwait, then, under g_lock, all slots. *)
NotifySeq(w) == /\ At(w, "seq")
                /\ gchg' = [t \in Poller |-> pc[t] \notin {"out", "beg"}]
                /\ Goto(w, "cnt")
                /\ UNCHANGED <<schedVars, ready, tabVars, wchg, callVars, timeVars, pend, told>>

NotifyCount(w) == /\ At(w, "cnt")
                  /\ Goto(w, IF g_nwait = 0 THEN "idle" ELSE "all")
                  /\ UNCHANGED <<schedVars, ready, tabVars, seqVars, callVars, timeVars, pend, told>>

NotifyAll(w) == /\ At(w, "all")
                /\ g_lock = NoTask
                /\ g_slots' = {}
                /\ timed' = [t \in Poller |-> timed[t] /\ t \notin g_slots]
                /\ state' = Unblocked(g_slots)
                /\ Goto(w, "idle")
                /\ UNCHANGED <<oncpu, ready, poller, g_nwait, g_lock, seqVars, callVars, over, pend, told>>
-----------------------------------------------------------------------------
(* The time-out of the call is over, and the tick wakes whom it has to. *)
TimePasses(t) == /\ t \in Finite
                 /\ pc[t] # "out"
                 /\ ~over[t]
                 /\ over' = [over EXCEPT ![t] = TRUE]
                 /\ UNCHANGED <<schedVars, ready, tabVars, seqVars, callVars, timed, pend, told, pc>>

Timeout(t) == /\ timed[t]
              /\ state[t] = "BLOCKED"
              /\ legacy[t] \/ over[t]
              /\ task_unblock(t)
              /\ timed' = [timed EXCEPT ![t] = FALSE]
              /\ UNCHANGED <<oncpu, ready, tabVars, seqVars, callVars, over, pend, told, pc>>

(* signal_send; a nap is not interrupted (sleep_noint), although the       *)
(* sender unblocks any BLOCKED task.                                       *)
Signal(t) == /\ t \in MaySignal
             /\ ~pend[t]
             /\ pend' = [pend EXCEPT ![t] = TRUE]
             /\ task_unblock(t)
             /\ UNCHANGED <<oncpu, ready, tabVars, seqVars, callVars, timeVars, told, pc>>

Deliver(t) == /\ At(t, "out")
              /\ pend[t]
              /\ pend' = [pend EXCEPT ![t] = FALSE]
              /\ UNCHANGED <<schedVars, ready, tabVars, seqVars, callVars, timeVars, told, pc>>

(* Interrupts are off from the mark to the reschedule. *)
Schedule(t) == /\ \/ /\ pc[t] = "nap" \/ (pc[t] = "slp" /\ ~pend[t])
                     /\ SwitchAway(t)
                  \/ Dispatch(t)
               /\ UNCHANGED <<ready, tabVars, seqVars, callVars, timeVars, pend, told, pc>>

Polls(t) == \/ Begin(t) \/ Register(t) \/ See(t) \/ Return(t) \/ Sleep(t)
            \/ LegacyMoved(t) \/ LegacyNap(t) \/ LegacyLock(t) \/ LegacySlot(t)
            \/ Block(t) \/ Test(t) \/ Recheck(t) \/ Resched(t) \/ Unlock(t) \/ Release(t)

Wakes(w) == \/ Bump(w) \/ Unblock(w) \/ NotifySeq(w) \/ NotifyCount(w) \/ NotifyAll(w)

Next == \/ \E t \in Poller : \/ Call(t) \/ Polls(t) \/ TimePasses(t) \/ Timeout(t)
                             \/ Signal(t) \/ Deliver(t) \/ Schedule(t)
        \/ \E w \in Waker : Wakes(w) \/ \E f \in Feeds[w] : Set(w, f) \/ Consume(w, f)

Spec == Init /\ [][Next]_vars

(* A task that may run does; time passes; g_lock is a ticket lock, so that *)
(* who asks for it gets it.  No task has to poll or to change a file.      *)
Fairness == /\ \A t \in Poller : SF_vars(Polls(t) \/ Schedule(t)) /\ WF_vars(Timeout(t))
            /\ \A t \in Finite : WF_vars(TimePasses(t))
            /\ \A w \in Waker : SF_vars(Wakes(w))
FairSpec == Spec /\ Fairness
-----------------------------------------------------------------------------
PollPlace == {"out", "beg", "reg", "see", "leg", "slot", "blk", "tst", "slp", "nap", "unl", "rel"}
WakePlace == {"idle", "bump", "unb", "seq", "cnt", "all"}

TypeOK == /\ SchedTypeOK
          /\ ready \in [File -> BOOLEAN]
          /\ poller \in [File -> SUBSET Poller]
          /\ g_slots \subseteq Poller
          /\ g_nwait \in Nat
          /\ g_lock \in Poller \cup {NoTask}
          /\ wchg \in [Poller -> BOOLEAN] /\ gchg \in [Poller -> BOOLEAN]
          /\ todo \in [Poller -> SUBSET File]
          /\ cur \in [Task -> File \cup {NoFile}]
          /\ hit \in [Poller -> BOOLEAN] /\ legacy \in [Poller -> BOOLEAN]
          /\ timed \in [Poller -> BOOLEAN] /\ over \in [Poller -> BOOLEAN]
          /\ pend \in [Poller -> BOOLEAN]
          /\ told \in [Waker -> SUBSET Poller]
          /\ pc \in [Task -> PollPlace \cup WakePlace]

(* No wake-up falls into the gap between the scan and the sleep: beside a  *)
(* ready file a poller sleeps only for a limited time, or while somebody   *)
(* is on the way to wake it.                                               *)
NoLostPoll == \A t \in Poller : (pc[t] = "slp" /\ state[t] = "BLOCKED") =>
    \A f \in Want[t] : ready[f] =>
        \/ timed[t]
        \/ \E w \in Waker : t \in told[w] \/ (pc[w] = "bump" /\ cur[w] = f)

(* A wait queue or a slot refers only to a task that is inside poll, which *)
(* will remove itself; g_nwait counts the tasks that own or owned a slot.  *)
Registered == /\ \A f \in File, t \in Poller : t \in poller[f] => pc[t] \notin {"out", "beg"}
              /\ \A t \in Poller : t \in g_slots => pc[t] \in {"blk", "tst", "slp", "unl"}
              /\ g_nwait = Cardinality({t \in Poller : legacy[t] /\ pc[t] \in {"blk", "tst", "slp", "unl"}})

(* "Waits until one of the descriptors is ready, or until the timeout      *)
(* expires" (poll(2)): a file that stays ready makes the call return, also *)
(* for the pollers that found a queue or all slots full.                   *)
PollReturns == /\ \A t \in Finite : pc[t] # "out" ~> pc[t] = "out"
               /\ \A t \in Poller \ Finite : \A f \in Want[t] :
                      (pc[t] # "out" /\ ready[f]) ~> (pc[t] = "out" \/ ~ready[f])
=============================================================================
