--------------------------------- MODULE Tlb --------------------------------
(***************************************************************************)
(* TLB shootdown (memory/tlb.c), the flush buffers of memory/mm.c that     *)
(* call it, and the loops of sched/spinlock.h and sched/kmutex.c that      *)
(* answer a request while they spin.                                       *)
(*                                                                         *)
(* A task takes the lock of its address space, changes page-table entries  *)
(* and must not return before no CPU holds a translation from before the   *)
(* change.  The generation counter g_req_gen appears only as what it is    *)
(* compared for: seen[c] says that g_seen_gen[c] = g_req_gen.              *)
(***************************************************************************)
EXTENDS Integers, FiniteSets

CONSTANTS Cpu, Task, Mm,
          NoTask,   \* no task: the CPU is idle
          Kernel,   \* the page map of the idle loop
          mm,       \* mm[t]: the address space of t
          Changer,  \* the tasks that change their address space
          Spin,     \* tasks that wait for the lock spinning, with interrupts off
          Migrate   \* tasks a tick may preempt between flush_here and the cli

ASSUME MmAssumption == /\ IsFiniteSet(Cpu) /\ Cpu # {}
                       /\ NoTask \notin Task
                       /\ Kernel \notin Mm
                       /\ mm \in [Task -> Mm]

VARIABLES cur,    \* cur[c]: the task that runs on c
          live,   \* live[c]: the page map in its register cr3
          lk,     \* lk[m]: the owner of the lock of m
          owner,  \* the owner of g_tlb_lock
          req,    \* the task whose g_req_cr3 and g_req_addrs are stored
          acks,   \* g_req_acks
          seen,   \* seen[c]: g_seen_gen[c] = g_req_gen
          ipi,    \* ipi[c]: IPI_TLB_SYNC is pending on c
          stale,  \* stale[c]: the tasks whose change the TLB of c may not show
          pc

reqVars == <<owner, req, acks, seen, ipi>>
vars == <<cur, live, lk, reqVars, stale, pc>>

(* Where a task is: outside, waiting for the lock, with it and the entries  *)
(* still to change, changed, flushed here, trying for g_tlb_lock, with it,  *)
(* request stored, waiting.                                                 *)
Place == {"out", "lock", "pte", "here", "cli", "try", "req", "gen", "wait", "done"}

Init == /\ cur = [c \in Cpu |-> NoTask]
        /\ live = [c \in Cpu |-> Kernel]
        /\ lk = [m \in Mm |-> NoTask]
        /\ owner = NoTask
        /\ req = NoTask
        /\ acks = 0
        /\ seen = [c \in Cpu |-> TRUE]
        /\ ipi = [c \in Cpu |-> FALSE]
        /\ stale = [c \in Cpu |-> {}]
        /\ pc = [t \in Task |-> "out"]

At(c, p) == cur[c] # NoTask /\ pc[cur[c]] = p
Goto(t, p) == pc' = [pc EXCEPT ![t] = p]

(* The tasks that share an address space. *)
Sharing(m) == {t \in Task : mm[t] = m}

----------------------------------------------------------------------------
(* flush_here on c for the change of task t: what the TLBs hold after.  A   *)
(* CPU that runs another address space has nothing to flush.                *)
FlushHere(c, t) == [stale EXCEPT ![c] = IF live[c] = mm[t] THEN @ \ {t} ELSE @]

(* Mutation: the acknowledgement comes before the flush and replaces it. *)
ServeNoFlush(c) == IF seen[c] THEN UNCHANGED <<seen, stale, acks>>
                              ELSE /\ seen' = [seen EXCEPT ![c] = TRUE]
                                   /\ acks' = acks - 1
                                   /\ UNCHANGED stale

(* serve_pending, where no interrupt can come in between. *)
Serve(c) == IF seen[c] THEN UNCHANGED <<seen, stale, acks>>
                       ELSE /\ seen' = [seen EXCEPT ![c] = TRUE]
                            /\ stale' = FlushHere(c, req)
                            /\ acks' = acks - 1

IrqOn(c) == cur[c] # NoTask =>
    LET t == cur[c] IN CASE pc[t] = "out" -> TRUE
                         [] pc[t] \in {"try", "req", "gen", "wait"} -> FALSE
                         [] OTHER -> t \notin Spin

(* The interrupt: serve_pending whatever runs here. *)
Ipi(c) == /\ ipi[c] /\ IrqOn(c)
          /\ ipi' = [ipi EXCEPT ![c] = FALSE]
          /\ Serve(c)
          /\ UNCHANGED <<cur, live, lk, owner, req, pc>>

(* A task may leave its CPU where interrupts are on and it holds no        *)
(* spinlock; on the way to another address space cr3 is loaded, which      *)
(* empties the TLB; between two tasks of one address space it is not.      *)
Preemptible(t) == \/ pc[t] = "out"
                  \/ t \notin Spin /\ pc[t] \in {"lock", "pte", "here", "done"}
                  \/ t \in Migrate \ Spin /\ pc[t] = "cli"

Switch(c, n) == /\ cur[c] # NoTask => Preemptible(cur[c])
                /\ cur[c] # n
                /\ n # NoTask => \A d \in Cpu : cur[d] # n
                /\ cur' = [cur EXCEPT ![c] = n]
                /\ LET m == IF n = NoTask THEN Kernel ELSE mm[n] IN
                     /\ live' = [live EXCEPT ![c] = m]
                     /\ stale' = [stale EXCEPT ![c] = IF live[c] = m THEN @ ELSE {}]
                /\ UNCHANGED <<lk, reqVars, pc>>
----------------------------------------------------------------------------
(* munmap, mprotect, mremap, fork or a copy on write takes the lock. *)
Call(c) == /\ At(c, "out")
           /\ cur[c] \in Changer
           /\ Goto(cur[c], "lock")
           /\ UNCHANGED <<cur, live, lk, reqVars, stale>>

Lock(c) == /\ At(c, "lock")
           /\ lk[mm[cur[c]]] = NoTask
           /\ lk' = [lk EXCEPT ![mm[cur[c]]] = cur[c]]
           /\ Goto(cur[c], "pte")
           /\ UNCHANGED <<cur, live, reqVars, stale>>

(* Mutation: a waiter polls only while more than one CPU is missing. *)
SpinPollMut(c) == /\ At(c, "lock") /\ cur[c] \in Spin
                  /\ lk[mm[cur[c]]] # NoTask
                  /\ acks > 1
                  /\ Serve(c)
                  /\ UNCHANGED <<cur, live, lk, owner, req, ipi, pc>>

(* tlb_poll in the loop of a waiter that spins with interrupts off. *)
SpinPoll(c) == /\ At(c, "lock") /\ cur[c] \in Spin
               /\ lk[mm[cur[c]]] # NoTask
               /\ acks > 0
               /\ Serve(c)
               /\ UNCHANGED <<cur, live, lk, owner, req, ipi, pc>>

(* The entries change.  Whoever runs the address space may have them. *)
Change(c) == /\ At(c, "pte")
             /\ stale' = [d \in Cpu |-> IF live[d] = mm[cur[c]] THEN stale[d] \cup {cur[c]} ELSE stale[d]]
             /\ Goto(cur[c], "here")
             /\ UNCHANGED <<cur, live, lk, reqVars>>

(* Mutation: fb_done takes any address space for its own. *)
FbDoneMut(c) == /\ At(c, "here")
                /\ stale' = FlushHere(c, cur[c])
                /\ Goto(cur[c], "done")
                /\ UNCHANGED <<cur, live, lk, reqVars>>

(* fb_done and the flush_here of tlb_flush_mm.  The only user of an address *)
(* space needs nobody else, and so does the only CPU.                       *)
FbDone(c) == /\ At(c, "here")
             /\ stale' = FlushHere(c, cur[c])
             /\ Goto(cur[c], IF Sharing(mm[cur[c]]) = {cur[c]} \/ Cpu = {c} THEN "done" ELSE "cli")
             /\ UNCHANGED <<cur, live, lk, reqVars>>

Cli(c) == /\ At(c, "cli")
          /\ Goto(cur[c], "try")
          /\ UNCHANGED <<cur, live, lk, reqVars, stale>>

(* Mutation: g_tlb_lock is taken without a look at it. *)
TryMut(c) == /\ At(c, "try")
             /\ owner' = cur[c]
             /\ Goto(cur[c], "req")
             /\ UNCHANGED <<cur, live, lk, req, acks, seen, ipi, stale>>

Try(c) == /\ At(c, "try")
          /\ owner = NoTask
          /\ owner' = cur[c]
          /\ Goto(cur[c], "req")
          /\ UNCHANGED <<cur, live, lk, req, acks, seen, ipi, stale>>

(* g_tlb_lock is taken: its owner waits for this CPU too. *)
TryServe(c) == /\ At(c, "try")
               /\ owner # NoTask /\ acks > 0
               /\ Serve(c)
               /\ UNCHANGED <<cur, live, lk, owner, req, ipi, pc>>

Request(c) == /\ At(c, "req")
              /\ req' = cur[c]
              /\ acks' = Cardinality(Cpu) - 1
              /\ Goto(cur[c], "gen")
              /\ UNCHANGED <<cur, live, lk, owner, seen, ipi, stale>>

(* The new generation, which this CPU has seen, and the interrupt to all    *)
(* others.                                                                  *)
Generation(c) == /\ At(c, "gen")
                 /\ seen' = [d \in Cpu |-> d = c]
                 /\ ipi' = [d \in Cpu |-> IF d = c THEN ipi[d] ELSE TRUE]
                 /\ Goto(cur[c], "wait")
                 /\ UNCHANGED <<cur, live, lk, owner, req, acks, stale>>

Wait(c) == /\ At(c, "wait")
           /\ acks <= 0
           /\ owner' = NoTask
           /\ Goto(cur[c], "done")
           /\ UNCHANGED <<cur, live, lk, req, acks, seen, ipi, stale>>

Unlock(c) == /\ At(c, "done")
             /\ lk' = [lk EXCEPT ![mm[cur[c]]] = NoTask]
             /\ Goto(cur[c], "out")
             /\ UNCHANGED <<cur, live, reqVars, stale>>

Step(c) == \/ Lock(c) \/ SpinPoll(c) \/ Change(c) \/ FbDone(c) \/ Cli(c)
           \/ Try(c) \/ TryServe(c) \/ Request(c) \/ Generation(c) \/ Wait(c) \/ Unlock(c)

Next == \E c \in Cpu : \/ Call(c) \/ Step(c) \/ Ipi(c)
                       \/ \E n \in Task \cup {NoTask} : Switch(c, n)

(* A CPU does not stop in the kernel, and a pending interrupt comes as soon *)
(* as interrupts are on.                                                    *)
Spec == Init /\ [][Next]_vars /\ \A c \in Cpu : WF_vars(Step(c)) /\ SF_vars(Ipi(c))
----------------------------------------------------------------------------
(* The variables have their types. *)
TypeOK == /\ cur \in [Cpu -> Task \cup {NoTask}]
          /\ live \in [Cpu -> Mm \cup {Kernel}]
          /\ lk \in [Mm -> Task \cup {NoTask}]
          /\ owner \in Task \cup {NoTask} /\ req \in Task \cup {NoTask}
          /\ acks \in Nat
          /\ seen \in [Cpu -> BOOLEAN] /\ ipi \in [Cpu -> BOOLEAN]
          /\ stale \in [Cpu -> SUBSET Task]
          /\ pc \in [Task -> Place]

(* What tlb_flush_mm is for: when munmap, mprotect, fork or a copy on write *)
(* is through with fb_done, no TLB shows the entries from before.           *)
NoStaleEntry == \A t \in Task : pc[t] \in {"done", "out"} => \A c \in Cpu : t \notin stale[c]

(* "[tlb] still waiting for %d CPU(s) to flush" prints g_req_acks: the CPUs *)
(* that can hold an old entry while tlb_flush_mm waits are no more than the *)
(* ones it waits for.                                                       *)
AcksCount == \A t \in Task : pc[t] = "wait" => Cardinality({c \in Cpu : t \in stale[c]}) <= acks

(* The request that is stored belongs to the owner of g_tlb_lock until the  *)
(* last CPU that has not seen it has flushed: nobody overwrites it.         *)
RequestKept == acks > 0 => req = owner /\ pc[owner] \in {"gen", "wait"}

(* No two CPUs wait for each other: every request is acknowledged, also by  *)
(* a CPU that spins with interrupts off for a lock the requester holds.     *)
FlushReturns == acks > 0 ~> acks = 0
=============================================================================
