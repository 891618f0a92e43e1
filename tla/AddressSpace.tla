---------------------------- MODULE AddressSpace ----------------------------
(* Private mappings of mm.c with the page references of pageref.c and the   *)
(* page cache of pagecache.c: page faults, copy-on-write, fork, the end of   *)
(* an address space, MADV_DONTNEED and mm_access_remote, by several threads. *)
(* All steps of mm.c are under mm->lock, which fork, the copy of a page and  *)
(* the removal of pages hold over several steps; the MMU reads the page      *)
(* tables without it, and what it read stays in the TLB of its CPU until it  *)
(* is flushed: an entry that changes may stay, as it was, in any TLB.        *)
(* tlb_flush_mm is one step: when it returns no CPU has an old entry         *)
(* (NoStaleEntry of Tlb).  Every task has a CPU to itself.                   *)
EXTENDS Naturals, FiniteSets

CONSTANTS Task, NoTask,
          Mm, NoMm, Mm1,    \* address spaces, that of the first process
          Page,             \* pages
          NFrame,           \* frames of memory
          Value,            \* contents of a frame
          Zero, File,       \* a page of zeros, the page in the file
          Child,            \* tasks to fork
          Starts            \* the processes to begin with

(* A process: what the vm_area_t of each page maps, its threads, and the    *)
(* tasks that may fork, give up their pages, exit and be a tracer.          *)
Start == [vma : [Page -> {"none", "anon", "file"}], threads : SUBSET Task,
          fork : SUBSET Task, discard : SUBSET Task, exit : SUBSET Task, trace : SUBSET Task]

ASSUME SpaceAssumption ==
    /\ IsFiniteSet(Task) /\ IsFiniteSet(Mm) /\ IsFiniteSet(Page) /\ Page # {}
    /\ NoTask \notin Task /\ NoMm \notin Mm /\ Mm1 \in Mm
    /\ Child \subseteq Task /\ NFrame \in Nat \ {0}
    /\ Zero \in Value /\ File \in Value
    /\ Starts \subseteq Start /\ \A s \in Starts : s.threads # {}

Frame == 1 .. NFrame
NoFrame == 0

(* A page table entry: VMM_PRESENT is a frame, VMM_WRITE is w. *)
Absent == [frame |-> NoFrame, w |-> FALSE]
Entry == [frame : Frame, w : BOOLEAN] \cup {Absent}

VARIABLES proc,             \* the process of Starts, which stays as it is
          refs,             \* g_refs: references to a frame, 0 when it is free
          data,             \* the content of a frame
          cache,            \* cache[p]: the frame of file page p in g_hash
          pte,              \* pte[m][p]
          users,            \* mm->users, 0 when m is free
          lock,             \* mm->lock
          mm,               \* task->mm
          tlb,              \* tlb[t][p]: an entry the CPU of t kept from before a change
          pc,               \* where a task is
          call,             \* the address space, page and kind of an access
          held,             \* a frame it has a reference of its own to
          child,            \* the task fork makes
          left,             \* the pages a walk has not come to
          fb                \* the pages in its flushbuf_t

frameVars == <<refs, data, cache>>
walkVars == <<child, left, fb>>
vars == <<proc, frameVars, pte, users, lock, mm, tlb, pc, call, held, walkVars>>

IsFile(p) == proc.vma[p] = "file"
First == [p \in Page |-> IF IsFile(p) THEN File ELSE Zero]
Blank == [p \in Page |-> Absent]
NoCall == [on |-> NoMm, page |-> CHOOSE p \in Page : TRUE, how |-> "read", val |-> Zero]

(* A process whose memory was not touched yet, and free address spaces. *)
Init == /\ proc \in Starts
        /\ refs = [f \in Frame |-> 0]
        /\ data = [f \in Frame |-> Zero]
        /\ cache = [p \in Page |-> NoFrame]
        /\ pte = [m \in Mm |-> Blank]
        /\ users = [m \in Mm |-> IF m = Mm1 THEN Cardinality(proc.threads) ELSE 0]
        /\ mm = [t \in Task |-> IF t \in proc.threads THEN Mm1 ELSE NoMm]
        /\ lock = [m \in Mm |-> NoTask]
        /\ tlb = [t \in Task |-> Blank]
        /\ pc = [t \in Task |-> IF t \in proc.threads THEN "user" ELSE "none"]
        /\ call = [t \in Task |-> NoCall]
        /\ held = [t \in Task |-> NoFrame]
        /\ child = [t \in Task |-> NoTask]
        /\ left = [t \in Task |-> {}]
        /\ fb = [t \in Task |-> {}]

Goto(t, p) == pc' = [pc EXCEPT ![t] = p]
At(t, p) == pc[t] = p

(* The address space t works on, its lock, and the entry it works on. *)
On(t) == call[t].on
Enters(t) == lock[On(t)] \in {NoTask, t}
Locks(t) == lock' = [lock EXCEPT ![On(t)] = t]
Unlocks(t) == lock' = [lock EXCEPT ![On(t)] = NoTask]
Old(t) == pte[On(t)][call[t].page]

(* The entry of page p in m changes from e, which any TLB may have.         *)
Keeps(m, p, e) == \E S \in SUBSET {t \in Task : mm[t] = m /\ pc[t] # "born"} :
    /\ e = Absent => S = {}
    /\ tlb' = [t \in Task |-> IF t \in S /\ tlb[t][p] = Absent
                              THEN [tlb[t] EXCEPT ![p] = e] ELSE tlb[t]]
SetPte(t, e) == /\ pte' = [pte EXCEPT ![On(t)][call[t].page] = e]
                /\ Keeps(On(t), call[t].page, Old(t))

Call(t, m, p, h, v) == call' = [call EXCEPT ![t] = [on |-> m, page |-> p, how |-> h, val |-> v]]
Leave(t) == /\ Goto(t, IF mm[t] = NoMm THEN "none" ELSE "user")
            /\ call' = [call EXCEPT ![t] = NoCall]
-----------------------------------------------------------------------------
(* page_ref and page_unref in the counts r; the last reference frees.       *)
Ref(r, f) == [r EXCEPT ![f] = @ + 1]
Unref(r, f) == [r EXCEPT ![f] = IF @ = 0 THEN 0 ELSE @ - 1]

(* page_alloc_user: a free frame, or when there is none one that            *)
(* pagecache_shrink takes from the pages only the cache refers to.  Which   *)
(* of the free frames it is makes no difference.                            *)
Free == {f \in Frame : refs[f] = 0}
Victim == IF Free # {} THEN {}
          ELSE {p \in Page : cache[p] # NoFrame /\ refs[cache[p]] = 1}
Pool == Free \cup {cache[p] : p \in Victim}
NewFrame == CHOOSE f \in Pool : TRUE
Shrunk == /\ Pool # {}
          /\ cache' = [p \in Page |-> IF p \in Victim THEN NoFrame ELSE cache[p]]
Allocated == [f \in Frame |-> IF f = NewFrame THEN 1 ELSE IF f \in Pool THEN 0 ELSE refs[f]]

(* fb_done for the pages ps of m by task t: with one user the CPU flushes   *)
(* its own TLB, otherwise all CPUs that run m do.                           *)
Flushed(t, m, ps) ==
    LET alone == users[m] <= 1 /\ mm[t] = m IN
    [u \in Task |-> IF (alone /\ u = t) \/ (~alone /\ mm[u] = m)
                    THEN [p \in Page |-> IF p \in ps THEN Absent ELSE tlb[u][p]]
                    ELSE tlb[u]]
-----------------------------------------------------------------------------
(* An access goes through the TLB, or else through the page table. *)
Seen(t, p) == IF tlb[t][p] = Absent THEN pte[mm[t]][p] ELSE tlb[t][p]

(* The TLB needs room. *)
Evict(t, p) == /\ tlb[t][p] # Absent
               /\ tlb' = [tlb EXCEPT ![t][p] = Absent]
               /\ UNCHANGED <<proc, frameVars, pte, users, lock, mm, pc, call, held, walkVars>>

Write(t, p, v) == /\ At(t, "user")
                  /\ Seen(t, p).w
                  /\ data' = [data EXCEPT ![Seen(t, p).frame] = v]
                  /\ UNCHANGED <<proc, refs, cache, pte, users, lock, mm, tlb, pc, call, held, walkVars>>

(* #PF, which drops the entry that caused it: nothing is mapped, or a page  *)
(* is written that the TLB or the page table has read-only.                 *)
Fault(t, p, h) == /\ At(t, "user")
                  /\ proc.vma[p] # "none"
                  /\ Seen(t, p) = Absent \/ (h = "write" /\ ~Seen(t, p).w)
                  /\ tlb' = [tlb EXCEPT ![t][p] = Absent]
                  /\ Call(t, mm[t], p, h, Zero)
                  /\ Goto(t, "fault")
                  /\ UNCHANGED <<proc, frameVars, pte, users, lock, mm, held, walkVars>>

(* ptrace_access: mm_tryget, then mm_access_remote of one page. *)
Poke(t, m, p, v) == /\ At(t, "user")
                    /\ t \in proc.trace
                    /\ proc.vma[p] # "none"
                    /\ m # mm[t]
                    /\ \E u \in Task : mm[u] = m /\ pc[u] # "born"
                    /\ users' = [users EXCEPT ![m] = @ + 1]
                    /\ Call(t, m, p, "poke", v)
                    /\ Goto(t, "fault")
                    /\ UNCHANGED <<proc, frameVars, pte, lock, mm, tlb, held, walkVars>>
-----------------------------------------------------------------------------
(* The end of fault_locked: mm_fault unlocks, mm_access_remote goes on.     *)
FaultDone(t) == IF call[t].how = "poke"
                THEN Locks(t) /\ Goto(t, "poke") /\ UNCHANGED call
                ELSE Unlocks(t) /\ Leave(t)

(* fault_locked of a page that is not present and anonymous: map_new_page.  *)
MapAnon(t) == /\ At(t, "fault") /\ Enters(t)
              /\ Old(t) = Absent
              /\ ~IsFile(call[t].page)
              /\ Shrunk
              /\ refs' = Allocated
              /\ data' = [data EXCEPT ![NewFrame] = Zero]
              /\ SetPte(t, [frame |-> NewFrame, w |-> TRUE])
              /\ FaultDone(t)
              /\ UNCHANGED <<proc, users, mm, held, walkVars>>

(* The entry allows the access by now, or page_refcount lets it. *)
Allow(t) == /\ At(t, "fault") /\ Enters(t)
            /\ Old(t) # Absent
            /\ IF call[t].how = "write" /\ ~Old(t).w
               THEN /\ refs[Old(t).frame] = 1
                    /\ SetPte(t, [Old(t) EXCEPT !.w = TRUE])
               ELSE UNCHANGED <<pte, tlb>>
            /\ FaultDone(t)
            /\ UNCHANGED <<proc, frameVars, users, mm, held, walkVars>>

(* Mutation: the new frame is mapped as page_alloc_user returns it.         *)
CopyMut(t) == /\ \/ At(t, "fault") /\ Enters(t) /\ call[t].how = "write"
                    /\ Old(t) # Absent /\ ~Old(t).w
                 \/ At(t, "poke")
              /\ refs[Old(t).frame] > 1
              /\ Shrunk
              /\ refs' = Allocated
              /\ data' = [data EXCEPT ![NewFrame] = Zero]
              /\ held' = [held EXCEPT ![t] = NewFrame]
              /\ Locks(t)
              /\ Goto(t, "store")
              /\ UNCHANGED <<proc, pte, users, mm, tlb, call, walkVars>>

(* Copy-on-write, of a fault and of mm_access_remote: the copy,             *)
Copy(t) == /\ \/ At(t, "fault") /\ Enters(t) /\ call[t].how = "write"
                 /\ Old(t) # Absent /\ ~Old(t).w
              \/ At(t, "poke")
           /\ refs[Old(t).frame] > 1
           /\ Shrunk
           /\ refs' = Allocated
           /\ data' = [data EXCEPT ![NewFrame] = data[Old(t).frame]]
           /\ held' = [held EXCEPT ![t] = NewFrame]
           /\ Locks(t)
           /\ Goto(t, "store")
           /\ UNCHANGED <<proc, pte, users, mm, tlb, call, walkVars>>

(* the store of the new entry, which leaves the old frame in hand,          *)
CopyStore(t) == /\ At(t, "store")
                /\ SetPte(t, [frame |-> held[t], w |-> Old(t).w \/ call[t].how = "write"])
                /\ held' = [held EXCEPT ![t] = Old(t).frame]
                /\ Goto(t, "flush")
                /\ UNCHANGED <<proc, frameVars, users, lock, mm, call, walkVars>>

(* Mutation: the fault flushes the TLB of its own CPU only,                 *)
CopyFlushMut(t) == /\ At(t, "flush")
                   /\ tlb' = [tlb EXCEPT ![t][call[t].page] = Absent]
                   /\ Goto(t, "unref")
                   /\ UNCHANGED <<proc, frameVars, pte, users, lock, mm, call, held, walkVars>>

(* fb_done,                                                                 *)
CopyFlush(t) == /\ At(t, "flush")
                /\ tlb' = Flushed(t, On(t), {call[t].page})
                /\ Goto(t, "unref")
                /\ UNCHANGED <<proc, frameVars, pte, users, lock, mm, call, held, walkVars>>

(* and page_unref of the old frame.                                         *)
CopyUnref(t) == /\ At(t, "unref")
                /\ refs' = Unref(refs, held[t])
                /\ held' = [held EXCEPT ![t] = NoFrame]
                /\ FaultDone(t)
                /\ UNCHANGED <<proc, data, cache, pte, users, mm, tlb, walkVars>>

(* mm_access_remote writes to a frame of its own; then ptrace_access puts   *)
(* the address space.                                                       *)
PokeWrite(t) == /\ At(t, "poke")
                /\ refs[Old(t).frame] = 1
                /\ data' = [data EXCEPT ![Old(t).frame] = call[t].val]
                /\ Unlocks(t)
                /\ Goto(t, "put")
                /\ UNCHANGED <<proc, refs, cache, pte, users, mm, tlb, call, held, walkVars>>

(* page_alloc_user finds no frame, or the file cannot be read: the access   *)
(* fails.  (The signal that a fault then raises is left out.)               *)
FaultFails(t) == /\ \/ At(t, "fault") /\ Enters(t)
                       /\ IF Old(t) = Absent THEN ~IsFile(call[t].page)
                          ELSE call[t].how = "write" /\ ~Old(t).w /\ refs[Old(t).frame] > 1
                    \/ At(t, "poke") /\ refs[Old(t).frame] > 1
                    \/ At(t, "get") /\ cache[call[t].page] = NoFrame
                 /\ Pool = {} \/ (At(t, "get") /\ Free # {})
                 /\ IF lock[On(t)] = t THEN Unlocks(t) ELSE UNCHANGED lock
                 /\ IF call[t].how = "poke" THEN Goto(t, "put") /\ UNCHANGED call ELSE Leave(t)
                 /\ UNCHANGED <<proc, frameVars, pte, users, mm, tlb, held, walkVars>>
-----------------------------------------------------------------------------
(* map_new_page of a page of a file: the lock is given up for               *)
(* pagecache_get,                                                           *)
FileMiss(t) == /\ At(t, "fault") /\ Enters(t)
               /\ Old(t) = Absent
               /\ IsFile(call[t].page)
               /\ Unlocks(t)
               /\ Goto(t, "get")
               /\ UNCHANGED <<proc, frameVars, pte, users, mm, tlb, call, held, walkVars>>

(* which finds the page                                                     *)
CacheHit(t) == /\ At(t, "get")
               /\ cache[call[t].page] # NoFrame
               /\ refs' = Ref(refs, cache[call[t].page])
               /\ held' = [held EXCEPT ![t] = cache[call[t].page]]
               /\ Goto(t, "map")
               /\ UNCHANGED <<proc, data, cache, pte, users, lock, mm, tlb, call, walkVars>>

(* or reads it from the file                                                *)
CacheMiss(t) == /\ At(t, "get")
                /\ cache[call[t].page] = NoFrame
                /\ Shrunk
                /\ refs' = Allocated
                /\ data' = [data EXCEPT ![NewFrame] = File]
                /\ held' = [held EXCEPT ![t] = NewFrame]
                /\ Goto(t, "insert")
                /\ UNCHANGED <<proc, pte, users, lock, mm, tlb, call, walkVars>>

(* and enters it, unless another task was faster or kzalloc fails.          *)
CacheInsert(t) == LET p == call[t].page IN
    /\ At(t, "insert")
    /\ \/ /\ cache[p] # NoFrame
          /\ refs' = Unref(Ref(refs, cache[p]), held[t])
          /\ held' = [held EXCEPT ![t] = cache[p]]
          /\ UNCHANGED cache
       \/ /\ cache[p] = NoFrame
          /\ refs' = Ref(refs, held[t])
          /\ cache' = [cache EXCEPT ![p] = held[t]]
          /\ UNCHANGED held
       \/ UNCHANGED <<refs, cache, held>>
    /\ Goto(t, "map")
    /\ UNCHANGED <<proc, data, pte, users, lock, mm, tlb, call, walkVars>>

(* fault_around: the other file pages that are in the cache c.              *)
Around(t, c) == {p \in Page \ {call[t].page} : pte[On(t)][p] = Absent /\ c[p] # NoFrame}
WithAround(t, r, c) == [f \in Frame |-> r[f] + Cardinality({p \in Around(t, c) : c[p] = f})]
MapAround(t, e, c) == pte' = [pte EXCEPT ![On(t)] = [p \in Page |->
    CASE p = call[t].page -> e
      [] p \in Around(t, c) -> [frame |-> c[p], w |-> FALSE]
      [] OTHER -> @[p]]]

(* Mutation: the page of the cache is forgotten when another thread won.    *)
MapReadMut(t) == LET e == IF Old(t) = Absent THEN [frame |-> held[t], w |-> FALSE] ELSE Old(t)
                     r == refs IN
    /\ At(t, "map") /\ Enters(t)
    /\ call[t].how # "write"
    /\ MapAround(t, e, cache)
    /\ refs' = WithAround(t, r, cache)
    /\ held' = [held EXCEPT ![t] = NoFrame]
    /\ FaultDone(t)
    /\ UNCHANGED <<proc, data, cache, users, mm, tlb, walkVars>>

(* With the lock again: a thread that mapped the page meanwhile wins, a     *)
(* reader maps the frame of the cache, and those around it, *)
MapRead(t) == LET e == IF Old(t) = Absent THEN [frame |-> held[t], w |-> FALSE] ELSE Old(t)
                  r == IF Old(t) = Absent THEN refs ELSE Unref(refs, held[t]) IN
    /\ At(t, "map") /\ Enters(t)
    /\ call[t].how # "write"
    /\ MapAround(t, e, cache)
    /\ refs' = WithAround(t, r, cache)
    /\ held' = [held EXCEPT ![t] = NoFrame]
    /\ FaultDone(t)
    /\ UNCHANGED <<proc, data, cache, users, mm, tlb, walkVars>>

(* a writer maps a copy of it. *)
MapCopy(t) == /\ At(t, "map") /\ Enters(t)
              /\ call[t].how = "write"
              /\ \/ /\ Old(t) # Absent
                    /\ refs' = Unref(refs, held[t])
                    /\ UNCHANGED <<data, cache, pte, tlb>>
                 \/ /\ Old(t) = Absent
                    /\ Shrunk
                    /\ refs' = Unref(Allocated, held[t])
                    /\ data' = [data EXCEPT ![NewFrame] = data[held[t]]]
                    /\ SetPte(t, [frame |-> NewFrame, w |-> TRUE])
                 \/ /\ Old(t) = Absent
                    /\ Pool = {}
                    /\ refs' = Unref(refs, held[t])
                    /\ UNCHANGED <<data, cache, pte, tlb>>
              /\ held' = [held EXCEPT ![t] = NoFrame]
              /\ Unlocks(t) /\ Leave(t)
              /\ UNCHANGED <<proc, users, mm, walkVars>>

(* pagecache_invalidate and pagecache_truncated drop a page of the cache.   *)
Drop(p) == /\ cache[p] # NoFrame
           /\ cache' = [cache EXCEPT ![p] = NoFrame]
           /\ refs' = Unref(refs, cache[p])
           /\ UNCHANGED <<proc, data, pte, users, lock, mm, tlb, pc, call, held, walkVars>>
-----------------------------------------------------------------------------
Present(m) == {p \in Page : pte[m][p] # Absent}

(* walk_ptes comes to the pages in the order of their addresses.            *)
Walks(t, p) == /\ p \in left[t]
               /\ \A q \in left[t] : p <= q
               /\ left' = [left EXCEPT ![t] = @ \ {p}]

Unused(m) == users[m] = 0 /\ Present(m) = {}

(* mm_fork of the parent of t for a new task c,                             *)
Fork(t, c, m) == /\ At(t, "user")
                 /\ t \in proc.fork
                 /\ lock[mm[t]] = NoTask
                 /\ c \in Child /\ At(c, "none") /\ Unused(m)
                 /\ lock' = [lock EXCEPT ![mm[t]] = t]
                 /\ users' = [users EXCEPT ![m] = 1]
                 /\ mm' = [mm EXCEPT ![c] = m]
                 /\ pc' = [pc EXCEPT ![t] = "fork", ![c] = "born"]
                 /\ Call(t, mm[t], NoCall.page, "read", Zero)
                 /\ child' = [child EXCEPT ![t] = c]
                 /\ left' = [left EXCEPT ![t] = Present(mm[t])]
                 /\ UNCHANGED <<proc, frameVars, pte, tlb, held, fb>>

(* fork_cb,                                                                 *)
ForkPage(t, p) == LET e == pte[On(t)][p] IN
    /\ At(t, "fork")
    /\ Walks(t, p)
    /\ refs' = Ref(refs, e.frame)
    /\ pte' = [pte EXCEPT ![On(t)][p].w = FALSE,
                          ![mm[child[t]]][p] = [frame |-> e.frame, w |-> FALSE]]
    /\ IF e.w THEN Keeps(On(t), p, e) ELSE UNCHANGED tlb
    /\ fb' = [fb EXCEPT ![t] = IF e.w THEN @ \cup {p} ELSE @]
    /\ UNCHANGED <<proc, data, cache, users, lock, mm, pc, call, held, child>>

(* fb_done and the return; the child starts with the TLB of another CPU.    *)
ForkEnd(t) == /\ At(t, "fork")
              /\ left[t] = {}
              /\ tlb' = Flushed(t, On(t), fb[t])
              /\ Unlocks(t)
              /\ pc' = [pc EXCEPT ![t] = "user", ![child[t]] = "user"]
              /\ call' = [call EXCEPT ![t] = NoCall]
              /\ child' = [child EXCEPT ![t] = NoTask]
              /\ fb' = [fb EXCEPT ![t] = {}]
              /\ UNCHANGED <<proc, frameVars, pte, users, mm, held, left>>

(* vmm_pte_ensure fails: the pages stay read-only and the child is put.     *)
ForkFail(t) == /\ At(t, "fork")
               /\ left[t] # {}
               /\ tlb' = Flushed(t, On(t), fb[t])
               /\ Unlocks(t)
               /\ pc' = [pc EXCEPT ![t] = "put", ![child[t]] = "none"]
               /\ mm' = [mm EXCEPT ![child[t]] = NoMm]
               /\ call' = [call EXCEPT ![t].on = mm[child[t]]]
               /\ child' = [child EXCEPT ![t] = NoTask]
               /\ left' = [left EXCEPT ![t] = {}]
               /\ fb' = [fb EXCEPT ![t] = {}]
               /\ UNCHANGED <<proc, frameVars, pte, users, held>>

(* task_exit up to mm_put.                                                  *)
Exit(t) == /\ At(t, "user")
           /\ t \in proc.exit
           /\ mm' = [mm EXCEPT ![t] = NoMm]
           /\ tlb' = [tlb EXCEPT ![t] = Blank]
           /\ Call(t, mm[t], NoCall.page, "read", Zero)
           /\ Goto(t, "put")
           /\ UNCHANGED <<proc, frameVars, pte, users, lock, held, walkVars>>

(* mm_put: the last user takes the pages back.                              *)
Put(t) == /\ At(t, "put")
          /\ users' = [users EXCEPT ![On(t)] = @ - 1]
          /\ IF users[On(t)] = 1
             THEN /\ Goto(t, "zap")
                  /\ left' = [left EXCEPT ![t] = Present(On(t))]
                  /\ UNCHANGED call
             ELSE Leave(t) /\ UNCHANGED left
          /\ UNCHANGED <<proc, frameVars, pte, lock, mm, tlb, held, child, fb>>

(* zap_cb: the page is given back, and noted for the flush.                 *)
ZapPage(t, p) == /\ pc[t] \in {"zap", "discard"}
                 /\ Walks(t, p)
                 /\ refs' = Unref(refs, pte[On(t)][p].frame)
                 /\ pte' = [pte EXCEPT ![On(t)][p] = Absent]
                 /\ Keeps(On(t), p, pte[On(t)][p])
                 /\ fb' = [fb EXCEPT ![t] = IF At(t, "discard") THEN @ \cup {p} ELSE @]
                 /\ UNCHANGED <<proc, data, cache, users, lock, mm, pc, call, held, child>>

(* mm_put returns without a flush: no task runs in m any more.              *)
ZapEnd(t) == /\ At(t, "zap")
             /\ left[t] = {}
             /\ Leave(t)
             /\ UNCHANGED <<proc, frameVars, pte, users, lock, mm, tlb, held, walkVars>>

(* mm_discard of the whole mapping.                                         *)
Discard(t) == /\ At(t, "user")
              /\ t \in proc.discard
              /\ lock[mm[t]] = NoTask
              /\ lock' = [lock EXCEPT ![mm[t]] = t]
              /\ Call(t, mm[t], NoCall.page, "read", Zero)
              /\ left' = [left EXCEPT ![t] = Present(mm[t])]
              /\ Goto(t, "discard")
              /\ UNCHANGED <<proc, frameVars, pte, users, mm, tlb, held, child, fb>>

DiscardEnd(t) == /\ At(t, "discard")
                 /\ left[t] = {}
                 /\ tlb' = Flushed(t, On(t), fb[t])
                 /\ Unlocks(t)
                 /\ Leave(t)
                 /\ fb' = [fb EXCEPT ![t] = {}]
                 /\ UNCHANGED <<proc, frameVars, pte, users, mm, held, child, left>>
-----------------------------------------------------------------------------
Accesses(t) == \E p \in Page :
    \/ Evict(t, p)
    \/ \E v \in Value : Write(t, p, v)
    \/ \E h \in {"read", "write"} : Fault(t, p, h)
    \/ \E m \in Mm, v \in Value : Poke(t, m, p, v)
Faults(t) == \/ MapAnon(t) \/ Allow(t) \/ Copy(t) \/ CopyStore(t) \/ CopyFlush(t)
             \/ CopyUnref(t) \/ PokeWrite(t) \/ FaultFails(t)
             \/ FileMiss(t) \/ CacheHit(t) \/ CacheMiss(t) \/ CacheInsert(t)
             \/ MapRead(t) \/ MapCopy(t)
Changes(t) == \/ \E c \in Task, m \in Mm : Fork(t, c, m)
              \/ \E p \in Page : ForkPage(t, p) \/ ZapPage(t, p)
              \/ ForkEnd(t) \/ ForkFail(t) \/ Exit(t) \/ Put(t) \/ ZapEnd(t)
              \/ Discard(t) \/ DiscardEnd(t)

Next == \/ \E t \in Task : Accesses(t) \/ Faults(t) \/ Changes(t)
        \/ \E p \in Page : Drop(p)

Spec == Init /\ [][Next]_vars
-----------------------------------------------------------------------------
InTables(f) == {x \in Mm \X Page : pte[x[1]][x[2]].frame = f}
InCache(f) == {p \in Page : cache[p] = f}
InHands(f) == {t \in Task : held[t] = f}

(* Every reference is counted once, and only those: page tables, also of a  *)
(* child that fork is making or of a process that is being put, the page    *)
(* cache, and the frames in the hands of a fault.                           *)
RefExact == \A f \in Frame :
    refs[f] = Cardinality(InTables(f)) + Cardinality(InCache(f)) + Cardinality(InHands(f))

Content(m) == [p \in Page |-> IF pte[m][p] = Absent THEN First[p] ELSE data[pte[m][p].frame]]
Alive(m) == \E t \in Task : mm[t] = m /\ pc[t] # "born"

(* Whatever a thread can reach through its TLB while mm.c changes the page  *)
(* tables is the memory of its process: no entry outlives its frame or      *)
(* shows the frame before a copy, and what it can write no other process    *)
(* and no later reader of the file sees.                                    *)
ReachesOwn == \A t \in Task, p \in Page : At(t, "user") =>
    /\ tlb[t][p] # Absent => /\ refs[tlb[t][p].frame] > 0
                             /\ data[tlb[t][p].frame] = Content(mm[t])[p]
    /\ Seen(t, p).w => \A q \in Page :
          /\ cache[q] # Seen(t, p).frame
          /\ \A m \in Mm \ {mm[t]} : Alive(m) => pte[m][q].frame # Seen(t, p).frame

(* A process has private memory: faults, the copies they make and changes   *)
(* in other processes do not show in it, and fork copies it at once         *)
(* although pages are shared, threads write on and the child is made page   *)
(* by page.                                                                 *)
Private == INSTANCE PrivateMemory WITH
    memory <- [m \in {n \in Mm : Alive(n)} |-> Content(m)],
    first <- First,
    written <- {m \in Mm : \E t \in Task : \/ At(t, "user") /\ mm[t] = m
                                           \/ At(t, "poke") /\ On(t) = m},
    discarded <- {m \in Mm : \E t \in Task : At(t, "discard") /\ On(t) = m}
HasPrivateMemory == Private!MemorySpec
=============================================================================
