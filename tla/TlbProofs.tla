----------------------------- MODULE TlbProofs ------------------------------
(***************************************************************************)
(* For any number of CPUs, tasks and address spaces: when nobody is moved  *)
(* between flush_here and the cli, tlb_flush_mm keeps its promise.  (The   *)
(* loops that poll have interrupts off.)  The invariant says where a stale *)
(* entry can be: on a CPU that runs the address space, not on the CPU of   *)
(* the requester once it has flushed, and during the wait only on a CPU    *)
(* that has not seen the request, and g_req_acks counts those.             *)
(***************************************************************************)
EXTENDS Tlb, FiniteSetTheorems, TLAPS

Quiet == Migrate = {}

Unseen == {c \in Cpu : ~seen[c]}
Owning == {"req", "gen", "wait"}
Stays  == {"cli", "try", "req", "gen", "wait"}

Shape == /\ cur \in [Cpu -> Task \cup {NoTask}]
         /\ live \in [Cpu -> Mm \cup {Kernel}]
         /\ seen \in [Cpu -> BOOLEAN]
         /\ stale \in [Cpu -> SUBSET Task]
         /\ pc \in [Task -> Place]
         /\ acks \in Int

(* Who runs where, and with which page map. *)
Running == /\ \A c, d \in Cpu : cur[c] = cur[d] /\ cur[c] # NoTask => c = d
           /\ \A c \in Cpu : live[c] = IF cur[c] = NoTask THEN Kernel ELSE mm[cur[c]]
           /\ \A t \in Task : pc[t] \in Stays => \E c \in Cpu : cur[c] = t

(* Where an old entry can be. *)
Where == \A t \in Task, c \in Cpu : t \in stale[c] =>
             /\ live[c] = mm[t]
             /\ pc[t] \in Stays \cup {"here"}
             /\ pc[t] \in Stays => cur[c] # t

Owner == \A t \in Task : pc[t] \in Owning => owner = t

(* The request and its acknowledgements. *)
Acks == /\ \A t \in Task : pc[t] = "gen" => req = t /\ acks = Cardinality(Cpu) - 1
        /\ \A t \in Task : pc[t] = "wait" =>
               /\ req = t
               /\ acks = Cardinality(Unseen)
               /\ \A c \in Cpu : t \in stale[c] => ~seen[c]
        /\ (\A t \in Task : pc[t] # "wait") => \A c \in Cpu : seen[c]
        /\ acks > 0 => \E t \in Task : pc[t] \in {"gen", "wait"}

Inv == Shape /\ Running /\ Where /\ Owner /\ Acks

----------------------------------------------------------------------------
(* The invariant holds at boot. *)
LEMMA InvInit == Init => Inv
  BY MmAssumption DEF Init, Inv, Shape, Running, Where, Owner, Acks, Place, Stays, Owning

(* serve_pending of a CPU that has not seen the request: somebody waits,    *)
(* one acknowledgement less is missing, and the CPU has no old entry.       *)
LEMMA Served ==
  ASSUME Inv, NEW c \in Cpu, Serve(c), pc' = pc, cur' = cur, live' = live,
         owner' = owner, req' = req
  PROVE  Inv'
<1>1. CASE seen[c]
  <2>1. seen' = seen /\ stale' = stale /\ acks' = acks
    BY Zenon, <1>1 DEF Serve
  <2>2. Unseen' = Unseen
    BY Zenon, <2>1 DEF Unseen
  <2> QED
    BY ZenonT(60), <2>1, <2>2 DEF Inv, Shape, Running, Where, Owner, Acks
<1>2. CASE ~seen[c]
  <2>1. PICK t \in Task : pc[t] = "wait"
    BY Zenon, <1>2 DEF Inv, Acks
  <2>2. req = t /\ acks = Cardinality(Unseen) /\ IsFiniteSet(Unseen)
    BY Zenon, <2>1, MmAssumption, FS_Subset DEF Inv, Acks, Unseen
  <2>3. \A u \in Task : pc[u] \in Owning => u = t
    BY Zenon, <2>1 DEF Inv, Owner, Owning
  <2>4. /\ seen' = [seen EXCEPT ![c] = TRUE]
        /\ stale' = [stale EXCEPT ![c] = IF live[c] = mm[t] THEN @ \ {t} ELSE @]
        /\ acks' = acks - 1
    BY Zenon, <1>2, <2>2 DEF Serve, FlushHere
  <2>5. \A d \in Cpu : /\ seen'[d] = (d = c \/ seen[d])
                       /\ stale'[d] \subseteq stale[d]
    BY Zenon, <2>4 DEF Inv, Shape
  <2>6. t \notin stale'[c]
    BY Zenon, <2>4 DEF Inv, Shape, Where
  <2>7. Unseen' = Unseen \ {c} /\ c \in Unseen
    BY Zenon, <1>2, <2>5 DEF Unseen
  <2>8. Cardinality(Unseen') = Cardinality(Unseen) - 1
    BY Zenon, <2>2, <2>7, FS_RemoveElement
  <2>9. Shape'
    BY <2>4 DEF Inv, Shape
  <2>10. Acks'
    BY Zenon, <2>1, <2>2, <2>3, <2>4, <2>5, <2>6, <2>8 DEF Inv, Acks, Owning
  <2>11. Running' /\ Where' /\ Owner'
    BY ZenonT(60), <2>5 DEF Inv, Running, Where, Owner
  <2> QED
    BY Zenon, <2>9, <2>10, <2>11 DEF Inv
<1> QED
  BY Zenon, <1>1, <1>2

(* A step of the task on c that changes neither a request nor a TLB, and    *)
(* leaves or enters no place the invariant speaks of.                       *)
LEMMA Moved ==
  ASSUME Inv, NEW c \in Cpu, cur[c] # NoTask, NEW p \in Place,
         pc' = [pc EXCEPT ![cur[c]] = p],
         pc[cur[c]] \notin Owning \cup {"here"}, p \notin Owning \cup {"here"},
         pc[cur[c]] \in Stays => p \in Stays,
         \A d \in Cpu : cur[c] \in stale[d] => p \in Stays /\ cur[d] # cur[c],
         UNCHANGED <<cur, live, owner, req, acks, seen, stale>>
  PROVE  Inv'
<1> DEFINE t == cur[c]
<1>1. t \in Task /\ \A u \in Task : pc'[u] = IF u = t THEN p ELSE pc[u]
  BY Zenon DEF Inv, Shape
<1>2. Unseen' = Unseen
  BY Zenon DEF Unseen
<1>3. Shape'
  BY Zenon DEF Inv, Shape
<1>4. Running' /\ Where' /\ Owner'
  BY <1>1 DEF Inv, Running, Where, Owner, Stays, Owning
<1>5. Acks'
  BY <1>1, <1>2 DEF Inv, Acks, Owning
<1> QED
  BY Zenon, <1>3, <1>4, <1>5 DEF Inv

(* Every step keeps the invariant. *)
LEMMA InvNext == ASSUME Quiet, Inv, [Next]_vars PROVE Inv'
<1>1. CASE UNCHANGED vars
  <2>1. Unseen' = Unseen
    BY Zenon, <1>1 DEF Unseen, vars, reqVars
  <2> QED
    BY ZenonT(60), <1>1, <2>1 DEF vars, reqVars, Inv, Shape, Running, Where, Owner, Acks
<1>2. ASSUME NEW c \in Cpu, Call(c) PROVE Inv'
  <2>1. cur[c] # NoTask /\ pc[cur[c]] = "out" /\ pc' = [pc EXCEPT ![cur[c]] = "lock"]
    BY Zenon, <1>2 DEF Call, At, Goto
  <2>2. \A d \in Cpu : cur[c] \notin stale[d]
    BY Zenon, <2>1 DEF Inv, Where, Stays, Shape
  <2> QED
    BY Zenon, <1>2, <2>1, <2>2, Moved DEF Call, reqVars, Place, Owning, Stays
<1>3. ASSUME NEW c \in Cpu, Lock(c) PROVE Inv'
  <2>1. cur[c] # NoTask /\ pc[cur[c]] = "lock" /\ pc' = [pc EXCEPT ![cur[c]] = "pte"]
    BY Zenon, <1>3 DEF Lock, At, Goto
  <2>2. \A d \in Cpu : cur[c] \notin stale[d]
    BY Zenon, <2>1 DEF Inv, Where, Stays, Shape
  <2> QED
    BY Zenon, <1>3, <2>1, <2>2, Moved DEF Lock, reqVars, Place, Owning, Stays
<1>4. ASSUME NEW c \in Cpu, SpinPoll(c) PROVE Inv'
  BY Zenon, <1>4, Served DEF SpinPoll
<1>6. ASSUME NEW c \in Cpu, Change(c) PROVE Inv'
  <2> DEFINE t == cur[c]
  <2>1. /\ t \in Task /\ t # NoTask /\ pc[t] = "pte"
        /\ \A u \in Task : pc'[u] = IF u = t THEN "here" ELSE pc[u]
        /\ UNCHANGED <<cur, live, owner, req, acks, seen>>
    BY Zenon, <1>6 DEF Change, At, Goto, Inv, Shape, reqVars
  <2>2. \A d \in Cpu : stale'[d] = IF live[d] = mm[t] THEN stale[d] \cup {t} ELSE stale[d]
    BY Zenon, <1>6 DEF Change
  <2>3. Unseen' = Unseen
    BY Zenon, <2>1 DEF Unseen
  <2>4. Shape'
    BY ZenonT(60), <1>6, <2>1 DEF Change, Goto, Inv, Shape, Place
  <2>5. Running' /\ Owner'
    BY ZenonT(60), <2>1 DEF Inv, Running, Owner, Stays, Owning
  <2>6. \A u \in Task, d \in Cpu : u \in stale'[d] => u \in stale[d] \/ (u = t /\ live[d] = mm[t])
    BY Zenon, <2>2
  <2>7. Where'
    BY ZenonT(60), <2>1, <2>6 DEF Inv, Where, Stays
  <2>8. Acks'
    BY <2>1, <2>3, <2>6 DEF Inv, Acks
  <2> QED
    BY Zenon, <2>4, <2>5, <2>7, <2>8 DEF Inv
<1>7. ASSUME NEW c \in Cpu, FbDone(c) PROVE Inv'
  <2> DEFINE t == cur[c]
  <2>1. /\ t \in Task /\ t # NoTask /\ pc[t] = "here"
        /\ UNCHANGED <<cur, live, owner, req, acks, seen>>
    BY Zenon, <1>7 DEF FbDone, At, Inv, Shape, reqVars
  <2>2. PICK p \in {"done", "cli"} :
          /\ \A u \in Task : pc'[u] = IF u = t THEN p ELSE pc[u]
          /\ pc' = [pc EXCEPT ![t] = p]
          /\ p = "done" => Sharing(mm[t]) = {t} \/ Cpu = {c}
    BY Zenon, <1>7 DEF FbDone, Goto, Inv, Shape
  <2>3. live[c] = mm[t]
    BY Zenon, <2>1 DEF Inv, Running
  <2>4. stale' = [stale EXCEPT ![c] = @ \ {t}]
    BY Zenon, <1>7, <2>3 DEF FbDone, FlushHere
  <2>5. \A d \in Cpu : stale'[d] = IF d = c THEN stale[d] \ {t} ELSE stale[d]
    BY Zenon, <2>4 DEF Inv, Shape
  <2>6. \A d \in Cpu : cur[d] = t => d = c
    BY Zenon, <2>1 DEF Inv, Running
  <2>7. ASSUME NEW d \in Cpu, t \in stale'[d] PROVE p = "cli" /\ cur[d] # t
    <3>1. t \in stale[d] /\ d # c
      BY Zenon, <2>5, <2>7
    <3>2. live[d] = mm[t] /\ cur[d] # t
      BY Zenon, <2>1, <2>6, <3>1 DEF Inv, Where
    <3>3. cur[d] \in Task /\ mm[cur[d]] = mm[t]
      BY <3>2, <2>1, MmAssumption DEF Inv, Running, Shape
    <3>4. Sharing(mm[t]) # {t}
      BY Zenon, <3>2, <3>3 DEF Sharing
    <3> QED
      BY Zenon, <2>2, <3>1, <3>2, <3>4
  <2>8. Unseen' = Unseen
    BY Zenon, <2>1 DEF Unseen
  <2>9. Shape'
    BY Zenon, <2>1, <2>2, <2>4 DEF Inv, Shape, Place
  <2>10. Running' /\ Owner'
    BY <2>1, <2>2 DEF Inv, Running, Owner, Stays, Owning
  <2>11. \A u \in Task, d \in Cpu : u \in stale'[d] => u \in stale[d]
    BY Zenon, <2>5
  <2>12. Where'
    BY <2>1, <2>2, <2>7, <2>11 DEF Inv, Where, Stays
  <2>13. Acks'
    BY <2>1, <2>2, <2>8, <2>11 DEF Inv, Acks
  <2> QED
    BY Zenon, <2>9, <2>10, <2>12, <2>13 DEF Inv
<1>8. ASSUME NEW c \in Cpu, Cli(c) PROVE Inv'
  <2>1. cur[c] # NoTask /\ pc[cur[c]] = "cli" /\ pc' = [pc EXCEPT ![cur[c]] = "try"]
    BY Zenon, <1>8 DEF Cli, At, Goto
  <2>2. \A d \in Cpu : cur[c] \in stale[d] => cur[d] # cur[c]
    BY Zenon, <2>1 DEF Inv, Where, Stays, Shape
  <2> QED
    BY Zenon, <1>8, <2>1, <2>2, Moved DEF Cli, reqVars, Place, Owning, Stays
<1>9. ASSUME NEW c \in Cpu, Try(c) PROVE Inv'
  <2> DEFINE t == cur[c]
  <2>1. /\ t \in Task /\ t # NoTask /\ pc[t] = "try"
        /\ pc' = [pc EXCEPT ![t] = "req"]
        /\ \A u \in Task : pc'[u] = IF u = t THEN "req" ELSE pc[u]
        /\ UNCHANGED <<cur, live, req, acks, seen, stale>>
        /\ owner = NoTask /\ owner' = t
    BY Zenon, <1>9 DEF Try, At, Goto, Inv, Shape
  <2>2. \A u \in Task : pc[u] \notin Owning
    BY Zenon, <2>1, MmAssumption DEF Inv, Owner
  <2>3. Unseen' = Unseen
    BY Zenon, <2>1 DEF Unseen
  <2>4. Shape'
    BY Zenon, <2>1 DEF Inv, Shape, Place
  <2>5. Running' /\ Where'
    BY <2>1 DEF Inv, Running, Where, Stays
  <2>6. Owner' /\ Acks'
    BY <2>1, <2>2, <2>3 DEF Inv, Owner, Acks, Owning
  <2> QED
    BY Zenon, <2>4, <2>5, <2>6 DEF Inv
<1>10. ASSUME NEW c \in Cpu, TryServe(c) PROVE Inv'
  BY Zenon, <1>10, Served DEF TryServe
<1>11. ASSUME NEW c \in Cpu, Request(c) PROVE Inv'
  <2> DEFINE t == cur[c]
  <2>1. /\ t \in Task /\ t # NoTask /\ pc[t] = "req"
        /\ pc' = [pc EXCEPT ![t] = "gen"]
        /\ \A u \in Task : pc'[u] = IF u = t THEN "gen" ELSE pc[u]
        /\ UNCHANGED <<cur, live, owner, seen, stale>>
        /\ req' = t /\ acks' = Cardinality(Cpu) - 1
    BY Zenon, <1>11 DEF Request, At, Goto, Inv, Shape
  <2>2. \A u \in Task : pc[u] \in Owning => u = t
    BY Zenon, <2>1 DEF Inv, Owner, Owning
  <2>3. Cardinality(Cpu) \in Nat
    BY Zenon, MmAssumption, FS_CardinalityType
  <2>4. Shape'
    BY <2>1, <2>3 DEF Inv, Shape, Place
  <2>5. Running' /\ Where' /\ Owner'
    BY <2>1 DEF Inv, Running, Where, Owner, Stays, Owning
  <2>6. Acks'
    BY <2>1, <2>2 DEF Inv, Acks, Owning
  <2> QED
    BY Zenon, <2>4, <2>5, <2>6 DEF Inv
<1>12. ASSUME NEW c \in Cpu, Generation(c) PROVE Inv'
  <2> DEFINE t == cur[c]
  <2>1. /\ t \in Task /\ t # NoTask /\ pc[t] = "gen"
        /\ pc' = [pc EXCEPT ![t] = "wait"]
        /\ \A u \in Task : pc'[u] = IF u = t THEN "wait" ELSE pc[u]
        /\ UNCHANGED <<cur, live, owner, req, acks, stale>>
        /\ seen' = [d \in Cpu |-> d = c]
    BY Zenon, <1>12 DEF Generation, At, Goto, Inv, Shape
  <2>2. \A u \in Task : pc[u] \in Owning => u = t
    BY Zenon, <2>1 DEF Inv, Owner, Owning
  <2>3. Unseen' = Cpu \ {c}
    BY Zenon, <2>1 DEF Unseen
  <2>4. Cardinality(Unseen') = Cardinality(Cpu) - 1
    BY Zenon, <2>3, MmAssumption, FS_RemoveElement
  <2>5. t \notin stale[c]
    BY Zenon, <2>1 DEF Inv, Where, Stays
  <2>6. Shape'
    BY Zenon, <2>1 DEF Inv, Shape, Place
  <2>7. Running' /\ Where' /\ Owner'
    BY <2>1 DEF Inv, Running, Where, Owner, Stays, Owning
  <2>8. \A u \in Task : pc'[u] \in Owning => u = t
    BY Zenon, <2>1, <2>2
  <2>9. req = t /\ acks = Cardinality(Cpu) - 1
    BY Zenon, <2>1 DEF Inv, Acks
  <2>10. Acks'
    BY ZenonT(60), <2>1, <2>4, <2>5, <2>8, <2>9 DEF Acks, Owning
  <2> QED
    BY Zenon, <2>6, <2>7, <2>10 DEF Inv
<1>13. ASSUME NEW c \in Cpu, Wait(c) PROVE Inv'
  <2> DEFINE t == cur[c]
  <2>1. /\ t \in Task /\ t # NoTask /\ pc[t] = "wait" /\ acks <= 0
        /\ pc' = [pc EXCEPT ![t] = "done"]
        /\ \A u \in Task : pc'[u] = IF u = t THEN "done" ELSE pc[u]
        /\ UNCHANGED <<cur, live, req, acks, seen, stale>>
        /\ owner' = NoTask
    BY Zenon, <1>13 DEF Wait, At, Goto, Inv, Shape
  <2>2. \A u \in Task : pc[u] \in Owning => u = t
    BY Zenon, <2>1 DEF Inv, Owner, Owning
  <2>3. IsFiniteSet(Unseen) /\ acks = Cardinality(Unseen)
    BY Zenon, <2>1, MmAssumption, FS_Subset DEF Inv, Acks, Unseen
  <2>4. Unseen = {}
    BY <2>1, <2>3, FS_CardinalityType, FS_EmptySet
  <2>5. \A d \in Cpu : seen[d] /\ t \notin stale[d]
    BY Zenon, <2>1, <2>4 DEF Inv, Acks, Unseen
  <2>6. Shape'
    BY Zenon, <2>1 DEF Inv, Shape, Place
  <2>7. Running' /\ Where' /\ Owner'
    BY <2>1, <2>2, <2>5 DEF Inv, Running, Where, Owner, Stays, Owning
  <2>8. ~(acks' > 0)
    BY <2>1 DEF Inv, Shape
  <2>9. \A u \in Task : pc'[u] \notin Owning
    BY <2>1, <2>2 DEF Owning
  <2>10. Acks'
    BY Zenon, <2>1, <2>5, <2>8, <2>9 DEF Acks, Owning
  <2> QED
    BY Zenon, <2>6, <2>7, <2>10 DEF Inv
<1>14. ASSUME NEW c \in Cpu, Unlock(c) PROVE Inv'
  <2>1. cur[c] # NoTask /\ pc[cur[c]] = "done" /\ pc' = [pc EXCEPT ![cur[c]] = "out"]
    BY Zenon, <1>14 DEF Unlock, At, Goto
  <2>2. \A d \in Cpu : cur[c] \notin stale[d]
    BY Zenon, <2>1 DEF Inv, Where, Stays, Shape
  <2> QED
    BY Zenon, <1>14, <2>1, <2>2, Moved DEF Unlock, reqVars, Place, Owning, Stays
<1>15. ASSUME NEW c \in Cpu, Ipi(c) PROVE Inv'
  BY Zenon, <1>15, Served DEF Ipi
<1>16. ASSUME NEW c \in Cpu, NEW n \in Task \cup {NoTask}, Switch(c, n) PROVE Inv'
  <2> DEFINE m == IF n = NoTask THEN Kernel ELSE mm[n]
  <2>1. /\ cur' = [cur EXCEPT ![c] = n]
        /\ live' = [live EXCEPT ![c] = m]
        /\ stale' = [stale EXCEPT ![c] = IF live[c] = m THEN @ ELSE {}]
        /\ UNCHANGED <<owner, req, acks, seen, pc>>
        /\ n # NoTask => \A d \in Cpu : cur[d] # n
        /\ cur[c] # NoTask => Preemptible(cur[c])
    BY Zenon, <1>16 DEF Switch, reqVars
  <2>2. /\ \A d \in Cpu : cur'[d] = IF d = c THEN n ELSE cur[d]
        /\ \A d \in Cpu : live'[d] = IF d = c THEN m ELSE live[d]
        /\ \A d \in Cpu : stale'[d] \subseteq stale[d]
        /\ live[c] = m \/ stale'[c] = {}
    BY Zenon, <2>1 DEF Inv, Shape
  <2>3. \A t \in Task : pc[t] \in Stays => t # n /\ t # cur[c]
    BY <2>1, MmAssumption DEF Inv, Running, Preemptible, Stays, Quiet
  <2>4. m \in Mm \cup {Kernel}
    BY Zenon, MmAssumption
  <2>5. Shape'
    BY Zenon, <2>1, <2>4 DEF Inv, Shape
  <2>6. Unseen' = Unseen
    BY Zenon, <2>1 DEF Unseen
  <2>7. Running'
    BY <2>1, <2>2, <2>3 DEF Inv, Running
  <2>8. Where'
    BY <2>1, <2>2, <2>3 DEF Inv, Where
  <2>9. Owner' /\ Acks'
    BY Zenon, <2>1, <2>2, <2>6 DEF Inv, Owner, Acks
  <2> QED
    BY Zenon, <2>5, <2>7, <2>8, <2>9 DEF Inv
<1> QED
  BY Zenon, <1>1, <1>2, <1>3, <1>4, <1>6, <1>7, <1>8, <1>9, <1>10, <1>11, <1>12, <1>13, <1>14,
     <1>15, <1>16 DEF Next, Step

(* The invariant holds always. *)
LEMMA InvAlways == ASSUME Quiet PROVE Spec => []Inv
<1>1. Init => Inv
  BY Zenon, InvInit
<1>2. Inv /\ [Next]_vars => Inv'
  BY Zenon, InvNext
<1> QED
  BY <1>1, <1>2, PTL DEF Spec

(* When fb_done is over, no TLB shows the page-table entries from before:   *)
(* tlb_flush_mm returns only after every CPU that could has flushed.        *)
THEOREM NoStaleAlways == ASSUME Quiet PROVE Spec => []NoStaleEntry
<1>1. Inv => NoStaleEntry
  BY Zenon DEF Inv, Where, Stays, NoStaleEntry
<1> QED
  BY <1>1, InvAlways, PTL

(* g_req_acks never counts fewer CPUs than can still hold an old entry.     *)
THEOREM AcksAlways == ASSUME Quiet PROVE Spec => []AcksCount
<1>1. Inv => AcksCount
  <2> SUFFICES ASSUME Inv, NEW t \in Task, pc[t] = "wait"
               PROVE  Cardinality({c \in Cpu : t \in stale[c]}) <= acks
    BY Zenon DEF AcksCount
  <2>1. {c \in Cpu : t \in stale[c]} \subseteq Unseen
    BY Zenon DEF Inv, Acks, Unseen
  <2>2. IsFiniteSet(Unseen)
    BY Zenon, MmAssumption, FS_Subset DEF Unseen
  <2> QED
    BY <2>1, <2>2, FS_Subset DEF Inv, Acks
<1> QED
  BY <1>1, InvAlways, PTL

(* Nobody overwrites g_req_cr3 and g_req_addrs before the last CPU that has *)
(* not seen them has flushed: they stay the owner's of g_tlb_lock, who is   *)
(* still in tlb_flush_mm.                                                   *)
THEOREM RequestAlwaysKept == ASSUME Quiet PROVE Spec => []RequestKept
<1>1. Inv => RequestKept
  <2> SUFFICES ASSUME Inv, acks > 0 PROVE req = owner /\ pc[owner] \in {"gen", "wait"}
    BY Zenon DEF RequestKept
  <2>1. PICK t \in Task : pc[t] \in {"gen", "wait"}
    BY Zenon DEF Inv, Acks
  <2>2. owner = t /\ req = t
    BY Zenon, <2>1 DEF Inv, Owner, Owning, Acks
  <2> QED
    BY Zenon, <2>1, <2>2
<1> QED
  BY <1>1, InvAlways, PTL
=============================================================================
