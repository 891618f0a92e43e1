----------------------------- MODULE WaitProofs -----------------------------
(***************************************************************************)
(* The process tree of module Wait stays in order for any set of tasks, as *)
(* long as no subreaper exits.  The properties are not inductive: that a   *)
(* child is in one list only, that a zombie in hand is in the list of its  *)
(* reaper or in none, and which places belong to a zombie, has to be known *)
(* too.                                                                    *)
(***************************************************************************)
EXTENDS Wait, TLAPS

Exits == {"heir", "adopt", "tell", "wake", "chld", "off"}
Done  == {"tell", "wake", "chld", "off", "dead"}

Shape == /\ state \in [Task -> TaskState]
         /\ oncpu \in [Task -> BOOLEAN]
         /\ pids \subseteq Task
         /\ children \in [Task -> SUBSET Task]
         /\ zombie \in [Task -> Task \cup {NoTask}]
         /\ up \in [Task -> Task \cup {NoTask}]
         /\ ppid \in [Task -> Task \cup {NoTask}]
         /\ pc \in [Task -> Place]

(* A task exits, or is dead, exactly when it is a zombie. *)
Life == \A t \in Task :
    /\ pc[t] \in Exits => t \in MayExit /\ state[t] = "ZOMBIE" /\ oncpu[t]
    /\ pc[t] = "dead" => t \in MayExit /\ state[t] = "ZOMBIE" /\ ~oncpu[t]
    /\ pc[t] \notin Exits \cup {"dead"} => state[t] # "ZOMBIE"
    /\ pc[t] = "new" => t \notin pids /\ ~oncpu[t]
    /\ pc[t] \notin {"new", "dead"} => t \in pids

Tree == /\ Init1 \in pids
        /\ \A t \in Task : children[t] \subseteq pids
        /\ \A t, u \in Task : (\E c \in children[t] : c \in children[u]) => t = u

(* The zombie in the hands of a reaper. *)
Hands == \A t \in Task :
    /\ pc[t] = "reap" => zombie[t] \in children[t] /\ pc[zombie[t]] = "dead"
    /\ pc[t] = "free" => /\ zombie[t] \in pids /\ pc[zombie[t]] = "dead"
                         /\ \A u \in Task : zombie[t] \notin children[u]
                         /\ \A u \in Task : pc[u] = "free" /\ zombie[u] = zombie[t] => u = t

Heirs == \A t \in Task : pc[t] = "adopt" => up[t] \in pids \ MayExit

Inv == Shape /\ Life /\ Tree /\ Hands /\ Heirs /\ Adopted
-----------------------------------------------------------------------------
(* init runs, every other task is still to be created. *)
LEMMA InvInit == ASSUME Init PROVE Inv
  BY Zenon, WaitAssumption DEF Init, Inv, Shape, Life, Tree, Hands, Heirs, Adopted, Exits, Done, TaskState, Place

(* Steps that touch neither the tree nor the place of a zombie's end. *)
LEMMA Same ==
  ASSUME Inv,
         state' \in [Task -> TaskState], oncpu' \in [Task -> BOOLEAN], pc' \in [Task -> Place],
         zombie' \in [Task -> Task \cup {NoTask}], up' \in [Task -> Task \cup {NoTask}],
         UNCHANGED treeVars,
         \A u \in Task : state'[u] = "ZOMBIE" <=> state[u] = "ZOMBIE",
         \A u \in Task : state[u] = "ZOMBIE" \/ pc[u] = "new" => oncpu'[u] = oncpu[u],
         \A u \in Task : \/ pc'[u] = pc[u]
                         \/ /\ pc[u] \notin Exits \cup {"new", "dead"}
                            /\ pc'[u] \notin Exits \cup {"new", "dead", "reap", "free"}
                         \/ /\ pc[u] \in Exits /\ pc'[u] \in Exits
                            /\ pc'[u] \in Done => pc[u] \in Done,
         \A u \in Task : pc'[u] \in {"reap", "free"} => zombie'[u] = zombie[u],
         \A u \in Task : pc'[u] = "adopt" => \/ pc[u] = "adopt" /\ up'[u] = up[u]
                                             \/ up'[u] \in pids \ MayExit
  PROVE  Inv'
<1> USE DEF Inv, treeVars
<1>1. Shape'
  BY Zenon DEF Shape
<1>2. Life'
  BY DEF Life, Exits, Place
<1>3. Tree'
  BY Zenon DEF Tree
<1>4. Hands'
  <2>1. \A z \in Task : pc[z] = "dead" => pc'[z] = "dead"
    BY Zenon DEF Exits
  <2>2. \A u \in Task : pc'[u] \in {"reap", "free"} => pc'[u] = pc[u] /\ zombie'[u] = zombie[u]
    BY Zenon DEF Exits
  <2>3. \A u \in Task : pc[u] \in {"reap", "free"} => zombie[u] \in Task
    BY Zenon DEF Hands, Shape
  <2>4. ASSUME NEW u \in Task, pc'[u] = "reap" PROVE zombie'[u] \in children'[u] /\ pc'[zombie'[u]] = "dead"
    BY <2>1, <2>2, <2>3, <2>4 DEF Hands, Inv
  <2>5. ASSUME NEW u \in Task, pc'[u] = "free"
        PROVE  /\ zombie'[u] \in pids' /\ pc'[zombie'[u]] = "dead"
               /\ \A w \in Task : zombie'[u] \notin children'[w]
    BY <2>1, <2>2, <2>3, <2>5 DEF Hands, Inv
  <2>6. ASSUME NEW u \in Task, NEW w \in Task, pc'[u] = "free", pc'[w] = "free", zombie'[w] = zombie'[u]
        PROVE  w = u
    BY <2>1, <2>2, <2>3, <2>6 DEF Hands, Inv
  <2> QED
    BY Zenon, <2>4, <2>5, <2>6 DEF Hands
<1>5. Heirs'
  BY Zenon DEF Heirs
<1>6. Adopted'
  BY Zenon DEF Adopted, Exits, Done
<1> QED
  BY Zenon, <1>1, <1>2, <1>3, <1>4, <1>5, <1>6

(* Waking a task ends nobody's life. *)
LEMMA UnblockedKeeps ==
  ASSUME Shape, NEW S
  PROVE  /\ Unblocked(S) \in [Task -> TaskState]
         /\ \A u \in Task : Unblocked(S)[u] = "ZOMBIE" <=> state[u] = "ZOMBIE"
  BY Zenon DEF Shape, Unblocked, TaskState
-----------------------------------------------------------------------------
(* Every step keeps the invariant. *)
LEMMA InvNext ==
  ASSUME Inv, [Next]_vars, SubReaper \cap MayExit = {} PROVE Inv'
<1> USE WaitAssumption
<1>0. Shape /\ Life
  BY Zenon DEF Inv
<1>1. CASE UNCHANGED vars
  BY Zenon, <1>1, <1>0, Same DEF vars, schedVars, treeVars, waitVars, exitVars, Shape
<1>2. ASSUME NEW t \in Task, NEW c \in Task, Fork(t, c) PROVE Inv'
  <2>0. /\ pc[c] = "new" /\ pc[t] = "out" /\ c # t /\ c \notin pids
        /\ \A u \in Task : c \notin children[u]
    BY Zenon, <1>2, <1>0 DEF Fork, At, Life, Inv, Tree
  <2>1. /\ UNCHANGED <<state, oncpu, zombie, up>>
        /\ pids' = pids \cup {c}
        /\ children' = [children EXCEPT ![t] = @ \cup {c}]
        /\ pc' = [pc EXCEPT ![c] = "out"]
        /\ ppid' = [ppid EXCEPT ![c] = t]
    BY Zenon, <1>2 DEF Fork, Goto, schedVars, waitVars, exitVars
  <2>2. Shape'
    BY ZenonT(60), <2>1, <1>0 DEF Shape, Place
  <2>3. Life'
    BY ZenonT(60), <2>0, <2>1, <1>0 DEF Life, Shape, Exits
  <2>4. Tree'
    BY ZenonT(60), <2>0, <2>1, <1>0 DEF Tree, Inv, Shape
  <2>5. Hands'
    BY <2>0, <2>1, <1>0 DEF Hands, Inv, Shape, Tree
  <2>6. Heirs'
    BY Zenon, <2>0, <2>1, <1>0 DEF Heirs, Inv, Shape
  <2>7. Adopted'
    BY Zenon, <2>0, <2>1, <1>0 DEF Adopted, Inv, Shape
  <2> QED
    BY Zenon, <2>2, <2>3, <2>4, <2>5, <2>6, <2>7 DEF Inv
<1>3. ASSUME NEW t \in Task, Calls(t) PROVE Inv'
  BY <1>3, <1>0, Same DEF Calls, Call, At, Goto, Shape, Life, Place, Exits, schedVars, treeVars, exitVars
<1>4. ASSUME NEW t \in Task, ScanReturns(t) PROVE Inv'
  BY ZenonT(60), <1>4, <1>0, Same DEF ScanReturns, Returns, At, Goto, Shape, Life, Place, Exits, schedVars, treeVars, exitVars
<1>5. ASSUME NEW t \in Task, ScanFinds(t) PROVE Inv'
  <2>1. PICK c \in Selected(t) : Reapable(c) /\ zombie' = [zombie EXCEPT ![t] = c]
    BY Zenon, <1>5 DEF ScanFinds
  <2>2. c \in children[t] /\ c \in Task /\ pc[c] = "dead" /\ pc[t] = "scan" /\ c # t
    BY ZenonT(60), <1>5, <2>1, <1>0 DEF ScanFinds, Selected, Reapable, Shape, Life, At, Exits
  <2>3. /\ pc' = [pc EXCEPT ![t] = "reap"]
        /\ UNCHANGED <<state, oncpu, pids, children, ppid, up>>
    BY Zenon, <1>5 DEF ScanFinds, Goto, schedVars, treeVars, exitVars
  <2>4. Shape'
    BY Zenon, <2>1, <2>2, <2>3, <1>0 DEF Shape, Place
  <2>5. Life'
    BY ZenonT(60), <2>2, <2>3, <1>0 DEF Life, Shape, Exits
  <2>6. Tree' /\ Heirs' /\ Adopted'
    BY Zenon, <2>2, <2>3, <1>0 DEF Tree, Heirs, Adopted, Inv, Shape
  <2>7. Hands'
    BY <2>1, <2>2, <2>3, <1>0 DEF Hands, Inv, Shape
  <2> QED
    BY Zenon, <2>4, <2>5, <2>6, <2>7 DEF Inv
<1>6. ASSUME NEW t \in Task, ScanSleeps(t) PROVE Inv'
  BY ZenonT(60), <1>6, <1>0, Same DEF ScanSleeps, At, Goto, Shape, Life, Place, Exits, schedVars, treeVars, exitVars, waitVars
<1>7. ASSUME NEW t \in Task, Mark(t) PROVE Inv'
  BY ZenonT(60), <1>7, <1>0, Same DEF Mark, SetBlocked, TaskState, At, Goto, Shape, Life, Place, Exits, treeVars, exitVars, waitVars
<1>8. ASSUME NEW t \in Task, Recheck(t) PROVE Inv'
  BY Zenon, <1>8, <1>0, Same, UnblockedKeeps DEF Recheck, task_unblock, Shape, treeVars, exitVars, waitVars
<1>9. ASSUME NEW t \in Task, Resched(t) PROVE Inv'
  BY ZenonT(60), <1>9, <1>0, Same DEF Resched, ReschedReturns, TaskState, At, Goto, Shape, Life, Place, Exits, treeVars, exitVars, waitVars
<1>10. ASSUME NEW t \in Task, Check(t) PROVE Inv'
  BY <1>10, <1>0, Same DEF Check, Returns, At, Goto, Shape, Life, Place, Exits, schedVars, treeVars, exitVars, waitVars
<1>11. ASSUME NEW t \in Task, Reap(t) PROVE Inv'
  <2>1. CASE opt[t] = "WNOWAIT"
    BY <1>11, <2>1, <1>0, Same DEF Reap, Returns, At, Goto, Shape, Life, Place, Exits, schedVars, treeVars, exitVars, waitVars
  <2>2. CASE opt[t] # "WNOWAIT"
    <3>1. /\ pc[t] = "reap" /\ oncpu[t]
          /\ children' = [children EXCEPT ![t] = @ \ {zombie[t]}]
          /\ pc' = [pc EXCEPT ![t] = "free"]
          /\ UNCHANGED <<state, oncpu, pids, ppid, zombie, up>>
      BY Zenon, <1>11, <2>2 DEF Reap, At, Goto, schedVars, waitVars, exitVars
    <3>2. /\ zombie[t] \in children[t] /\ pc[zombie[t]] = "dead" /\ zombie[t] \in pids
          /\ zombie[t] \in Task /\ zombie[t] # t
          /\ \A u \in Task : u # t => zombie[t] \notin children[u]
          /\ \A u \in Task : pc[u] = "free" => zombie[u] # zombie[t]
      BY Zenon, <3>1, <1>0 DEF Inv, Hands, Tree, Shape
    <3>3. Shape'
      BY Zenon, <3>1, <1>0 DEF Shape, Place
    <3>4. Life'
      BY ZenonT(60), <3>1, <1>0 DEF Life, Shape, Exits
    <3>5. Tree' /\ Heirs' /\ Adopted'
      BY ZenonT(60), <3>1, <1>0 DEF Tree, Heirs, Adopted, Inv, Shape
    <3>6. Hands'
      <4> SUFFICES ASSUME NEW u \in Task
                   PROVE  /\ pc'[u] = "reap" => zombie'[u] \in children'[u] /\ pc'[zombie'[u]] = "dead"
                          /\ pc'[u] = "free" => /\ zombie'[u] \in pids' /\ pc'[zombie'[u]] = "dead"
                                                /\ \A v \in Task : zombie'[u] \notin children'[v]
                                                /\ \A v \in Task : pc'[v] = "free" /\ zombie'[v] = zombie'[u] => v = u
        BY Zenon DEF Hands
      <4>1. CASE u = t
        BY <4>1, <3>1, <3>2, <1>0 DEF Inv, Hands, Shape
      <4>2. CASE u # t
        BY <4>2, <3>1, <3>2, <1>0 DEF Inv, Hands, Shape
      <4> QED
        BY Zenon, <4>1, <4>2
    <3> QED
      BY Zenon, <3>3, <3>4, <3>5, <3>6 DEF Inv
  <2> QED
    BY Zenon, <2>1, <2>2
<1>12. ASSUME NEW t \in Task, Free(t) PROVE Inv'
  <2>1. /\ pc[t] = "free"
        /\ pids' = pids \ {zombie[t]}
        /\ pc' = [pc EXCEPT ![t] = "out"]
        /\ zombie' = [zombie EXCEPT ![t] = NoTask]
        /\ UNCHANGED <<state, oncpu, children, ppid, up>>
    BY Zenon, <1>12 DEF Free, Returns, At, Goto, schedVars, exitVars
  <2>2. /\ zombie[t] \in pids /\ pc[zombie[t]] = "dead" /\ zombie[t] \in MayExit
        /\ \A u \in Task : zombie[t] \notin children[u]
        /\ \A u \in Task : pc[u] = "free" /\ zombie[u] = zombie[t] => u = t
    BY Zenon, <2>1, <1>0 DEF Inv, Hands, Life, Shape
  <2>3. Shape'
    BY Zenon, <2>1, <1>0 DEF Shape, Place
  <2>4. Life'
    BY ZenonT(60), <2>1, <2>2, <1>0 DEF Life, Shape, Exits
  <2>5. Tree' /\ Adopted'
    BY ZenonT(60), <2>1, <2>2, <1>0 DEF Tree, Adopted, Inv, Shape
  <2>6. Hands'
    BY <2>1, <2>2, <1>0 DEF Hands, Inv, Shape
  <2>7. Heirs'
    BY Zenon, <2>1, <2>2, <1>0 DEF Heirs, Inv, Shape
  <2> QED
    BY Zenon, <2>3, <2>4, <2>5, <2>6, <2>7 DEF Inv
<1>13. ASSUME NEW t \in Task, Exit(t) PROVE Inv'
  <2>1. /\ pc[t] = "out" /\ oncpu[t] /\ t \in MayExit
        /\ state' = [state EXCEPT ![t] = "ZOMBIE"]
        /\ up' = [up EXCEPT ![t] = ppid[t]]
        /\ pc' = [pc EXCEPT ![t] = "heir"]
        /\ UNCHANGED <<oncpu, pids, children, ppid, zombie>>
    BY Zenon, <1>13 DEF Exit, At, Goto, treeVars, waitVars
  <2>2. Shape'
    BY Zenon, <2>1, <1>0 DEF Shape, Place, TaskState
  <2>3. Life'
    BY ZenonT(60), <2>1, <1>0 DEF Life, Shape, Exits
  <2>4. Tree' /\ Adopted' /\ Heirs'
    BY ZenonT(60), <2>1, <1>0 DEF Tree, Adopted, Heirs, Inv, Shape
  <2>5. Hands'
    BY <2>1, <1>0 DEF Hands, Inv, Shape
  <2> QED
    BY Zenon, <2>2, <2>3, <2>4, <2>5 DEF Inv
<1>14. ASSUME NEW t \in Task, Walk(t) PROVE Inv'
  <2>1. /\ pc[t] = "heir"
        /\ UNCHANGED <<state, oncpu, pids, children, ppid, zombie>>
    BY Zenon, <1>14 DEF Walk, At, schedVars, treeVars, waitVars
  <2>2. /\ up' \in [Task -> Task \cup {NoTask}]
        /\ \A u \in Task : u # t => up'[u] = up[u] /\ pc'[u] = pc[u]
        /\ pc' \in [Task -> Place]
        /\ pc'[t] # "heir" => pc'[t] = "adopt" /\ up'[t] \in pids \ MayExit
    BY <1>14, <2>1, <1>0 DEF Walk, Goto, Shape, Place, Inv, Tree
  <2> QED
    BY Zenon, <2>1, <2>2, <1>0, Same DEF Shape, Exits, Done, treeVars
<1>15. ASSUME NEW t \in Task, Adopt(t) PROVE Inv'
  <2> DEFINE h == up[t]
  <2>1. /\ pc[t] = "adopt"
        /\ children' = [children EXCEPT ![t] = {}, ![h] = @ \cup children[t]]
        /\ up' = [up EXCEPT ![t] = NoTask]
        /\ pc' = [pc EXCEPT ![t] = "tell"]
        /\ UNCHANGED <<state, oncpu, pids, zombie>>
        /\ ppid' = [c \in Task |-> IF c \in children[t] THEN h ELSE ppid[c]]
    BY Zenon, <1>15 DEF Adopt, At, Goto, schedVars, waitVars
  <2>2. h \in Task /\ h # t /\ h \notin MayExit /\ t \in MayExit
    BY Zenon, <2>1, <1>0 DEF Inv, Heirs, Life, Shape, Exits
  <2>3. /\ children'[t] = {}
        /\ children'[h] = children[h] \cup children[t]
        /\ \A u \in Task \ {t, h} : children'[u] = children[u]
        /\ children' \in [Task -> SUBSET Task]
    BY Zenon, <2>1, <2>2, <1>0 DEF Shape
  <2>4. Shape'
    BY ZenonT(60), <2>1, <2>2, <2>3, <1>0 DEF Shape, Place
  <2>5. Life'
    BY Zenon, <2>1, <1>0 DEF Life, Shape, Exits
  <2>6. Tree'
    BY <2>1, <2>2, <2>3, <1>0 DEF Tree, Inv, Shape
  <2>7. Hands'
    <3>1. \A u \in Task : pc'[u] = IF u = t THEN "tell" ELSE pc[u]
      BY Zenon, <2>1, <1>0 DEF Shape
    <3>2. \A u \in Task : pc'[u] \in {"reap", "free"} => u # t /\ pc'[u] = pc[u]
      BY Zenon, <3>1
    <3>3. \A z \in Task : pc[z] = "dead" => pc'[z] = "dead"
      BY Zenon, <2>1, <3>1
    <3>4. \A u \in Task : u # t => children[u] \subseteq children'[u]
      BY Zenon, <2>3
    <3>5. \A z : (\A u \in Task : z \notin children[u]) => \A u \in Task : z \notin children'[u]
      BY Zenon, <2>2, <2>3
    <3>6. \A u \in Task : pc[u] \in {"reap", "free"} => zombie[u] \in Task
      BY Zenon, <1>0 DEF Hands, Inv, Shape
    <3>7. ASSUME NEW u \in Task, pc'[u] = "reap" PROVE zombie'[u] \in children'[u] /\ pc'[zombie'[u]] = "dead"
      BY Zenon, <2>1, <3>2, <3>3, <3>4, <3>6, <3>7, <1>0 DEF Hands, Inv
    <3>8. ASSUME NEW u \in Task, pc'[u] = "free"
          PROVE  /\ zombie'[u] \in pids' /\ pc'[zombie'[u]] = "dead"
                 /\ \A w \in Task : zombie'[u] \notin children'[w]
      BY Zenon, <2>1, <3>2, <3>3, <3>5, <3>6, <3>8, <1>0 DEF Hands, Inv
    <3>9. ASSUME NEW u \in Task, NEW w \in Task, pc'[u] = "free", pc'[w] = "free", zombie'[w] = zombie'[u]
          PROVE  w = u
      BY ZenonT(60), <2>1, <3>2, <3>9, <1>0 DEF Hands, Inv
    <3> QED
      BY Zenon, <3>7, <3>8, <3>9 DEF Hands
  <2>8. Heirs'
    BY Zenon, <2>1, <1>0 DEF Heirs, Inv, Shape
  <2>9. Adopted'
    <3>1. pc[h] \notin Exits \cup {"dead"}
      BY Zenon, <2>2, <1>0 DEF Life
    <3> QED
      BY ZenonT(60), <3>1, <2>1, <2>2, <2>3, <1>0 DEF Adopted, Inv, Shape, Exits
  <2> QED
    BY Zenon, <2>4, <2>5, <2>6, <2>7, <2>8, <2>9 DEF Inv
<1>16. ASSUME NEW t \in Task, Tell(t) PROVE Inv'
  BY Zenon, <1>16, <1>0, Same, UnblockedKeeps DEF Tell, Post, At, Goto, Shape, Place, Exits, Done, treeVars, waitVars
<1>17. ASSUME NEW t \in Task, WakeWaiters(t) PROVE Inv'
  BY <1>17, <1>0, Same, UnblockedKeeps DEF WakeWaiters, At, Goto, Shape, Place, Exits, Done, treeVars, waitVars, exitVars
<1>18. ASSUME NEW t \in Task, SendChild(t) PROVE Inv'
  BY ZenonT(60), <1>18, <1>0, Same, UnblockedKeeps DEF SendChild, Post, At, Goto, Shape, Place, Exits, Done, treeVars, waitVars, exitVars
<1>19. ASSUME NEW t \in Task, Off(t) PROVE Inv'
  <2>1. /\ pc[t] = "off"
        /\ oncpu' = [oncpu EXCEPT ![t] = FALSE]
        /\ pc' = [pc EXCEPT ![t] = "dead"]
        /\ UNCHANGED <<state, pids, children, ppid, zombie, up>>
    BY Zenon, <1>19 DEF Off, At, Goto, treeVars, waitVars, exitVars
  <2>2. Shape'
    BY Zenon, <2>1, <1>0 DEF Shape, Place
  <2>3. Life'
    BY Zenon, <2>1, <1>0 DEF Life, Shape, Exits
  <2>4. Tree' /\ Heirs' /\ Adopted'
    BY Zenon, <2>1, <1>0 DEF Tree, Heirs, Adopted, Inv, Shape
  <2>5. Hands'
    BY <2>1, <1>0 DEF Hands, Inv, Shape
  <2> QED
    BY Zenon, <2>2, <2>3, <2>4, <2>5 DEF Inv
<1>20. ASSUME NEW t \in Task, Deliver(t) PROVE Inv'
  BY Zenon, <1>20, <1>0, Same DEF Deliver, Shape, schedVars, treeVars, waitVars, exitVars
<1>21. ASSUME NEW t \in Task, Schedule(t) PROVE Inv'
  BY ZenonT(60), <1>21, <1>0, Same DEF Schedule, SwitchAway, Dispatch, TaskState, Shape, treeVars, waitVars, exitVars
<1> QED
  BY Zenon, <1>1, <1>2, <1>3, <1>4, <1>5, <1>6, <1>7, <1>8, <1>9, <1>10, <1>11, <1>12, <1>13, <1>14, <1>15,
     <1>16, <1>17, <1>18, <1>19, <1>20, <1>21 DEF Next, Waiting, Exiting

(* So it always holds, when no subreaper exits. *)
LEMMA InvAlways == ASSUME SubReaper \cap MayExit = {} PROVE Spec => []Inv
  BY InvInit, InvNext, PTL DEF Spec

(* Every process that outlives its parent is adopted by one that can wait  *)
(* for it (group_report, sched.c), whatever the tree, provided that no     *)
(* subreaper exits.                                                        *)
THEOREM AdoptedAlways == ASSUME SubReaper \cap MayExit = {} PROVE Spec => []Adopted
<1>1. Inv => Adopted
  BY Zenon DEF Inv
<1> QED
  BY <1>1, InvAlways, PTL

(* A task is freed only off its CPU, by the one reaper that has it (reap,  *)
(* wait.c), and group_report never uses a freed heir, provided that no     *)
(* subreaper exits.                                                        *)
THEOREM FreedOnlyDead == ASSUME SubReaper \cap MayExit = {} PROVE Spec => []FreedDead
<1>1. Inv => FreedDead
  BY Zenon DEF Inv, FreedDead, Shape, Life, Hands, Tree, Heirs
<1> QED
  BY <1>1, InvAlways, PTL
=============================================================================
