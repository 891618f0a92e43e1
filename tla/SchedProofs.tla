---------------------------- MODULE SchedProofs ----------------------------
(***************************************************************************)
(* Theorems about Sched for any number of CPUs and tasks, any priorities   *)
(* and affinities.  What the ready queues hold is left open: the arguments *)
(* rest on on_cpu, on the local variables of sched_reschedule, on the      *)
(* order of the stores to state and on the idle handshake.  Four parts,    *)
(* each with its inductive invariant:                                      *)
(*   UseInv    who is on which kernel stack                                *)
(*   KickInv   the idle handshake                                          *)
(*   KillInv   kills of sleepers                                           *)
(*   FreeInv   exit and the freeing of tasks, under the wait-queue lock    *)
(* The last three rest on the first.                                       *)
(***************************************************************************)
EXTENDS Sched, TLAPS

(* The part of TypeOK the arguments need. *)
Shape == /\ on_cpu \in [Task -> BOOLEAN]
         /\ cont \in [Task -> {"run", "blk"}]
         /\ cur \in [Cpu -> Task \cup {Idle}]
         /\ nxt \in [Cpu -> Task \cup {Idle}]
         /\ arg \in [Cpu -> Task \cup {Idle}]
         /\ ret \in [Cpu -> {"run", "rs", "kip", "iret", "sw1", "idle"}]
         /\ place \in [Cpu -> Places]

(* next is set exactly while a claimed task waits for its switch.  A CPU   *)
(* inside a wake comes back to where the wake started, never to a switch.  *)
NextClaimed == \A c \in Cpu : /\ nxt[c] # Idle => Claimed(c)
                              /\ place[c] \in {"wk1", "wk2", "wk3", "kip"} => ret[c] # "sw1"

(* A task some CPU uses is claimed, and a CPU that switches does so        *)
(* between two tasks.                                                      *)
UsedOnCpu == \A c \in Cpu, t \in Task : Uses(c, t) => on_cpu[t]
TwoTasks  == \A c \in Cpu : /\ cur[c] \in Task => cur[c] # nxt[c]
                            /\ place[c] = "sw2" /\ arg[c] \in Task => arg[c] # cur[c]

UseInv == Shape /\ NextClaimed /\ UsedOnCpu /\ TwoTasks /\ OneCpu

(* No CPU has claimed a task at the start. *)
LEMMA UseInvInit == Init => UseInv
BY SchedAssumption DEF Init, UseInv, Shape, NextClaimed, UsedOnCpu, TwoTasks, OneCpu, Uses, Claimed, Places

(* A step of CPU c that claims, switches and releases nothing. *)
LEMMA Quiet ==
    ASSUME UseInv, NEW c \in Cpu, UNCHANGED <<on_cpu, cur, nxt>>,
           cont' \in [Task -> {"run", "blk"}],
           arg' \in [Cpu -> Task \cup {Idle}],
           ret' \in [Cpu -> {"run", "rs", "kip", "iret", "sw1", "idle"}],
           place' \in [Cpu -> Places],
           \A d \in Cpu : d # c => /\ place'[d] = place[d]
                                  /\ ret'[d] = ret[d]
                                  /\ arg'[d] = arg[d],
           nxt[c] # Idle => Claimed(c)',
           place'[c] # "sw2",
           place'[c] \in {"wk1", "wk2", "wk3", "kip"} => ret'[c] # "sw1"
    PROVE  UseInv'
<1> USE DEF UseInv
<1>1. Shape'
  BY Zenon DEF Shape
<1>2. \A d \in Cpu, t \in Task : Uses(d, t)' => Uses(d, t)
  BY SchedAssumption DEF Uses, Claimed, NextClaimed, Shape
<1>3. NextClaimed'
  BY ZenonT(60) DEF NextClaimed, Claimed
<1>4. UsedOnCpu'
  BY Zenon, <1>2 DEF UsedOnCpu
<1>5. OneCpu'
  BY Zenon, <1>2 DEF OneCpu
<1>6. TwoTasks'
  BY Zenon DEF TwoTasks
<1> QED
  BY Zenon, <1>1, <1>3, <1>4, <1>5, <1>6

(* A CPU that holds no claim moves from one place to another. *)
LEMMA Moves ==
    ASSUME UseInv, NEW c \in Cpu,
           place[c] \notin {"dec", "put", "sw1", "enq", "kick", "send"},
           place' \in [Cpu -> Places],
           place'[c] \notin {"sw2", "wk1", "wk2", "wk3", "kip"},
           \A d \in Cpu : d # c => place'[d] = place[d],
           UNCHANGED <<on_cpu, cur, nxt, arg, ret>>,
           cont' \in [Task -> {"run", "blk"}]
    PROVE  UseInv'
<1>1. /\ arg \in [Cpu -> Task \cup {Idle}]
      /\ ret \in [Cpu -> {"run", "rs", "kip", "iret", "sw1", "idle"}]
  BY Zenon DEF UseInv, Shape
<1>2. nxt[c] = Idle
  BY Zenon DEF UseInv, NextClaimed, Claimed
<1> QED
  BY Zenon, <1>1, <1>2, Quiet

(* A CPU starts a wake. *)
LEMMA StartsWake ==
    ASSUME UseInv, NEW c \in Cpu,
           place[c] \in {"run", "halt", "slp"},
           place' \in [Cpu -> Places], place'[c] \in {"wk1", "wk2"},
           arg' \in [Cpu -> Task \cup {Idle}],
           ret' \in [Cpu -> {"run", "rs", "kip", "iret", "sw1", "idle"}], ret'[c] # "sw1",
           \A d \in Cpu : d # c => /\ place'[d] = place[d]
                                  /\ ret'[d] = ret[d]
                                  /\ arg'[d] = arg[d],
           UNCHANGED <<on_cpu, cont, cur, nxt>>
    PROVE  UseInv'
<1>1. cont \in [Task -> {"run", "blk"}]
  BY Zenon DEF UseInv, Shape
<1>2. nxt[c] = Idle
  BY Zenon DEF UseInv, NextClaimed, Claimed
<1> QED
  BY Zenon, <1>1, <1>2, Quiet

(* A CPU goes on inside a wake or an enqueue. *)
LEMMA GoesOn ==
    ASSUME UseInv, NEW c \in Cpu,
           place' \in [Cpu -> Places],
           \/ place[c] = "wk1" /\ place'[c] = "wk2"
           \/ place[c] = "wk2" /\ place'[c] = "wk3"
           \/ place[c] = "wk3" /\ place'[c] = "enq"
           \/ place[c] = "enq" /\ place'[c] = "kick"
           \/ place[c] = "kick" /\ place'[c] = "send",
           \A d \in Cpu : d # c => place'[d] = place[d],
           UNCHANGED <<on_cpu, cont, cur, nxt, arg, ret>>
    PROVE  UseInv'
<1>1. Shape
  BY Zenon DEF UseInv
<1>2. nxt[c] # Idle => Claimed(c)'
  BY Zenon DEF UseInv, NextClaimed, Claimed
<1>3. place'[c] \in {"wk1", "wk2", "wk3", "kip"} => ret[c] # "sw1"
  BY Zenon DEF UseInv, NextClaimed
<1> QED
  BY Zenon, <1>1, <1>2, <1>3, Quiet DEF Shape

(* The end of a wake or of an enqueue. *)
LEMMA Returns ==
    ASSUME UseInv, NEW c \in Cpu, Return(c), place[c] \in {"wk1", "enq", "kick", "send"},
           UNCHANGED <<on_cpu, cont, cur, nxt>>
    PROVE  UseInv'
<1>1. Shape
  BY Zenon DEF UseInv
<1>2. /\ place' = [place EXCEPT ![c] = ret[c]]
      /\ ret' = [ret EXCEPT ![c] = "idle"]
      /\ arg' = arg \/ arg' = [arg EXCEPT ![c] = Idle]
  BY Zenon DEF Return, Goto
<1>3. /\ cont' \in [Task -> {"run", "blk"}]
      /\ arg' \in [Cpu -> Task \cup {Idle}]
      /\ ret' \in [Cpu -> {"run", "rs", "kip", "iret", "sw1", "idle"}]
      /\ place' \in [Cpu -> Places]
  BY Zenon, <1>1, <1>2 DEF Shape, Places
<1>4. /\ place'[c] = ret[c] /\ ret'[c] = "idle" /\ ret[c] # "sw2"
      /\ \A d \in Cpu : d # c => place'[d] = place[d] /\ ret'[d] = ret[d] /\ arg'[d] = arg[d]
  BY Zenon, <1>1, <1>2 DEF Shape
<1>5. nxt[c] # Idle => Claimed(c)'
  BY Zenon, <1>4 DEF UseInv, NextClaimed, Claimed
<1> QED
  BY Zenon, <1>3, <1>4, <1>5, Quiet

(* sched_pick_next claims a task no CPU uses. *)
LEMMA PickStep ==
    ASSUME UseInv, NEW c \in Cpu, Pick(c) \/ PickAgain(c)
    PROVE  UseInv'
<1> USE DEF Goto
<1>1. place[c] \in {"pick", "again"} /\ PickNext(c)
  BY Zenon DEF Pick, PickAgain
<1>2. nxt[c] = Idle
  BY Zenon, <1>1 DEF UseInv, NextClaimed, Claimed
<1>3. PICK q \in {"dec", "idle", "put"} :
            /\ place' = [place EXCEPT ![c] = q]
            /\ q = "idle" => Found(c) = {}
  BY Zenon DEF Pick, PickAgain
<1>4. UNCHANGED <<cont, cur, arg, ret>>
  BY Zenon, <1>1 DEF PickNext
<1>5. ASSUME nxt' = [nxt EXCEPT ![c] = Idle], UNCHANGED on_cpu  PROVE UseInv'
  <2>1. UNCHANGED nxt /\ cont \in [Task -> {"run", "blk"}] /\ place \in [Cpu -> Places]
    BY Zenon, <1>2, <1>5 DEF UseInv, Shape
  <2> QED
    BY Zenon, <1>1, <1>3, <1>4, <1>5, <2>1, Moves DEF Places
<1>6. ASSUME NEW t \in Task, ~on_cpu[t], q # "idle",
             nxt' = [nxt EXCEPT ![c] = t], on_cpu' = [on_cpu EXCEPT ![t] = TRUE]
      PROVE  UseInv'
  <2>1. Shape'
    BY Zenon, <1>3, <1>4, <1>6 DEF UseInv, Shape, Places
  <2>2. \A d \in Cpu, u \in Task : Uses(d, u)' => Uses(d, u) \/ (d = c /\ u = t)
    BY Zenon, <1>1, <1>3, <1>4, <1>6 DEF UseInv, Shape, Uses, Claimed
  <2>3. \A d \in Cpu : ~Uses(d, t)
    BY Zenon, <1>6 DEF UseInv, UsedOnCpu
  <2>4. UsedOnCpu'
    BY Zenon, <1>6, <2>2 DEF UseInv, Shape, UsedOnCpu
  <2>5. OneCpu'
    BY ZenonT(60), <2>2, <2>3 DEF UseInv, OneCpu
  <2>6. NextClaimed'
    BY Zenon, <1>3, <1>4, <1>6 DEF UseInv, Shape, NextClaimed, Claimed
  <2>7. TwoTasks'
    BY Zenon, <1>1, <1>3, <1>4, <1>6, <2>3 DEF UseInv, Shape, TwoTasks, Uses
  <2> QED
    BY Zenon, <2>1, <2>4, <2>5, <2>6, <2>7 DEF UseInv
<1>7. CASE Found(c) = {}
  BY <1>1, <1>5, <1>7, Zenon DEF PickNext
<1>8. CASE Found(c) # {}
  <2>1. PICK p \in Prio, i \in 1 .. Cardinality(Task), t \in Task :
           /\ <<p, i>> \in Found(c)
           /\ t = rq[p][i]
           /\ nxt' = [nxt EXCEPT ![c] = t]
           /\ on_cpu' = [on_cpu EXCEPT ![t] = TRUE]
    BY <1>1, <1>8, ZenonT(60) DEF PickNext
  <2>2. ~on_cpu[t]
    BY Zenon, <2>1 DEF Found, Takable
  <2>3. q # "idle"
    BY Zenon, <1>3, <1>8
  <2> QED
    BY <1>6, <2>1, <2>2, <2>3, Zenon
<1> QED
  BY Zenon, <1>7, <1>8

(* context_switch moves to the claimed stack, *)
LEMMA SwitchStep ==
    ASSUME UseInv, NEW c \in Cpu, Switch(c)
    PROVE  UseInv'
<1> USE SchedAssumption DEF UseInv
<1>1. /\ place[c] = "sw1" /\ place' = [place EXCEPT ![c] = "sw2"]
      /\ arg' = [arg EXCEPT ![c] = cur[c]]
      /\ cur' = [cur EXCEPT ![c] = nxt[c]]
      /\ nxt' = [nxt EXCEPT ![c] = Idle]
      /\ UNCHANGED <<on_cpu, cont, ret>>
  BY Zenon DEF Switch, Goto
<1>2. Shape'
  BY Zenon, <1>1 DEF Shape, Places
<1>3. \A d \in Cpu, u \in Task : Uses(d, u)' => Uses(d, u)
  BY ZenonT(60), <1>1 DEF Shape, Uses, Claimed
<1>4. UsedOnCpu' /\ OneCpu'
  BY Zenon, <1>1, <1>3 DEF UsedOnCpu, OneCpu
<1>5. NextClaimed'
  BY Zenon, <1>1 DEF Shape, NextClaimed, Claimed
<1>6. TwoTasks'
  BY ZenonT(60), <1>1 DEF Shape, TwoTasks
<1> QED
  BY Zenon, <1>2, <1>4, <1>5, <1>6

(* and only then clears on_cpu of the task it left. *)
LEMMA LeaveStep ==
    ASSUME UseInv, NEW c \in Cpu, LeaveStack(c)
    PROVE  UseInv'
<1> USE SchedAssumption DEF UseInv
<1>1. /\ place[c] = "sw2" /\ place' = [place EXCEPT ![c] = "fin"]
      /\ on_cpu' = IF arg[c] \in Task THEN [on_cpu EXCEPT ![arg[c]] = FALSE] ELSE on_cpu
      /\ arg' = [arg EXCEPT ![c] = Idle]
      /\ UNCHANGED <<cont, cur, nxt, ret>>
  BY Zenon DEF LeaveStack, Goto
<1>2. Shape'
  BY Zenon, <1>1 DEF Shape, Places
<1>3. nxt[c] = Idle
  BY Zenon, <1>1 DEF NextClaimed, Claimed
<1>4. \A d \in Cpu, u \in Task : Uses(d, u)' => Uses(d, u)
  BY ZenonT(60), <1>1 DEF Shape, Uses, Claimed
<1>5. \A d \in Cpu, u \in Task : Uses(d, u)' => u # arg[c]
  <2> SUFFICES ASSUME NEW d \in Cpu, NEW u \in Task, Uses(d, u)', u = arg[c] PROVE FALSE
    BY Zenon
  <2>1. Uses(c, u)
    BY Zenon, <1>1 DEF Uses
  <2>2. Uses(d, u)
    BY Zenon, <1>4
  <2>3. d = c
    BY Zenon, <2>1, <2>2 DEF OneCpu
  <2>4. cur[c] # u
    BY Zenon, <1>1 DEF TwoTasks
  <2> QED
    BY Zenon, <1>1, <1>3, <2>3, <2>4 DEF Uses, Claimed, Shape
<1>6. UsedOnCpu'
  BY Zenon, <1>1, <1>4, <1>5 DEF UsedOnCpu, Shape
<1>7. OneCpu'
  BY Zenon, <1>4 DEF OneCpu
<1>8. NextClaimed'
  BY Zenon, <1>1, <1>3 DEF Shape, NextClaimed, Claimed
<1>9. TwoTasks'
  BY Zenon, <1>1 DEF Shape, TwoTasks
<1> QED
  BY Zenon, <1>2, <1>6, <1>7, <1>8, <1>9

(* Every step keeps the claims exact. *)
LEMMA UseInvNext == UseInv /\ [Next]_vars => UseInv'
<1> SUFFICES ASSUME UseInv, [Next]_vars PROVE UseInv'
  BY Zenon
<1> USE DEF Goto, Runs, taskVars, cpuVars
<1>0. /\ cont \in [Task -> {"run", "blk"}] /\ cur \in [Cpu -> Task \cup {Idle}]
      /\ place \in [Cpu -> Places] /\ arg \in [Cpu -> Task \cup {Idle}]
      /\ ret \in [Cpu -> {"run", "rs", "kip", "iret", "sw1", "idle"}]
  BY Zenon DEF UseInv, Shape
<1>1. CASE UNCHANGED vars
  BY <1>1 DEF vars, UseInv, Shape, NextClaimed, UsedOnCpu, TwoTasks, OneCpu, Uses, Claimed, Places
<1>2. ASSUME NEW c \in Cpu, Choose(c) PROVE UseInv'
  <2>1. CASE Block(c)
    <3>1. /\ place[c] = "run" /\ place' = [place EXCEPT ![c] = "blk"]
          /\ UNCHANGED <<on_cpu, cont, cur, nxt, arg, ret>>
      BY Zenon, <2>1 DEF Block
    <3> QED
      BY Zenon, <1>0, <3>1, Moves DEF Places
  <2>2. CASE SelfUnblock(c)
    <3>1. /\ place[c] \in {"slp"} /\ place' = [place EXCEPT ![c] = "wk2"]
          /\ ret' = [ret EXCEPT ![c] = "rs"]
          /\ arg' = [arg EXCEPT ![c] = cur[c]]
          /\ UNCHANGED <<on_cpu, cont, cur, nxt>>
      BY Zenon, <2>2 DEF SelfUnblock
    <3> QED
      BY Zenon, <1>0, <3>1, StartsWake DEF Places
  <2>3. CASE GrantSeen(c)
    <3>1. /\ place[c] = "slp" /\ place' = [place EXCEPT ![c] = "run"]
          /\ UNCHANGED <<on_cpu, cont, cur, nxt, arg, ret>>
      BY Zenon, <2>3 DEF GrantSeen
    <3> QED
      BY Zenon, <1>0, <3>1, Moves DEF Places
  <2>4. CASE Exit(c)
    <3>1. /\ place[c] = "run" /\ place' = [place EXCEPT ![c] = "exi"]
          /\ UNCHANGED <<on_cpu, cont, cur, nxt, arg, ret>>
      BY Zenon, <2>4 DEF Exit
    <3> QED
      BY Zenon, <1>0, <3>1, Moves DEF Places
  <2>5. CASE Yield(c)
    <3>1. /\ place[c] = "run" /\ place' = [place EXCEPT ![c] = "rs"]
          /\ UNCHANGED <<on_cpu, cont, cur, nxt, arg, ret>>
      BY Zenon, <2>5 DEF Yield
    <3> QED
      BY Zenon, <1>0, <3>1, Moves DEF Places
  <2>6. ASSUME NEW t \in Task, Unblock(c, t) PROVE UseInv'
    <3>1. /\ place[c] \in {"run", "halt"} /\ place' = [place EXCEPT ![c] = "wk1"]
          /\ ret' = [ret EXCEPT ![c] = IF place[c] = "run" THEN "run" ELSE "iret"]
          /\ arg' = [arg EXCEPT ![c] = t]
          /\ UNCHANGED <<on_cpu, cont, cur, nxt>>
      BY Zenon, <2>6 DEF Unblock
    <3> QED
      BY Zenon, <1>0, <3>1, StartsWake DEF Places
  <2>7. ASSUME NEW t \in Task, Kill(c, t) PROVE UseInv'
    <3>1. /\ place[c] \in {"run"} /\ place' = [place EXCEPT ![c] = "wk1"]
          /\ ret' = [ret EXCEPT ![c] = "kip"]
          /\ arg' = [arg EXCEPT ![c] = t]
          /\ UNCHANGED <<on_cpu, cont, cur, nxt>>
      BY Zenon, <2>7 DEF Kill
    <3> QED
      BY ZenonT(60), <1>0, <3>1, StartsWake DEF Places
  <2>8. ASSUME NEW t \in Task, Reap(c, t) PROVE UseInv'
    <3>1. UNCHANGED <<on_cpu, cont, cur, nxt, arg, ret, place>>
      BY Zenon, <2>8 DEF Reap
    <3> QED
      BY <3>1 DEF UseInv, Shape, NextClaimed, UsedOnCpu, TwoTasks, OneCpu, Uses, Claimed, Places
  <2> QED
    BY Zenon, <1>2, <2>1, <2>2, <2>3, <2>4, <2>5, <2>6, <2>7, <2>8 DEF Choose
<1>3. ASSUME NEW c \in Cpu, Wakes(c) PROVE UseInv'
  <2>1. CASE SetRunnable(c)
    <3>1. /\ place[c] = "wk2" /\ place' = [place EXCEPT ![c] = "wk3"]
          /\ UNCHANGED <<on_cpu, cont, cur, nxt, arg, ret>>
      BY Zenon, <2>1 DEF SetRunnable
    <3> QED
      BY Zenon, <1>0, <3>1, GoesOn DEF Places
  <2>2. CASE SetReady(c)
    <3>1. /\ place[c] = "wk3" /\ place' = [place EXCEPT ![c] = "enq"]
          /\ UNCHANGED <<on_cpu, cont, cur, nxt, arg, ret>>
      BY Zenon, <2>2 DEF SetReady
    <3> QED
      BY Zenon, <1>0, <3>1, GoesOn DEF Places
  <2>3. CASE Enqueue(c)
    <3>1. /\ place[c] = "enq" /\ UNCHANGED <<on_cpu, cont, cur, nxt>>
          /\ Return(c) \/ (place' = [place EXCEPT ![c] = "kick"] /\ UNCHANGED <<arg, ret>>)
      BY Zenon, <2>3 DEF Enqueue
    <3>2. CASE Return(c)
      BY Zenon, <3>1, <3>2, Returns
    <3>3. CASE place' = [place EXCEPT ![c] = "kick"] /\ UNCHANGED <<arg, ret>>
      BY Zenon, <1>0, <3>1, <3>3, GoesOn DEF Places
    <3> QED
      BY Zenon, <3>1, <3>2, <3>3
  <2>4. CASE Kick(c)
    <3>1. /\ place[c] = "kick" /\ UNCHANGED <<on_cpu, cont, cur, nxt>>
          /\ Return(c) \/ (place' = [place EXCEPT ![c] = "send"] /\ UNCHANGED <<arg, ret>>)
      BY Zenon, <2>4 DEF Kick
    <3>2. CASE Return(c)
      BY Zenon, <3>1, <3>2, Returns
    <3>3. CASE place' = [place EXCEPT ![c] = "send"] /\ UNCHANGED <<arg, ret>>
      BY Zenon, <1>0, <3>1, <3>3, GoesOn DEF Places
    <3> QED
      BY Zenon, <3>1, <3>2, <3>3
  <2>5. CASE SendIpi(c)
    <3>1. place[c] = "send" /\ UNCHANGED <<on_cpu, cont, cur, nxt>> /\ Return(c)
      BY Zenon, <2>5 DEF SendIpi
    <3> QED
      BY Zenon, <3>1, Returns
  <2>6. CASE TestBlocked(c)
    <3>1. /\ place[c] = "wk1" /\ UNCHANGED <<on_cpu, cont, cur, nxt>>
          /\ Return(c) \/ (place' = [place EXCEPT ![c] = "wk2"] /\ UNCHANGED <<arg, ret>>)
      BY Zenon, <2>6 DEF TestBlocked
    <3>2. CASE Return(c)
      BY Zenon, <3>1, <3>2, Returns
    <3>3. CASE place' = [place EXCEPT ![c] = "wk2"] /\ UNCHANGED <<arg, ret>>
      BY Zenon, <1>0, <3>1, <3>3, GoesOn DEF Places
    <3> QED
      BY Zenon, <3>1, <3>2, <3>3
  <2>7. CASE KillIpi(c)
    <3>1. /\ place[c] = "kip" /\ place' = [place EXCEPT ![c] = "run"]
          /\ UNCHANGED <<on_cpu, cont, cur, nxt>>
          /\ arg' = [arg EXCEPT ![c] = Idle] /\ ret' = [ret EXCEPT ![c] = "idle"]
      BY Zenon, <2>7 DEF KillIpi
    <3>2. Shape
      BY Zenon DEF UseInv
    <3>3. nxt[c] = Idle
      BY Zenon, <3>1 DEF UseInv, NextClaimed, Claimed
    <3>4. /\ arg' \in [Cpu -> Task \cup {Idle}]
          /\ ret' \in [Cpu -> {"run", "rs", "kip", "iret", "sw1", "idle"}]
          /\ place' \in [Cpu -> Places] /\ place'[c] = "run"
          /\ \A d \in Cpu : d # c => place'[d] = place[d] /\ ret'[d] = ret[d] /\ arg'[d] = arg[d]
      BY Zenon, <3>1, <3>2 DEF Shape, Places
    <3> QED
      BY ZenonT(60), <1>0, <3>1, <3>3, <3>4, Quiet
  <2> QED
    BY Zenon, <1>3, <2>1, <2>2, <2>3, <2>4, <2>5, <2>6, <2>7 DEF Wakes
<1>4. ASSUME NEW c \in Cpu, Switches(c) PROVE UseInv'
  <2>1. CASE MarkBlocked(c)
    <3>1. /\ place[c] = "blk" /\ place' = [place EXCEPT ![c] = "slp"]
          /\ UNCHANGED <<on_cpu, cont, cur, nxt, arg, ret>>
      BY Zenon, <2>1 DEF MarkBlocked
    <3> QED
      BY Zenon, <1>0, <3>1, Moves DEF Places
  <2>2. CASE Sleep(c)
    <3>1. /\ place[c] = "slp" /\ place' = [place EXCEPT ![c] = "rs"]
          /\ UNCHANGED <<on_cpu, cont, cur, nxt, arg, ret>>
      BY Zenon, <2>2 DEF Sleep
    <3> QED
      BY Zenon, <1>0, <3>1, Moves DEF Places
  <2>3. CASE MarkZombie(c)
    <3>1. /\ place[c] = "exi" /\ place' = [place EXCEPT ![c] = "rs"]
          /\ UNCHANGED <<on_cpu, cont, cur, nxt, arg, ret>>
      BY Zenon, <2>3 DEF MarkZombie
    <3> QED
      BY Zenon, <1>0, <3>1, Moves DEF Places
  <2>4. CASE Resched(c)
    <3>1. /\ place[c] = "rs" /\ place' = [place EXCEPT ![c] = "pick"]
          /\ UNCHANGED <<on_cpu, cont, cur, nxt, arg, ret>>
      BY Zenon, <2>4 DEF Resched
    <3> QED
      BY Zenon, <1>0, <3>1, Moves DEF Places
  <2>5. CASE Pick(c) \/ PickAgain(c)
    BY Zenon, <2>5, PickStep
  <2>7. CASE Decide(c)
    <3>1. place[c] = "dec" /\ UNCHANGED <<on_cpu, cur, nxt, arg, ret>>
      BY Zenon, <2>7 DEF Decide
    <3>2. cont' \in [Task -> {"run", "blk"}]
      BY ZenonT(60), <1>0, <2>7 DEF Decide, Resume
    <3>3. PICK q \in {"put", "again", "run", "blk"} :
                /\ place' = [place EXCEPT ![c] = q]
                /\ q # "put" => nxt[c] = Idle
      BY Zenon, <1>0, <2>7 DEF Decide, Resume
    <3>4. Shape
      BY Zenon DEF UseInv
    <3>5. place' \in [Cpu -> Places] /\ place'[c] = q /\ \A d \in Cpu : d # c => place'[d] = place[d]
      BY Zenon, <3>3, <3>4 DEF Shape, Places
    <3>6. nxt[c] # Idle => Claimed(c)'
      BY Zenon, <3>3, <3>5 DEF Claimed
    <3> QED
      BY Zenon, <3>1, <3>2, <3>4, <3>5, <3>6, Quiet DEF Shape
  <2>8. CASE PutPrev(c)
    <3>1. UNCHANGED <<on_cpu, cont, cur, nxt>> /\ place[c] = "put"
      BY Zenon, <2>8 DEF PutPrev
    <3>2. \/ place' = [place EXCEPT ![c] = "sw1"] /\ UNCHANGED <<arg, ret>>
          \/ /\ place' = [place EXCEPT ![c] = "enq"] /\ ret' = [ret EXCEPT ![c] = "sw1"]
             /\ arg' = [arg EXCEPT ![c] = cur[c]]
      BY Zenon, <2>8 DEF PutPrev
    <3>3. Shape
      BY Zenon DEF UseInv
    <3>4. /\ arg' \in [Cpu -> Task \cup {Idle}]
          /\ ret' \in [Cpu -> {"run", "rs", "kip", "iret", "sw1", "idle"}]
          /\ place' \in [Cpu -> Places]
      BY <3>2, <3>3 DEF Shape, Places
    <3>5. /\ place'[c] = "sw1" \/ (place'[c] = "enq" /\ ret'[c] = "sw1")
          /\ \A d \in Cpu : d # c => place'[d] = place[d] /\ ret'[d] = ret[d] /\ arg'[d] = arg[d]
      BY ZenonT(60), <3>2, <3>3 DEF Shape
    <3>6. Claimed(c)'
      BY Zenon, <3>5 DEF Claimed
    <3> QED
      BY Zenon, <1>0, <3>1, <3>4, <3>5, <3>6, Quiet
  <2>9. CASE Switch(c)
    BY Zenon, <2>9, SwitchStep
  <2>10. CASE LeaveStack(c)
    BY Zenon, <2>10, LeaveStep
  <2>11. CASE Finish(c)
    <3>1. place[c] = "fin" /\ UNCHANGED <<on_cpu, cur, nxt, arg, ret>>
      BY Zenon, <2>11 DEF Finish
    <3>2. cont' \in [Task -> {"run", "blk"}]
      BY Zenon, <1>0, <2>11 DEF Finish, Resume
    <3>3. PICK q \in {"idle", "run", "blk"} : place' = [place EXCEPT ![c] = q]
      BY Zenon, <1>0, <2>11 DEF Finish, Resume
    <3> QED
      BY Zenon, <1>0, <3>1, <3>2, <3>3, Moves DEF Places
  <2>12. CASE CheckResched(c)
    <3>1. /\ place[c] \in {"run", "poll", "slp", "iret", "blk"}
          /\ place' = [place EXCEPT ![c] = "rs"]
          /\ UNCHANGED <<on_cpu, cur, nxt, arg, ret>>
      BY Zenon, <2>12 DEF CheckResched
    <3>2. cont' \in [Task -> {"run", "blk"}]
      BY Zenon, <1>0, <2>12 DEF CheckResched
    <3> QED
      BY ZenonT(60), <1>0, <3>1, <3>2, Moves DEF Places
  <2>13. CASE IpiHandler(c)
    <3>1. place[c] \in {"run", "poll", "halt"} /\ UNCHANGED <<on_cpu, cont, cur, nxt, arg, ret>>
      BY Zenon, <2>13 DEF IpiHandler
    <3>2. CASE place' = place
      BY <3>1, <3>2 DEF UseInv, Shape, NextClaimed, UsedOnCpu, TwoTasks, OneCpu, Uses, Claimed, Places
    <3>3. CASE place' = [place EXCEPT ![c] = "iret"]
      BY Zenon, <1>0, <3>1, <3>3, Moves DEF Places
    <3> QED
      BY Zenon, <2>13, <3>2, <3>3 DEF IpiHandler
  <2> QED
    BY ZenonT(60), <1>4, <2>1, <2>2, <2>3, <2>4, <2>5, <2>7, <2>8, <2>9, <2>10, <2>11, <2>12, <2>13
          DEF Switches
<1>5. ASSUME NEW c \in Cpu, Idles(c) \/ Timer(c) PROVE UseInv'
  <2>1. CASE IdlePoll(c)
    <3>1. /\ place[c] = "idle" /\ place' = [place EXCEPT ![c] = "poll"]
          /\ UNCHANGED <<on_cpu, cont, cur, nxt, arg, ret>>
      BY Zenon, <2>1 DEF IdlePoll
    <3> QED
      BY Zenon, <1>0, <3>1, Moves DEF Places
  <2>2. CASE IdleCli(c)
    <3>1. /\ place[c] \in {"idle", "poll"} /\ place' = [place EXCEPT ![c] = "cli"]
          /\ UNCHANGED <<on_cpu, cont, cur, nxt, arg, ret>>
      BY Zenon, <2>2 DEF IdleCli
    <3> QED
      BY Zenon, <1>0, <3>1, Moves DEF Places
  <2>3. CASE IdlePollOff(c)
    <3>1. /\ place[c] = "cli" /\ place' = [place EXCEPT ![c] = "test"]
          /\ UNCHANGED <<on_cpu, cont, cur, nxt, arg, ret>>
      BY Zenon, <2>3 DEF IdlePollOff
    <3> QED
      BY Zenon, <1>0, <3>1, Moves DEF Places
  <2>4. CASE IdleTest(c)
    <3>1. place[c] = "test" /\ UNCHANGED <<on_cpu, cont, cur, nxt, arg, ret>>
      BY Zenon, <2>4 DEF IdleTest
    <3>2. PICK q \in {"rs", "halt"} : place' = [place EXCEPT ![c] = q]
      BY Zenon, <2>4 DEF IdleTest
    <3> QED
      BY Zenon, <1>0, <3>1, <3>2, Moves DEF Places
  <2>5. CASE IdleLoop(c)
    <3>1. /\ place[c] = "iret" /\ place' = [place EXCEPT ![c] = "idle"]
          /\ UNCHANGED <<on_cpu, cont, cur, nxt, arg, ret>>
      BY Zenon, <2>5 DEF IdleLoop
    <3> QED
      BY Zenon, <1>0, <3>1, Moves DEF Places
  <2>6. CASE Timer(c)
    <3>1. place[c] \in {"run", "halt"} /\ UNCHANGED <<on_cpu, cont, cur, nxt, arg, ret>>
      BY Zenon, <2>6 DEF Timer
    <3>2. CASE place' = place
      BY <3>1, <3>2 DEF UseInv, Shape, NextClaimed, UsedOnCpu, TwoTasks, OneCpu, Uses, Claimed, Places
    <3>3. CASE place' = [place EXCEPT ![c] = "iret"]
      BY Zenon, <1>0, <3>1, <3>3, Moves DEF Places
    <3> QED
      BY Zenon, <2>6, <3>2, <3>3 DEF Timer
  <2> QED
    BY Zenon, <1>5, <2>1, <2>2, <2>3, <2>4, <2>5, <2>6 DEF Idles
<1> QED
  BY Zenon, <1>1, <1>2, <1>3, <1>4, <1>5 DEF Next

(* No two CPUs are ever on the kernel stack of one task: sched_pick_next   *)
(* claims a task with the compare-and-exchange on on_cpu, and on_cpu is    *)
(* cleared by context_switch only after the stack was left.                *)
THEOREM NoSharedStack == Spec => []OneCpu
<1>1. UseInv => OneCpu
  BY Zenon DEF UseInv
<1> QED
  BY <1>1, UseInvInit, UseInvNext, PTL DEF Spec
-----------------------------------------------------------------------------
(* idle_loop clears idle_poll before it tests need_resched, preempt_for    *)
(* sets need_resched before it tests idle_poll.                            *)

(* The types of the flags. *)
FlagShape == /\ best = [c \in Cpu |-> best[c]]
             /\ need_resched \in [Cpu -> BOOLEAN]
             /\ idle_poll \in [Cpu -> BOOLEAN]
             /\ ipi \in [Cpu -> BOOLEAN]

(* A CPU past the store that clears idle_poll has it clear. *)
PollOff == \A c \in Cpu : place[c] \in {"test", "halt"} => ~idle_poll[c]

KickInv == FlagShape /\ PollOff /\ KickNotLost

(* Nobody halts at the start. *)
LEMMA KickInvInit == Init => KickInv
BY SchedAssumption DEF Init, KickInv, FlagShape, PollOff, KickNotLost

(* A step of CPU c after which it does not halt and that kicks nobody else.*)
LEMMA KickQuiet ==
    ASSUME KickInv, FlagShape', NEW c \in Cpu, place[c] # "send", place'[c] \notin {"test", "halt"},
           \A d \in Cpu : d # c => /\ place'[d] = place[d]
                                  /\ best'[d] = best[d]
                                  /\ idle_poll'[d] = idle_poll[d]
                                  /\ need_resched'[d] = need_resched[d]
                                  /\ ipi'[d] = ipi[d]
    PROVE  KickInv'
<1> USE DEF KickInv
<1>1. PollOff'
  BY Zenon DEF PollOff
<1>2. ASSUME NEW d \in Cpu, place'[d] = "halt", need_resched'[d]
      PROVE  ipi'[d] \/ \E e \in Cpu : place'[e] = "send" /\ best'[e] = d
  <2>1. d # c /\ place[d] = "halt" /\ need_resched[d]
    BY Zenon, <1>2
  <2>2. CASE ipi[d]
    BY Zenon, <2>1, <2>2
  <2>3. CASE \E e \in Cpu : place[e] = "send" /\ best[e] = d
    BY ZenonT(60), <2>1, <2>3
  <2> QED
    BY Zenon, <2>1, <2>2, <2>3 DEF KickNotLost
<1> QED
  BY Zenon, <1>1, <1>2 DEF KickNotLost

(* A CPU moves on without touching a flag. *)
LEMMA KickMoves ==
    ASSUME KickInv, NEW c \in Cpu, place[c] # "send",
           place'[c] \notin {"test", "halt"},
           \A d \in Cpu : d # c => place'[d] = place[d],
           UNCHANGED <<best, need_resched, idle_poll, ipi>>
    PROVE  KickInv'
<1>1. FlagShape'
  BY Zenon DEF KickInv, FlagShape
<1> QED
  BY Zenon, <1>1, KickQuiet

(* The end of a wake or of an enqueue. *)
LEMMA KickReturns ==
    ASSUME KickInv, Shape, NEW c \in Cpu, Return(c), place[c] # "send",
           UNCHANGED <<idle_poll, ipi>>,
           \/ UNCHANGED need_resched
           \/ need_resched' = [need_resched EXCEPT ![c] = TRUE]
    PROVE  KickInv'
<1>1. place' = [place EXCEPT ![c] = ret[c]] /\ best' = [best EXCEPT ![c] = c]
  BY Zenon DEF Return, Goto
<1>2. FlagShape'
  BY Zenon, <1>1 DEF KickInv, FlagShape
<1>3. place'[c] \notin {"test", "halt"}
  BY Zenon, <1>1 DEF Shape
<1>4. \A d \in Cpu : d # c => /\ place'[d] = place[d] /\ best'[d] = best[d]
                             /\ idle_poll'[d] = idle_poll[d]
                             /\ need_resched'[d] = need_resched[d] /\ ipi'[d] = ipi[d]
  BY Zenon, <1>1 DEF Shape, KickInv, FlagShape
<1> QED
  BY Zenon, <1>2, <1>3, <1>4, KickQuiet

(* preempt_for asks CPU d to reschedule and goes on to the IPI. *)
LEMMA KickOther ==
    ASSUME KickInv, Shape, NEW c \in Cpu, NEW d, d # c, place[c] = "kick",
           need_resched' = [need_resched EXCEPT ![d] = TRUE],
           place' = [place EXCEPT ![c] = "send"],
           best' = [best EXCEPT ![c] = d],
           UNCHANGED <<idle_poll, ipi>>
    PROVE  KickInv'
<1> USE DEF KickInv
<1>1. FlagShape'
  BY Zenon DEF FlagShape
<1>2. PollOff'
  BY Zenon DEF PollOff, Shape
<1>3. ASSUME NEW e \in Cpu, place'[e] = "halt", need_resched'[e]
      PROVE  ipi'[e] \/ \E f \in Cpu : place'[f] = "send" /\ best'[f] = e
  <2>1. place'[c] = "send" /\ best'[c] = d
    BY Zenon DEF Shape, FlagShape
  <2>2. CASE e = d
    BY Zenon, <2>1, <2>2
  <2>3. CASE e # d
    <3>1. place[e] = "halt" /\ need_resched[e]
      BY Zenon, <1>3, <2>1, <2>3 DEF Shape, FlagShape
    <3>2. CASE ipi[e]
      BY Zenon, <3>2
    <3>3. ASSUME NEW f \in Cpu, place[f] = "send", best[f] = e
          PROVE  place'[f] = "send" /\ best'[f] = e
      BY Zenon, <3>3 DEF Shape, FlagShape
    <3> QED
      BY ZenonT(60), <3>1, <3>2, <3>3 DEF KickNotLost
  <2> QED
    BY Zenon, <2>2, <2>3
<1> QED
  BY Zenon, <1>1, <1>2, <1>3 DEF KickNotLost

(* The IPI is left out only for a CPU that still polls. *)
LEMMA KickSend ==
    ASSUME KickInv, Shape, NEW c \in Cpu, SendIpi(c)
    PROVE  KickInv'
<1> USE DEF KickInv
<1>1. /\ place[c] = "send" /\ place' = [place EXCEPT ![c] = ret[c]]
      /\ ipi' = [ipi EXCEPT ![best[c]] = @ \/ ~idle_poll[best[c]]]
      /\ best' = [best EXCEPT ![c] = c]
      /\ UNCHANGED <<need_resched, idle_poll>>
  BY Zenon DEF SendIpi, Return, Goto
<1>2. FlagShape'
  <2>1. CASE best[c] \in Cpu
    BY Zenon, <1>1, <2>1 DEF FlagShape
  <2>2. CASE best[c] \notin Cpu
    BY Zenon, <1>1, <2>2 DEF FlagShape
  <2> QED
    BY Zenon, <2>1, <2>2
<1>3. place'[c] = ret[c] /\ ret[c] \notin {"test", "halt"}
  BY Zenon, <1>1 DEF Shape
<1>4. \A d \in Cpu : d # c => place'[d] = place[d] /\ best'[d] = best[d]
  BY Zenon, <1>1 DEF Shape, FlagShape
<1>5. PollOff'
  BY Zenon, <1>1, <1>3, <1>4 DEF PollOff
<1>6. ASSUME NEW e \in Cpu, place'[e] = "halt", need_resched'[e]
      PROVE  ipi'[e] \/ \E f \in Cpu : place'[f] = "send" /\ best'[f] = e
  <2>1. e # c /\ place[e] = "halt" /\ need_resched[e]
    BY Zenon, <1>1, <1>3, <1>4, <1>6
  <2>2. ~idle_poll[e]
    BY Zenon, <2>1 DEF PollOff
  <2>3. CASE best[c] = e
    BY Zenon, <1>1, <2>2, <2>3 DEF FlagShape
  <2>4. CASE ipi[e]
    BY Zenon, <1>1, <2>4 DEF FlagShape
  <2>5. CASE \E f \in Cpu : f # c /\ place[f] = "send" /\ best[f] = e
    BY Zenon, <1>4, <2>5
  <2> QED
    BY Zenon, <2>1, <2>3, <2>4, <2>5 DEF KickNotLost
<1> QED
  BY Zenon, <1>2, <1>5, <1>6 DEF KickNotLost

(* The step that decides to halt: need_resched was clear after idle_poll   *)
(* was.                                                                    *)
LEMMA KickTest ==
    ASSUME KickInv, Shape, NEW c \in Cpu, IdleTest(c)
    PROVE  KickInv'
<1> USE DEF KickInv
<1>1. /\ place[c] = "test" /\ need_resched' = [need_resched EXCEPT ![c] = FALSE]
      /\ UNCHANGED <<best, idle_poll, ipi>>
  BY Zenon DEF IdleTest
<1>2. PICK q \in {"rs", "halt"} : place' = [place EXCEPT ![c] = q]
  BY Zenon DEF IdleTest, Goto
<1>3. FlagShape'
  BY Zenon, <1>1 DEF FlagShape
<1>4. PollOff'
  BY Zenon, <1>1, <1>2 DEF PollOff, Shape
<1>5. ASSUME NEW e \in Cpu, place'[e] = "halt", need_resched'[e]
      PROVE  ipi'[e] \/ \E f \in Cpu : place'[f] = "send" /\ best'[f] = e
  <2>1. e # c
    BY Zenon, <1>1, <1>5 DEF FlagShape
  <2>2. place[e] = "halt" /\ need_resched[e]
    BY Zenon, <1>1, <1>2, <1>5, <2>1 DEF FlagShape, Shape
  <2>3. CASE ipi[e]
    BY Zenon, <1>1, <2>3
  <2>4. ASSUME NEW f \in Cpu, place[f] = "send", best[f] = e  PROVE place'[f] = "send" /\ best'[f] = e
    BY Zenon, <1>1, <1>2, <2>4 DEF Shape
  <2> QED
    BY Zenon, <2>2, <2>3, <2>4 DEF KickNotLost
<1> QED
  BY Zenon, <1>3, <1>4, <1>5 DEF KickNotLost

(* The store that clears idle_poll. *)
LEMMA KickOff ==
    ASSUME KickInv, Shape, NEW c \in Cpu, IdlePollOff(c)
    PROVE  KickInv'
<1> USE DEF KickInv
<1>1. /\ place[c] = "cli" /\ place' = [place EXCEPT ![c] = "test"]
      /\ idle_poll' = [idle_poll EXCEPT ![c] = FALSE]
      /\ UNCHANGED <<best, need_resched, ipi>>
  BY Zenon DEF IdlePollOff, Goto
<1>2. FlagShape'
  BY Zenon, <1>1 DEF FlagShape
<1>3. PollOff'
  BY Zenon, <1>1 DEF PollOff, Shape, FlagShape
<1>4. KickNotLost'
  <2>1. \A e \in Cpu : place'[e] = "halt" => place[e] = "halt"
    BY Zenon, <1>1 DEF Shape
  <2>2. \A e \in Cpu : place[e] = "send" => place'[e] = "send"
    BY Zenon, <1>1 DEF Shape
  <2> QED
    BY ZenonT(60), <1>1, <2>1, <2>2 DEF KickNotLost
<1> QED
  BY Zenon, <1>2, <1>3, <1>4

(* Every step keeps the handshake. *)
LEMMA KickInvNext == KickInv /\ UseInv /\ [Next]_vars => KickInv'
<1> SUFFICES ASSUME KickInv, UseInv, [Next]_vars PROVE KickInv'
  BY Zenon
<1> USE DEF Goto, Runs, taskVars, cpuVars
<1>00. Shape
  BY Zenon DEF UseInv
<1>0. /\ cont \in [Task -> {"run", "blk"}] /\ cur \in [Cpu -> Task \cup {Idle}]
      /\ place \in [Cpu -> Places] /\ FlagShape
  BY Zenon DEF UseInv, Shape, KickInv
<1>1. CASE UNCHANGED vars
  BY Zenon, <1>1 DEF vars, KickInv, FlagShape, PollOff, KickNotLost
<1>2. ASSUME NEW c \in Cpu, Choose(c) PROVE KickInv'
  <2>1. CASE Block(c)
    <3>1. /\ place[c] = "run" /\ place' = [place EXCEPT ![c] = "blk"]
          /\ UNCHANGED <<best, need_resched, idle_poll, ipi>>
      BY Zenon, <2>1 DEF Block
    <3> QED
      BY Zenon, <1>0, <3>1, KickMoves
  <2>2. CASE SelfUnblock(c)
    <3>1. /\ place[c] = "slp" /\ place' = [place EXCEPT ![c] = "wk2"]
          /\ UNCHANGED <<best, need_resched, idle_poll, ipi>>
      BY Zenon, <2>2 DEF SelfUnblock
    <3> QED
      BY Zenon, <1>0, <3>1, KickMoves
  <2>3. CASE GrantSeen(c)
    <3>1. /\ place[c] = "slp" /\ place' = [place EXCEPT ![c] = "run"]
          /\ UNCHANGED <<best, need_resched, idle_poll, ipi>>
      BY Zenon, <2>3 DEF GrantSeen
    <3> QED
      BY Zenon, <1>0, <3>1, KickMoves
  <2>4. CASE Exit(c)
    <3>1. /\ place[c] = "run" /\ place' = [place EXCEPT ![c] = "exi"]
          /\ UNCHANGED <<best, need_resched, idle_poll, ipi>>
      BY Zenon, <2>4 DEF Exit
    <3> QED
      BY Zenon, <1>0, <3>1, KickMoves
  <2>5. CASE Yield(c)
    <3>1. /\ place[c] = "run" /\ place' = [place EXCEPT ![c] = "rs"]
          /\ UNCHANGED <<best, need_resched, idle_poll, ipi>>
      BY Zenon, <2>5 DEF Yield
    <3> QED
      BY Zenon, <1>0, <3>1, KickMoves
  <2>6. ASSUME NEW t \in Task, Unblock(c, t) PROVE KickInv'
    <3>1. /\ place[c] \in {"run", "halt"} /\ place' = [place EXCEPT ![c] = "wk1"]
          /\ UNCHANGED <<best, need_resched, idle_poll, ipi>>
      BY Zenon, <2>6 DEF Unblock
    <3> QED
      BY Zenon, <1>0, <3>1, KickMoves
  <2>7. ASSUME NEW t \in Task, Kill(c, t) PROVE KickInv'
    <3>1. /\ place[c] = "run" /\ place' = [place EXCEPT ![c] = "wk1"]
          /\ UNCHANGED <<best, need_resched, idle_poll, ipi>>
      BY Zenon, <2>7 DEF Kill
    <3> QED
      BY Zenon, <1>0, <3>1, KickMoves
  <2>8. ASSUME NEW t \in Task, Reap(c, t) PROVE KickInv'
    <3>1. place[c] = "run" /\ UNCHANGED <<place, best, need_resched, idle_poll, ipi>>
      BY Zenon, <2>8 DEF Reap
    <3> QED
      BY Zenon, <3>1, KickMoves
  <2> QED
    BY Zenon, <1>2, <2>1, <2>2, <2>3, <2>4, <2>5, <2>6, <2>7, <2>8 DEF Choose
<1>3. ASSUME NEW c \in Cpu, Wakes(c) PROVE KickInv'
  <2>1. CASE SetRunnable(c)
    <3>1. /\ place[c] = "wk2" /\ place' = [place EXCEPT ![c] = "wk3"]
          /\ UNCHANGED <<best, need_resched, idle_poll, ipi>>
      BY Zenon, <2>1 DEF SetRunnable
    <3> QED
      BY Zenon, <1>0, <3>1, KickMoves
  <2>2. CASE SetReady(c)
    <3>1. /\ place[c] = "wk3" /\ place' = [place EXCEPT ![c] = "enq"]
          /\ UNCHANGED <<best, need_resched, idle_poll, ipi>>
      BY Zenon, <2>2 DEF SetReady
    <3> QED
      BY Zenon, <1>0, <3>1, KickMoves
  <2>3. CASE Enqueue(c)
    <3>1. /\ place[c] = "enq" /\ UNCHANGED <<need_resched, idle_poll, ipi>>
          /\ Return(c) \/ (place' = [place EXCEPT ![c] = "kick"] /\ UNCHANGED best)
      BY Zenon, <2>3 DEF Enqueue
    <3>2. CASE Return(c)
      BY Zenon, <1>00, <3>1, <3>2, KickReturns
    <3>3. CASE place' = [place EXCEPT ![c] = "kick"] /\ UNCHANGED best
      BY ZenonT(60), <1>0, <3>1, <3>3, KickMoves
    <3> QED
      BY Zenon, <3>1, <3>2, <3>3
  <2>4. CASE Kick(c)
    <3>1. place[c] = "kick" /\ UNCHANGED <<idle_poll, ipi>>
      BY Zenon, <2>4 DEF Kick
    <3>2. CASE UNCHANGED need_resched /\ Return(c)
      BY Zenon, <1>00, <3>1, <3>2, KickReturns
    <3>3. ASSUME NEW d, need_resched' = [need_resched EXCEPT ![d] = TRUE],
                 IF d = c THEN Return(c)
                 ELSE /\ best' = [best EXCEPT ![c] = d]
                      /\ Goto(c, "send")
                      /\ UNCHANGED <<arg, ret>>
          PROVE  KickInv'
      <4>1. CASE d = c
        <5>1. Return(c)
          BY Zenon, <3>3, <4>1
        <5> QED
          BY Zenon, <1>00, <3>1, <3>3, <4>1, <5>1, KickReturns
      <4>2. CASE d # c
        <5>1. place' = [place EXCEPT ![c] = "send"] /\ best' = [best EXCEPT ![c] = d]
          BY Zenon, <3>3, <4>2
        <5> QED
          BY Zenon, <1>00, <3>1, <3>3, <4>2, <5>1, KickOther
      <4> QED
        BY Zenon, <4>1, <4>2
    <3> QED
      BY Zenon, <2>4, <3>2, <3>3 DEF Kick
  <2>5. CASE SendIpi(c)
    BY Zenon, <1>00, <2>5, KickSend
  <2>6. CASE TestBlocked(c)
    <3>1. /\ place[c] = "wk1" /\ UNCHANGED <<need_resched, idle_poll, ipi>>
          /\ Return(c) \/ (place' = [place EXCEPT ![c] = "wk2"] /\ UNCHANGED best)
      BY Zenon, <2>6 DEF TestBlocked
    <3>2. CASE Return(c)
      BY Zenon, <1>00, <3>1, <3>2, KickReturns
    <3>3. CASE place' = [place EXCEPT ![c] = "wk2"] /\ UNCHANGED best
      BY Zenon, <1>0, <3>1, <3>3, KickMoves
    <3> QED
      BY Zenon, <3>1, <3>2, <3>3
  <2>7. CASE KillIpi(c)
    <3>1. /\ place[c] = "kip" /\ place' = [place EXCEPT ![c] = "run"]
          /\ ipi' = [d \in Cpu |-> ipi[d] \/ cur[d] = arg[c]]
          /\ UNCHANGED <<best, need_resched, idle_poll>>
      BY Zenon, <2>7 DEF KillIpi
    <3>2. FlagShape'
      BY Zenon, <1>0, <3>1 DEF FlagShape
    <3>3. \A d \in Cpu : /\ place'[d] \in {"test", "halt", "send"} => place'[d] = place[d]
                         /\ place[d] = "send" => place'[d] = "send"
                         /\ ipi[d] => ipi'[d]
      BY Zenon, <1>0, <3>1 DEF FlagShape
    <3>4. PollOff'
      BY Zenon, <3>1, <3>3 DEF KickInv, PollOff
    <3>5. KickNotLost'
      BY <3>1, <3>3 DEF KickInv, KickNotLost
    <3> QED
      BY Zenon, <3>2, <3>4, <3>5 DEF KickInv
  <2> QED
    BY ZenonT(60), <1>3, <2>1, <2>2, <2>3, <2>4, <2>5, <2>6, <2>7 DEF Wakes
<1>4. ASSUME NEW c \in Cpu, Switches(c) PROVE KickInv'
  <2>1. CASE MarkBlocked(c)
    <3>1. /\ place[c] = "blk" /\ place' = [place EXCEPT ![c] = "slp"]
          /\ UNCHANGED <<best, need_resched, idle_poll, ipi>>
      BY Zenon, <2>1 DEF MarkBlocked
    <3> QED
      BY Zenon, <1>0, <3>1, KickMoves
  <2>2. CASE Sleep(c)
    <3>1. /\ place[c] = "slp" /\ place' = [place EXCEPT ![c] = "rs"]
          /\ UNCHANGED <<best, need_resched, idle_poll, ipi>>
      BY Zenon, <2>2 DEF Sleep
    <3> QED
      BY Zenon, <1>0, <3>1, KickMoves
  <2>3. CASE MarkZombie(c)
    <3>1. /\ place[c] = "exi" /\ place' = [place EXCEPT ![c] = "rs"]
          /\ UNCHANGED <<best, need_resched, idle_poll, ipi>>
      BY Zenon, <2>3 DEF MarkZombie
    <3> QED
      BY Zenon, <1>0, <3>1, KickMoves
  <2>4. CASE Resched(c)
    <3>1. /\ place[c] = "rs" /\ place' = [place EXCEPT ![c] = "pick"]
          /\ UNCHANGED <<best, need_resched, idle_poll, ipi>>
      BY Zenon, <2>4 DEF Resched
    <3> QED
      BY Zenon, <1>0, <3>1, KickMoves
  <2>5. CASE Pick(c) \/ PickAgain(c)
    <3>1. place[c] \in {"pick", "again"} /\ UNCHANGED <<best, need_resched, idle_poll, ipi>>
      BY Zenon, <2>5 DEF Pick, PickAgain, PickNext
    <3>2. PICK q \in {"dec", "idle", "put"} : place' = [place EXCEPT ![c] = q]
      BY Zenon, <1>0, <2>5 DEF Pick, PickAgain, PickNext
    <3> QED
      BY Zenon, <1>0, <3>1, <3>2, KickMoves
  <2>7. CASE Decide(c)
    <3>1. place[c] = "dec" /\ UNCHANGED <<best, need_resched, idle_poll, ipi>>
      BY Zenon, <2>7 DEF Decide, Resume
    <3>2. PICK q \in {"put", "again", "run", "blk"} : place' = [place EXCEPT ![c] = q]
      BY Zenon, <1>0, <2>7 DEF Decide, Resume
    <3> QED
      BY Zenon, <1>0, <3>1, <3>2, KickMoves
  <2>8. CASE PutPrev(c)
    <3>1. place[c] = "put" /\ UNCHANGED <<best, need_resched, idle_poll, ipi>>
      BY Zenon, <2>8 DEF PutPrev
    <3>2. PICK q \in {"sw1", "enq"} : place' = [place EXCEPT ![c] = q]
      BY Zenon, <1>0, <2>8 DEF PutPrev
    <3> QED
      BY Zenon, <1>0, <3>1, <3>2, KickMoves
  <2>9. CASE Switch(c)
    <3>1. /\ place[c] = "sw1" /\ place' = [place EXCEPT ![c] = "sw2"]
          /\ UNCHANGED <<best, need_resched, idle_poll, ipi>>
      BY Zenon, <2>9 DEF Switch
    <3> QED
      BY Zenon, <1>0, <3>1, KickMoves
  <2>10. CASE LeaveStack(c)
    <3>1. /\ place[c] = "sw2" /\ place' = [place EXCEPT ![c] = "fin"]
          /\ UNCHANGED <<best, need_resched, idle_poll, ipi>>
      BY Zenon, <2>10 DEF LeaveStack
    <3> QED
      BY Zenon, <1>0, <3>1, KickMoves
  <2>11. CASE Finish(c)
    <3>1. place[c] = "fin" /\ UNCHANGED <<best, need_resched, idle_poll, ipi>>
      BY Zenon, <2>11 DEF Finish, Resume
    <3>2. PICK q \in {"idle", "run", "blk"} : place' = [place EXCEPT ![c] = q]
      BY Zenon, <1>0, <2>11 DEF Finish, Resume
    <3> QED
      BY Zenon, <1>0, <3>1, <3>2, KickMoves
  <2>12. CASE CheckResched(c)
    <3>1. /\ place[c] # "send" /\ UNCHANGED <<best, idle_poll, ipi>>
          /\ need_resched' = [need_resched EXCEPT ![c] = FALSE]
      BY Zenon, <2>12 DEF CheckResched
    <3>2. /\ place'[c] \notin {"test", "halt"}
          /\ \A d \in Cpu : d # c => place'[d] = place[d]
      BY Zenon, <1>0, <2>12 DEF CheckResched
    <3>3. FlagShape'
      BY Zenon, <1>0, <3>1 DEF FlagShape
    <3>4. \A d \in Cpu : d # c => /\ best'[d] = best[d] /\ idle_poll'[d] = idle_poll[d]
                                 /\ need_resched'[d] = need_resched[d] /\ ipi'[d] = ipi[d]
      BY Zenon, <1>0, <3>1 DEF FlagShape
    <3> QED
      BY Zenon, <3>1, <3>2, <3>3, <3>4, KickQuiet
  <2>13. CASE IpiHandler(c)
    <3>1. /\ place[c] # "send" /\ UNCHANGED <<best, idle_poll>>
          /\ need_resched' = [need_resched EXCEPT ![c] = TRUE] /\ ipi' = [ipi EXCEPT ![c] = FALSE]
      BY Zenon, <2>13 DEF IpiHandler
    <3>2. /\ place'[c] \notin {"test", "halt"}
          /\ \A d \in Cpu : d # c => place'[d] = place[d]
      BY Zenon, <1>0, <2>13 DEF IpiHandler
    <3>3. FlagShape'
      BY Zenon, <1>0, <3>1 DEF FlagShape
    <3>4. \A d \in Cpu : d # c => /\ best'[d] = best[d] /\ idle_poll'[d] = idle_poll[d]
                                 /\ need_resched'[d] = need_resched[d] /\ ipi'[d] = ipi[d]
      BY Zenon, <1>0, <3>1 DEF FlagShape
    <3> QED
      BY Zenon, <3>1, <3>2, <3>3, <3>4, KickQuiet
  <2> QED
    BY ZenonT(60), <1>4, <2>1, <2>2, <2>3, <2>4, <2>5, <2>7, <2>8, <2>9, <2>10, <2>11, <2>12, <2>13
          DEF Switches
<1>5. ASSUME NEW c \in Cpu, Idles(c) \/ Timer(c) PROVE KickInv'
  <2>1. CASE IdlePoll(c)
    <3>1. /\ place[c] # "send" /\ UNCHANGED <<best, need_resched, ipi>>
          /\ idle_poll' = [idle_poll EXCEPT ![c] = TRUE]
      BY Zenon, <2>1 DEF IdlePoll
    <3>2. /\ place'[c] \notin {"test", "halt"}
          /\ \A d \in Cpu : d # c => place'[d] = place[d]
      BY Zenon, <1>0, <2>1 DEF IdlePoll
    <3>3. FlagShape'
      BY Zenon, <1>0, <3>1 DEF FlagShape
    <3>4. \A d \in Cpu : d # c => /\ best'[d] = best[d] /\ idle_poll'[d] = idle_poll[d]
                                 /\ need_resched'[d] = need_resched[d] /\ ipi'[d] = ipi[d]
      BY Zenon, <1>0, <3>1 DEF FlagShape
    <3> QED
      BY ZenonT(60), <3>1, <3>2, <3>3, <3>4, KickQuiet
  <2>2. CASE IdleCli(c)
    <3>1. /\ place[c] \in {"idle", "poll"} /\ place' = [place EXCEPT ![c] = "cli"]
          /\ UNCHANGED <<best, need_resched, idle_poll, ipi>>
      BY ZenonT(60), <2>2 DEF IdleCli
    <3> QED
      BY Zenon, <1>0, <3>1, KickMoves
  <2>3. CASE IdlePollOff(c)
    BY Zenon, <1>00, <2>3, KickOff
  <2>4. CASE IdleTest(c)
    BY Zenon, <1>00, <2>4, KickTest
  <2>5. CASE IdleLoop(c)
    <3>1. /\ place[c] = "iret" /\ place' = [place EXCEPT ![c] = "idle"]
          /\ UNCHANGED <<best, need_resched, idle_poll, ipi>>
      BY Zenon, <2>5 DEF IdleLoop
    <3> QED
      BY Zenon, <1>0, <3>1, KickMoves
  <2>6. CASE Timer(c)
    <3>1. /\ place[c] # "send" /\ UNCHANGED <<best, idle_poll, ipi>>
          /\ need_resched' = [need_resched EXCEPT ![c] = TRUE]
      BY Zenon, <2>6 DEF Timer
    <3>2. /\ place'[c] \notin {"test", "halt"}
          /\ \A d \in Cpu : d # c => place'[d] = place[d]
      BY Zenon, <1>0, <2>6 DEF Timer
    <3>3. FlagShape'
      BY Zenon, <1>0, <3>1 DEF FlagShape
    <3>4. \A d \in Cpu : d # c => /\ best'[d] = best[d] /\ idle_poll'[d] = idle_poll[d]
                                 /\ need_resched'[d] = need_resched[d] /\ ipi'[d] = ipi[d]
      BY Zenon, <1>0, <3>1 DEF FlagShape
    <3> QED
      BY ZenonT(60), <3>1, <3>2, <3>3, <3>4, KickQuiet
  <2> QED
    BY ZenonT(60), <1>5, <2>1, <2>2, <2>3, <2>4, <2>5, <2>6 DEF Idles
<1> QED
  BY Zenon, <1>1, <1>2, <1>3, <1>4, <1>5 DEF Next

(* A reschedule request is never lost on a CPU that halts: preempt_for and *)
(* idle_loop each write their own flag before they read the other's.       *)
THEOREM NoLostKick == Spec => []KickNotLost
<1>1. KickInv => KickNotLost
  BY Zenon DEF KickInv
<1> QED
  BY <1>1, KickInvInit, KickInvNext, UseInvInit, UseInvNext, PTL DEF Spec
-----------------------------------------------------------------------------
(* What the argument about kills needs: a killed task that is BLOCKED and  *)
(* may be interrupted is on its way through sched_reschedule, which keeps  *)
(* it awake, or a waker has yet to make it READY.                          *)
Storing(d, t) == place[d] \in {"wk1", "wk2", "wk3"} /\ arg[d] = t
Entering(d, t) == place[d] \in {"slp", "rs"} /\ cur[d] = t

KillShape == state \in [Task -> TaskState] /\ pend \in [Task -> BOOLEAN]

KillSeen == \A t \in Task \ NoInt : pend[t] /\ state[t] = "BLOCKED" =>
                \E d \in Cpu : Storing(d, t) \/ Entering(d, t)

KillInv == KillShape /\ KillSeen

(* Nothing is killed and nobody sleeps at the start. *)
LEMMA KillInvInit == Init => KillInv
BY DEF Init, KillInv, KillShape, KillSeen, TaskState

(* A step of CPU c that makes no task BLOCKED and kills none, and leaves   *)
(* the tasks it was about to wake or to keep awake as the invariant wants. *)
LEMMA KillQuiet ==
  ASSUME KillInv, KillShape', NEW c \in Cpu,
         \A d \in Cpu : d # c => place'[d] = place[d] /\ arg'[d] = arg[d] /\ cur'[d] = cur[d],
         \A t \in Task : state'[t] = "BLOCKED" => state[t] = "BLOCKED",
         \A t \in Task : pend'[t] => pend[t] \/ Storing(c, t)',
         \A t \in Task \ NoInt : (Storing(c, t) \/ Entering(c, t)) /\ pend'[t] /\ state'[t] = "BLOCKED"
                          => Storing(c, t)' \/ Entering(c, t)'
  PROVE  KillInv'
<1> SUFFICES ASSUME NEW t \in Task \ NoInt, pend'[t], state'[t] = "BLOCKED"
             PROVE  \E d \in Cpu : Storing(d, t)' \/ Entering(d, t)'
  BY Zenon DEF KillInv, KillSeen
<1>1. CASE Storing(c, t)'
  BY Zenon, <1>1
<1>2. CASE pend[t]
  <2>1. PICK d \in Cpu : Storing(d, t) \/ Entering(d, t)
    BY Zenon, <1>2 DEF KillInv, KillSeen
  <2>2. CASE d = c
    BY Zenon, <2>1, <2>2
  <2>3. CASE d # c
    BY ZenonT(60), <2>1, <2>3 DEF Storing, Entering
  <2> QED
    BY Zenon, <2>2, <2>3
<1> QED
  BY Zenon, <1>1, <1>2

(* A step that changes neither a state nor pending_kill, away from the     *)
(* places the invariant speaks of.                                         *)
LEMMA KillMoves ==
  ASSUME KillInv, NEW c \in Cpu, place[c] \notin {"wk1", "wk2", "wk3", "slp", "rs"},
         \A d \in Cpu : d # c => place'[d] = place[d] /\ arg'[d] = arg[d] /\ cur'[d] = cur[d],
         UNCHANGED <<state, pend>>
  PROVE  KillInv'
<1>1. KillShape'
  BY Zenon DEF KillInv, KillShape
<1>2. \A t \in Task : ~Storing(c, t) /\ ~Entering(c, t)
  BY Zenon DEF Storing, Entering
<1> QED
  BY Zenon, <1>1, <1>2, KillQuiet

(* Other CPUs are left alone. *)
LEMMA KillOthers ==
  ASSUME Shape, NEW c \in Cpu, NEW p, place' = [place EXCEPT ![c] = p],
         arg' = arg \/ \E x : arg' = [arg EXCEPT ![c] = x], cur' = cur
  PROVE  /\ place'[c] = p
         /\ \A d \in Cpu : d # c => place'[d] = place[d] /\ arg'[d] = arg[d] /\ cur'[d] = cur[d]
BY ZenonT(60) DEF Shape

(* Every step leaves a killed sleeper to a waker or to sched_reschedule. *)
LEMMA KillInvNext == KillInv /\ UseInv /\ [Next]_vars => KillInv'
<1> SUFFICES ASSUME KillInv, UseInv, [Next]_vars PROVE KillInv'
  BY Zenon
<1> USE DEF Goto, Runs, taskVars, cpuVars
<1>0. Shape
  BY Zenon DEF UseInv
<1>1. CASE UNCHANGED vars
  BY ZenonT(60), <1>1 DEF vars, KillInv, KillShape, KillSeen, Storing, Entering
<1>2. ASSUME NEW c \in Cpu, Choose(c) PROVE KillInv'
  <2>1. CASE Block(c) \/ Exit(c) \/ Yield(c)
    <3>1. PICK p : place' = [place EXCEPT ![c] = p]
      BY ZenonT(60), <2>1 DEF Block, Exit, Yield
    <3> QED
      BY Zenon, <1>0, <2>1, <3>1, KillOthers, KillMoves DEF Block, Exit, Yield
  <2>2. CASE SelfUnblock(c)
    <3>1. /\ place[c] = "slp" /\ place' = [place EXCEPT ![c] = "wk2"]
          /\ arg' = [arg EXCEPT ![c] = cur[c]] /\ UNCHANGED <<state, pend, cur>>
      BY Zenon, <2>2 DEF SelfUnblock
    <3>2. KillShape' /\ \A d \in Cpu : d # c => place'[d] = place[d] /\ arg'[d] = arg[d] /\ cur'[d] = cur[d]
      BY Zenon, <1>0, <3>1, KillOthers DEF KillInv, KillShape
    <3>3. \A t \in Task : Storing(c, t) \/ Entering(c, t) => Storing(c, t)'
      BY ZenonT(60), <1>0, <3>1 DEF Shape, Storing, Entering
    <3> QED
      BY ZenonT(60), <3>1, <3>2, <3>3, KillQuiet
  <2>3. CASE GrantSeen(c)
    <3>1. /\ place[c] = "slp" /\ place' = [place EXCEPT ![c] = "run"] /\ cur[c] \in NoInt
          /\ UNCHANGED <<state, pend, cur, arg>>
      BY Zenon, <2>3 DEF GrantSeen
    <3>2. KillShape' /\ \A d \in Cpu : d # c => place'[d] = place[d] /\ arg'[d] = arg[d] /\ cur'[d] = cur[d]
      BY Zenon, <1>0, <3>1, KillOthers DEF KillInv, KillShape
    <3>3. \A t \in Task \ NoInt : ~Storing(c, t) /\ ~Entering(c, t)
      BY Zenon, <3>1 DEF Storing, Entering
    <3> QED
      BY Zenon, <3>1, <3>2, <3>3, KillQuiet
  <2>4. ASSUME NEW u \in Task, Unblock(c, u) PROVE KillInv'
    <3>1. /\ place[c] \in {"run", "halt"} /\ place' = [place EXCEPT ![c] = "wk1"]
          /\ arg' = [arg EXCEPT ![c] = u] /\ UNCHANGED <<state, pend, cur>>
      BY ZenonT(60), <2>4 DEF Unblock
    <3> QED
      BY Zenon, <1>0, <3>1, KillOthers, KillMoves
  <2>5. ASSUME NEW u \in Task, Kill(c, u) PROVE KillInv'
    <3>1. /\ place[c] = "run" /\ place' = [place EXCEPT ![c] = "wk1"]
          /\ arg' = [arg EXCEPT ![c] = u] /\ pend' = [pend EXCEPT ![u] = TRUE]
          /\ UNCHANGED <<state, cur>>
      BY Zenon, <2>5 DEF Kill
    <3>2. KillShape' /\ \A d \in Cpu : d # c => place'[d] = place[d] /\ arg'[d] = arg[d] /\ cur'[d] = cur[d]
      BY Zenon, <1>0, <3>1, KillOthers DEF KillInv, KillShape
    <3>3. Storing(c, u)' /\ \A t \in Task : ~Storing(c, t) /\ ~Entering(c, t)
      BY Zenon, <1>0, <3>1 DEF Shape, Storing, Entering
    <3>4. \A t \in Task : pend'[t] => pend[t] \/ t = u
      BY Zenon, <3>1 DEF KillInv, KillShape
    <3> QED
      BY Zenon, <3>1, <3>2, <3>3, <3>4, KillQuiet
  <2>6. ASSUME NEW u \in Task, Reap(c, u) PROVE KillInv'
    BY ZenonT(60), <2>6 DEF Reap, KillInv, KillShape, KillSeen, Storing, Entering
  <2> QED
    BY Zenon, <1>2, <2>1, <2>2, <2>3, <2>4, <2>5, <2>6 DEF Choose
<1>3. ASSUME NEW c \in Cpu, Wakes(c) PROVE KillInv'
  <2>1. CASE SetRunnable(c)
    <3>1. /\ place[c] = "wk2" /\ place' = [place EXCEPT ![c] = "wk3"] /\ UNCHANGED <<state, pend, cur, arg>>
      BY Zenon, <2>1 DEF SetRunnable
    <3>2. KillShape' /\ \A d \in Cpu : d # c => place'[d] = place[d] /\ arg'[d] = arg[d] /\ cur'[d] = cur[d]
      BY Zenon, <1>0, <3>1, KillOthers DEF KillInv, KillShape
    <3>3. \A t \in Task : Storing(c, t) \/ Entering(c, t) => Storing(c, t)'
      BY ZenonT(60), <1>0, <3>1 DEF Shape, Storing, Entering
    <3> QED
      BY Zenon, <3>1, <3>2, <3>3, KillQuiet
  <2>2. CASE SetReady(c)
    <3>1. /\ place[c] = "wk3" /\ place' = [place EXCEPT ![c] = "enq"] /\ UNCHANGED <<pend, cur, arg>>
          /\ state' = [state EXCEPT ![arg[c]] = "READY"]
      BY Zenon, <2>2 DEF SetReady
    <3>2. KillShape' /\ \A d \in Cpu : d # c => place'[d] = place[d] /\ arg'[d] = arg[d] /\ cur'[d] = cur[d]
      BY Zenon, <1>0, <3>1, KillOthers DEF KillInv, KillShape, TaskState
    <3>3. \A t \in Task : /\ state'[t] = "BLOCKED" => state[t] = "BLOCKED" /\ t # arg[c]
      BY Zenon, <3>1 DEF KillInv, KillShape
    <3>4. \A t \in Task : Storing(c, t) \/ Entering(c, t) => t = arg[c]
      BY ZenonT(60), <3>1 DEF Storing, Entering
    <3> QED
      BY Zenon, <3>1, <3>2, <3>3, <3>4, KillQuiet
  <2>3. CASE (Enqueue(c) \/ Kick(c) \/ SendIpi(c) \/ KillIpi(c))
    <3>1. place[c] \in {"enq", "kick", "send", "kip"} /\ UNCHANGED <<state, pend, cur>>
      BY Zenon, <2>3 DEF Enqueue, Kick, SendIpi, KillIpi
    <3>2. /\ \E p : place' = [place EXCEPT ![c] = p]
          /\ arg' = arg \/ \E x : arg' = [arg EXCEPT ![c] = x]
      BY Zenon, <2>3 DEF Enqueue, Kick, SendIpi, KillIpi, Return
    <3> QED
      BY ZenonT(60), <1>0, <3>1, <3>2, KillOthers, KillMoves
  <2>4. CASE TestBlocked(c)
    <3>1. /\ place[c] = "wk1" /\ UNCHANGED <<state, pend, cur>>
          /\ \E p : place' = [place EXCEPT ![c] = p]
          /\ arg' = arg \/ \E x : arg' = [arg EXCEPT ![c] = x]
      BY Zenon, <2>4 DEF TestBlocked, Return
    <3>2. KillShape' /\ \A d \in Cpu : d # c => place'[d] = place[d] /\ arg'[d] = arg[d] /\ cur'[d] = cur[d]
      BY Zenon, <1>0, <3>1, KillOthers DEF KillInv, KillShape
    <3>3. ASSUME state[arg[c]] = "BLOCKED" PROVE place'[c] = "wk2" /\ arg' = arg
      BY Zenon, <1>0, <2>4, <3>3 DEF TestBlocked, Shape
    <3>4. ASSUME NEW t \in Task, Storing(c, t) \/ Entering(c, t), state[t] = "BLOCKED"
          PROVE  Storing(c, t)'
      BY Zenon, <3>1, <3>3, <3>4 DEF Storing, Entering
    <3> QED
      BY ZenonT(60), <3>1, <3>2, <3>4, KillQuiet
  <2> QED
    BY Zenon, <1>3, <2>1, <2>2, <2>3, <2>4 DEF Wakes
<1>4. ASSUME NEW c \in Cpu, Switches(c) PROVE KillInv'
  <2>1. CASE MarkBlocked(c)
    <3>1. /\ place[c] = "blk" /\ place' = [place EXCEPT ![c] = "slp"] /\ UNCHANGED <<pend, cur, arg>>
          /\ state' = [state EXCEPT ![cur[c]] = "BLOCKED"]
      BY Zenon, <2>1 DEF MarkBlocked
    <3>2. KillShape' /\ \A d \in Cpu : d # c => place'[d] = place[d] /\ arg'[d] = arg[d] /\ cur'[d] = cur[d]
      BY Zenon, <1>0, <3>1, KillOthers DEF KillInv, KillShape, TaskState
    <3>3. \A t \in Task : t # cur[c] => state'[t] = state[t]
      BY Zenon, <3>1 DEF KillInv, KillShape
    <3>4. Entering(c, cur[c])' /\ \A t \in Task : ~Storing(c, t) /\ ~Entering(c, t)
      BY Zenon, <1>0, <3>1 DEF Shape, Storing, Entering
    <3> SUFFICES ASSUME NEW t \in Task \ NoInt, pend'[t], state'[t] = "BLOCKED", t # cur[c]
                 PROVE  \E d \in Cpu : Storing(d, t)' \/ Entering(d, t)'
      BY Zenon, <3>1, <3>2, <3>4 DEF KillInv, KillSeen
    <3>5. PICK d \in Cpu : Storing(d, t) \/ Entering(d, t)
      BY Zenon, <3>1, <3>3 DEF KillInv, KillSeen
    <3>6. d # c
      BY ZenonT(60), <3>4, <3>5
    <3> QED
      BY Zenon, <3>2, <3>5, <3>6 DEF Storing, Entering
  <2>2. CASE Sleep(c) \/ CheckResched(c)
    <3>1. /\ place[c] \in {"slp", "run", "poll", "iret", "blk"} /\ place' = [place EXCEPT ![c] = "rs"]
          /\ UNCHANGED <<state, pend, cur, arg>>
      BY Zenon, <2>2 DEF Sleep, CheckResched
    <3>2. KillShape' /\ \A d \in Cpu : d # c => place'[d] = place[d] /\ arg'[d] = arg[d] /\ cur'[d] = cur[d]
      BY Zenon, <1>0, <3>1, KillOthers DEF KillInv, KillShape
    <3>3. \A t \in Task : Storing(c, t) \/ Entering(c, t) => Entering(c, t)'
      BY ZenonT(60), <1>0, <3>1 DEF Shape, Storing, Entering
    <3> QED
      BY Zenon, <3>1, <3>2, <3>3, KillQuiet
  <2>3. CASE MarkZombie(c) \/ PutPrev(c)
    <3>1. /\ place[c] \in {"exi", "put"} /\ UNCHANGED <<pend, cur>>
          /\ \E p : place' = [place EXCEPT ![c] = p]
          /\ arg' = arg \/ \E x : arg' = [arg EXCEPT ![c] = x]
      BY Zenon, <2>3 DEF MarkZombie, PutPrev
    <3>2. state' = state \/ \E s \in {"ZOMBIE", "READY"} : state' = [state EXCEPT ![cur[c]] = s]
      BY Zenon, <2>3 DEF MarkZombie, PutPrev
    <3>3. KillShape' /\ \A t \in Task : state'[t] = "BLOCKED" => state[t] = "BLOCKED"
      BY Zenon, <3>1, <3>2 DEF KillInv, KillShape, TaskState
    <3>4. \A d \in Cpu : d # c => place'[d] = place[d] /\ arg'[d] = arg[d] /\ cur'[d] = cur[d]
      BY Zenon, <1>0, <3>1, KillOthers
    <3>5. \A t \in Task : ~Storing(c, t) /\ ~Entering(c, t)
      BY ZenonT(60), <3>1 DEF Storing, Entering
    <3> QED
      BY Zenon, <3>1, <3>3, <3>4, <3>5, KillQuiet
  <2>4. CASE Resched(c)
    <3> DEFINE old == cur[c]
               awake == old \in Task \ NoInt /\ state[old] = "BLOCKED" /\ pend[old]
    <3>1. /\ place[c] = "rs" /\ place' = [place EXCEPT ![c] = "pick"] /\ UNCHANGED <<pend, cur, arg>>
          /\ state' = IF awake THEN [state EXCEPT ![old] = "RUNNING"] ELSE state
      BY Zenon, <2>4 DEF Resched
    <3>2. KillShape' /\ \A t \in Task : state'[t] = "BLOCKED" => state[t] = "BLOCKED"
      BY Zenon, <3>1 DEF KillInv, KillShape, TaskState
    <3>3. \A d \in Cpu : d # c => place'[d] = place[d] /\ arg'[d] = arg[d] /\ cur'[d] = cur[d]
      BY Zenon, <1>0, <3>1, KillOthers
    <3>4. \A t \in Task \ NoInt : Storing(c, t) \/ Entering(c, t) => t = old
      BY Zenon, <3>1 DEF Storing, Entering
    <3>5. old \in Task \ NoInt /\ pend'[old] => state'[old] # "BLOCKED"
      BY ZenonT(60), <3>1 DEF KillInv, KillShape
    <3> QED
      BY <3>1, <3>2, <3>3, <3>4, <3>5, KillQuiet
  <2>5. CASE Pick(c) \/ PickAgain(c) \/ Decide(c) \/ LeaveStack(c) \/ Finish(c)
    <3>1. /\ place[c] \in {"pick", "again", "dec", "sw2", "fin"} /\ UNCHANGED <<state, pend, cur>>
          /\ \E p : place' = [place EXCEPT ![c] = p]
          /\ arg' = arg \/ \E x : arg' = [arg EXCEPT ![c] = x]
      BY Zenon, <2>5 DEF Pick, PickAgain, PickNext, Decide, Resume, LeaveStack, Finish
    <3> QED
      BY Zenon, <1>0, <3>1, KillOthers, KillMoves
  <2>6. CASE Switch(c)
    <3>1. /\ place[c] = "sw1" /\ pend' = pend
          /\ \E s \in {"RUNNING"} : state' = state \/ state' = [state EXCEPT ![nxt[c]] = s]
          /\ \A d \in Cpu : d # c => place'[d] = place[d] /\ arg'[d] = arg[d] /\ cur'[d] = cur[d]
      BY Zenon, <1>0, <2>6 DEF Switch, Shape
    <3>2. KillShape' /\ \A t \in Task : state'[t] = "BLOCKED" => state[t] = "BLOCKED"
      BY Zenon, <3>1 DEF KillInv, KillShape, TaskState
    <3>3. \A t \in Task : ~Storing(c, t) /\ ~Entering(c, t)
      BY Zenon, <3>1 DEF Storing, Entering
    <3> QED
      BY Zenon, <3>1, <3>2, <3>3, KillQuiet
  <2>7. CASE IpiHandler(c)
    BY Zenon, <1>0, <2>7, KillMoves DEF IpiHandler, Shape
  <2> QED
    BY Zenon, <1>4, <2>1, <2>2, <2>3, <2>4, <2>5, <2>6, <2>7 DEF Switches
<1>5. ASSUME NEW c \in Cpu, Idles(c) \/ Timer(c) PROVE KillInv'
  <2>1. place[c] \notin {"wk1", "wk2", "wk3", "slp", "rs"} /\ UNCHANGED <<state, pend, cur, arg>>
    BY Zenon, <1>5 DEF Idles, Timer, IdlePoll, IdleCli, IdlePollOff, IdleTest, IdleLoop
  <2>2. place' = place \/ \E p : place' = [place EXCEPT ![c] = p]
    BY Zenon, <1>5 DEF Idles, Timer, IdlePoll, IdleCli, IdlePollOff, IdleTest, IdleLoop
  <2> QED
    BY Zenon, <1>0, <2>1, <2>2, KillMoves DEF Shape
<1> QED
  BY Zenon, <1>1, <1>2, <1>3, <1>4, <1>5 DEF Next

(* A task that was killed and yet sleeps off its CPU has a waker on the    *)
(* way, whatever the order of the stores of task_kill, task_unblock and    *)
(* the sleeper.                                                            *)
THEOREM KillsNotLost == Spec => []KillNotLost
<1>1. KillInv /\ UseInv => KillNotLost
  <2> SUFFICES ASSUME KillInv, UseInv, NEW t \in Task \ NoInt, pend[t], state[t] = "BLOCKED", ~on_cpu[t]
               PROVE  \E c \in Cpu : Waking(c, t)
    BY Zenon DEF KillNotLost
  <2>1. PICK d \in Cpu : Storing(d, t) \/ Entering(d, t)
    BY Zenon DEF KillInv, KillSeen
  <2>2. ~Entering(d, t)
    BY Zenon DEF UseInv, UsedOnCpu, Uses, Entering
  <2> QED
    BY Zenon, <2>1, <2>2 DEF Storing, Waking, UseInv, NextClaimed
<1> QED
  BY <1>1, KillInvInit, KillInvNext, UseInvInit, UseInvNext, PTL DEF Spec
-----------------------------------------------------------------------------
(* CPU c is inside the call of sched_reschedule that leaves its task, or   *)
(* about to make it.                                                       *)
Parting(c) == \/ place[c] \in {"slp", "rs", "pick", "dec", "again", "put", "sw1"}
              \/ place[c] \in {"enq", "kick", "send"} /\ ret[c] = "sw1"

(* What holds of the task t at CPU c: t sleeps or has exited only where it *)
(* leaves the CPU, an exited task is claimed or woken by nobody, and is    *)
(* recorded by the CPU that leaves it when it has no parent.               *)
TaskAt(c, t) ==
    /\ cur[c] = t /\ state[t] = "BLOCKED" => Parting(c)
    /\ cur[c] = t /\ exited[t] => place[c] \in {"rs", "pick", "dec", "put", "sw1"}
    /\ nxt[c] = t => ~exited[t]
    /\ place[c] \in {"wk2", "wk3"} /\ arg[c] = t => ~exited[t]
    /\ deferred[c] = t => /\ exited[t]
                          /\ \/ place[c] = "sw1" /\ cur[c] = t
                             \/ place[c] = "sw2" /\ arg[c] = t
                             \/ ~on_cpu[t]
    /\ exited[t] /\ t \in Orphan =>
         /\ place[c] = "sw1" /\ cur[c] = t => deferred[c] = t
         /\ place[c] = "sw2" /\ arg[c] = t => deferred[c] = t

(* CPU c records a task only when its record is empty. *)
CpuAt(c) == /\ place[c] \in {"pick", "dec", "again", "put"} => deferred[c] = Idle
            /\ place[c] = "again" => cur[c] = Idle

(* Nobody is about to make a task READY that is about to exit. *)
NoWaker(c, d) == place[d] \in {"wk2", "wk3"} /\ place[c] = "exi" /\ arg[d] \in Task => cur[c] # arg[d]

(* What holds of a task wherever it is. *)
Ended(t) == /\ state[t] = "ZOMBIE" <=> exited[t]
            /\ dead[t] => exited[t] /\ ~on_cpu[t]
            /\ t \in Orphan /\ exited[t] /\ ~on_cpu[t] => dead[t] \/ \E c \in Cpu : deferred[c] = t

FreeShape == /\ state \in [Task -> TaskState]
             /\ exited \in [Task -> BOOLEAN]
             /\ dead \in [Task -> BOOLEAN]
             /\ deferred \in [Cpu -> Task \cup {Idle}]

FreeInv == /\ FreeShape
           /\ \A c \in Cpu, t \in Task : TaskAt(c, t)
           /\ \A c \in Cpu : CpuAt(c)
           /\ \A c, d \in Cpu : NoWaker(c, d)
           /\ \A t \in Task : Ended(t)

(* Nobody has exited at the start. *)
LEMMA FreeInvInit == Init => FreeInv
BY SchedAssumption DEF Init, FreeInv, FreeShape, TaskAt, CpuAt, NoWaker, Ended, TaskState, Parting

(* A step of CPU c that changes no task and switches nothing. *)
LEMMA FreeQuiet ==
  ASSUME FreeInv, NEW c \in Cpu, UNCHANGED <<state, exited, dead, on_cpu, cur, nxt, deferred>>,
         \A d \in Cpu : d # c => place'[d] = place[d] /\ arg'[d] = arg[d] /\ ret'[d] = ret[d],
         \A t \in Task : TaskAt(c, t)',
         CpuAt(c)',
         \A d \in Cpu : NoWaker(c, d)' /\ NoWaker(d, c)'
  PROVE  FreeInv'
<1>1. FreeShape'
  BY Zenon DEF FreeInv, FreeShape
<1>2. ASSUME NEW d \in Cpu, NEW t \in Task, d # c PROVE TaskAt(d, t)'
  <2>1. TaskAt(d, t)
    BY ZenonT(60) DEF FreeInv
  <2> QED
    BY Zenon, <1>2, <2>1 DEF TaskAt, Parting
<1>3. ASSUME NEW d \in Cpu, d # c PROVE CpuAt(d)'
  <2>1. CpuAt(d)
    BY ZenonT(60) DEF FreeInv
  <2> QED
    BY Zenon, <1>3, <2>1 DEF CpuAt
<1>4. ASSUME NEW d \in Cpu, NEW e \in Cpu, d # c, e # c PROVE NoWaker(d, e)'
  <2>1. NoWaker(d, e)
    BY ZenonT(60) DEF FreeInv
  <2> QED
    BY Zenon, <1>4, <2>1 DEF NoWaker
<1>5. ASSUME NEW t \in Task PROVE Ended(t)'
  <2>1. Ended(t)
    BY ZenonT(60) DEF FreeInv
  <2> QED
    BY Zenon, <2>1 DEF Ended
<1> QED
  BY Zenon, <1>1, <1>2, <1>3, <1>4, <1>5 DEF FreeInv

(* CPU c moves from one place to another, outside the second half of       *)
(* sched_reschedule, and neither starts the stores of a wake nor an exit.  *)
LEMMA FreeMoves ==
  ASSUME FreeInv, NEW c \in Cpu, UNCHANGED <<state, exited, dead, on_cpu, cur, nxt, deferred>>,
         \A d \in Cpu : d # c => place'[d] = place[d] /\ arg'[d] = arg[d] /\ ret'[d] = ret[d],
         place[c] \notin {"rs", "pick", "dec", "again", "put", "sw1", "sw2"},
         place'[c] \notin {"wk2", "wk3", "exi", "pick", "dec", "again", "put", "sw2"},
         Parting(c) => Parting(c)'
  PROVE  FreeInv'
<1>1. ASSUME NEW t \in Task PROVE TaskAt(c, t)'
  <2>1. TaskAt(c, t)
    BY Zenon DEF FreeInv
  <2> QED
    BY Zenon, <2>1 DEF TaskAt
<1>2. CpuAt(c)'
  BY Zenon DEF CpuAt
<1>3. ASSUME NEW d \in Cpu PROVE NoWaker(c, d)' /\ NoWaker(d, c)'
  BY ZenonT(60) DEF NoWaker
<1> QED
  BY Zenon, <1>1, <1>2, <1>3, FreeQuiet

(* The end of a wake or of an enqueue. *)
LEMMA FreeReturns ==
  ASSUME FreeInv, UseInv, NEW c \in Cpu, Return(c), place[c] \in {"wk1", "enq", "kick", "send"},
         UNCHANGED <<state, exited, dead, on_cpu, cur, nxt, deferred>>
  PROVE  FreeInv'
<1>0. Shape
  BY Zenon DEF UseInv
<1>1. /\ place'[c] = ret[c] /\ ret[c] \in {"run", "rs", "kip", "iret", "sw1", "idle"}
      /\ \A d \in Cpu : d # c => place'[d] = place[d] /\ arg'[d] = arg[d] /\ ret'[d] = ret[d]
  BY Zenon, <1>0 DEF Return, Goto, Shape
<1>2. Parting(c) => Parting(c)'
  BY Zenon, <1>1 DEF Parting
<1> QED
  BY Zenon, <1>1, <1>2, FreeMoves

(* process_deferred_free, called where the stack of the recorded task was  *)
(* left; a sleeper may be kept awake.                                      *)
LEMMA FreeRecorded ==
  ASSUME FreeInv, UseInv, NEW c \in Cpu, FreeDeferred(c),
         NEW p, place' = [place EXCEPT ![c] = p],
         UNCHANGED <<exited, on_cpu, cur, nxt, arg, ret>>,
         state' \in [Task -> TaskState],
         \A t \in Task : state'[t] = state[t] \/ (state[t] = "BLOCKED" /\ state'[t] = "RUNNING"),
         place[c] \notin {"sw1", "sw2"},
         p \notin {"wk2", "wk3", "exi", "sw1", "sw2", "again"},
         Parting(c) => Parting(c)',
         place[c] \in {"rs", "pick", "dec", "put"} => p \in {"rs", "pick", "dec", "put"}
  PROVE  FreeInv'
<1>0. Shape /\ FreeShape
  BY Zenon DEF UseInv, FreeInv
<1>1. place'[c] = p /\ \A d \in Cpu : d # c => place'[d] = place[d]
  BY Zenon, <1>0 DEF Shape
<1>2. /\ deferred' = [deferred EXCEPT ![c] = Idle]
      /\ dead' = [t \in Task |-> dead[t] \/ t = deferred[c]]
  BY Zenon DEF FreeDeferred
<1>3. /\ deferred'[c] = Idle /\ \A d \in Cpu : d # c => deferred'[d] = deferred[d]
      /\ deferred' \in [Cpu -> Task \cup {Idle}]
  BY Zenon, <1>0, <1>2 DEF FreeShape
<1>4. /\ dead' \in [Task -> BOOLEAN]
      /\ \A t \in Task : dead'[t] <=> (dead[t] \/ t = deferred[c])
  BY <1>0, <1>2, Zenon DEF FreeShape
<1>5. FreeShape'
  BY ZenonT(60), <1>0, <1>3, <1>4 DEF FreeShape
<1>6. ASSUME NEW d \in Cpu, NEW t \in Task, d # c PROVE TaskAt(d, t)'
  <2>1. TaskAt(d, t)
    BY Zenon DEF FreeInv
  <2>2. place'[d] = place[d] /\ deferred'[d] = deferred[d] /\ (state'[t] = "BLOCKED" => state[t] = "BLOCKED")
    BY ZenonT(60), <1>1, <1>3, <1>6
  <2> QED
    BY Zenon, <2>1, <2>2 DEF TaskAt, Parting
<1>7. ASSUME NEW t \in Task PROVE TaskAt(c, t)'
  <2>1. TaskAt(c, t)
    BY Zenon DEF FreeInv
  <2>2. state'[t] = "BLOCKED" => state[t] = "BLOCKED"
    BY Zenon
  <2>3. deferred'[c] # t
    BY ZenonT(60), <1>3, SchedAssumption
  <2> QED
    BY Zenon, <1>1, <2>1, <2>2, <2>3 DEF TaskAt
<1>8. ASSUME NEW d \in Cpu PROVE CpuAt(d)'
  <2>1. CpuAt(d)
    BY ZenonT(60) DEF FreeInv
  <2> QED
    BY Zenon, <1>1, <1>3, <2>1 DEF CpuAt
<1>9. ASSUME NEW d \in Cpu, NEW e \in Cpu PROVE NoWaker(d, e)'
  <2>1. NoWaker(d, e)
    BY ZenonT(60) DEF FreeInv
  <2> QED
    BY Zenon, <1>1, <2>1 DEF NoWaker
<1>10. ASSUME NEW t \in Task PROVE Ended(t)'
  <2>1. Ended(t) /\ TaskAt(c, t)
    BY Zenon DEF FreeInv
  <2>2. state'[t] = "ZOMBIE" <=> state[t] = "ZOMBIE"
    BY Zenon
  <2>3. deferred[c] = t => exited[t] /\ ~on_cpu[t]
    BY Zenon, <2>1 DEF TaskAt
  <2>4. \A d \in Cpu : deferred[d] = t => deferred[c] = t \/ deferred'[d] = t
    BY Zenon, <1>3
  <2> QED
    BY Zenon, <1>4, <2>1, <2>2, <2>3, <2>4 DEF Ended
<1> QED
  BY Zenon, <1>5, <1>6, <1>7, <1>8, <1>9, <1>10 DEF FreeInv

(* Every step keeps exits and records in order: the waker of a task holds  *)
(* the lock that the task needs to exit.                                   *)
LEMMA FreeInvNext == ASSUME Locked PROVE FreeInv /\ UseInv /\ [Next]_vars => FreeInv'
<1> SUFFICES ASSUME FreeInv, UseInv, [Next]_vars PROVE FreeInv'
  BY Zenon
<1> USE DEF Goto, Runs, taskVars, cpuVars
<1>0. Shape
  BY ZenonT(60) DEF UseInv
<1>1. CASE UNCHANGED vars
  <2>1. UNCHANGED <<state, exited, dead, on_cpu, cur, nxt, deferred, place, arg, ret>>
    BY Zenon, <1>1 DEF vars
  <2> QED
    BY <2>1 DEF FreeInv, FreeShape, TaskAt, CpuAt, NoWaker, Ended, Parting
<1>2. ASSUME NEW c \in Cpu, Choose(c) PROVE FreeInv'
  <2>1. CASE Block(c) \/ Yield(c)
    <3>1. /\ UNCHANGED <<state, exited, dead, on_cpu, cur, nxt, deferred, arg, ret>>
          /\ place[c] = "run" /\ \E p \in {"blk", "rs"} : place' = [place EXCEPT ![c] = p]
      BY Zenon, <2>1 DEF Block, Yield
    <3>2. place'[c] \in {"blk", "rs"} /\ \A d \in Cpu : d # c => place'[d] = place[d]
      BY Zenon, <1>0, <3>1 DEF Shape
    <3>3. ~Parting(c)
      BY Zenon, <3>1 DEF Parting
    <3> QED
      BY Zenon, <3>1, <3>2, <3>3, FreeMoves
  <2>2. CASE SelfUnblock(c) \/ GrantSeen(c)
    BY ZenonT(60), <2>2 DEF SelfUnblock, GrantSeen
  <2>3. ASSUME NEW t \in Task, Unblock(c, t) \/ Kill(c, t) PROVE FreeInv'
    <3>1. /\ UNCHANGED <<state, exited, dead, on_cpu, cur, nxt, deferred>>
          /\ place[c] \in {"run", "halt"} /\ place' = [place EXCEPT ![c] = "wk1"]
          /\ \E x : arg' = [arg EXCEPT ![c] = x]
          /\ \E x : ret' = [ret EXCEPT ![c] = x]
      BY Zenon, <2>3 DEF Unblock, Kill
    <3>2. /\ place'[c] = "wk1"
          /\ \A d \in Cpu : d # c => place'[d] = place[d] /\ arg'[d] = arg[d] /\ ret'[d] = ret[d]
      BY Zenon, <1>0, <3>1 DEF Shape
    <3>3. ~Parting(c)
      BY ZenonT(60), <3>1 DEF Parting
    <3> QED
      BY Zenon, <3>1, <3>2, <3>3, FreeMoves
  <2>4. CASE Exit(c)
    <3>1. /\ UNCHANGED <<state, exited, dead, on_cpu, cur, nxt, deferred, arg, ret>>
          /\ place[c] = "run" /\ place' = [place EXCEPT ![c] = "exi"]
          /\ \A d \in Cpu : ~Waking(d, cur[c])
      BY Zenon, <2>4 DEF Exit, LockFree
    <3>2. place'[c] = "exi" /\ \A d \in Cpu : d # c => place'[d] = place[d]
      BY ZenonT(60), <1>0, <3>1 DEF Shape
    <3>3. ASSUME NEW t \in Task PROVE TaskAt(c, t)'
      <4>1. TaskAt(c, t)
        BY ZenonT(60) DEF FreeInv
      <4> QED
        BY Zenon, <3>1, <3>2, <4>1 DEF TaskAt, Parting
    <3>4. ASSUME NEW d \in Cpu PROVE NoWaker(c, d)' /\ NoWaker(d, c)'
      <4>1. place[d] \in {"wk2", "wk3"} => ret[d] # "sw1"
        BY Zenon DEF UseInv, NextClaimed
      <4> QED
        BY Zenon, <3>1, <3>2, <4>1 DEF NoWaker, Waking
    <3>5. CpuAt(c)'
      BY ZenonT(60), <3>2 DEF CpuAt
    <3> QED
      BY Zenon, <3>1, <3>2, <3>3, <3>4, <3>5, FreeQuiet
  <2>5. ASSUME NEW t \in Task, Reap(c, t) PROVE FreeInv'
    <3>1. /\ UNCHANGED <<state, exited, on_cpu, cur, nxt, deferred, arg, ret, place>>
          /\ state[t] = "ZOMBIE" /\ ~on_cpu[t] /\ dead' = [dead EXCEPT ![t] = TRUE]
      BY Zenon, <2>5 DEF Reap
    <3>2. FreeShape' /\ \A u \in Task : dead'[u] <=> (dead[u] \/ u = t)
      BY Zenon, <3>1 DEF FreeInv, FreeShape
    <3>3. ASSUME NEW u \in Task PROVE Ended(u)'
      <4>1. Ended(u)
        BY Zenon DEF FreeInv
      <4> QED
        BY Zenon, <3>1, <3>2, <4>1 DEF Ended
    <3> QED
      BY <3>1, <3>2, <3>3 DEF FreeInv, TaskAt, CpuAt, NoWaker, Parting
  <2> QED
    BY Zenon, <1>2, <2>1, <2>2, <2>3, <2>4, <2>5 DEF Choose
<1>3. ASSUME NEW c \in Cpu, Wakes(c) PROVE FreeInv'
  <2>1. CASE SetRunnable(c)
    <3>1. /\ UNCHANGED <<state, exited, dead, on_cpu, cur, nxt, deferred, arg, ret>>
          /\ place[c] = "wk2" /\ place' = [place EXCEPT ![c] = "wk3"]
      BY Zenon, <2>1 DEF SetRunnable
    <3>2. place'[c] = "wk3" /\ \A d \in Cpu : d # c => place'[d] = place[d]
      BY ZenonT(60), <1>0, <3>1 DEF Shape
    <3>3. ASSUME NEW t \in Task PROVE TaskAt(c, t)'
      <4>1. TaskAt(c, t)
        BY ZenonT(60) DEF FreeInv
      <4> QED
        BY Zenon, <3>1, <3>2, <4>1 DEF TaskAt, Parting
    <3>4. ASSUME NEW d \in Cpu PROVE NoWaker(c, d)' /\ NoWaker(d, c)'
      <4>1. NoWaker(c, d) /\ NoWaker(d, c)
        BY Zenon DEF FreeInv
      <4> QED
        BY Zenon, <3>1, <3>2, <4>1 DEF NoWaker
    <3>5. CpuAt(c)'
      BY ZenonT(60), <3>2 DEF CpuAt
    <3> QED
      BY Zenon, <3>1, <3>2, <3>3, <3>4, <3>5, FreeQuiet
  <2>2. CASE SetReady(c)
    <3> DEFINE r == arg[c]
    <3>1. /\ UNCHANGED <<exited, dead, on_cpu, cur, nxt, deferred, arg, ret>>
          /\ place[c] = "wk3" /\ place' = [place EXCEPT ![c] = "enq"]
          /\ state' = [state EXCEPT ![r] = "READY"]
      BY Zenon, <2>2 DEF SetReady
    <3>2. place'[c] = "enq" /\ \A d \in Cpu : d # c => place'[d] = place[d]
      BY Zenon, <1>0, <3>1 DEF Shape
    <3>3. FreeShape' /\ \A t \in Task : state'[t] = IF t = r THEN "READY" ELSE state[t]
      BY Zenon, <3>1 DEF FreeInv, FreeShape, TaskState
    <3>4. r \in Task => ~exited[r]
      BY ZenonT(60), <3>1 DEF FreeInv, TaskAt
    <3>5. ASSUME NEW d \in Cpu, NEW t \in Task PROVE TaskAt(d, t)'
      <4>1. TaskAt(d, t)
        BY ZenonT(60) DEF FreeInv
      <4> QED
        BY <3>1, <3>2, <3>3, <4>1 DEF TaskAt, Parting
    <3>6. ASSUME NEW d \in Cpu, NEW e \in Cpu PROVE NoWaker(d, e)'
      <4>1. NoWaker(d, e)
        BY ZenonT(60) DEF FreeInv
      <4> QED
        BY ZenonT(60), <3>1, <3>2, <4>1 DEF NoWaker
    <3>7. ASSUME NEW t \in Task PROVE Ended(t)'
      <4>1. Ended(t)
        BY ZenonT(60) DEF FreeInv
      <4> QED
        BY <3>1, <3>3, <3>4, <4>1 DEF Ended
    <3>8. ASSUME NEW d \in Cpu PROVE CpuAt(d)'
      <4>1. CpuAt(d)
        BY Zenon DEF FreeInv
      <4> QED
        BY Zenon, <3>1, <3>2, <4>1 DEF CpuAt
    <3> QED
      BY Zenon, <3>3, <3>5, <3>6, <3>7, <3>8 DEF FreeInv
  <2>3. CASE Enqueue(c) \/ Kick(c) \/ SendIpi(c) \/ (TestBlocked(c) /\ state[arg[c]] # "BLOCKED")
    <3>1. /\ UNCHANGED <<state, exited, dead, on_cpu, cur, nxt, deferred>>
          /\ place[c] \in {"wk1", "enq", "kick", "send"}
      BY Zenon, <2>3 DEF Enqueue, Kick, SendIpi, TestBlocked
    <3>2. \/ Return(c)
          \/ /\ place[c] # "wk1"
             /\ \E p \in {"kick", "send"} : place' = [place EXCEPT ![c] = p] /\ UNCHANGED <<arg, ret>>
      BY Zenon, <2>3 DEF Enqueue, Kick, SendIpi, TestBlocked
    <3>3. CASE Return(c)
      BY ZenonT(60), <3>1, <3>3, FreeReturns
    <3>4. CASE /\ place[c] # "wk1"
               /\ \E p \in {"kick", "send"} : place' = [place EXCEPT ![c] = p] /\ UNCHANGED <<arg, ret>>
      <4>1. place'[c] \in {"kick", "send"} /\ \A d \in Cpu : d # c => place'[d] = place[d]
        BY Zenon, <1>0, <3>4 DEF Shape
      <4>2. Parting(c) => Parting(c)'
        BY ZenonT(60), <3>1, <3>4, <4>1 DEF Parting
      <4> QED
        BY Zenon, <3>1, <3>4, <4>1, <4>2, FreeMoves
    <3> QED
      BY Zenon, <3>2, <3>3, <3>4
  <2>4. CASE TestBlocked(c) /\ state[arg[c]] = "BLOCKED"
    <3>1. /\ UNCHANGED <<state, exited, dead, on_cpu, cur, nxt, deferred, arg, ret>>
          /\ place[c] = "wk1" /\ place' = [place EXCEPT ![c] = "wk2"]
      BY Zenon, <2>4 DEF TestBlocked
    <3>2. place'[c] = "wk2" /\ \A d \in Cpu : d # c => place'[d] = place[d]
      BY ZenonT(60), <1>0, <3>1 DEF Shape
    <3>3. ASSUME NEW t \in Task PROVE TaskAt(c, t)'
      <4>1. TaskAt(c, t) /\ Ended(t)
        BY ZenonT(60) DEF FreeInv
      <4> QED
        BY Zenon, <2>4, <3>1, <3>2, <4>1 DEF TaskAt, Parting, Ended
    <3>4. ASSUME NEW d \in Cpu PROVE NoWaker(c, d)' /\ NoWaker(d, c)'
      <4>1. arg[c] \in Task => TaskAt(d, arg[c])
        BY Zenon DEF FreeInv
      <4> QED
        BY Zenon, <2>4, <3>1, <3>2, <4>1 DEF NoWaker, TaskAt, Parting
    <3>5. CpuAt(c)'
      BY ZenonT(60), <3>2 DEF CpuAt
    <3> QED
      BY Zenon, <3>1, <3>2, <3>3, <3>4, <3>5, FreeQuiet
  <2>5. CASE KillIpi(c)
    <3>1. /\ UNCHANGED <<state, exited, dead, on_cpu, cur, nxt, deferred>>
          /\ place[c] = "kip" /\ place' = [place EXCEPT ![c] = "run"]
          /\ \E x : arg' = [arg EXCEPT ![c] = x]
          /\ \E x : ret' = [ret EXCEPT ![c] = x]
      BY Zenon, <2>5 DEF KillIpi
    <3>2. /\ place'[c] = "run"
          /\ \A d \in Cpu : d # c => place'[d] = place[d] /\ arg'[d] = arg[d] /\ ret'[d] = ret[d]
      BY ZenonT(60), <1>0, <3>1 DEF Shape
    <3>3. ~Parting(c)
      BY Zenon, <3>1 DEF Parting
    <3> QED
      BY Zenon, <3>1, <3>2, <3>3, FreeMoves
  <2> QED
    BY ZenonT(60), <1>3, <2>1, <2>2, <2>3, <2>4, <2>5 DEF Wakes
<1>4. ASSUME NEW c \in Cpu, Switches(c) PROVE FreeInv'
  <2>1. CASE MarkBlocked(c)
    <3> DEFINE r == cur[c]
    <3>1. /\ UNCHANGED <<exited, dead, on_cpu, cur, nxt, deferred, arg, ret>>
          /\ place[c] = "blk" /\ place' = [place EXCEPT ![c] = "slp"]
          /\ state' = [state EXCEPT ![r] = "BLOCKED"]
      BY Zenon, <2>1 DEF MarkBlocked
    <3>2. place'[c] = "slp" /\ \A d \in Cpu : d # c => place'[d] = place[d]
      BY Zenon, <1>0, <3>1 DEF Shape
    <3>3. FreeShape' /\ \A t \in Task : state'[t] = IF t = r THEN "BLOCKED" ELSE state[t]
      BY Zenon, <3>1 DEF FreeInv, FreeShape, TaskState
    <3>4. r \in Task => ~exited[r]
      BY Zenon, <3>1 DEF FreeInv, TaskAt
    <3>5. ASSUME NEW d \in Cpu, NEW t \in Task PROVE TaskAt(d, t)'
      <4>1. TaskAt(d, t)
        BY ZenonT(60) DEF FreeInv
      <4>2. d # c /\ cur[d] = t => t # r
        BY Zenon DEF UseInv, OneCpu, Uses
      <4>3. CASE d = c
        BY Zenon, <3>1, <3>2, <3>3, <4>1, <4>3 DEF TaskAt, Parting
      <4>4. CASE d # c
        BY ZenonT(60), <3>1, <3>2, <3>3, <4>1, <4>2, <4>4 DEF TaskAt, Parting
      <4> QED
        BY Zenon, <4>3, <4>4
    <3>6. ASSUME NEW d \in Cpu, NEW e \in Cpu PROVE NoWaker(d, e)'
      <4>1. NoWaker(d, e)
        BY ZenonT(60) DEF FreeInv
      <4> QED
        BY Zenon, <3>1, <3>2, <4>1 DEF NoWaker
    <3>7. ASSUME NEW t \in Task PROVE Ended(t)'
      <4>1. Ended(t)
        BY ZenonT(60) DEF FreeInv
      <4> QED
        BY <3>1, <3>3, <3>4, <4>1 DEF Ended
    <3>8. ASSUME NEW d \in Cpu PROVE CpuAt(d)'
      <4>1. CpuAt(d)
        BY Zenon DEF FreeInv
      <4> QED
        BY Zenon, <3>1, <3>2, <4>1 DEF CpuAt
    <3> QED
      BY Zenon, <3>3, <3>5, <3>6, <3>7, <3>8 DEF FreeInv
  <2>2. CASE Sleep(c) \/ CheckResched(c) \/ IpiHandler(c)
    <3>1. /\ UNCHANGED <<state, exited, dead, on_cpu, cur, nxt, deferred, arg, ret>>
          /\ place[c] \in {"slp", "run", "poll", "iret", "halt"}
          /\ place' = place \/ \E p \in {"rs", "iret"} : place' = [place EXCEPT ![c] = p]
          /\ place[c] = "slp" => place'= [place EXCEPT ![c] = "rs"]
      BY Zenon, <2>2 DEF Sleep, CheckResched, IpiHandler
    <3>2. /\ place'[c] \in {"rs", "iret", "run", "poll", "halt"}
          /\ place[c] = "slp" => place'[c] = "rs"
          /\ \A d \in Cpu : d # c => place'[d] = place[d]
      BY Zenon, <1>0, <3>1 DEF Shape
    <3>3. Parting(c) => Parting(c)'
      BY ZenonT(60), <3>1, <3>2 DEF Parting
    <3> QED
      BY Zenon, <3>1, <3>2, <3>3, FreeMoves
  <2>3. CASE MarkZombie(c)
    <3> DEFINE r == cur[c]
    <3>1. /\ UNCHANGED <<dead, on_cpu, cur, nxt, deferred, arg, ret>>
          /\ place[c] = "exi" /\ place' = [place EXCEPT ![c] = "rs"]
          /\ state' = [state EXCEPT ![r] = "ZOMBIE"]
          /\ exited' = [exited EXCEPT ![r] = TRUE]
      BY Zenon, <2>3 DEF MarkZombie
    <3>2. place'[c] = "rs" /\ \A d \in Cpu : d # c => place'[d] = place[d]
      BY Zenon, <1>0, <3>1 DEF Shape
    <3>3. /\ FreeShape' /\ \A t \in Task : state'[t] = IF t = r THEN "ZOMBIE" ELSE state[t]
          /\ \A t \in Task : exited'[t] <=> (exited[t] \/ t = r)
      BY Zenon, <3>1 DEF FreeInv, FreeShape, TaskState
    <3>4. \A d \in Cpu : r \in Task /\ Uses(d, r) => d = c
      BY Zenon DEF UseInv, OneCpu, Uses
    <3>5. ASSUME NEW d \in Cpu, NEW t \in Task, t = r PROVE TaskAt(d, t)'
      <4>1. TaskAt(d, t) /\ NoWaker(c, d)
        BY Zenon DEF FreeInv
      <4>2. nxt[d] # t
        BY Zenon, <3>1, <3>4, <3>5, SchedAssumption DEF UseInv, NextClaimed, Uses, Claimed
      <4>3. cur[d] = t => d = c
        BY Zenon, <3>4, <3>5 DEF Uses
      <4>4. ~(place[d] = "sw2" /\ arg[d] = t)
        BY Zenon, <3>1, <3>4, <3>5 DEF Uses
      <4>5. ~(place[d] \in {"wk2", "wk3"} /\ arg[d] = t)
        BY Zenon, <3>1, <3>5, <4>1 DEF NoWaker
      <4>6. CASE d = c
        BY ZenonT(60), <3>1, <3>2, <3>3, <3>5, <4>1, <4>2, <4>6 DEF TaskAt, Parting
      <4>7. CASE d # c
        BY ZenonT(60), <3>1, <3>2, <3>3, <3>5, <4>1, <4>2, <4>3, <4>4, <4>5, <4>7 DEF TaskAt, Parting
      <4> QED
        BY Zenon, <4>6, <4>7
    <3>6. ASSUME NEW d \in Cpu, NEW t \in Task, t # r PROVE TaskAt(d, t)'
      <4>1. TaskAt(d, t)
        BY ZenonT(60) DEF FreeInv
      <4> QED
        BY ZenonT(60), <3>1, <3>2, <3>3, <3>6, <4>1 DEF TaskAt, Parting
    <3>7. ASSUME NEW d \in Cpu, NEW e \in Cpu PROVE NoWaker(d, e)'
      <4>1. NoWaker(d, e)
        BY ZenonT(60) DEF FreeInv
      <4> QED
        BY Zenon, <3>1, <3>2, <4>1 DEF NoWaker
    <3>8. ASSUME NEW t \in Task PROVE Ended(t)'
      <4>1. Ended(t)
        BY ZenonT(60) DEF FreeInv
      <4>2. t = r => on_cpu[t]
        BY ZenonT(60) DEF UseInv, UsedOnCpu, Uses
      <4> QED
        BY Zenon, <3>1, <3>3, <4>1, <4>2 DEF Ended
    <3>9. ASSUME NEW d \in Cpu PROVE CpuAt(d)'
      <4>1. CpuAt(d)
        BY Zenon DEF FreeInv
      <4> QED
        BY Zenon, <3>1, <3>2, <4>1 DEF CpuAt
    <3> QED
      BY Zenon, <3>3, <3>5, <3>6, <3>7, <3>8, <3>9 DEF FreeInv
  <2>4. CASE Resched(c)
    <3>1. /\ FreeDeferred(c) /\ place[c] = "rs" /\ place' = [place EXCEPT ![c] = "pick"]
          /\ UNCHANGED <<exited, on_cpu, cur, nxt, arg, ret>>
          /\ \/ state' = state
             \/ state[cur[c]] = "BLOCKED" /\ state' = [state EXCEPT ![cur[c]] = "RUNNING"]
      BY Zenon, <2>4 DEF Resched
    <3>2. /\ state' \in [Task -> TaskState]
          /\ \A t \in Task : state'[t] = state[t] \/ (state[t] = "BLOCKED" /\ state'[t] = "RUNNING")
      BY Zenon, <3>1 DEF FreeInv, FreeShape, TaskState
    <3>3. Parting(c)'
      BY Zenon, <1>0, <3>1 DEF Parting, Shape
    <3> QED
      BY Zenon, <3>1, <3>2, <3>3, FreeRecorded
  <2>5. CASE Pick(c) \/ PickAgain(c)
    <3>1. /\ place[c] \in {"pick", "again"} /\ PickNext(c)
          /\ UNCHANGED <<state, exited, dead, cur, deferred, arg, ret>>
      BY Zenon, <2>5 DEF Pick, PickAgain, PickNext
    <3>2. \E p \in {"dec", "idle", "put"} : place' = [place EXCEPT ![c] = p]
      BY Zenon, <2>5 DEF Pick, PickAgain
    <3>3. /\ place'[c] \in {"dec", "idle", "put"}
          /\ \A d \in Cpu : d # c => place'[d] = place[d]
      BY Zenon, <1>0, <3>2 DEF Shape
    <3>4. place'[c] = "idle" => cur[c] = Idle
      BY <1>0, <2>5, <3>1, ZenonT(60) DEF Pick, PickAgain, FreeInv, CpuAt, Shape
    <3>5. \/ nxt' = [nxt EXCEPT ![c] = Idle] /\ on_cpu' = on_cpu
          \/ \E t \in Task : /\ nxt' = [nxt EXCEPT ![c] = t] /\ on_cpu' = [on_cpu EXCEPT ![t] = TRUE]
                             /\ state[t] # "ZOMBIE"
      <4>1. CASE Found(c) = {}
        BY <3>1, <4>1, ZenonT(60) DEF PickNext
      <4>2. CASE Found(c) # {}
        <5>1. PICK p \in Prio, i \in 1 .. Cardinality(Task), t \in Task :
                 /\ <<p, i>> \in Found(c)
                 /\ t = rq[p][i]
                 /\ nxt' = [nxt EXCEPT ![c] = t]
                 /\ on_cpu' = [on_cpu EXCEPT ![t] = TRUE]
          BY <3>1, <4>2, Zenon DEF PickNext
        <5>2. state[t] # "ZOMBIE"
          BY Zenon, <5>1 DEF Found, Takable, Stale
        <5> QED
          BY Zenon, <5>1, <5>2
      <4> QED
        BY Zenon, <4>1, <4>2
    <3>6. ASSUME NEW t \in Task PROVE /\ exited[t] => on_cpu'[t] = on_cpu[t]
                                      /\ nxt'[c] = t => ~exited[t]
      <4>1. Ended(t)
        BY ZenonT(60) DEF FreeInv
      <4> QED
        BY <1>0, <3>5, <4>1, SchedAssumption DEF Ended, Shape
    <3>7. \A d \in Cpu : d # c => nxt'[d] = nxt[d]
      BY Zenon, <1>0, <3>5 DEF Shape
    <3>8. ASSUME NEW d \in Cpu, NEW t \in Task PROVE TaskAt(d, t)'
      <4>1. TaskAt(d, t)
        BY ZenonT(60) DEF FreeInv
      <4>2. CASE d = c
        BY ZenonT(60), <3>1, <3>3, <3>4, <3>6, <4>1, <4>2, SchedAssumption DEF TaskAt, Parting
      <4>3. CASE d # c
        BY ZenonT(60), <3>1, <3>3, <3>6, <3>7, <4>1, <4>3 DEF TaskAt, Parting
      <4> QED
        BY Zenon, <4>2, <4>3
    <3>9. ASSUME NEW d \in Cpu, NEW e \in Cpu PROVE NoWaker(d, e)'
      <4>1. NoWaker(d, e)
        BY ZenonT(60) DEF FreeInv
      <4> QED
        BY Zenon, <3>1, <3>3, <4>1 DEF NoWaker
    <3>10. ASSUME NEW t \in Task PROVE Ended(t)'
      <4>1. Ended(t)
        BY ZenonT(60) DEF FreeInv
      <4> QED
        BY Zenon, <3>1, <3>6, <4>1 DEF Ended
    <3>11. ASSUME NEW d \in Cpu PROVE CpuAt(d)'
      <4>1. CpuAt(d)
        BY Zenon DEF FreeInv
      <4> QED
        BY Zenon, <3>1, <3>3, <4>1 DEF CpuAt
    <3> QED
      BY Zenon, <3>1, <3>8, <3>9, <3>10, <3>11 DEF FreeInv, FreeShape
  <2>6. CASE Decide(c)
    <3>1. /\ UNCHANGED <<state, exited, dead, on_cpu, cur, nxt, deferred, arg, ret>>
          /\ place[c] = "dec"
      BY Zenon, <2>6 DEF Decide
    <3>2. PICK p \in {"put", "again", "run", "blk", "idle"} :
             /\ place' = [place EXCEPT ![c] = p]
             /\ p \in {"run", "blk", "idle"} => state[cur[c]] = "RUNNING"
             /\ p = "again" => cur[c] = Idle
      BY Zenon, <1>0, <2>6 DEF Decide, Resume, Shape
    <3>3. place'[c] = p /\ \A d \in Cpu : d # c => place'[d] = place[d]
      BY ZenonT(60), <1>0, <3>2 DEF Shape
    <3>4. ASSUME NEW t \in Task PROVE TaskAt(c, t)'
      <4>1. TaskAt(c, t) /\ Ended(t)
        BY Zenon DEF FreeInv
      <4> QED
        BY Zenon, <3>1, <3>2, <3>3, <4>1, SchedAssumption DEF TaskAt, Parting, Ended
    <3>5. ASSUME NEW d \in Cpu PROVE NoWaker(c, d)' /\ NoWaker(d, c)'
      BY Zenon, <3>2, <3>3 DEF NoWaker
    <3>6. CpuAt(c)'
      BY ZenonT(60), <3>1, <3>2, <3>3 DEF CpuAt, FreeInv
    <3> QED
      BY Zenon, <3>1, <3>3, <3>4, <3>5, <3>6, FreeQuiet
  <2>7. CASE PutPrev(c) /\ cur[c] # Idle /\ state[cur[c]] # "ZOMBIE" /\ runnable[cur[c]]
    <3> DEFINE r == cur[c]
    <3>1. /\ UNCHANGED <<exited, dead, on_cpu, cur, nxt, deferred>>
          /\ place[c] = "put" /\ place' = [place EXCEPT ![c] = "enq"]
          /\ state' = [state EXCEPT ![r] = "READY"]
          /\ arg' = [arg EXCEPT ![c] = r]
          /\ ret' = [ret EXCEPT ![c] = "sw1"]
      BY Zenon, <2>7 DEF PutPrev
    <3>2. /\ place'[c] = "enq" /\ ret'[c] = "sw1"
          /\ \A d \in Cpu : d # c => place'[d] = place[d] /\ arg'[d] = arg[d] /\ ret'[d] = ret[d]
      BY ZenonT(60), <1>0, <3>1 DEF Shape
    <3>3. FreeShape' /\ \A t \in Task : state'[t] = IF t = r THEN "READY" ELSE state[t]
      BY Zenon, <3>1 DEF FreeInv, FreeShape, TaskState
    <3>4. r \in Task => ~exited[r]
      BY ZenonT(60), <2>7 DEF FreeInv, Ended
    <3>5. ASSUME NEW d \in Cpu, NEW t \in Task PROVE TaskAt(d, t)'
      <4>1. TaskAt(d, t)
        BY ZenonT(60) DEF FreeInv
      <4>2. CASE d = c
        <5>1. CpuAt(c)
          BY Zenon DEF FreeInv
        <5> QED
          BY ZenonT(60), <3>1, <3>2, <3>3, <3>4, <4>1, <4>2, <5>1, SchedAssumption DEF TaskAt, Parting, CpuAt
      <4>3. CASE d # c
        BY <3>1, <3>2, <3>3, <4>1, <4>3 DEF TaskAt, Parting
      <4> QED
        BY Zenon, <4>2, <4>3
    <3>6. ASSUME NEW d \in Cpu, NEW e \in Cpu PROVE NoWaker(d, e)'
      <4>1. NoWaker(d, e)
        BY ZenonT(60) DEF FreeInv
      <4> QED
        BY ZenonT(60), <3>1, <3>2, <4>1 DEF NoWaker
    <3>7. ASSUME NEW t \in Task PROVE Ended(t)'
      <4>1. Ended(t)
        BY ZenonT(60) DEF FreeInv
      <4> QED
        BY <3>1, <3>3, <3>4, <4>1 DEF Ended
    <3>8. ASSUME NEW d \in Cpu PROVE CpuAt(d)'
      <4>1. CpuAt(d)
        BY Zenon DEF FreeInv
      <4> QED
        BY Zenon, <3>1, <3>2, <4>1 DEF CpuAt
    <3> QED
      BY Zenon, <3>3, <3>5, <3>6, <3>7, <3>8 DEF FreeInv
  <2>8. CASE PutPrev(c) /\ ~(cur[c] # Idle /\ state[cur[c]] # "ZOMBIE" /\ runnable[cur[c]])
    <3> DEFINE r == cur[c]
               orphan == r # Idle /\ state[r] = "ZOMBIE" /\ r \in Orphan
    <3>1. /\ UNCHANGED <<state, exited, dead, on_cpu, cur, nxt, arg, ret>>
          /\ place[c] = "put" /\ place' = [place EXCEPT ![c] = "sw1"]
          /\ deferred' = IF orphan THEN [deferred EXCEPT ![c] = r] ELSE deferred
      BY Zenon, <2>8 DEF PutPrev
    <3>2. place'[c] = "sw1" /\ \A d \in Cpu : d # c => place'[d] = place[d]
      BY Zenon, <1>0, <3>1 DEF Shape
    <3>3. deferred[c] = Idle
      BY Zenon, <3>1 DEF FreeInv, CpuAt
    <3>4. /\ FreeShape'
          /\ deferred'[c] = IF orphan THEN r ELSE Idle
          /\ \A d \in Cpu : d # c => deferred'[d] = deferred[d]
      BY Zenon, <1>0, <3>1, <3>3 DEF FreeInv, FreeShape, Shape
    <3>5. ASSUME NEW d \in Cpu, NEW t \in Task PROVE TaskAt(d, t)'
      <4>1. TaskAt(d, t) /\ Ended(t)
        BY ZenonT(60) DEF FreeInv
      <4>2. CASE d = c
        <5>1. Parting(c)'
          BY Zenon, <3>2 DEF Parting
        <5> QED
          BY ZenonT(60), <3>1, <3>2, <3>4, <4>1, <4>2, <5>1, SchedAssumption DEF TaskAt, Ended
      <4>3. CASE d # c
        BY Zenon, <3>1, <3>2, <3>4, <4>1, <4>3 DEF TaskAt, Parting
      <4> QED
        BY Zenon, <4>2, <4>3
    <3>6. ASSUME NEW d \in Cpu, NEW e \in Cpu PROVE NoWaker(d, e)'
      <4>1. NoWaker(d, e)
        BY ZenonT(60) DEF FreeInv
      <4> QED
        BY Zenon, <3>1, <3>2, <4>1 DEF NoWaker
    <3>7. ASSUME NEW t \in Task PROVE Ended(t)'
      <4>1. Ended(t)
        BY ZenonT(60) DEF FreeInv
      <4>2. \A d \in Cpu : deferred[d] = t => deferred'[d] = t
        BY ZenonT(60), <3>3, <3>4, SchedAssumption
      <4> QED
        BY Zenon, <3>1, <4>1, <4>2 DEF Ended
    <3>8. ASSUME NEW d \in Cpu PROVE CpuAt(d)'
      <4>1. CpuAt(d)
        BY Zenon DEF FreeInv
      <4> QED
        BY Zenon, <3>1, <3>2, <3>4, <4>1 DEF CpuAt
    <3> QED
      BY Zenon, <3>4, <3>5, <3>6, <3>7, <3>8 DEF FreeInv
  <2>9. CASE Switch(c)
    <3> DEFINE r == cur[c]
               n == nxt[c]
    <3>1. /\ UNCHANGED <<exited, dead, on_cpu, deferred, ret>>
          /\ place[c] = "sw1" /\ place' = [place EXCEPT ![c] = "sw2"]
          /\ state' = IF n \in Task THEN [state EXCEPT ![n] = "RUNNING"] ELSE state
          /\ arg' = [arg EXCEPT ![c] = r]
          /\ cur' = [cur EXCEPT ![c] = n]
          /\ nxt' = [nxt EXCEPT ![c] = Idle]
      BY Zenon, <2>9 DEF Switch
    <3>2. /\ place'[c] = "sw2" /\ arg'[c] = r /\ cur'[c] = n /\ nxt'[c] = Idle
          /\ \A d \in Cpu : d # c => /\ place'[d] = place[d] /\ arg'[d] = arg[d]
                                     /\ cur'[d] = cur[d] /\ nxt'[d] = nxt[d]
      BY Zenon, <1>0, <3>1 DEF Shape
    <3>3. FreeShape' /\ \A t \in Task : state'[t] = IF t = n THEN "RUNNING" ELSE state[t]
      BY Zenon, <3>1 DEF FreeInv, FreeShape, TaskState
    <3>4. n \in Task => ~exited[n]
      BY ZenonT(60) DEF FreeInv, TaskAt
    <3>5. ASSUME NEW d \in Cpu, NEW t \in Task PROVE TaskAt(d, t)'
      <4>1. TaskAt(d, t)
        BY ZenonT(60) DEF FreeInv
      <4>2. CASE d = c
        BY <3>1, <3>2, <3>3, <3>4, <4>1, <4>2, SchedAssumption DEF TaskAt
      <4>3. CASE d # c
        BY <3>1, <3>2, <3>3, <4>1, <4>3 DEF TaskAt, Parting
      <4> QED
        BY Zenon, <4>2, <4>3
    <3>6. ASSUME NEW d \in Cpu, NEW e \in Cpu PROVE NoWaker(d, e)'
      <4>1. NoWaker(d, e)
        BY ZenonT(60) DEF FreeInv
      <4> QED
        BY ZenonT(60), <3>1, <3>2, <4>1 DEF NoWaker
    <3>7. ASSUME NEW t \in Task PROVE Ended(t)'
      <4>1. Ended(t)
        BY ZenonT(60) DEF FreeInv
      <4> QED
        BY <3>1, <3>3, <3>4, <4>1 DEF Ended
    <3>8. ASSUME NEW d \in Cpu PROVE CpuAt(d)'
      <4>1. CpuAt(d)
        BY Zenon DEF FreeInv
      <4> QED
        BY Zenon, <3>1, <3>2, <4>1 DEF CpuAt
    <3> QED
      BY Zenon, <3>3, <3>5, <3>6, <3>7, <3>8 DEF FreeInv
  <2>10. CASE LeaveStack(c)
    <3> DEFINE a == arg[c]
    <3>1. /\ UNCHANGED <<state, exited, dead, cur, nxt, deferred, ret>>
          /\ place[c] = "sw2" /\ place' = [place EXCEPT ![c] = "fin"]
          /\ on_cpu' = IF a \in Task THEN [on_cpu EXCEPT ![a] = FALSE] ELSE on_cpu
          /\ arg' = [arg EXCEPT ![c] = Idle]
      BY Zenon, <2>10 DEF LeaveStack
    <3>2. /\ place'[c] = "fin"
          /\ \A d \in Cpu : d # c => place'[d] = place[d] /\ arg'[d] = arg[d]
      BY Zenon, <1>0, <3>1 DEF Shape
    <3>3. \A t \in Task : on_cpu'[t] <=> (on_cpu[t] /\ t # a)
      BY Zenon, <1>0, <3>1 DEF Shape
    <3>4. ASSUME NEW d \in Cpu, NEW t \in Task PROVE TaskAt(d, t)'
      <4>1. TaskAt(d, t)
        BY ZenonT(60) DEF FreeInv
      <4>2. CASE d = c
        BY Zenon, <3>1, <3>2, <3>3, <4>1, <4>2 DEF TaskAt, Parting
      <4>3. CASE d # c
        BY ZenonT(60), <3>1, <3>2, <3>3, <4>1, <4>3 DEF TaskAt, Parting
      <4> QED
        BY Zenon, <4>2, <4>3
    <3>5. ASSUME NEW d \in Cpu, NEW e \in Cpu PROVE NoWaker(d, e)'
      <4>1. NoWaker(d, e)
        BY ZenonT(60) DEF FreeInv
      <4> QED
        BY Zenon, <3>1, <3>2, <4>1 DEF NoWaker
    <3>6. ASSUME NEW t \in Task PROVE Ended(t)'
      <4>1. Ended(t) /\ TaskAt(c, t)
        BY Zenon DEF FreeInv
      <4>2. t \in Orphan /\ exited[t] /\ t = a => deferred[c] = t
        BY ZenonT(60), <3>1, <4>1 DEF TaskAt
      <4> QED
        BY Zenon, <3>1, <3>3, <4>1, <4>2 DEF Ended
    <3>7. ASSUME NEW d \in Cpu PROVE CpuAt(d)'
      <4>1. CpuAt(d)
        BY Zenon DEF FreeInv
      <4> QED
        BY Zenon, <3>1, <3>2, <4>1 DEF CpuAt
    <3> QED
      BY Zenon, <3>1, <3>4, <3>5, <3>6, <3>7 DEF FreeInv, FreeShape
  <2>11. CASE Finish(c)
    <3>1. /\ UNCHANGED <<state, exited, on_cpu, cur, nxt, arg, ret>> /\ place[c] = "fin"
          /\ FreeDeferred(c) \/ UNCHANGED <<dead, deferred>>
      BY Zenon, <2>11 DEF Finish
    <3>2. PICK p \in {"idle", "run", "blk"} : place' = [place EXCEPT ![c] = p]
      BY Zenon, <1>0, <2>11 DEF Finish, Resume, Shape
    <3>3. ~Parting(c)
      BY ZenonT(60), <3>1 DEF Parting
    <3>4. CASE FreeDeferred(c)
      <4>1. state' \in [Task -> TaskState]
        BY Zenon, <3>1 DEF FreeInv, FreeShape
      <4> QED
        BY Zenon, <3>1, <3>2, <3>3, <3>4, <4>1, FreeRecorded
    <3>5. CASE UNCHANGED <<dead, deferred>>
      <4>1. place'[c] = p /\ \A d \in Cpu : d # c => place'[d] = place[d]
        BY Zenon, <1>0, <3>2 DEF Shape
      <4> QED
        BY Zenon, <3>1, <3>2, <3>3, <3>5, <4>1, FreeMoves
    <3> QED
      BY Zenon, <3>1, <3>4, <3>5
  <2> QED
    BY ZenonT(60), <1>4, <2>1, <2>2, <2>3, <2>4, <2>5, <2>6, <2>7, <2>8, <2>9, <2>10, <2>11 DEF Switches
<1>5. ASSUME NEW c \in Cpu, Idles(c) \/ Timer(c) PROVE FreeInv'
  <2>1. CASE IdlePoll(c) \/ IdleCli(c)
    <3>1. /\ UNCHANGED <<state, exited, on_cpu, cur, nxt, arg, ret>>
          /\ place[c] \in {"idle", "poll"} /\ FreeDeferred(c)
      BY Zenon, <2>1 DEF IdlePoll, IdleCli
    <3>2. PICK p \in {"poll", "cli"} : place' = [place EXCEPT ![c] = p]
      BY Zenon, <2>1 DEF IdlePoll, IdleCli
    <3>3. ~Parting(c) /\ state' \in [Task -> TaskState]
      BY Zenon, <3>1 DEF Parting, FreeInv, FreeShape
    <3> QED
      BY Zenon, <3>1, <3>2, <3>3, FreeRecorded
  <2>2. CASE IdlePollOff(c) \/ IdleTest(c) \/ IdleLoop(c) \/ Timer(c)
    <3>1. /\ UNCHANGED <<state, exited, dead, on_cpu, cur, nxt, deferred, arg, ret>>
          /\ place[c] \in {"cli", "test", "iret", "run", "halt"}
          /\ \/ place' = place
             \/ \E p \in {"test", "rs", "halt", "idle", "iret"} : place' = [place EXCEPT ![c] = p]
      BY Zenon, <2>2 DEF IdlePollOff, IdleTest, IdleLoop, Timer
    <3>2. /\ place'[c] \in {"cli", "test", "iret", "run", "halt", "rs", "idle"}
          /\ \A d \in Cpu : d # c => place'[d] = place[d]
      BY Zenon, <1>0, <3>1 DEF Shape
    <3>3. ~Parting(c)
      BY Zenon, <3>1 DEF Parting
    <3> QED
      BY Zenon, <3>1, <3>2, <3>3, FreeMoves
  <2> QED
    BY Zenon, <1>5, <2>1, <2>2 DEF Idles
<1> QED
  BY Zenon, <1>1, <1>2, <1>3, <1>4, <1>5 DEF Next

(* A task is freed only when no CPU uses its stack any more, whether its   *)
(* parent reaps it in do_wait or process_deferred_free frees an orphan,    *)
(* where sleeps and wakes hold the lock of the wait queue.                 *)
THEOREM FreedAlwaysOffCpu == ASSUME Locked PROVE Spec => []FreedOffCpu
<1>1. FreeInv /\ UseInv => FreedOffCpu
  <2> SUFFICES ASSUME FreeInv, UseInv, NEW t \in Task, dead[t]
               PROVE  ~on_cpu[t] /\ \A c \in Cpu : ~Uses(c, t)
    BY Zenon DEF FreedOffCpu
  <2>1. ~on_cpu[t]
    BY Zenon DEF FreeInv, Ended
  <2> QED
    BY Zenon, <2>1 DEF UseInv, UsedOnCpu
<1> QED
  BY <1>1, FreeInvInit, FreeInvNext, UseInvInit, UseInvNext, PTL DEF Spec

(* No orphaned zombie is leaked: the CPU that left it recorded it in       *)
(* deferred_free_task, whose earlier content was freed before.             *)
THEOREM OrphansFreed == ASSUME Locked PROVE Spec => []OrphanFreed
<1>1. FreeInv => OrphanFreed
  <2> SUFFICES ASSUME FreeInv, NEW t \in Orphan, exited[t], ~on_cpu[t]
               PROVE  dead[t] \/ \E c \in Cpu : deferred[c] = t
    BY Zenon DEF OrphanFreed
  <2>1. Ended(t)
    BY Zenon, SchedAssumption DEF FreeInv
  <2> QED
    BY Zenon, <2>1 DEF Ended
<1> QED
  BY <1>1, FreeInvInit, FreeInvNext, UseInvInit, UseInvNext, PTL DEF Spec
=============================================================================
