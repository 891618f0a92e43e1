----------------------------- MODULE PthreadJoin -----------------------------
(***************************************************************************)
(* The life of a struct __pthread of libcervus (pthread.c): pthread_create,*)
(* the end of a thread (thread_finish and the kernel's thread_clear_tid),  *)
(* pthread_join, pthread_detach and the list of finished detached threads. *)
(* Each new thread has its struct, with the futex words done and tid_word. *)
(* An owner is a thread that creates, joins and detaches; pc[x] is where   *)
(* an owner or a new thread is, obj[o] the thread an owner is busy with.   *)
(***************************************************************************)
EXTENDS Futex

CONSTANTS Owner, Thread,
          Done(_), Tid(_)     \* the addresses of done and tid_word

ASSUME JoinAssumption == /\ Owner \subseteq Task /\ Thread \subseteq Task
                         /\ Owner \intersect Thread = {}
                         /\ \A t \in Thread : {Done(t), Tid(t)} \subseteq Addr

VARIABLES pc, obj,
          dstate,      \* dstate[t]
          mem,         \* mem[t]: the struct is "none", "live" or "freed"
          head, link,  \* g_zombies, next_zombie
          list,        \* list[o]: the local variable of reap_zombies
          op,          \* op[o]: the call o is in
          claimed      \* the threads somebody has joined or detached

joinVars == <<pc, obj, dstate, mem, head, link, list, op, claimed>>
vars == <<word, futexVars, joinVars>>

Init == /\ FutexInit
        /\ word = [a \in Addr |-> 0]
        /\ pc = [x \in Task |-> IF x \in Owner THEN "out" ELSE "none"]
        /\ obj = [o \in Owner |-> NoTask]
        /\ dstate = [t \in Thread |-> "JOINABLE"]
        /\ mem = [t \in Thread |-> "none"]
        /\ head = NoTask
        /\ link = [t \in Thread |-> NoTask]
        /\ list = [o \in Owner |-> NoTask]
        /\ op = [o \in Owner |-> "none"]
        /\ claimed = {}

Here(x, p) == pc[x] = p /\ ~Waits(x)
Goto(x, p) == pc' = [pc EXCEPT ![x] = p]
-----------------------------------------------------------------------------
(* pthread_create starts with reap_zombies. *)
CreateCall(o) == /\ Here(o, "out")
                 /\ \E t \in Thread : mem[t] = "none"
                 /\ op' = [op EXCEPT ![o] = "create"]
                 /\ Goto(o, "reap")
                 /\ UNCHANGED <<word, futexVars, obj, dstate, mem, head, link, list, claimed>>

(* The rest of pthread_create: the thread runs with done = TH_RUNNING and  *)
(* its number in tid_word, or there is no memory for it (EAGAIN).          *)
Create(o) == /\ Here(o, "create")
             /\ op' = [op EXCEPT ![o] = "none"]
             /\ \/ \E t \in Thread, d \in {"JOINABLE", "DETACHED"} :
                      /\ mem[t] = "none"
                      /\ mem' = [mem EXCEPT ![t] = "live"]
                      /\ word' = [word EXCEPT ![Tid(t)] = 1]
                      /\ dstate' = [dstate EXCEPT ![t] = d]
                      /\ claimed' = IF d = "DETACHED" THEN claimed \union {t} ELSE claimed
                      /\ pc' = [pc EXCEPT ![t] = "run", ![o] = "out"]
                \/ /\ Goto(o, "out")
                   /\ UNCHANGED <<word, dstate, mem, claimed>>
             /\ UNCHANGED <<futexVars, obj, head, link, list>>

(* thread_finish: done = TH_DONE, *)
Finish(t) == /\ Here(t, "run")
             /\ word' = [word EXCEPT ![Done(t)] = 1]
             /\ Goto(t, "dwake")
             /\ UNCHANGED <<futexVars, obj, dstate, mem, head, link, list, op, claimed>>

(* futex_wake(&th->done, 1), *)
FinishWake(t) == /\ Here(t, "dwake")
                 /\ Wake(Done(t), 1)
                 /\ Goto(t, "cas")
                 /\ UNCHANGED <<word, obj, dstate, mem, head, link, list, op, claimed>>

(* the exchange on dstate: a detached thread goes to g_zombies. *)
Exiting(t) == /\ Here(t, "cas")
              /\ IF dstate[t] = "JOINABLE"
                 THEN dstate' = [dstate EXCEPT ![t] = "EXITING"] /\ Goto(t, "exit")
                 ELSE UNCHANGED dstate /\ Goto(t, "load")
              /\ UNCHANGED <<word, futexVars, obj, mem, head, link, list, op, claimed>>

(* th->next_zombie = g_zombies, and the compare-and-exchange that puts th  *)
(* in front of it.                                                         *)
ZombieLoad(t) == /\ Here(t, "load")
                 /\ link' = [link EXCEPT ![t] = head]
                 /\ Goto(t, "push")
                 /\ UNCHANGED <<word, futexVars, obj, dstate, mem, head, list, op, claimed>>

(* Mutation: a plain store in place of the exchange. *)
PushMut(t) == head' = t /\ UNCHANGED link

Push(t) == IF head = link[t] THEN head' = t /\ UNCHANGED link
           ELSE link' = [link EXCEPT ![t] = head] /\ UNCHANGED head

ZombiePush(t) == /\ Here(t, "push")
                 /\ Push(t)
                 /\ Goto(t, IF head = link[t] THEN "exit" ELSE "push")
                 /\ UNCHANGED <<word, futexVars, obj, dstate, mem, list, op, claimed>>

(* SYS_THREAD_EXIT: thread_clear_tid stores 0 and wakes everybody. *)
ClearTid(t) == /\ Here(t, "exit")
               /\ word' = [word EXCEPT ![Tid(t)] = 0]
               /\ Goto(t, "kwake")
               /\ UNCHANGED <<futexVars, obj, dstate, mem, head, link, list, op, claimed>>

ClearTidWake(t) == /\ Here(t, "kwake")
                   /\ Wake(Tid(t), Cardinality(Task))
                   /\ Goto(t, "gone")
                   /\ UNCHANGED <<word, obj, dstate, mem, head, link, list, op, claimed>>
-----------------------------------------------------------------------------
(* A caller may join or detach a thread once. *)
Claim(o, t) == /\ Here(o, "out")
               /\ mem[t] # "none"
               /\ t \notin claimed
               /\ claimed' = claimed \union {t}

Join(o, t) == /\ Claim(o, t)
              /\ op' = [op EXCEPT ![o] = "join"]
              /\ obj' = [obj EXCEPT ![o] = t]
              /\ Goto(o, "join")
              /\ UNCHANGED <<word, futexVars, dstate, mem, head, link, list>>

(* pthread_detach(t): a thread that is not EXITING yet is left to itself. *)
Detach(o, t) == /\ Claim(o, t)
                /\ IF dstate[t] = "JOINABLE"
                   THEN /\ dstate' = [dstate EXCEPT ![t] = "DETACHED"]
                        /\ UNCHANGED <<pc, obj, op>>
                   ELSE /\ op' = [op EXCEPT ![o] = "detach"]
                        /\ obj' = [obj EXCEPT ![o] = t]
                        /\ Goto(o, "gone")
                        /\ UNCHANGED dstate
                /\ UNCHANGED <<word, futexVars, mem, head, link, list>>

(* while (done != TH_DONE) futex_wait(&done, TH_RUNNING): the load, *)
JoinTest(o) == /\ Here(o, "join")
               /\ Goto(o, IF word[Done(obj[o])] = 1 THEN "gone" ELSE "jwait")
               /\ UNCHANGED <<word, futexVars, obj, dstate, mem, head, link, list, op, claimed>>

(* and the call. *)
JoinWait(o) == /\ Here(o, "jwait")
               /\ Wait(o, Done(obj[o]), 0)
               /\ Goto(o, "join")
               /\ UNCHANGED <<word, obj, dstate, mem, head, link, list, op, claimed>>

(* wait_gone: the load of tid_word and the futex_wait for it to change. *)
GoneTest(o) == /\ Here(o, "gone")
               /\ Goto(o, IF word[Tid(obj[o])] = 0 THEN "release" ELSE "gwait")
               /\ UNCHANGED <<word, futexVars, obj, dstate, mem, head, link, list, op, claimed>>

GoneWait(o) == /\ Here(o, "gwait")
               /\ Wait(o, Tid(obj[o]), 1)
               /\ Goto(o, "gone")
               /\ UNCHANGED <<word, obj, dstate, mem, head, link, list, op, claimed>>

(* release; pthread_join goes on with reap_zombies. *)
Release(o) == /\ Here(o, "release")
              /\ mem' = [mem EXCEPT ![obj[o]] = "freed"]
              /\ obj' = [obj EXCEPT ![o] = NoTask]
              /\ IF op[o] = "join" THEN Goto(o, "reap") /\ UNCHANGED op
                 ELSE Goto(o, "out") /\ op' = [op EXCEPT ![o] = "none"]
              /\ UNCHANGED <<word, futexVars, dstate, head, link, list, claimed>>
-----------------------------------------------------------------------------
(* reap_zombies takes the whole list, *)
ReapTake(o) == /\ Here(o, "reap")
               /\ list' = [list EXCEPT ![o] = head]
               /\ head' = NoTask
               /\ Goto(o, "next")
               /\ UNCHANGED <<word, futexVars, obj, dstate, mem, link, op, claimed>>

(* Mutation: tid_word is not looked at. *)
ReapNextMut(o) == LET th == list[o]
                  IN /\ Here(o, "next")
                     /\ th # NoTask
                     /\ list' = [list EXCEPT ![o] = link[th]]
                     /\ mem' = [mem EXCEPT ![th] = "freed"]
                     /\ UNCHANGED <<word, futexVars, pc, obj, dstate, head, link, op, claimed>>

(* frees a struct whose thread is gone and keeps one whose thread is not, *)
ReapNext(o) == LET th == list[o]
               IN /\ Here(o, "next")
                  /\ th # NoTask
                  /\ list' = [list EXCEPT ![o] = link[th]]
                  /\ IF word[Tid(th)] = 0
                     THEN mem' = [mem EXCEPT ![th] = "freed"] /\ UNCHANGED <<pc, obj>>
                     ELSE /\ obj' = [obj EXCEPT ![o] = th]
                          /\ Goto(o, "rload")
                          /\ UNCHANGED mem
                  /\ UNCHANGED <<word, futexVars, dstate, head, link, op, claimed>>

(* which it pushes back the way thread_finish does. *)
ReapLoad(o) == /\ Here(o, "rload")
               /\ link' = [link EXCEPT ![obj[o]] = head]
               /\ Goto(o, "rpush")
               /\ UNCHANGED <<word, futexVars, obj, dstate, mem, head, list, op, claimed>>

ReapPush(o) == /\ Here(o, "rpush")
               /\ Push(obj[o])
               /\ IF head = link[obj[o]]
                  THEN Goto(o, "next") /\ obj' = [obj EXCEPT ![o] = NoTask]
                  ELSE UNCHANGED <<pc, obj>>
               /\ UNCHANGED <<word, futexVars, dstate, mem, list, op, claimed>>

ReapEnd(o) == /\ Here(o, "next")
              /\ list[o] = NoTask
              /\ IF op[o] = "create" THEN Goto(o, "create") /\ UNCHANGED op
                 ELSE Goto(o, "out") /\ op' = [op EXCEPT ![o] = "none"]
              /\ UNCHANGED <<word, futexVars, obj, dstate, mem, head, link, list, claimed>>
-----------------------------------------------------------------------------
ThreadStep(t) == \/ FinishWake(t) \/ Exiting(t) \/ ZombieLoad(t) \/ ZombiePush(t)
                 \/ ClearTid(t) \/ ClearTidWake(t)

OwnerStep(o) == \/ Create(o) \/ JoinTest(o) \/ JoinWait(o) \/ GoneTest(o) \/ GoneWait(o)
                \/ Release(o) \/ ReapTake(o) \/ ReapNext(o) \/ ReapLoad(o) \/ ReapPush(o)
                \/ ReapEnd(o)

Disturb(x) == Interrupt(x) /\ UNCHANGED joinVars
Back(x)    == Return(x) /\ UNCHANGED joinVars

Next == \/ \E t \in Thread : Finish(t) \/ ThreadStep(t)
        \/ \E o \in Owner : CreateCall(o) \/ OwnerStep(o) \/ Disturb(o) \/ Back(o)
        \/ \E o \in Owner, t \in Thread : Join(o, t) \/ Detach(o, t)

(* Threads that are not blocked run, and every thread function returns;    *)
(* nobody is obliged to create, join or detach.                            *)
Spec == /\ Init /\ [][Next]_vars
        /\ \A t \in Thread : WF_vars(Finish(t) \/ ThreadStep(t))
        /\ \A o \in Owner : WF_vars(OwnerStep(o) \/ Back(o))
-----------------------------------------------------------------------------
(* The structs that the next step of an owner or a thread reads or writes, *)
(* the kernel's store to tid_word included.                                *)
Touches(x) ==
    IF x \in Thread
    THEN IF pc[x] \in {"run", "dwake", "cas", "load", "push", "exit"} THEN {x} ELSE {}
    ELSE IF pc[x] = "next" THEN {list[x]} \ {NoTask} ELSE {obj[x]} \ {NoTask}

(* Nobody uses a struct __pthread after free: not the thread that finishes,*)
(* not the kernel that clears its tid_word, not a joiner, not the reaper   *)
(* that walks the list, and none is freed twice (pthread.c, release and    *)
(* reap_zombies).                                                          *)
NoUseAfterFree == \A x \in Owner \union Thread : \A t \in Touches(x) : mem[t] = "live"

(* What can be reached from x through next_zombie. *)
Reached(x) == LET r[n \in 0 .. Cardinality(Thread)] ==
                      IF n = 0 THEN {x}
                      ELSE r[n - 1] \union {link[t] : t \in r[n - 1] \ {NoTask}}
              IN r[Cardinality(Thread)] \ {NoTask}

(* No finished detached thread is lost: its struct is on g_zombies, on the *)
(* list a reaper took, or in a reaper's hands, whatever the order in which *)
(* threads push and reapers take and push back; and it is in one place only*)
(* (thread_finish and reap_zombies).                                       *)
ZombieKept ==
    \A t \in Thread :
       (dstate[t] = "DETACHED" /\ mem[t] = "live" /\ pc[t] \in {"exit", "kwake", "gone"}) =>
          Cardinality({h \in {NoTask} \union Owner :
             IF h = NoTask THEN t \in Reached(head)
             ELSE t \in Reached(list[h]) \/ (t = obj[h])}) = 1

(* pthread_join of a thread that ends returns, and so do pthread_detach and*)
(* pthread_create: no futex_wait on done or tid_word sleeps for ever.      *)
JoinReturns == \A o \in Owner : op[o] # "none" ~> op[o] = "none"
=============================================================================
