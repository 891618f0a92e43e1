------------------------- MODULE AddressSpaceProofs -------------------------
(* The reference counts of pageref.c are exact under everything mm.c and    *)
(* pagecache.c do, for any number of tasks, address spaces, pages, frames.   *)
EXTENDS AddressSpace, FiniteSetTheorems, TLAPS

Place == {"none", "born", "user", "fault", "get", "insert", "map", "store", "flush",
          "unref", "poke", "put", "zap", "fork", "discard"}

CallType == [on : Mm \cup {NoMm}, page : Page, how : {"read", "write", "poke"}, val : Value]

Shape ==
    /\ cache \in [Page -> Frame \cup {NoFrame}]
    /\ pte \in [Mm -> [Page -> Entry]]
    /\ mm \in [Task -> Mm \cup {NoMm}]
    /\ pc \in [Task -> Place]
    /\ call \in [Task -> CallType]
    /\ held \in [Task -> Frame \cup {NoFrame}]
    /\ child \in [Task -> Task \cup {NoTask}]
    /\ left \in [Task -> SUBSET Page]

(* What the place of a task says of its address space, the one it works on, *)
(* and the frame in its hands.                                              *)
PlaceOk(t) ==
    /\ IF pc[t] \in {"none", "born", "user"} THEN On(t) = NoMm ELSE On(t) \in Mm
    /\ pc[t] = "none" => mm[t] = NoMm
    /\ pc[t] \in {"born", "user"} => mm[t] \in Mm
    /\ held[t] # NoFrame => pc[t] \in {"insert", "map", "store", "flush", "unref"}
    /\ pc[t] = "store" => held[t] # NoFrame
    /\ pc[t] = "poke" => call[t].how = "poke"
    /\ pc[t] \in {"fork", "discard"} => call[t].how = "read"
    /\ On(t) \in Mm /\ pc[t] \notin {"zap", "put"} /\ call[t].how # "poke" => mm[t] = On(t)

(* users counts the tasks that run in an address space, and those that work *)
(* on it with a reference of their own.                                     *)
Guest(t, m) == /\ On(t) = m
               /\ pc[t] # "zap"
               /\ call[t].how = "poke" \/ pc[t] = "put"
Members(m) == {t \in Task : mm[t] = m}
Guests(m) == {t \in Task : Guest(t, m)}
UsersExact == /\ users \in [Mm -> Nat]
              /\ \A m \in Mm : users[m] = Cardinality(Members(m)) + Cardinality(Guests(m))

(* The address space that fork is filling is nobody's yet, and the entries  *)
(* it has not come to are empty.                                            *)
ForkOk(t) == pc[t] = "fork" =>
    /\ child[t] \in Task /\ pc[child[t]] = "born"
    /\ \A u \in Task : /\ mm[u] = mm[child[t]] => u = child[t]
                       /\ On(u) = mm[child[t]] => pc[u] = "zap"
                       /\ pc[u] = "fork" /\ child[u] = child[t] => u = t
    /\ \A p \in left[t] : pte[mm[child[t]]][p] = Absent

Tasks == \A t \in Task : PlaceOk(t)
Forks == \A t \in Task : ForkOk(t)
RefsOk == refs \in [Frame -> Nat] /\ RefExact
IInv == Shape /\ Tasks /\ UsersExact /\ Forks /\ RefsOk
-----------------------------------------------------------------------------
One(a, f) == IF a = f THEN 1 ELSE 0

(* PAGE_NONE is no frame of the pool.                                       *)
LEMMA NoFrameOut == NoFrame \notin Frame
  BY DEF Frame, NoFrame

(* When one element changes its value from a to b, the number of those with *)
(* a value f loses one if a is f and gains one if b is f.                   *)
LEMMA CountStep ==
    ASSUME NEW S, IsFiniteSet(S), NEW A \in SUBSET S, NEW B \in SUBSET S, NEW x \in S,
           \A y \in S \ {x} : y \in A <=> y \in B
    PROVE  /\ Cardinality(A) \in Nat /\ Cardinality(B) \in Nat
           /\ Cardinality(B) + (IF x \in A THEN 1 ELSE 0) = Cardinality(A) + (IF x \in B THEN 1 ELSE 0)
<1>1. IsFiniteSet(A) /\ IsFiniteSet(B)
  BY Zenon, FS_Subset
<1>2. Cardinality(A) \in Nat /\ Cardinality(B) \in Nat
  BY Zenon, <1>1, FS_CardinalityType
<1>3. A \ {x} = B \ {x}
  BY Zenon
<1>4. /\ Cardinality(A \ {x}) = IF x \in A THEN Cardinality(A) - 1 ELSE Cardinality(A)
      /\ Cardinality(B \ {x}) = IF x \in B THEN Cardinality(B) - 1 ELSE Cardinality(B)
  BY Zenon, <1>1, FS_RemoveElement
<1> QED
  BY <1>2, <1>3, <1>4

(* References from page tables, when one entry changes, *)
Tabs(q, f) == {x \in Mm \X Page : q[x[1]][x[2]].frame = f}
Tables(f) == Cardinality(InTables(f))
Becomes(q, r, m, p, e) == \A n \in Mm, o \in Page : r[n][o] = IF n = m /\ o = p THEN e ELSE q[n][o]
(* A store into one entry changes the entries of a frame by one at most.    *)
LEMMA TableCount ==
    ASSUME NEW q, NEW r, NEW m \in Mm, NEW p \in Page, NEW e, NEW f,
           Becomes(q, r, m, p, e)
    PROVE  /\ Cardinality(Tabs(q, f)) \in Nat /\ Cardinality(Tabs(r, f)) \in Nat
           /\ Cardinality(Tabs(r, f)) + One(q[m][p].frame, f) = Cardinality(Tabs(q, f)) + One(e.frame, f)
<1> DEFINE S == Mm \X Page  x == <<m, p>>
<1>1. IsFiniteSet(S)
  BY Zenon, SpaceAssumption, FS_Product
<1>2. Tabs(q, f) \in SUBSET S /\ Tabs(r, f) \in SUBSET S
  BY Zenon DEF Tabs
<1>3. ASSUME NEW y \in S \ {x} PROVE y \in Tabs(q, f) <=> y \in Tabs(r, f)
  <2>1. PICK n \in Mm, o \in Page : y = <<n, o>> /\ (n # m \/ o # p)
    OBVIOUS
  <2>2. r[n][o] = q[n][o]
    BY Zenon, <2>1 DEF Becomes
  <2> QED
    BY Zenon, <2>1, <2>2 DEF Tabs
<1>4. (x \in Tabs(q, f) <=> q[m][p].frame = f) /\ (x \in Tabs(r, f) <=> e.frame = f)
  BY Zenon DEF Tabs, Becomes
<1>5. x \in S
  BY Zenon
<1> HIDE DEF S, x
<1>6. PICK A \in SUBSET S, B \in SUBSET S : A = Tabs(q, f) /\ B = Tabs(r, f)
  BY Zenon, <1>2
<1>7. \A y \in S \ {x} : y \in A <=> y \in B
  BY Zenon, <1>3, <1>6
<1>8. /\ Cardinality(A) \in Nat /\ Cardinality(B) \in Nat
      /\ Cardinality(B) + (IF x \in A THEN 1 ELSE 0) = Cardinality(A) + (IF x \in B THEN 1 ELSE 0)
  BY ZenonT(60), <1>1, <1>5, <1>7, CountStep
<1> QED
  BY Zenon, <1>4, <1>6, <1>8 DEF One

(* One store into a page table changes InTables of one frame or two.        *)
LEMMA TableStep ==
    ASSUME Shape, NEW m \in Mm, NEW p \in Page, NEW e \in Entry,
           pte' = [pte EXCEPT ![m][p] = e], NEW f
    PROVE  /\ Tables(f) \in Nat /\ Tables(f)' \in Nat
           /\ Tables(f)' + One(pte[m][p].frame, f) = Tables(f) + One(e.frame, f)
<1>1. InTables(f) = Tabs(pte, f) /\ InTables(f)' = Tabs(pte', f)
  BY Zenon DEF InTables, Tabs
<1>2. Becomes(pte, pte', m, p, e)
  BY Zenon DEF Shape, Becomes
<1>3. /\ Cardinality(Tabs(pte, f)) \in Nat /\ Cardinality(Tabs(pte', f)) \in Nat
      /\ Cardinality(Tabs(pte', f)) + One(pte[m][p].frame, f) = Cardinality(Tabs(pte, f)) + One(e.frame, f)
  BY <1>2, TableCount
<1> QED
  BY Zenon, <1>1, <1>3 DEF Tables

(* from the page cache, *)
Cached(f) == Cardinality(InCache(f))
(* One store into the page cache.                                           *)
LEMMA CacheStep ==
    ASSUME Shape, NEW p \in Page, NEW b, cache' = [cache EXCEPT ![p] = b], NEW f
    PROVE  /\ Cached(f) \in Nat /\ Cached(f)' \in Nat
           /\ Cached(f)' + One(cache[p], f) = Cached(f) + One(b, f)
<1>1. InCache(f) \in SUBSET Page /\ InCache(f)' \in SUBSET Page
  BY Zenon DEF InCache
<1>2. ASSUME NEW y \in Page \ {p} PROVE y \in InCache(f) <=> y \in InCache(f)'
  BY Zenon DEF InCache, Shape
<1>3. (p \in InCache(f) <=> cache[p] = f) /\ (p \in InCache(f)' <=> b = f)
  BY Zenon DEF InCache, Shape
<1> QED
  BY <1>1, <1>2, <1>3, SpaceAssumption, CountStep DEF Cached, One

(* and from tasks. *)
Hands(f) == Cardinality(InHands(f))
(* A task takes a frame into its hands or lets go of one.                   *)
LEMMA HandStep ==
    ASSUME Shape, NEW t \in Task, NEW b, held' = [held EXCEPT ![t] = b], NEW f
    PROVE  /\ Hands(f) \in Nat /\ Hands(f)' \in Nat
           /\ Hands(f)' + One(held[t], f) = Hands(f) + One(b, f)
<1>1. InHands(f) \in SUBSET Task /\ InHands(f)' \in SUBSET Task
  BY Zenon DEF InHands
<1>2. ASSUME NEW y \in Task \ {t} PROVE y \in InHands(f) <=> y \in InHands(f)'
  BY Zenon DEF InHands, Shape
<1>3. (t \in InHands(f) <=> held[t] = f) /\ (t \in InHands(f)' <=> b = f)
  BY Zenon DEF InHands, Shape
<1> QED
  BY <1>1, <1>2, <1>3, SpaceAssumption, CountStep DEF Hands, One

-----------------------------------------------------------------------------
(* alloc_frame hands out a free frame or one the page cache gave up.        *)
LEMMA AllocFrame ==
    ASSUME Shape, Shrunk
    PROVE  /\ NewFrame \in Pool /\ Pool \subseteq Frame /\ NewFrame # NoFrame
           /\ cache' \in [Page -> Frame \cup {NoFrame}]
<1>1. NewFrame \in Pool
  BY Zenon DEF NewFrame, Shrunk
<1>2. Pool \subseteq Frame
  BY ZenonT(60) DEF Pool, Free, Victim, Shape
<1>3. NoFrame \notin Frame
  BY Zenon, NoFrameOut
<1> QED
  BY Zenon, <1>1, <1>2, <1>3 DEF Shrunk, Shape

(* The place of a task that a step does not touch.                          *)
LEMMA PlaceSame ==
    ASSUME NEW u \in Task, PlaceOk(u), pc'[u] = pc[u], call'[u] = call[u], mm'[u] = mm[u], held'[u] = held[u]
    PROVE  PlaceOk(u)'
  BY DEF PlaceOk, On

(* The child that a forking task makes.                                     *)
LEMMA BornChild ==
    ASSUME Tasks, Forks, NEW t \in Task, pc[t] = "fork"
    PROVE  /\ child[t] \in Task /\ child[t] # t /\ pc[child[t]] = "born"
           /\ mm[child[t]] \in Mm /\ On(child[t]) = NoMm /\ held[child[t]] = NoFrame
           /\ On(t) \in Mm /\ mm[t] = On(t) /\ held[t] = NoFrame /\ call[t].how = "read"
<1>1. child[t] \in Task /\ pc[child[t]] = "born"
  BY Zenon DEF Forks, ForkOk
<1>2. PICK c \in Task : c = child[t]
  BY Zenon, <1>1
<1>3. PlaceOk(c) /\ PlaceOk(t)
  BY Zenon DEF Tasks
<1>4. mm[c] \in Mm /\ On(c) = NoMm /\ held[c] = NoFrame
  BY Zenon, <1>1, <1>2, <1>3 DEF PlaceOk
<1>5. On(t) \in Mm /\ call[t].how = "read"
  BY Zenon, <1>3 DEF PlaceOk
<1>6. mm[t] = On(t) /\ held[t] = NoFrame
  BY Zenon, <1>3, <1>5 DEF PlaceOk
<1> QED
  BY Zenon, <1>1, <1>2, <1>4, <1>5, <1>6

(* A task that changes its own place only.                                  *)
LEMMA PlaceFrame ==
    ASSUME Tasks, NEW t \in Task, PlaceOk(t)',
           \A u \in Task \ {t} : pc'[u] = pc[u] /\ call'[u] = call[u] /\ mm'[u] = mm[u] /\ held'[u] = held[u]
    PROVE  Tasks'
<1>1. ASSUME NEW u \in Task \ {t} PROVE PlaceOk(u)'
  BY Zenon, <1>1, PlaceSame DEF Tasks
<1> QED
  BY Zenon, <1>1 DEF Tasks

(* An entry stays an entry when its write bit changes, with its frame.      *)
LEMMA EntryFacts ==
    ASSUME NEW e \in Entry
    PROVE  /\ e.frame \in Frame \cup {NoFrame} /\ e.w \in BOOLEAN
           /\ e # Absent => e.frame \in Frame
           /\ e # Absent => [e EXCEPT !.w = TRUE] \in Entry /\ [e EXCEPT !.w = TRUE].frame = e.frame
           /\ [e EXCEPT !.w = FALSE] \in Entry /\ [e EXCEPT !.w = FALSE].frame = e.frame
           /\ [frame |-> e.frame, w |-> FALSE] \in Entry
<1>1. CASE e \in [frame : Frame, w : BOOLEAN]
  BY Zenon, <1>1 DEF Entry
<1>2. CASE e = Absent
  <2>1. e.frame = NoFrame /\ e.w = FALSE
    BY Zenon, <1>2 DEF Absent
  <2>2. [e EXCEPT !.w = FALSE] = Absent
    <3> DEFINE R == [frame : {NoFrame}, w : {FALSE}]
    <3>1. e \in R
      BY Zenon, <1>2 DEF Absent
    <3>2. [e EXCEPT !.w = FALSE] \in R
      BY Zenon, <3>1
    <3>3. ASSUME NEW r \in R PROVE r = Absent
      BY Zenon DEF Absent
    <3> QED
      BY Zenon, <3>2, <3>3
  <2>3. [frame |-> e.frame, w |-> FALSE] = Absent
    BY Zenon, <2>1 DEF Absent
  <2> QED
    BY Zenon, <1>2, <2>1, <2>2, <2>3 DEF Entry
<1> QED
  BY Zenon, <1>1, <1>2 DEF Entry

(* How entries are made.                                                    *)
LEMMA EntryOf ==
    ASSUME NEW f \in Frame \cup {NoFrame}, NEW w \in BOOLEAN, f = NoFrame => ~w
    PROVE  [frame |-> f, w |-> w] \in Entry
  BY Zenon DEF Entry, Absent

(* An entry for a frame, writable for either of two reasons.                *)
LEMMA EntryHeld ==
    ASSUME NEW f \in Frame, NEW a, NEW b
    PROVE  [frame |-> f, w |-> a \/ b] \in Entry
<1>1. (a \/ b) \in BOOLEAN
  OBVIOUS
<1>2. PICK w \in BOOLEAN : w = (a \/ b)
  BY Zenon, <1>1
<1>3. [frame |-> f, w |-> w] \in Entry
  BY Zenon, NoFrameOut, EntryOf
<1> QED
  BY Zenon, <1>2, <1>3

(* What a page table holds.                                                 *)
LEMMA TableEntry ==
    ASSUME Shape, NEW m \in Mm, NEW p \in Page
    PROVE  pte[m][p] \in Entry
<1>1. pte[m] \in [Page -> Entry]
  BY Zenon DEF Shape
<1> QED
  BY Zenon, <1>1

(* What a task in a call works on.                                          *)
LEMMA CallFacts ==
    ASSUME Shape, Tasks, NEW t \in Task, pc[t] \notin {"none", "born", "user"}
    PROVE  /\ On(t) \in Mm /\ call[t].page \in Page /\ Old(t) \in Entry
           /\ held[t] \in Frame \cup {NoFrame}
           /\ cache[call[t].page] \in Frame \cup {NoFrame}
<1>1. On(t) \in Mm
  BY Zenon DEF Tasks, PlaceOk
<1>2. call[t].page \in Page
  BY Zenon DEF Shape, CallType
<1>3. held[t] \in Frame \cup {NoFrame} /\ cache[call[t].page] \in Frame \cup {NoFrame}
  BY Zenon, <1>2 DEF Shape
<1> QED
  BY Zenon, <1>1, <1>2, <1>3, TableEntry DEF Old

(* The return from a call, *)
LEMMA LeaveStep ==
    ASSUME Shape, NEW t \in Task, Leave(t), mm' = mm, held' \in [Task -> Frame \cup {NoFrame}],
           held'[t] = NoFrame
    PROVE  /\ pc' \in [Task -> Place] /\ call' \in [Task -> CallType] /\ PlaceOk(t)'
           /\ \A u \in Task \ {t} : pc'[u] = pc[u] /\ call'[u] = call[u]
<1>1. pc' \in [Task -> Place] /\ pc'[t] = (IF mm[t] = NoMm THEN "none" ELSE "user")
  BY Zenon DEF Leave, Goto, Place, Shape
<1>2. call' \in [Task -> CallType] /\ call'[t] = NoCall
  BY Zenon, SpaceAssumption DEF Leave, NoCall, Shape, CallType
<1>3. NoCall.on = NoMm /\ NoCall.how = "read"
  BY Zenon DEF NoCall
<1>4. mm[t] \in Mm \cup {NoMm}
  BY Zenon DEF Shape
<1>5. PlaceOk(t)'
  BY ZenonT(60), <1>1, <1>2, <1>3, <1>4, SpaceAssumption DEF PlaceOk, On
<1> QED
  BY Zenon, <1>1, <1>2, <1>5 DEF Leave, Goto, Shape

(* and from a fault.                                                        *)
LEMMA FaultDoneStep ==
    ASSUME Shape, Tasks, NEW t \in Task, FaultDone(t), mm' = mm, pc[t] \in {"fault", "unref", "map"},
           held' \in [Task -> Frame \cup {NoFrame}], held'[t] = NoFrame
    PROVE  /\ pc' \in [Task -> Place] /\ call' \in [Task -> CallType] /\ PlaceOk(t)'
           /\ \A u \in Task \ {t} : pc'[u] = pc[u] /\ call'[u] = call[u]
<1>1. CASE call[t].how = "poke"
  <2>1. pc' = [pc EXCEPT ![t] = "poke"] /\ call' = call
    BY Zenon, <1>1 DEF FaultDone, Goto
  <2>2. PlaceOk(t)'
    BY Zenon, <1>1, <2>1, CallFacts DEF Shape, Tasks, PlaceOk, On
  <2> QED
    BY Zenon, <2>1, <2>2 DEF Shape, Place
<1>2. CASE call[t].how # "poke"
  BY Zenon, <1>2, LeaveStep DEF FaultDone
<1> QED
  BY Zenon, <1>1, <1>2

(* Who returns is not about to fork, and works on nothing or on the same.   *)
LEMMA LeaveCall ==
    ASSUME Shape, NEW t \in Task, Leave(t)
    PROVE  /\ \A u \in Task \ {t} : pc'[u] = pc[u] /\ call'[u] = call[u]
           /\ pc'[t] # "fork" /\ On(t)' = NoMm
<1>1. pc'[t] \in {"none", "user"} /\ call'[t] = NoCall
  BY Zenon DEF Leave, Goto, Shape
<1>2. \A u \in Task \ {t} : pc'[u] = pc[u] /\ call'[u] = call[u]
  BY Zenon DEF Leave, Goto, Shape
<1>3. NoCall.on = NoMm
  BY Zenon DEF NoCall
<1> QED
  BY Zenon, <1>1, <1>2, <1>3 DEF On

(* The same of a fault that is done.                                        *)
LEMMA FaultReturn ==
    ASSUME Shape, NEW t \in Task, FaultDone(t)
    PROVE  /\ \A u \in Task \ {t} : pc'[u] = pc[u] /\ call'[u] = call[u]
           /\ pc'[t] # "fork" /\ (On(t)' = NoMm \/ On(t)' = On(t))
<1>1. CASE call[t].how = "poke"
  BY Zenon, <1>1 DEF FaultDone, Goto, On, Shape
<1>2. CASE call[t].how # "poke"
  BY Zenon, <1>2, LeaveCall DEF FaultDone
<1> QED
  BY Zenon, <1>1, <1>2

(* Every step keeps the types and what the places of the tasks say.         *)
LEMMA LocalNext ==
    ASSUME Shape, Tasks, Forks, [Next]_vars
    PROVE  Shape' /\ Tasks'
<1> USE SpaceAssumption
<1> DEFINE Good == Shape' /\ Tasks'
<1>1. CASE UNCHANGED vars
  <2>1. Shape'
    BY Zenon, <1>1 DEF vars, frameVars, walkVars, Shape
  <2> QED
    BY Zenon, <1>1, <2>1 DEF vars, frameVars, walkVars, Tasks, PlaceOk, On
<1>2. ASSUME NEW t \in Task, NEW p \in Page, Evict(t, p) PROVE Good
  BY Zenon, <1>2 DEF Evict, frameVars, walkVars, Shape, Tasks, PlaceOk, On
<1>3. ASSUME NEW t \in Task, NEW p \in Page, NEW v \in Value, Write(t, p, v) PROVE Good
  BY ZenonT(60), <1>3 DEF Write, frameVars, walkVars, Shape, Tasks, PlaceOk, On
<1>4. ASSUME NEW t \in Task, NEW p \in Page, NEW h \in {"read", "write"}, Fault(t, p, h) PROVE Good
  <2>1. Shape'
    <3>1. mm[t] \in Mm
      BY Zenon, <1>4 DEF Fault, At, Tasks, PlaceOk
    <3>2. call' \in [Task -> CallType]
      BY Zenon, <1>4, <3>1 DEF Fault, Call, CallType, Shape
    <3> QED
      BY Zenon, <1>4, <3>2 DEF Fault, Goto, Shape, Place, frameVars, walkVars
  <2>2. PlaceOk(t)'
    BY Zenon, <1>4 DEF Fault, Call, Goto, At, Shape, Tasks, PlaceOk, On, frameVars, walkVars
  <2> QED
    BY Zenon, <1>4, <2>1, <2>2, PlaceFrame DEF Fault, Call, Goto, Shape, frameVars, walkVars
<1>5. ASSUME NEW t \in Task, NEW p \in Page, NEW m \in Mm, NEW v \in Value, Poke(t, m, p, v) PROVE Good
  <2>1. Shape'
    <3>1. call' \in [Task -> CallType]
      BY Zenon, <1>5 DEF Poke, Call, CallType, Shape
    <3> QED
      BY Zenon, <1>5, <3>1 DEF Poke, Goto, Shape, Place, frameVars, walkVars
  <2>2. PlaceOk(t)'
    BY Zenon, <1>5 DEF Poke, Call, Goto, At, Shape, Tasks, PlaceOk, On, frameVars, walkVars
  <2> QED
    BY ZenonT(60), <1>5, <2>1, <2>2, PlaceFrame DEF Poke, Call, Goto, Shape, frameVars, walkVars
<1>6. ASSUME NEW t \in Task, MapAnon(t) PROVE Good
  <2>1. mm' = mm /\ held' \in [Task -> Frame \cup {NoFrame}] /\ held'[t] = NoFrame
    BY Zenon, <1>6 DEF MapAnon, At, Shape, Tasks, PlaceOk, walkVars
  <2>2. /\ pc' \in [Task -> Place] /\ call' \in [Task -> CallType] /\ PlaceOk(t)'
        /\ \A u \in Task \ {t} : pc'[u] = pc[u] /\ call'[u] = call[u]
    BY Zenon, <1>6, <2>1, FaultDoneStep DEF MapAnon, At
  <2>3. Shape'
    BY ZenonT(60), <1>6, <2>1, <2>2, AllocFrame DEF MapAnon, SetPte, On, At, Shape, Tasks, PlaceOk, Entry, CallType, frameVars, walkVars
  <2>4. \A u \in Task \ {t} : mm'[u] = mm[u] /\ held'[u] = held[u]
    BY ZenonT(60), <1>6, <2>1 DEF MapAnon, Shape, walkVars
  <2> QED
    BY Zenon, <2>2, <2>3, <2>4, PlaceFrame
<1>7. ASSUME NEW t \in Task, Allow(t) PROVE Good
  <2>1. mm' = mm /\ held' \in [Task -> Frame \cup {NoFrame}] /\ held'[t] = NoFrame
    BY Zenon, <1>7 DEF Allow, At, Shape, Tasks, PlaceOk, walkVars
  <2>2. /\ pc' \in [Task -> Place] /\ call' \in [Task -> CallType] /\ PlaceOk(t)'
        /\ \A u \in Task \ {t} : pc'[u] = pc[u] /\ call'[u] = call[u]
    BY Zenon, <1>7, <2>1, FaultDoneStep DEF Allow, At
  <2>3. Shape'
    <3>1. /\ On(t) \in Mm /\ call[t].page \in Page /\ Old(t) \in Entry /\ Old(t) # Absent
          /\ [Old(t) EXCEPT !.w = TRUE] \in Entry
      BY Zenon, <1>7, CallFacts, EntryFacts DEF Allow, At
    <3>2. pte' \in [Mm -> [Page -> Entry]]
      <4>1. pte' = pte \/ pte' = [pte EXCEPT ![On(t)][call[t].page] = [Old(t) EXCEPT !.w = TRUE]]
        BY Zenon, <1>7 DEF Allow, SetPte
      <4>2. PICK m \in Mm, p \in Page, e \in Entry : pte' = pte \/ pte' = [pte EXCEPT ![m][p] = e]
        BY Zenon, <3>1, <4>1
      <4>3. pte \in [Mm -> [Page -> Entry]]
        BY Zenon DEF Shape
      <4> QED
        BY <4>2, <4>3
    <3> QED
      BY Zenon, <1>7, <2>1, <2>2, <3>2 DEF Allow, Shape, frameVars, walkVars
  <2>4. \A u \in Task \ {t} : mm'[u] = mm[u] /\ held'[u] = held[u]
    BY Zenon, <1>7, <2>1 DEF Allow, Shape, walkVars
  <2> QED
    BY Zenon, <2>2, <2>3, <2>4, PlaceFrame
<1>8. ASSUME NEW t \in Task, Copy(t) PROVE Good
  <2>1. Shape'
    BY Zenon, <1>8, AllocFrame DEF Copy, Goto, At, Shape, Tasks, PlaceOk, Place, On, frameVars, walkVars
  <2>2. PlaceOk(t)'
    BY Zenon, <1>8, AllocFrame DEF Copy, Goto, At, Shape, Tasks, PlaceOk, On, frameVars, walkVars
  <2> QED
    BY Zenon, <1>8, <2>1, <2>2, PlaceFrame DEF Copy, Goto, At, Shape, frameVars, walkVars
<1>9. ASSUME NEW t \in Task, CopyStore(t) PROVE Good
  <2>1. Shape'
    <3>1. /\ On(t) \in Mm /\ call[t].page \in Page /\ Old(t) \in Entry
          /\ Old(t).frame \in Frame \cup {NoFrame}
      BY ZenonT(60), <1>9, CallFacts, EntryFacts DEF CopyStore, At
    <3>2. held[t] \in Frame
      <4>1. pc[t] = "store" /\ PlaceOk(t)
        BY Zenon, <1>9 DEF CopyStore, At, Tasks
      <4> QED
        BY Zenon, <4>1, CallFacts DEF PlaceOk
    <3>3. [frame |-> held[t], w |-> Old(t).w \/ call[t].how = "write"] \in Entry
      BY Zenon, <3>2, EntryHeld
    <3>4. pte' \in [Mm -> [Page -> Entry]]
      BY Zenon, <1>9, <3>1, <3>3 DEF CopyStore, SetPte, Shape
    <3> QED
      BY Zenon, <1>9, <3>1, <3>4 DEF CopyStore, Goto, Place, Shape, frameVars, walkVars
  <2>2. PlaceOk(t)'
    BY Zenon, <1>9 DEF CopyStore, SetPte, Old, Goto, At, Entry, Shape, Tasks, PlaceOk, On, frameVars, walkVars
  <2> QED
    BY Zenon, <1>9, <2>1, <2>2, PlaceFrame DEF CopyStore, SetPte, Old, Goto, At, Entry, Shape, frameVars, walkVars
<1>10. ASSUME NEW t \in Task, CopyFlush(t) PROVE Good
  <2>1. Shape'
    BY Zenon, <1>10 DEF CopyFlush, Goto, At, Shape, Tasks, PlaceOk, Place, On, frameVars, walkVars
  <2>2. PlaceOk(t)'
    BY Zenon, <1>10 DEF CopyFlush, Goto, At, Shape, Tasks, PlaceOk, On, frameVars, walkVars
  <2> QED
    BY Zenon, <1>10, <2>1, <2>2, PlaceFrame DEF CopyFlush, Goto, At, Shape, frameVars, walkVars
<1>11. ASSUME NEW t \in Task, CopyUnref(t) PROVE Good
  <2>1. mm' = mm /\ held' \in [Task -> Frame \cup {NoFrame}] /\ held'[t] = NoFrame
    BY Zenon, <1>11 DEF CopyUnref, At, Shape, Tasks, PlaceOk, walkVars
  <2>2. /\ pc' \in [Task -> Place] /\ call' \in [Task -> CallType] /\ PlaceOk(t)'
        /\ \A u \in Task \ {t} : pc'[u] = pc[u] /\ call'[u] = call[u]
    BY Zenon, <1>11, <2>1, FaultDoneStep DEF CopyUnref, At
  <2>3. Shape'
    BY Zenon, <1>11, <2>1, <2>2 DEF CopyUnref, At, Shape, Tasks, PlaceOk, Entry, CallType, frameVars, walkVars
  <2>4. \A u \in Task \ {t} : mm'[u] = mm[u] /\ held'[u] = held[u]
    BY Zenon, <1>11, <2>1 DEF CopyUnref, Shape, walkVars
  <2> QED
    BY Zenon, <2>2, <2>3, <2>4, PlaceFrame
<1>12. ASSUME NEW t \in Task, PokeWrite(t) PROVE Good
  <2>1. Shape'
    BY Zenon, <1>12 DEF PokeWrite, Goto, At, Shape, Tasks, PlaceOk, Place, On, frameVars, walkVars
  <2>2. PlaceOk(t)'
    BY Zenon, <1>12 DEF PokeWrite, Goto, At, Shape, Tasks, PlaceOk, On, frameVars, walkVars
  <2> QED
    BY Zenon, <1>12, <2>1, <2>2, PlaceFrame DEF PokeWrite, Goto, At, Shape, frameVars, walkVars
<1>14. ASSUME NEW t \in Task, FileMiss(t) PROVE Good
  <2>1. Shape'
    BY Zenon, <1>14 DEF FileMiss, Goto, At, Shape, Tasks, PlaceOk, Place, On, frameVars, walkVars
  <2>2. PlaceOk(t)'
    BY Zenon, <1>14 DEF FileMiss, Goto, At, Shape, Tasks, PlaceOk, On, frameVars, walkVars
  <2> QED
    BY Zenon, <1>14, <2>1, <2>2, PlaceFrame DEF FileMiss, Goto, At, Shape, frameVars, walkVars
<1>15. ASSUME NEW t \in Task, CacheHit(t) PROVE Good
  <2>1. Shape'
    BY Zenon, <1>15, CallFacts DEF CacheHit, Goto, At, Shape, Place, frameVars, walkVars
  <2>2. PlaceOk(t)'
    BY Zenon, <1>15 DEF CacheHit, Goto, At, Shape, Tasks, PlaceOk, On, frameVars, walkVars
  <2> QED
    BY Zenon, <1>15, <2>1, <2>2, PlaceFrame DEF CacheHit, Goto, At, Shape, frameVars, walkVars
<1>16. ASSUME NEW t \in Task, CacheMiss(t) PROVE Good
  <2>1. Shape'
    BY Zenon, <1>16, AllocFrame DEF CacheMiss, Goto, At, Shape, Tasks, PlaceOk, Place, On, frameVars, walkVars
  <2>2. PlaceOk(t)'
    BY ZenonT(60), <1>16, AllocFrame DEF CacheMiss, Goto, At, Shape, Tasks, PlaceOk, On, frameVars, walkVars
  <2> QED
    BY Zenon, <1>16, <2>1, <2>2, PlaceFrame DEF CacheMiss, Goto, At, Shape, frameVars, walkVars
<1>17. ASSUME NEW t \in Task, CacheInsert(t) PROVE Good
  <2>1. Shape'
    BY ZenonT(60), <1>17, CallFacts DEF CacheInsert, Goto, At, Shape, Place, frameVars, walkVars
  <2>2. PlaceOk(t)'
    BY ZenonT(60), <1>17 DEF CacheInsert, Goto, At, Shape, Tasks, PlaceOk, On, frameVars, walkVars
  <2> QED
    BY ZenonT(60), <1>17, <2>1, <2>2, PlaceFrame DEF CacheInsert, Goto, At, Shape, frameVars, walkVars
<1>18. ASSUME NEW t \in Task, MapRead(t) PROVE Good
  <2>1. mm' = mm /\ held' \in [Task -> Frame \cup {NoFrame}] /\ held'[t] = NoFrame
    BY Zenon, <1>18 DEF MapRead, At, Shape, Tasks, PlaceOk, walkVars
  <2>2. /\ pc' \in [Task -> Place] /\ call' \in [Task -> CallType] /\ PlaceOk(t)'
        /\ \A u \in Task \ {t} : pc'[u] = pc[u] /\ call'[u] = call[u]
    BY Zenon, <1>18, <2>1, FaultDoneStep DEF MapRead, At
  <2>3. Shape'
    <3> DEFINE e == IF Old(t) = Absent THEN [frame |-> held[t], w |-> FALSE] ELSE Old(t)
    <3>1. On(t) \in Mm /\ call[t].page \in Page /\ e \in Entry
      BY Zenon, <1>18, CallFacts, EntryOf DEF MapRead, At
    <3>2. \A p \in Page : [frame |-> cache[p], w |-> FALSE] \in Entry
      BY Zenon, EntryOf DEF Shape
    <3>3. MapAround(t, e, cache)
      BY Zenon, <1>18 DEF MapRead
    <3> HIDE DEF e
    <3>4. pte' \in [Mm -> [Page -> Entry]]
      BY ZenonT(60), <3>1, <3>2, <3>3 DEF MapAround, Shape
    <3> QED
      BY Zenon, <1>18, <2>1, <2>2, <3>4 DEF MapRead, Shape, frameVars, walkVars
  <2>4. \A u \in Task \ {t} : mm'[u] = mm[u] /\ held'[u] = held[u]
    BY Zenon, <1>18, <2>1 DEF MapRead, Shape, walkVars
  <2> QED
    BY Zenon, <2>2, <2>3, <2>4, PlaceFrame
<1>19. ASSUME NEW t \in Task, MapCopy(t) PROVE Good
  <2>1. mm' = mm /\ held' \in [Task -> Frame \cup {NoFrame}] /\ held'[t] = NoFrame
    BY Zenon, <1>19 DEF MapCopy, At, Shape, Tasks, PlaceOk, walkVars
  <2>2. /\ pc' \in [Task -> Place] /\ call' \in [Task -> CallType] /\ PlaceOk(t)'
        /\ \A u \in Task \ {t} : pc'[u] = pc[u] /\ call'[u] = call[u]
    BY Zenon, <1>19, <2>1, LeaveStep DEF MapCopy, At
  <2>3. Shape'
    <3>1. On(t) \in Mm /\ call[t].page \in Page
      BY Zenon, <1>19, CallFacts DEF MapCopy, At
    <3>2. pte' \in [Mm -> [Page -> Entry]] /\ cache' \in [Page -> Frame \cup {NoFrame}]
      <4>1. CASE pte' = pte /\ cache' = cache
        BY Zenon, <4>1 DEF Shape
      <4>2. CASE Shrunk /\ SetPte(t, [frame |-> NewFrame, w |-> TRUE])
        <5>1. [frame |-> NewFrame, w |-> TRUE] \in Entry
          BY Zenon, <4>2, AllocFrame DEF Entry
        <5> QED
          BY ZenonT(60), <3>1, <4>2, <5>1, AllocFrame DEF SetPte, Shape
      <4> QED
        BY Zenon, <1>19, <4>1, <4>2 DEF MapCopy
    <3> QED
      BY Zenon, <1>19, <2>1, <2>2, <3>2 DEF MapCopy, Shape, frameVars, walkVars
  <2>4. \A u \in Task \ {t} : mm'[u] = mm[u] /\ held'[u] = held[u]
    BY Zenon, <1>19, <2>1 DEF MapCopy, Shape, walkVars
  <2> QED
    BY Zenon, <2>2, <2>3, <2>4, PlaceFrame
<1>20. ASSUME NEW p \in Page, Drop(p) PROVE Good
  BY ZenonT(60), <1>20 DEF Drop, walkVars, Shape, Tasks, PlaceOk, On
<1>13. ASSUME NEW t \in Task, FaultFails(t) PROVE Good
  <2>1. mm' = mm /\ held' = held /\ pc[t] \in {"fault", "poke", "get"} /\ held[t] = NoFrame
    BY Zenon, <1>13 DEF FaultFails, At, Tasks, PlaceOk, walkVars
  <2>2. /\ pc' \in [Task -> Place] /\ call' \in [Task -> CallType] /\ PlaceOk(t)'
        /\ \A u \in Task \ {t} : pc'[u] = pc[u] /\ call'[u] = call[u]
    <3>1. CASE call[t].how = "poke"
      <4>1. pc' = [pc EXCEPT ![t] = "put"] /\ call' = call
        BY Zenon, <1>13, <3>1 DEF FaultFails, Goto
      <4>2. PlaceOk(t)'
        BY Zenon, <2>1, <4>1, CallFacts DEF Shape, PlaceOk, On
      <4> QED
        BY Zenon, <4>1, <4>2 DEF Shape, Place
    <3>2. CASE call[t].how # "poke"
      BY ZenonT(60), <1>13, <2>1, <3>2, LeaveStep DEF FaultFails, Shape
    <3> QED
      BY Zenon, <3>1, <3>2
  <2>3. Shape'
    BY ZenonT(60), <1>13, <2>1, <2>2 DEF FaultFails, Shape, frameVars, walkVars
  <2> QED
    BY Zenon, <2>1, <2>2, <2>3, PlaceFrame
<1>21. ASSUME NEW t \in Task, NEW c \in Task, NEW m \in Mm, Fork(t, c, m) PROVE Good
  <2>1. /\ pc[t] = "user" /\ pc[c] = "none" /\ t # c /\ mm[t] \in Mm /\ held[t] = NoFrame
        /\ held[c] = NoFrame /\ On(c) = NoMm
    BY Zenon, <1>21 DEF Fork, At, Tasks, PlaceOk
  <2>2. /\ call' \in [Task -> CallType] /\ call'[t].on = mm[t] /\ call'[t].how = "read"
        /\ \A u \in Task \ {t} : call'[u] = call[u]
    <3>1. NoCall.page \in Page
      BY Zenon DEF NoCall
    <3> QED
      BY Zenon, <1>21, <2>1, <3>1 DEF Fork, Call, CallType, Shape
  <2>3. /\ pc' \in [Task -> Place] /\ pc'[t] = "fork" /\ pc'[c] = "born"
        /\ \A u \in Task \ {t, c} : pc'[u] = pc[u]
    BY ZenonT(60), <1>21, <2>1 DEF Fork, Place, Shape
  <2>4. /\ mm' \in [Task -> Mm \cup {NoMm}] /\ mm'[c] = m
        /\ \A u \in Task \ {c} : mm'[u] = mm[u]
    BY ZenonT(60), <1>21 DEF Fork, Shape
  <2>5. Shape'
    BY Zenon, <1>21, <2>2, <2>3, <2>4 DEF Fork, Present, Shape, frameVars
  <2>6. held' = held
    BY Zenon, <1>21 DEF Fork
  <2>7. PlaceOk(t)'
    BY Zenon, <2>1, <2>2, <2>3, <2>4, <2>6 DEF PlaceOk, On
  <2>8. PlaceOk(c)'
    BY ZenonT(60), <2>1, <2>2, <2>3, <2>4, <2>6 DEF PlaceOk, On
  <2>9. ASSUME NEW u \in Task \ {t, c} PROVE PlaceOk(u)'
    BY Zenon, <2>2, <2>3, <2>4, <2>6, PlaceSame DEF Tasks
  <2> QED
    BY Zenon, <2>5, <2>7, <2>8, <2>9 DEF Tasks
<1>22. ASSUME NEW t \in Task, NEW p \in Page, ForkPage(t, p) PROVE Good
  <2> DEFINE e == pte[On(t)][p]  c == mm[child[t]]
             q == [pte EXCEPT ![On(t)][p].w = FALSE]
  <2>1. On(t) \in Mm /\ e \in Entry /\ c \in Mm
    BY Zenon, <1>22, BornChild, TableEntry DEF ForkPage, At
  <2>2. [e EXCEPT !.w = FALSE] \in Entry /\ [frame |-> e.frame, w |-> FALSE] \in Entry
    BY Zenon, <2>1, EntryFacts
  <2>3. q \in [Mm -> [Page -> Entry]]
    BY Zenon, <2>1, <2>2 DEF Shape
  <2>4. pte' = [q EXCEPT ![c][p] = [frame |-> e.frame, w |-> FALSE]]
    BY Zenon, <1>22 DEF ForkPage
  <2>5. pte' \in [Mm -> [Page -> Entry]]
    <3> HIDE DEF q, e, c
    <3> QED
      BY Zenon, <2>1, <2>2, <2>3, <2>4
  <2>6. Shape'
    BY Zenon, <1>22, <2>5 DEF ForkPage, Walks, Shape, frameVars, walkVars
  <2> QED
    BY ZenonT(60), <1>22, <2>6 DEF ForkPage, Tasks, PlaceOk, On
<1>23. ASSUME NEW t \in Task, ForkEnd(t) PROVE Good
  <2>0. PICK c : c = child[t]
    BY Zenon
  <2>1. /\ pc[t] = "fork" /\ c \in Task /\ pc[c] = "born" /\ c # t
        /\ held[t] = NoFrame /\ held[c] = NoFrame /\ mm[c] \in Mm /\ On(c) = NoMm
        /\ mm[t] \in Mm
    BY ZenonT(60), <1>23, <2>0, BornChild DEF ForkEnd, At
  <2>2. NoCall \in CallType /\ NoCall.on = NoMm /\ NoCall.how = "read"
    BY Zenon DEF NoCall, CallType
  <2>3. /\ pc' \in [Task -> Place] /\ pc'[t] = "user" /\ pc'[c] = "user"
        /\ \A u \in Task \ {t, c} : pc'[u] = pc[u]
    BY Zenon, <1>23, <2>0, <2>1 DEF ForkEnd, Place, Shape
  <2>4. /\ call' \in [Task -> CallType] /\ call'[t] = NoCall
        /\ \A u \in Task \ {t} : call'[u] = call[u]
    BY ZenonT(60), <1>23, <2>2 DEF ForkEnd, Shape
  <2>5. mm' = mm /\ held' = held
    BY ZenonT(60), <1>23 DEF ForkEnd
  <2>6. Shape'
    BY Zenon, <1>23, <2>3, <2>4, <2>5 DEF ForkEnd, Shape, frameVars
  <2>7. PlaceOk(t)' /\ PlaceOk(c)'
    BY ZenonT(60), <2>1, <2>2, <2>3, <2>4, <2>5 DEF PlaceOk, On
  <2>8. ASSUME NEW u \in Task \ {t, c} PROVE PlaceOk(u)'
    BY Zenon, <2>3, <2>4, <2>5, PlaceSame DEF Tasks
  <2> QED
    BY Zenon, <2>6, <2>7, <2>8 DEF Tasks
<1>24. ASSUME NEW t \in Task, ForkFail(t) PROVE Good
  <2>0. PICK c : c = child[t]
    BY Zenon
  <2>1. /\ pc[t] = "fork" /\ c \in Task /\ pc[c] = "born" /\ c # t
        /\ held[t] = NoFrame /\ held[c] = NoFrame /\ mm[c] \in Mm /\ On(c) = NoMm
        /\ mm[t] \in Mm /\ call[t].how = "read"
    BY ZenonT(60), <1>24, <2>0, BornChild DEF ForkFail, At
  <2>2. /\ pc' \in [Task -> Place] /\ pc'[t] = "put" /\ pc'[c] = "none"
        /\ \A u \in Task \ {t, c} : pc'[u] = pc[u]
    BY Zenon, <1>24, <2>0, <2>1 DEF ForkFail, Place, Shape
  <2>3. /\ call' \in [Task -> CallType] /\ call'[t].on = mm[c] /\ call'[t].how = "read"
        /\ \A u \in Task \ {t} : call'[u] = call[u]
    <3>1. call[t] \in CallType /\ mm[c] \in Mm \cup {NoMm}
      BY Zenon, <2>1 DEF Shape
    <3>2. PICK r : r = [call[t] EXCEPT !.on = mm[c]]
      BY ZenonT(60)
    <3>3. r \in CallType /\ r.on = mm[c] /\ r.how = call[t].how
      BY Zenon, <3>1, <3>2 DEF CallType
    <3>4. call' = [call EXCEPT ![t] = r]
      BY Zenon, <1>24, <2>0, <3>2 DEF ForkFail
    <3> QED
      BY Zenon, <2>1, <3>3, <3>4 DEF Shape
  <2>4. /\ mm' \in [Task -> Mm \cup {NoMm}] /\ mm'[c] = NoMm
        /\ \A u \in Task \ {c} : mm'[u] = mm[u]
    BY ZenonT(60), <1>24, <2>0, <2>1 DEF ForkFail, Shape
  <2>5. held' = held
    BY Zenon, <1>24 DEF ForkFail
  <2>6. Shape'
    BY ZenonT(60), <1>24, <2>2, <2>3, <2>4, <2>5 DEF ForkFail, Shape, frameVars
  <2>7. PlaceOk(t)' /\ PlaceOk(c)'
    BY ZenonT(60), <2>1, <2>2, <2>3, <2>4, <2>5 DEF PlaceOk, On
  <2>8. ASSUME NEW u \in Task \ {t, c} PROVE PlaceOk(u)'
    BY Zenon, <2>2, <2>3, <2>4, <2>5, PlaceSame DEF Tasks
  <2> QED
    BY Zenon, <2>6, <2>7, <2>8 DEF Tasks
<1>25. ASSUME NEW t \in Task, Exit(t) PROVE Good
  <2>1. /\ pc[t] = "user" /\ mm[t] \in Mm /\ held[t] = NoFrame /\ NoCall.page \in Page
    BY Zenon, <1>25 DEF Exit, At, Tasks, PlaceOk, NoCall
  <2>2. call' \in [Task -> CallType] /\ call'[t].on = mm[t] /\ call'[t].how = "read"
    BY ZenonT(60), <1>25, <2>1 DEF Exit, Call, CallType, Shape
  <2>3. pc' \in [Task -> Place] /\ pc'[t] = "put" /\ held' = held
    BY ZenonT(60), <1>25 DEF Exit, Goto, Place, Shape
  <2>4. mm' \in [Task -> Mm \cup {NoMm}] /\ mm'[t] = NoMm
    BY Zenon, <1>25 DEF Exit, Shape
  <2>5. Shape'
    BY ZenonT(60), <1>25, <2>2, <2>3, <2>4 DEF Exit, Shape, frameVars, walkVars
  <2>6. PlaceOk(t)'
    BY Zenon, <2>1, <2>2, <2>3, <2>4 DEF PlaceOk, On
  <2>7. \A u \in Task \ {t} : pc'[u] = pc[u] /\ call'[u] = call[u] /\ mm'[u] = mm[u] /\ held'[u] = held[u]
    BY Zenon, <1>25 DEF Exit, Call, Goto, Shape
  <2> QED
    BY Zenon, <2>5, <2>6, <2>7, PlaceFrame
<1>26. ASSUME NEW t \in Task, Put(t) PROVE Good
  <2>1. mm' = mm /\ held' = held /\ held[t] = NoFrame /\ pc[t] = "put" /\ On(t) \in Mm
    BY Zenon, <1>26 DEF Put, At, Tasks, PlaceOk
  <2>2. /\ pc' \in [Task -> Place] /\ call' \in [Task -> CallType] /\ PlaceOk(t)'
        /\ \A u \in Task \ {t} : pc'[u] = pc[u] /\ call'[u] = call[u]
    <3>1. CASE users[On(t)] = 1
      <4>1. pc' = [pc EXCEPT ![t] = "zap"] /\ call' = call
        BY Zenon, <1>26, <3>1 DEF Put, Goto
      <4>2. PlaceOk(t)'
        BY Zenon, <2>1, <4>1 DEF Shape, PlaceOk, On
      <4> QED
        BY Zenon, <4>1, <4>2 DEF Shape, Place
    <3>2. CASE users[On(t)] # 1
      BY ZenonT(60), <1>26, <2>1, <3>2, LeaveStep DEF Put, Shape
    <3> QED
      BY Zenon, <3>1, <3>2
  <2>3. left' \in [Task -> SUBSET Page]
    <3>1. Present(On(t)) \in SUBSET Page /\ left \in [Task -> SUBSET Page]
      BY Zenon DEF Present, Shape
    <3>2. left' = left \/ left' = [left EXCEPT ![t] = Present(On(t))]
      BY Zenon, <1>26 DEF Put
    <3> QED
      BY Zenon, <3>1, <3>2
  <2>4. Shape'
    BY ZenonT(60), <1>26, <2>1, <2>2, <2>3 DEF Put, Shape, frameVars
  <2> QED
    BY ZenonT(60), <2>1, <2>2, <2>4, PlaceFrame
<1>27. ASSUME NEW t \in Task, NEW p \in Page, ZapPage(t, p) PROVE Good
  <2>1. Absent \in Entry
    BY Zenon DEF Entry
  <2>2. pte' \in [Mm -> [Page -> Entry]]
    BY ZenonT(60), <1>27, <2>1 DEF ZapPage, Shape
  <2>3. Shape'
    BY ZenonT(60), <1>27, <2>2 DEF ZapPage, Walks, Shape
  <2> QED
    BY Zenon, <1>27, <2>3 DEF ZapPage, Tasks, PlaceOk, On
<1>28. ASSUME NEW t \in Task, ZapEnd(t) PROVE Good
  <2>1. mm' = mm /\ held' = held /\ held[t] = NoFrame
    BY Zenon, <1>28 DEF ZapEnd, At, Tasks, PlaceOk
  <2>2. /\ pc' \in [Task -> Place] /\ call' \in [Task -> CallType] /\ PlaceOk(t)'
        /\ \A u \in Task \ {t} : pc'[u] = pc[u] /\ call'[u] = call[u]
    BY ZenonT(60), <1>28, <2>1, LeaveStep DEF ZapEnd, Shape
  <2>3. Shape'
    BY ZenonT(60), <1>28, <2>1, <2>2 DEF ZapEnd, Shape, frameVars, walkVars
  <2> QED
    BY Zenon, <2>1, <2>2, <2>3, PlaceFrame
<1>29. ASSUME NEW t \in Task, Discard(t) PROVE Good
  <2>1. /\ pc[t] = "user" /\ mm[t] \in Mm /\ held[t] = NoFrame /\ NoCall.page \in Page
    BY Zenon, <1>29 DEF Discard, At, Tasks, PlaceOk, NoCall
  <2>2. call' \in [Task -> CallType] /\ call'[t].on = mm[t] /\ call'[t].how = "read"
    BY ZenonT(60), <1>29, <2>1 DEF Discard, Call, CallType, Shape
  <2>3. pc' \in [Task -> Place] /\ pc'[t] = "discard" /\ held' = held /\ mm' = mm
    BY ZenonT(60), <1>29 DEF Discard, Goto, Place, Shape
  <2>4. Shape'
    BY ZenonT(60), <1>29, <2>2, <2>3 DEF Discard, Present, Shape, frameVars
  <2>5. PlaceOk(t)'
    BY ZenonT(60), <2>1, <2>2, <2>3 DEF PlaceOk, On
  <2>6. \A u \in Task \ {t} : pc'[u] = pc[u] /\ call'[u] = call[u] /\ mm'[u] = mm[u] /\ held'[u] = held[u]
    BY ZenonT(60), <1>29 DEF Discard, Call, Goto, Shape
  <2> QED
    BY Zenon, <2>4, <2>5, <2>6, PlaceFrame
<1>30. ASSUME NEW t \in Task, DiscardEnd(t) PROVE Good
  <2>1. mm' = mm /\ held' = held /\ held[t] = NoFrame
    BY Zenon, <1>30 DEF DiscardEnd, At, Tasks, PlaceOk
  <2>2. /\ pc' \in [Task -> Place] /\ call' \in [Task -> CallType] /\ PlaceOk(t)'
        /\ \A u \in Task \ {t} : pc'[u] = pc[u] /\ call'[u] = call[u]
    BY ZenonT(60), <1>30, <2>1, LeaveStep DEF DiscardEnd, Shape
  <2>3. Shape'
    BY Zenon, <1>30, <2>1, <2>2 DEF DiscardEnd, Shape, frameVars, walkVars
  <2> QED
    BY Zenon, <2>1, <2>2, <2>3, PlaceFrame
<1> QED
  BY ZenonT(60), <1>1, <1>2, <1>3, <1>4, <1>5, <1>6, <1>7, <1>8, <1>9, <1>10, <1>11, <1>12, <1>13, <1>14, <1>15,
     <1>16, <1>17, <1>18, <1>19, <1>20, <1>21, <1>22, <1>23, <1>24, <1>25, <1>26, <1>27, <1>28, <1>29,
     <1>30 DEF Next, Accesses, Faults, Changes
-----------------------------------------------------------------------------
(* The users of an address space, when one task changes.                    *)
LEMMA MemberStep ==
    ASSUME Shape, NEW t \in Task, NEW m \in Mm, \A u \in Task \ {t} : mm'[u] = mm[u]
    PROVE  /\ Cardinality(Members(m)) \in Nat /\ Cardinality(Members(m))' \in Nat
           /\ Cardinality(Members(m))' + One(mm[t], m) = Cardinality(Members(m)) + One(mm'[t], m)
<1>1. Members(m) \in SUBSET Task /\ Members(m)' \in SUBSET Task
  BY Zenon DEF Members
<1>2. ASSUME NEW u \in Task \ {t} PROVE u \in Members(m) <=> u \in Members(m)'
  BY Zenon DEF Members
<1>3. (t \in Members(m) <=> mm[t] = m) /\ (t \in Members(m)' <=> mm'[t] = m)
  BY Zenon DEF Members
<1> QED
  BY <1>1, <1>2, <1>3, SpaceAssumption, CountStep DEF One

(* What users counts.                                                       *)
LEMMA UsersOf ==
    ASSUME UsersExact, NEW m \in Mm
    PROVE  users[m] \in Nat /\ users[m] = Cardinality(Members(m)) + Cardinality(Guests(m))
  BY Zenon DEF UsersExact

(* When one task changes, the guests of m change by that task at most.      *)
LEMMA GuestStep ==
    ASSUME NEW t \in Task, NEW m \in Mm, \A u \in Task \ {t} : Guest(u, m)' <=> Guest(u, m)
    PROVE  /\ Cardinality(Guests(m)) \in Nat /\ Cardinality(Guests(m))' \in Nat
           /\ Cardinality(Guests(m))' + (IF Guest(t, m) THEN 1 ELSE 0)
                = Cardinality(Guests(m)) + (IF Guest(t, m)' THEN 1 ELSE 0)
<1>1. Guests(m) \in SUBSET Task /\ Guests(m)' \in SUBSET Task
  BY Zenon DEF Guests
<1>2. ASSUME NEW u \in Task \ {t} PROVE u \in Guests(m) <=> u \in Guests(m)'
  BY Zenon DEF Guests
<1>3. (t \in Guests(m) <=> Guest(t, m)) /\ (t \in Guests(m)' <=> Guest(t, m)')
  BY Zenon DEF Guests
<1> QED
  BY <1>1, <1>2, <1>3, SpaceAssumption, CountStep

(* A step that makes no task a user and none stop being one.                *)
LEMMA UsersQuiet ==
    ASSUME UsersExact, users' = users, mm' = mm,
           \A u \in Task, m \in Mm : Guest(u, m)' <=> Guest(u, m)
    PROVE  UsersExact'
<1>1. \A m \in Mm : Members(m)' = Members(m) /\ Guests(m)' = Guests(m)
  BY Zenon DEF Members, Guests
<1> QED
  BY Zenon, <1>1 DEF UsersExact

(* The steps of a task that leave the others and its use as they are.       *)
LEMMA QuietStep ==
    ASSUME Tasks, Tasks', NEW t \in Task, UsersExact, users' = users, mm' = mm,
           \A u \in Task \ {t} : pc'[u] = pc[u] /\ call'[u] = call[u],
           \A m \in Mm : Guest(t, m)' <=> Guest(t, m)
    PROVE  UsersExact'
<1>1. ASSUME NEW u \in Task \ {t}, NEW m \in Mm PROVE Guest(u, m)' <=> Guest(u, m)
  BY Zenon DEF Guest, On
<1> QED
  BY Zenon, <1>1, UsersQuiet

(* A call that ends without a reference to give back leaves users exact.    *)
LEMMA LeaveQuiet ==
    ASSUME Shape, Tasks, NEW t \in Task, UsersExact, users' = users, mm' = mm,
           pc[t] \notin {"put", "none", "born", "user"}, Tasks',
           \/ Leave(t) /\ (call[t].how # "poke" \/ pc[t] = "zap")
           \/ FaultDone(t) /\ pc[t] # "zap"
    PROVE  UsersExact'
<1>1. \A u \in Task \ {t} : pc'[u] = pc[u] /\ call'[u] = call[u]
  BY Zenon DEF FaultDone, Leave, Goto, Shape
<1>2. CASE Leave(t) /\ (call[t].how # "poke" \/ pc[t] = "zap")
  <2>1. On(t)' = NoMm
    BY ZenonT(60), <1>2 DEF Leave, NoCall, On, Shape
  <2>2. \A m \in Mm : ~Guest(t, m)' /\ ~Guest(t, m)
    BY Zenon, <1>2, <2>1, SpaceAssumption DEF Guest
  <2> QED
    BY ZenonT(60), <1>1, <2>2, QuietStep
<1>3. CASE call[t].how = "poke" /\ Goto(t, "poke") /\ call' = call /\ pc[t] # "zap"
  <2>1. pc'[t] = "poke"
    BY Zenon, <1>3 DEF Goto, Shape
  <2>2. \A m \in Mm : Guest(t, m)' <=> Guest(t, m)
    BY Zenon, <1>3, <2>1 DEF Guest, On
  <2> QED
    BY Zenon, <1>1, <2>2, QuietStep
<1> QED
  BY Zenon, <1>2, <1>3 DEF FaultDone

(* Every step keeps mm->users exact.                                        *)
LEMMA UsersNext ==
    ASSUME Shape, Tasks, Forks, UsersExact, Shape', Tasks', [Next]_vars
    PROVE  UsersExact'
<1> USE SpaceAssumption
<1>1. CASE UNCHANGED vars
  BY Zenon, <1>1, UsersQuiet DEF vars, walkVars, Guest, On
<1>2. ASSUME NEW t \in Task, NEW p \in Page, Evict(t, p) PROVE UsersExact'
  BY Zenon, <1>2, UsersQuiet DEF Evict, Guest, On
<1>3. ASSUME NEW t \in Task, NEW p \in Page, NEW v \in Value, Write(t, p, v) PROVE UsersExact'
  BY Zenon, <1>3, UsersQuiet DEF Write, Guest, On
<1>4. ASSUME NEW t \in Task, NEW p \in Page, NEW h \in {"read", "write"}, Fault(t, p, h) PROVE UsersExact'
  <2>1. pc[t] = "user" /\ On(t) = NoMm
    BY Zenon, <1>4 DEF Fault, At, Tasks, PlaceOk
  <2>2. pc'[t] = "fault" /\ call'[t].how = h
    BY ZenonT(60), <1>4 DEF Fault, Goto, Call, Shape
  <2>3. \A m \in Mm : ~Guest(t, m)' /\ ~Guest(t, m)
    BY Zenon, <2>1, <2>2 DEF Guest
  <2>4. \A u \in Task \ {t} : pc'[u] = pc[u] /\ call'[u] = call[u]
    BY ZenonT(60), <1>4 DEF Fault, Goto, Call, Shape
  <2> QED
    BY ZenonT(60), <1>4, <2>3, <2>4, QuietStep DEF Fault
<1>5. ASSUME NEW t \in Task, NEW p \in Page, NEW n \in Mm, NEW v \in Value, Poke(t, n, p, v) PROVE UsersExact'
  <2>1. pc[t] = "user" /\ On(t) = NoMm
    BY ZenonT(60), <1>5 DEF Poke, At, Tasks, PlaceOk
  <2>2. pc'[t] = "fault" /\ call'[t].how = "poke" /\ call'[t].on = n
    BY ZenonT(60), <1>5 DEF Poke, Goto, Call, Shape
  <2>3. ASSUME NEW m \in Mm
        PROVE /\ ~Guest(t, m) /\ (Guest(t, m)' <=> m = n)
              /\ \A u \in Task \ {t} : Guest(u, m)' <=> Guest(u, m)
    BY ZenonT(60), <1>5, <2>1, <2>2 DEF Guest, On, Poke, Goto, Call, Shape
  <2>4. ASSUME NEW m \in Mm
        PROVE  users'[m] \in Nat /\ users'[m] = Cardinality(Members(m))' + Cardinality(Guests(m))'
    <3>1. users'[m] = users[m] + (IF m = n THEN 1 ELSE 0)
      <4>1. users \in [Mm -> Nat]
        BY Zenon DEF UsersExact
      <4>2. users' = [users EXCEPT ![n] = @ + 1]
        BY Zenon, <1>5 DEF Poke
      <4> QED
        BY <4>1, <4>2
    <3>2. Members(m)' = Members(m)
      BY ZenonT(60), <1>5 DEF Poke, Members
    <3>3. /\ Cardinality(Guests(m)) \in Nat
          /\ Cardinality(Guests(m))' = Cardinality(Guests(m)) + (IF m = n THEN 1 ELSE 0)
      BY <2>3, GuestStep
    <3>4. Cardinality(Members(m)) \in Nat
      BY ZenonT(60), <1>5, MemberStep DEF Poke
    <3> QED
      BY <3>1, <3>2, <3>3, <3>4, UsersOf
  <2>5. users' \in [Mm -> Nat]
    BY ZenonT(60), <1>5, <2>4 DEF Poke, UsersExact
  <2> QED
    BY Zenon, <2>4, <2>5 DEF UsersExact
<1>6. ASSUME NEW t \in Task, MapAnon(t) PROVE UsersExact'
  BY Zenon, <1>6, LeaveQuiet DEF MapAnon, At
<1>7. ASSUME NEW t \in Task, Allow(t) PROVE UsersExact'
  BY Zenon, <1>7, LeaveQuiet DEF Allow, At
<1>8. ASSUME NEW t \in Task, CopyUnref(t) PROVE UsersExact'
  BY ZenonT(60), <1>8, LeaveQuiet DEF CopyUnref, At
<1>9. ASSUME NEW t \in Task, MapRead(t) PROVE UsersExact'
  BY Zenon, <1>9, LeaveQuiet DEF MapRead, At
<1>10. ASSUME NEW t \in Task, MapCopy(t) PROVE UsersExact'
  BY ZenonT(60), <1>10, LeaveQuiet DEF MapCopy, At
<1>11. ASSUME NEW t \in Task, ZapEnd(t) PROVE UsersExact'
  BY Zenon, <1>11, LeaveQuiet DEF ZapEnd, At
<1>12. ASSUME NEW t \in Task, DiscardEnd(t) PROVE UsersExact'
  BY ZenonT(60), <1>12, LeaveQuiet DEF DiscardEnd, At, Tasks, PlaceOk
<1>13. ASSUME NEW t \in Task, Copy(t) PROVE UsersExact'
  <2>1. \A m \in Mm : Guest(t, m)' <=> Guest(t, m)
    BY ZenonT(60), <1>13 DEF Copy, Guest, On, Goto, At, Shape, Tasks, PlaceOk
  <2>2. \A u \in Task \ {t} : pc'[u] = pc[u] /\ call'[u] = call[u]
    BY Zenon, <1>13 DEF Copy, Goto, Shape
  <2> QED
    BY ZenonT(60), <1>13, <2>1, <2>2, QuietStep DEF Copy
<1>14. ASSUME NEW t \in Task, CopyStore(t) PROVE UsersExact'
  <2>1. \A m \in Mm : Guest(t, m)' <=> Guest(t, m)
    BY ZenonT(60), <1>14 DEF CopyStore, Guest, On, Goto, At, Shape, Tasks, PlaceOk
  <2>2. \A u \in Task \ {t} : pc'[u] = pc[u] /\ call'[u] = call[u]
    BY ZenonT(60), <1>14 DEF CopyStore, Goto, Shape
  <2> QED
    BY Zenon, <1>14, <2>1, <2>2, QuietStep DEF CopyStore
<1>15. ASSUME NEW t \in Task, CopyFlush(t) PROVE UsersExact'
  <2>1. \A m \in Mm : Guest(t, m)' <=> Guest(t, m)
    BY ZenonT(60), <1>15 DEF CopyFlush, Guest, On, Goto, At, Shape, Tasks, PlaceOk
  <2>2. \A u \in Task \ {t} : pc'[u] = pc[u] /\ call'[u] = call[u]
    BY ZenonT(60), <1>15 DEF CopyFlush, Goto, Shape
  <2> QED
    BY ZenonT(60), <1>15, <2>1, <2>2, QuietStep DEF CopyFlush
<1>16. ASSUME NEW t \in Task, PokeWrite(t) PROVE UsersExact'
  <2>1. \A m \in Mm : Guest(t, m)' <=> Guest(t, m)
    BY ZenonT(60), <1>16 DEF PokeWrite, Guest, On, Goto, At, Shape, Tasks, PlaceOk
  <2>2. \A u \in Task \ {t} : pc'[u] = pc[u] /\ call'[u] = call[u]
    BY ZenonT(60), <1>16 DEF PokeWrite, Goto, Shape
  <2> QED
    BY Zenon, <1>16, <2>1, <2>2, QuietStep DEF PokeWrite
<1>17. ASSUME NEW t \in Task, FileMiss(t) PROVE UsersExact'
  <2>1. \A m \in Mm : Guest(t, m)' <=> Guest(t, m)
    BY ZenonT(60), <1>17 DEF FileMiss, Guest, On, Goto, At, Shape, Tasks, PlaceOk
  <2>2. \A u \in Task \ {t} : pc'[u] = pc[u] /\ call'[u] = call[u]
    BY ZenonT(60), <1>17 DEF FileMiss, Goto, Shape
  <2> QED
    BY Zenon, <1>17, <2>1, <2>2, QuietStep DEF FileMiss
<1>18. ASSUME NEW t \in Task, CacheHit(t) PROVE UsersExact'
  <2>1. \A m \in Mm : Guest(t, m)' <=> Guest(t, m)
    BY ZenonT(60), <1>18 DEF CacheHit, Guest, On, Goto, At, Shape, Tasks, PlaceOk
  <2>2. \A u \in Task \ {t} : pc'[u] = pc[u] /\ call'[u] = call[u]
    BY ZenonT(60), <1>18 DEF CacheHit, Goto, Shape
  <2> QED
    BY Zenon, <1>18, <2>1, <2>2, QuietStep DEF CacheHit
<1>19. ASSUME NEW t \in Task, CacheMiss(t) PROVE UsersExact'
  <2>1. \A m \in Mm : Guest(t, m)' <=> Guest(t, m)
    BY ZenonT(60), <1>19 DEF CacheMiss, Guest, On, Goto, At, Shape, Tasks, PlaceOk
  <2>2. \A u \in Task \ {t} : pc'[u] = pc[u] /\ call'[u] = call[u]
    BY Zenon, <1>19 DEF CacheMiss, Goto, Shape
  <2> QED
    BY Zenon, <1>19, <2>1, <2>2, QuietStep DEF CacheMiss
<1>20. ASSUME NEW t \in Task, CacheInsert(t) PROVE UsersExact'
  <2>1. \A m \in Mm : Guest(t, m)' <=> Guest(t, m)
    BY ZenonT(60), <1>20 DEF CacheInsert, Guest, On, Goto, At, Shape, Tasks, PlaceOk
  <2>2. \A u \in Task \ {t} : pc'[u] = pc[u] /\ call'[u] = call[u]
    BY ZenonT(60), <1>20 DEF CacheInsert, Goto, Shape
  <2> QED
    BY Zenon, <1>20, <2>1, <2>2, QuietStep DEF CacheInsert
<1>21. ASSUME NEW t \in Task, FaultFails(t) PROVE UsersExact'
  <2>1. pc[t] \notin {"put", "none", "born", "user", "zap"}
    BY Zenon, <1>21 DEF FaultFails, At
  <2>2. CASE call[t].how = "poke"
    <3>1. pc' = [pc EXCEPT ![t] = "put"] /\ call' = call
      BY ZenonT(60), <1>21, <2>2 DEF FaultFails, Goto
    <3>2. \A m \in Mm : Guest(t, m)' <=> Guest(t, m)
      BY Zenon, <2>1, <2>2, <3>1 DEF Guest, On, Shape
    <3>3. \A u \in Task \ {t} : pc'[u] = pc[u] /\ call'[u] = call[u]
      BY Zenon, <3>1 DEF Shape
    <3> QED
      BY ZenonT(60), <1>21, <3>2, <3>3, QuietStep DEF FaultFails
  <2>3. CASE call[t].how # "poke"
    BY ZenonT(60), <1>21, <2>1, <2>3, LeaveQuiet DEF FaultFails
  <2> QED
    BY ZenonT(60), <2>2, <2>3
<1>22. ASSUME NEW t \in Task, NEW c \in Task, NEW n \in Mm, Fork(t, c, n) PROVE UsersExact'
  <2>1. pc[t] = "user" /\ On(t) = NoMm /\ pc[c] = "none" /\ On(c) = NoMm /\ mm[c] = NoMm /\ users[n] = 0
    BY ZenonT(60), <1>22 DEF Fork, At, Unused, Tasks, PlaceOk
  <2>2. pc'[t] = "fork" /\ call'[t].how = "read" /\ mm'[c] = n /\ call'[c] = call[c]
    BY ZenonT(60), <1>22, <2>1 DEF Fork, Call, Shape
  <2>3. ASSUME NEW m \in Mm, NEW u \in Task PROVE Guest(u, m)' <=> Guest(u, m)
    <3>1. CASE u = t
      BY Zenon, <2>1, <2>2, <3>1 DEF Guest
    <3>2. CASE u = c
      BY Zenon, <2>1, <2>2, <3>2 DEF Guest, On
    <3>3. CASE u \notin {t, c}
      <4>1. call'[u] = call[u] /\ pc'[u] = pc[u]
        BY ZenonT(60), <1>22, <3>3 DEF Fork, Call, Shape
      <4> QED
        BY Zenon, <4>1 DEF Guest, On
    <3> QED
      BY Zenon, <3>1, <3>2, <3>3
  <2>4. ASSUME NEW m \in Mm
        PROVE  users'[m] \in Nat /\ users'[m] = Cardinality(Members(m))' + Cardinality(Guests(m))'
    <3>1. users'[m] = users[m] + (IF m = n THEN 1 ELSE 0)
      <4>1. users \in [Mm -> Nat]
        BY Zenon DEF UsersExact
      <4>2. users' = [users EXCEPT ![n] = 1]
        BY Zenon, <1>22, <2>1 DEF Fork
      <4> QED
        BY <4>1, <4>2, <2>1
    <3>2. Guests(m)' = Guests(m)
      BY Zenon, <2>3 DEF Guests
    <3>3. Cardinality(Guests(m)) \in Nat
      BY Zenon, <2>3, GuestStep
    <3>4. \A u \in Task \ {c} : mm'[u] = mm[u]
      BY ZenonT(60), <1>22 DEF Fork, Shape
    <3>5. /\ Cardinality(Members(m)) \in Nat
          /\ Cardinality(Members(m))' + One(mm[c], m) = Cardinality(Members(m)) + One(mm'[c], m)
          /\ Cardinality(Members(m))' \in Nat
      BY ZenonT(60), <3>4, MemberStep
    <3> QED
      BY <2>1, <2>2, <3>1, <3>2, <3>3, <3>5, UsersOf DEF One
  <2>5. users' \in [Mm -> Nat]
    BY ZenonT(60), <1>22, <2>4 DEF Fork, UsersExact
  <2> QED
    BY Zenon, <2>4, <2>5 DEF UsersExact
<1>23. ASSUME NEW t \in Task, NEW p \in Page, ForkPage(t, p) PROVE UsersExact'
  BY Zenon, <1>23, UsersQuiet DEF ForkPage, Guest, On
<1>24. ASSUME NEW t \in Task, ForkEnd(t) PROVE UsersExact'
  <2>1. PICK c : c = child[t]
    BY Zenon
  <2>2. /\ pc[t] = "fork" /\ c \in Task /\ pc[c] = "born" /\ On(c) = NoMm /\ call[t].how = "read"
    BY Zenon, <1>24, <2>1, BornChild DEF ForkEnd, At
  <2>3. call'[t].on = NoMm /\ call'[c] = call[c] /\ t # c
    BY ZenonT(60), <1>24, <2>2 DEF ForkEnd, NoCall, Shape
  <2>4. ASSUME NEW m \in Mm, NEW u \in Task PROVE Guest(u, m)' <=> Guest(u, m)
    <3>1. CASE u = t
      BY Zenon, <2>2, <2>3, <3>1 DEF Guest, On
    <3>2. CASE u = c
      BY Zenon, <2>2, <2>3, <3>2 DEF Guest, On
    <3>3. CASE u \notin {t, c}
      BY ZenonT(60), <1>24, <2>1, <3>3 DEF Guest, On, ForkEnd, Shape
    <3> QED
      BY Zenon, <3>1, <3>2, <3>3
  <2> QED
    BY Zenon, <1>24, <2>4, UsersQuiet DEF ForkEnd
<1>25. ASSUME NEW t \in Task, ForkFail(t) PROVE UsersExact'
  <2>1. PICK c : c = child[t]
    BY Zenon
  <2>2. PICK n \in Mm : n = mm[c] /\ c \in Task
    BY Zenon, <1>25, <2>1, BornChild DEF ForkFail, At
  <2>3. /\ pc[t] = "fork" /\ c \in Task /\ pc[c] = "born" /\ On(c) = NoMm /\ call[t].how = "read"
    BY Zenon, <1>25, <2>1, BornChild DEF ForkFail, At
  <2>4. call'[t].on = n /\ call'[c] = call[c] /\ pc'[t] = "put" /\ mm'[c] = NoMm
    <3>1. t # c /\ call[t] \in CallType
      BY Zenon, <2>3 DEF Shape
    <3>2. PICK r : r = [call[t] EXCEPT !.on = n] /\ call' = [call EXCEPT ![t] = r]
      BY Zenon, <1>25, <2>1, <2>2 DEF ForkFail
    <3>3. r.on = n
      BY Zenon, <3>1, <3>2 DEF CallType
    <3> QED
      BY ZenonT(60), <1>25, <2>1, <2>2, <3>1, <3>2, <3>3 DEF ForkFail, Shape
  <2>5. ASSUME NEW m \in Mm
        PROVE  /\ ~Guest(t, m) /\ (Guest(t, m)' <=> m = n)
               /\ \A u \in Task \ {t} : Guest(u, m)' <=> Guest(u, m)
    <3>1. Guest(c, m)' <=> Guest(c, m)
      BY Zenon, <2>3, <2>4 DEF Guest, On
    <3>2. ASSUME NEW u \in Task \ {t, c} PROVE Guest(u, m)' <=> Guest(u, m)
      BY ZenonT(60), <1>25, <2>1 DEF Guest, On, ForkFail, Shape
    <3> QED
      BY ZenonT(60), <2>3, <2>4, <3>1, <3>2 DEF Guest, On
  <2>6. ASSUME NEW m \in Mm
        PROVE  users[m] = Cardinality(Members(m))' + Cardinality(Guests(m))'
    <3>1. /\ Cardinality(Guests(m)) \in Nat
          /\ Cardinality(Guests(m))' = Cardinality(Guests(m)) + (IF m = n THEN 1 ELSE 0)
      BY <2>5, GuestStep
    <3>2. \A u \in Task \ {c} : mm'[u] = mm[u]
      BY Zenon, <1>25, <2>1 DEF ForkFail, Shape
    <3>3. /\ Cardinality(Members(m)) \in Nat /\ Cardinality(Members(m))' \in Nat
          /\ Cardinality(Members(m))' + One(mm[c], m) = Cardinality(Members(m)) + One(mm'[c], m)
      BY ZenonT(60), <2>3, <3>2, MemberStep
    <3> QED
      BY <2>2, <2>4, <3>1, <3>3, UsersOf DEF One
  <2> QED
    BY Zenon, <1>25, <2>6 DEF ForkFail, UsersExact
<1>26. ASSUME NEW t \in Task, Exit(t) PROVE UsersExact'
  <2>1. PICK n \in Mm : n = mm[t] /\ pc[t] = "user" /\ On(t) = NoMm
    BY Zenon, <1>26 DEF Exit, At, Tasks, PlaceOk
  <2>2. call'[t].on = n /\ pc'[t] = "put" /\ mm'[t] = NoMm
    BY ZenonT(60), <1>26, <2>1 DEF Exit, Call, Goto, Shape
  <2>3. ASSUME NEW m \in Mm
        PROVE  /\ ~Guest(t, m) /\ (Guest(t, m)' <=> m = n)
               /\ \A u \in Task \ {t} : Guest(u, m)' <=> Guest(u, m)
    BY ZenonT(60), <1>26, <2>1, <2>2 DEF Guest, On, Exit, Call, Goto, Shape
  <2>4. ASSUME NEW m \in Mm
        PROVE  users[m] = Cardinality(Members(m))' + Cardinality(Guests(m))'
    <3>1. /\ Cardinality(Guests(m)) \in Nat
          /\ Cardinality(Guests(m))' = Cardinality(Guests(m)) + (IF m = n THEN 1 ELSE 0)
      BY <2>3, GuestStep
    <3>2. \A u \in Task \ {t} : mm'[u] = mm[u]
      BY ZenonT(60), <1>26 DEF Exit, Shape
    <3>3. /\ Cardinality(Members(m)) \in Nat /\ Cardinality(Members(m))' \in Nat
          /\ Cardinality(Members(m))' + One(mm[t], m) = Cardinality(Members(m)) + One(mm'[t], m)
      BY ZenonT(60), <3>2, MemberStep
    <3> QED
      BY <2>1, <2>2, <3>1, <3>3, UsersOf DEF One
  <2> QED
    BY ZenonT(60), <1>26, <2>4 DEF Exit, UsersExact
<1>27. ASSUME NEW t \in Task, Put(t) PROVE UsersExact'
  <2>1. PICK n \in Mm : n = On(t) /\ pc[t] = "put"
    BY ZenonT(60), <1>27 DEF Put, At, Tasks, PlaceOk
  <2>2. call'[t].on = NoMm \/ pc'[t] = "zap"
    BY Zenon, <1>27, LeaveCall DEF Put, Goto, On, Shape
  <2>3. \A u \in Task \ {t} : pc'[u] = pc[u] /\ call'[u] = call[u]
    BY ZenonT(60), <1>27 DEF Put, Leave, Goto, Shape
  <2>4. ASSUME NEW m \in Mm
        PROVE  /\ ~Guest(t, m)' /\ (Guest(t, m) <=> m = n)
               /\ \A u \in Task \ {t} : Guest(u, m)' <=> Guest(u, m)
    BY ZenonT(60), <2>1, <2>2, <2>3 DEF Guest, On
  <2>5. ASSUME NEW m \in Mm
        PROVE  users'[m] \in Nat /\ users'[m] = Cardinality(Members(m))' + Cardinality(Guests(m))'
    <3>1. users'[m] = users[m] - (IF m = n THEN 1 ELSE 0)
      <4>1. users \in [Mm -> Nat]
        BY Zenon DEF UsersExact
      <4>2. users' = [users EXCEPT ![n] = @ - 1]
        BY Zenon, <1>27, <2>1 DEF Put
      <4> QED
        BY <4>1, <4>2
    <3>2. Members(m)' = Members(m)
      BY ZenonT(60), <1>27 DEF Put, Members
    <3>3. /\ Cardinality(Guests(m)) \in Nat /\ Cardinality(Guests(m))' \in Nat
          /\ Cardinality(Guests(m))' + (IF m = n THEN 1 ELSE 0) = Cardinality(Guests(m))
      BY <2>4, GuestStep
    <3>4. Cardinality(Members(m)) \in Nat
      BY ZenonT(60), <1>27, MemberStep DEF Put
    <3> QED
      BY <3>1, <3>2, <3>3, <3>4, UsersOf
  <2>6. users' \in [Mm -> Nat]
    BY ZenonT(60), <1>27, <2>5 DEF Put, UsersExact
  <2> QED
    BY Zenon, <2>5, <2>6 DEF UsersExact
<1>28. ASSUME NEW t \in Task, NEW p \in Page, ZapPage(t, p) PROVE UsersExact'
  BY ZenonT(60), <1>28, UsersQuiet DEF ZapPage, Guest, On
<1>29. ASSUME NEW t \in Task, Discard(t) PROVE UsersExact'
  <2>1. pc[t] = "user" /\ On(t) = NoMm
    BY ZenonT(60), <1>29 DEF Discard, At, Tasks, PlaceOk
  <2>2. pc'[t] = "discard" /\ call'[t].how = "read"
    BY ZenonT(60), <1>29 DEF Discard, Goto, Call, Shape
  <2>3. \A m \in Mm : ~Guest(t, m)' /\ ~Guest(t, m)
    BY Zenon, <2>1, <2>2 DEF Guest
  <2>4. \A u \in Task \ {t} : pc'[u] = pc[u] /\ call'[u] = call[u]
    BY ZenonT(60), <1>29 DEF Discard, Goto, Call, Shape
  <2> QED
    BY ZenonT(60), <1>29, <2>3, <2>4, QuietStep DEF Discard
<1>30. ASSUME NEW p \in Page, Drop(p) PROVE UsersExact'
  BY ZenonT(60), <1>30, UsersQuiet DEF Drop, Guest, On
<1> QED
  BY ZenonT(60), <1>1, <1>2, <1>3, <1>4, <1>5, <1>6, <1>7, <1>8, <1>9, <1>10, <1>11, <1>12, <1>13, <1>14, <1>15,
     <1>16, <1>17, <1>18, <1>19, <1>20, <1>21, <1>22, <1>23, <1>24, <1>25, <1>26, <1>27, <1>28, <1>29,
     <1>30 DEF Next, Accesses, Faults, Changes
-----------------------------------------------------------------------------
(* A step of a task that is not about to fork leaves the children of the    *)
(* others alone: it works on an address space that is not theirs, or only   *)
(* clears entries of it.                                                    *)
LEMMA ForkFrame ==
    ASSUME Shape, Tasks, Forks, NEW t \in Task,
           pc[t] \notin {"none", "born", "fork"}, pc'[t] # "fork", child' = child,
           \A u \in Task \ {t} : /\ pc'[u] = pc[u] /\ call'[u] = call[u] /\ mm'[u] = mm[u]
                                 /\ left'[u] = left[u],
           mm'[t] \in {mm[t], NoMm},
           \/ On(t)' = NoMm
           \/ On(t)' = mm[t] /\ pc[t] = "user"
           \/ On(t)' = On(t) /\ (pc[t] = "zap" => pc'[t] = "zap"),
           \A m \in Mm, p \in Page : pte'[m][p] # pte[m][p] =>
              m = On(t) /\ (pte'[m][p] = Absent \/ pc[t] # "zap")
    PROVE  Forks'
<1> USE SpaceAssumption
<1> SUFFICES ASSUME NEW f \in Task, pc'[f] = "fork" PROVE ForkOk(f)'
  BY ZenonT(60) DEF Forks, ForkOk
<1>1. f # t /\ pc[f] = "fork" /\ ForkOk(f)
  BY ZenonT(60) DEF Forks
<1>2. PICK c \in Task : c = child[f] /\ pc[c] = "born" /\ c # t
  BY Zenon, <1>1 DEF ForkOk
<1>3. PICK n \in Mm : n = mm[c] /\ n = mm'[c]
  BY Zenon, <1>2 DEF Tasks, PlaceOk
<1>4. mm[t] # n /\ mm'[t] # n /\ (On(t) = n => pc[t] = "zap")
  BY ZenonT(60), <1>1, <1>2, <1>3 DEF ForkOk
<1>5. ASSUME NEW u \in Task
      PROVE  /\ mm'[u] = n => u = c
             /\ On(u)' = n => pc'[u] = "zap"
             /\ pc'[u] = "fork" /\ child'[u] = c => u = f
  <2>1. CASE u = t
    BY ZenonT(60), <1>4, <2>1 DEF On
  <2>2. CASE u # t
    BY <1>1, <1>2, <1>3, <2>2 DEF ForkOk, On
  <2> QED
    BY Zenon, <2>1, <2>2
<1>6. \A p \in left'[f] : pte'[n][p] = Absent
  BY <1>1, <1>2, <1>3, <1>4 DEF ForkOk, Shape
<1> QED
  BY ZenonT(60), <1>1, <1>2, <1>3, <1>5, <1>6 DEF ForkOk

(* A step that is of no task, or of its memory only.                        *)
LEMMA ForkSame ==
    ASSUME Forks, UNCHANGED <<pte, mm, pc, call, child, left>>
    PROVE  Forks'
  BY ZenonT(60) DEF Forks, ForkOk, On

(* Nobody uses an address space that has no users; it may still be zapped.  *)
LEMMA UnusedFresh ==
    ASSUME Shape, Tasks, UsersExact, NEW m \in Mm, users[m] = 0, NEW u \in Task
    PROVE  mm[u] # m /\ (On(u) = m => pc[u] = "zap")
<1> USE SpaceAssumption
<1>1. IsFiniteSet(Members(m)) /\ IsFiniteSet(Guests(m))
  BY Zenon, FS_Subset DEF Members, Guests
<1>2. Cardinality(Members(m)) \in Nat /\ Cardinality(Guests(m)) \in Nat
  BY Zenon, <1>1, FS_CardinalityType
<1>3. Cardinality(Members(m)) = 0 /\ Cardinality(Guests(m)) = 0
  BY <1>2, UsersOf
<1>4. Members(m) = {} /\ Guests(m) = {}
  BY Zenon, <1>1, <1>3, FS_EmptySet
<1>5. mm[u] # m /\ ~Guest(u, m)
  BY Zenon, <1>4 DEF Members, Guests
<1> QED
  BY Zenon, <1>5 DEF Guest, Tasks, PlaceOk

(* Every step keeps the address space of an unborn child untouched.         *)
LEMMA ForksNext ==
    ASSUME Shape, Tasks, UsersExact, Forks, Shape', Tasks', [Next]_vars
    PROVE  Forks'
<1> USE SpaceAssumption
<1>1. CASE UNCHANGED vars
  BY Zenon, <1>1, ForkSame DEF vars, walkVars
<1>2. ASSUME NEW t \in Task, NEW p \in Page, Evict(t, p) PROVE Forks'
  BY Zenon, <1>2, ForkSame DEF Evict, walkVars
<1>3. ASSUME NEW t \in Task, NEW p \in Page, NEW v \in Value, Write(t, p, v) PROVE Forks'
  BY Zenon, <1>3, ForkSame DEF Write, walkVars
<1>4. ASSUME NEW p \in Page, Drop(p) PROVE Forks'
  BY Zenon, <1>4, ForkSame DEF Drop, walkVars
<1>5. ASSUME NEW t \in Task, NEW p \in Page, NEW h \in {"read", "write"}, Fault(t, p, h) PROVE Forks'
  <2>1. /\ \A u \in Task \ {t} : pc'[u] = pc[u] /\ call'[u] = call[u]
        /\ pc'[t] # "fork" /\ On(t)' = mm[t] /\ pc[t] = "user"
    BY ZenonT(60), <1>5 DEF Fault, At, Call, Goto, On, Shape
  <2> QED
    BY ZenonT(60), <1>5, <2>1, ForkFrame DEF Fault, walkVars
<1>6. ASSUME NEW t \in Task, MapAnon(t) PROVE Forks'
  <2>1. /\ \A u \in Task \ {t} : pc'[u] = pc[u] /\ call'[u] = call[u]
        /\ pc'[t] # "fork" /\ (On(t)' = NoMm \/ On(t)' = On(t))
    BY Zenon, <1>6, FaultReturn DEF MapAnon
  <2>2. \A m \in Mm, p \in Page : pte'[m][p] # pte[m][p] => m = On(t)
    BY Zenon, <1>6 DEF MapAnon, SetPte, MapAround, Shape
  <2> QED
    BY ZenonT(60), <1>6, <2>1, <2>2, ForkFrame DEF MapAnon, At, walkVars
<1>7. ASSUME NEW t \in Task, Allow(t) PROVE Forks'
  <2>1. /\ \A u \in Task \ {t} : pc'[u] = pc[u] /\ call'[u] = call[u]
        /\ pc'[t] # "fork" /\ (On(t)' = NoMm \/ On(t)' = On(t))
    BY Zenon, <1>7, FaultReturn DEF Allow
  <2>2. \A m \in Mm, p \in Page : pte'[m][p] # pte[m][p] => m = On(t)
    BY Zenon, <1>7 DEF Allow, SetPte, MapAround, Shape
  <2> QED
    BY ZenonT(60), <1>7, <2>1, <2>2, ForkFrame DEF Allow, At, walkVars
<1>8. ASSUME NEW t \in Task, Copy(t) PROVE Forks'
  <2>1. /\ \A u \in Task \ {t} : pc'[u] = pc[u] /\ call'[u] = call[u]
        /\ pc'[t] # "fork" /\ (On(t)' = NoMm \/ On(t)' = On(t))
    BY ZenonT(60), <1>8 DEF Copy, On, Goto, At, Shape
  <2>2. \A m \in Mm, p \in Page : pte'[m][p] # pte[m][p] => m = On(t)
    BY Zenon, <1>8 DEF Copy, SetPte, MapAround, Shape
  <2> QED
    BY ZenonT(60), <1>8, <2>1, <2>2, ForkFrame DEF Copy, At, walkVars
<1>9. ASSUME NEW t \in Task, CopyStore(t) PROVE Forks'
  <2>1. /\ \A u \in Task \ {t} : pc'[u] = pc[u] /\ call'[u] = call[u]
        /\ pc'[t] # "fork" /\ (On(t)' = NoMm \/ On(t)' = On(t))
    BY ZenonT(60), <1>9 DEF CopyStore, On, Goto, At, Shape
  <2>2. \A m \in Mm, p \in Page : pte'[m][p] # pte[m][p] => m = On(t)
    BY ZenonT(60), <1>9 DEF CopyStore, SetPte, MapAround, Shape
  <2> QED
    BY ZenonT(60), <1>9, <2>1, <2>2, ForkFrame DEF CopyStore, At, walkVars
<1>10. ASSUME NEW t \in Task, CopyFlush(t) PROVE Forks'
  <2>1. /\ \A u \in Task \ {t} : pc'[u] = pc[u] /\ call'[u] = call[u]
        /\ pc'[t] # "fork" /\ (On(t)' = NoMm \/ On(t)' = On(t))
    BY ZenonT(60), <1>10 DEF CopyFlush, On, Goto, At, Shape
  <2>2. \A m \in Mm, p \in Page : pte'[m][p] # pte[m][p] => m = On(t)
    BY ZenonT(60), <1>10 DEF CopyFlush, SetPte, MapAround, Shape
  <2> QED
    BY ZenonT(60), <1>10, <2>1, <2>2, ForkFrame DEF CopyFlush, At, walkVars
<1>11. ASSUME NEW t \in Task, CopyUnref(t) PROVE Forks'
  <2>1. /\ \A u \in Task \ {t} : pc'[u] = pc[u] /\ call'[u] = call[u]
        /\ pc'[t] # "fork" /\ (On(t)' = NoMm \/ On(t)' = On(t))
    BY Zenon, <1>11, FaultReturn DEF CopyUnref
  <2>2. \A m \in Mm, p \in Page : pte'[m][p] # pte[m][p] => m = On(t)
    BY Zenon, <1>11 DEF CopyUnref, SetPte, MapAround, Shape
  <2> QED
    BY ZenonT(60), <1>11, <2>1, <2>2, ForkFrame DEF CopyUnref, At, walkVars
<1>12. ASSUME NEW t \in Task, PokeWrite(t) PROVE Forks'
  <2>1. /\ \A u \in Task \ {t} : pc'[u] = pc[u] /\ call'[u] = call[u]
        /\ pc'[t] # "fork" /\ (On(t)' = NoMm \/ On(t)' = On(t))
    BY ZenonT(60), <1>12 DEF PokeWrite, On, Goto, At, Shape
  <2>2. \A m \in Mm, p \in Page : pte'[m][p] # pte[m][p] => m = On(t)
    BY ZenonT(60), <1>12 DEF PokeWrite, SetPte, MapAround, Shape
  <2> QED
    BY ZenonT(60), <1>12, <2>1, <2>2, ForkFrame DEF PokeWrite, At, walkVars
<1>13. ASSUME NEW t \in Task, FaultFails(t) PROVE Forks'
  <2>1. /\ \A u \in Task \ {t} : pc'[u] = pc[u] /\ call'[u] = call[u]
        /\ pc'[t] # "fork" /\ (On(t)' = NoMm \/ On(t)' = On(t))
    <3>1. CASE call[t].how = "poke"
      BY ZenonT(60), <1>13, <3>1 DEF FaultFails, Goto, On, Shape
    <3>2. CASE call[t].how # "poke"
      BY Zenon, <1>13, <3>2, LeaveCall DEF FaultFails
    <3> QED
      BY Zenon, <3>1, <3>2
  <2>2. \A m \in Mm, p \in Page : pte'[m][p] # pte[m][p] => m = On(t)
    BY Zenon, <1>13 DEF FaultFails, SetPte, MapAround, Shape
  <2> QED
    BY ZenonT(60), <1>13, <2>1, <2>2, ForkFrame DEF FaultFails, At, walkVars
<1>14. ASSUME NEW t \in Task, FileMiss(t) PROVE Forks'
  <2>1. /\ \A u \in Task \ {t} : pc'[u] = pc[u] /\ call'[u] = call[u]
        /\ pc'[t] # "fork" /\ (On(t)' = NoMm \/ On(t)' = On(t))
    BY ZenonT(60), <1>14 DEF FileMiss, On, Goto, At, Shape
  <2>2. \A m \in Mm, p \in Page : pte'[m][p] # pte[m][p] => m = On(t)
    BY ZenonT(60), <1>14 DEF FileMiss, SetPte, MapAround, Shape
  <2> QED
    BY ZenonT(60), <1>14, <2>1, <2>2, ForkFrame DEF FileMiss, At, walkVars
<1>15. ASSUME NEW t \in Task, CacheHit(t) PROVE Forks'
  <2>1. /\ \A u \in Task \ {t} : pc'[u] = pc[u] /\ call'[u] = call[u]
        /\ pc'[t] # "fork" /\ (On(t)' = NoMm \/ On(t)' = On(t))
    BY ZenonT(60), <1>15 DEF CacheHit, On, Goto, At, Shape
  <2>2. \A m \in Mm, p \in Page : pte'[m][p] # pte[m][p] => m = On(t)
    BY ZenonT(60), <1>15 DEF CacheHit, SetPte, MapAround, Shape
  <2> QED
    BY ZenonT(60), <1>15, <2>1, <2>2, ForkFrame DEF CacheHit, At, walkVars
<1>16. ASSUME NEW t \in Task, CacheMiss(t) PROVE Forks'
  <2>1. /\ \A u \in Task \ {t} : pc'[u] = pc[u] /\ call'[u] = call[u]
        /\ pc'[t] # "fork" /\ (On(t)' = NoMm \/ On(t)' = On(t))
    BY ZenonT(60), <1>16 DEF CacheMiss, On, Goto, At, Shape
  <2>2. \A m \in Mm, p \in Page : pte'[m][p] # pte[m][p] => m = On(t)
    BY ZenonT(60), <1>16 DEF CacheMiss, SetPte, MapAround, Shape
  <2> QED
    BY ZenonT(60), <1>16, <2>1, <2>2, ForkFrame DEF CacheMiss, At, walkVars
<1>17. ASSUME NEW t \in Task, CacheInsert(t) PROVE Forks'
  <2>1. /\ \A u \in Task \ {t} : pc'[u] = pc[u] /\ call'[u] = call[u]
        /\ pc'[t] # "fork" /\ (On(t)' = NoMm \/ On(t)' = On(t))
    BY ZenonT(60), <1>17 DEF CacheInsert, On, Goto, At, Shape
  <2>2. \A m \in Mm, p \in Page : pte'[m][p] # pte[m][p] => m = On(t)
    BY ZenonT(60), <1>17 DEF CacheInsert, SetPte, MapAround, Shape
  <2> QED
    BY ZenonT(60), <1>17, <2>1, <2>2, ForkFrame DEF CacheInsert, At, walkVars
<1>18. ASSUME NEW t \in Task, MapRead(t) PROVE Forks'
  <2>1. /\ \A u \in Task \ {t} : pc'[u] = pc[u] /\ call'[u] = call[u]
        /\ pc'[t] # "fork" /\ (On(t)' = NoMm \/ On(t)' = On(t))
    BY Zenon, <1>18, FaultReturn DEF MapRead
  <2>2. \A m \in Mm, p \in Page : pte'[m][p] # pte[m][p] => m = On(t)
    BY Zenon, <1>18 DEF MapRead, SetPte, MapAround, Shape
  <2> QED
    BY ZenonT(60), <1>18, <2>1, <2>2, ForkFrame DEF MapRead, At, walkVars
<1>19. ASSUME NEW t \in Task, MapCopy(t) PROVE Forks'
  <2>1. /\ \A u \in Task \ {t} : pc'[u] = pc[u] /\ call'[u] = call[u]
        /\ pc'[t] # "fork" /\ (On(t)' = NoMm \/ On(t)' = On(t))
    BY ZenonT(60), <1>19 DEF MapCopy, On, Goto, At, FaultDone, Leave, NoCall, Shape
  <2>2. \A m \in Mm, p \in Page : pte'[m][p] # pte[m][p] => m = On(t)
    BY Zenon, <1>19 DEF MapCopy, SetPte, MapAround, Shape
  <2> QED
    BY ZenonT(60), <1>19, <2>1, <2>2, ForkFrame DEF MapCopy, At, walkVars
<1>20. ASSUME NEW t \in Task, ZapEnd(t) PROVE Forks'
  <2>1. /\ \A u \in Task \ {t} : pc'[u] = pc[u] /\ call'[u] = call[u]
        /\ pc'[t] # "fork" /\ On(t)' = NoMm
    BY ZenonT(60), <1>20 DEF ZapEnd, On, Goto, Leave, NoCall, Shape
  <2> QED
    BY ZenonT(60), <1>20, <2>1, ForkFrame DEF ZapEnd, At, walkVars
<1>21. ASSUME NEW t \in Task, DiscardEnd(t) PROVE Forks'
  <2>1. /\ \A u \in Task \ {t} : pc'[u] = pc[u] /\ call'[u] = call[u]
        /\ pc'[t] # "fork" /\ (On(t)' = NoMm \/ On(t)' = On(t))
    BY ZenonT(60), <1>21 DEF DiscardEnd, On, Goto, At, FaultDone, Leave, NoCall, Shape
  <2>2. \A m \in Mm, p \in Page : pte'[m][p] # pte[m][p] => m = On(t)
    BY ZenonT(60), <1>21 DEF DiscardEnd, SetPte, MapAround, Shape
  <2> QED
    BY ZenonT(60), <1>21, <2>1, <2>2, ForkFrame DEF DiscardEnd, At, walkVars
<1>22. ASSUME NEW t \in Task, Exit(t) PROVE Forks'
  <2>1. /\ \A u \in Task \ {t} : pc'[u] = pc[u] /\ call'[u] = call[u] /\ mm'[u] = mm[u]
        /\ pc'[t] # "fork" /\ On(t)' = mm[t] /\ pc[t] = "user" /\ mm'[t] = NoMm
    BY ZenonT(60), <1>22 DEF Exit, At, Call, Goto, On, Shape
  <2> QED
    BY ZenonT(60), <1>22, <2>1, ForkFrame DEF Exit, walkVars
<1>23. ASSUME NEW t \in Task, Discard(t) PROVE Forks'
  <2>1. /\ \A u \in Task \ {t} : pc'[u] = pc[u] /\ call'[u] = call[u] /\ left'[u] = left[u]
        /\ pc'[t] # "fork" /\ On(t)' = mm[t] /\ pc[t] = "user"
    BY ZenonT(60), <1>23 DEF Discard, At, Call, Goto, On, Shape
  <2> QED
    BY ZenonT(60), <1>23, <2>1, ForkFrame DEF Discard
<1>24. ASSUME NEW t \in Task, Put(t) PROVE Forks'
  <2>1. /\ \A u \in Task \ {t} : pc'[u] = pc[u] /\ call'[u] = call[u] /\ left'[u] = left[u]
        /\ pc'[t] # "fork" /\ pc[t] = "put" /\ (On(t)' = NoMm \/ On(t)' = On(t))
    <3>1. CASE users[On(t)] = 1
      BY ZenonT(60), <1>24, <3>1 DEF Put, At, Goto, On, Shape
    <3>2. CASE users[On(t)] # 1
      BY Zenon, <1>24, <3>2, LeaveCall DEF Put, At
    <3> QED
      BY Zenon, <3>1, <3>2
  <2> QED
    BY ZenonT(60), <1>24, <2>1, ForkFrame DEF Put
<1>25. ASSUME NEW t \in Task, NEW q \in Page, ZapPage(t, q) PROVE Forks'
  <2>1. /\ \A u \in Task \ {t} : left'[u] = left[u]
        /\ pc' = pc /\ call' = call /\ pc[t] \in {"zap", "discard"}
    BY ZenonT(60), <1>25 DEF ZapPage, Walks, Shape
  <2>2. \A m \in Mm, p \in Page : pte'[m][p] # pte[m][p] => m = On(t) /\ pte'[m][p] = Absent
    BY ZenonT(60), <1>25 DEF ZapPage, Shape
  <2> QED
    BY <1>25, <2>1, <2>2, ForkFrame DEF ZapPage, On
<1>26. ASSUME NEW t \in Task, NEW q \in Page, NEW m \in Mm, NEW v \in Value, Poke(t, m, q, v) PROVE Forks'
  <2>1. /\ \A u \in Task \ {t} : pc'[u] = pc[u] /\ call'[u] = call[u]
        /\ pc'[t] = "fault" /\ pc[t] = "user" /\ On(t)' = m
    BY ZenonT(60), <1>26 DEF Poke, At, Call, Goto, On, Shape
  <2>2. PICK w \in Task : mm[w] = m /\ pc[w] # "born"
    BY ZenonT(60), <1>26 DEF Poke
  <2>3. UNCHANGED <<mm, pte, child, left>>
    BY ZenonT(60), <1>26 DEF Poke, walkVars
  <2>4. ASSUME NEW f \in Task, pc'[f] = "fork" PROVE ForkOk(f)'
    <3>1. f # t /\ pc[f] = "fork" /\ ForkOk(f)
      BY Zenon, <2>1, <2>4 DEF Forks
    <3>2. PICK c \in Task : c = child[f] /\ pc[c] = "born" /\ c # t /\ c # w
      BY ZenonT(60), <2>1, <2>2, <3>1 DEF ForkOk
    <3>3. mm[c] # m
      BY ZenonT(60), <2>2, <3>1, <3>2 DEF ForkOk
    <3> QED
      BY ZenonT(60), <2>1, <2>3, <3>1, <3>2, <3>3 DEF ForkOk, On
  <2> QED
    BY ZenonT(60), <2>4 DEF Forks, ForkOk
<1>27. ASSUME NEW t \in Task, NEW c \in Task, NEW n \in Mm, Fork(t, c, n) PROVE Forks'
  <2>1. /\ pc[t] = "user" /\ pc[c] = "none" /\ t # c /\ mm[c] = NoMm /\ On(c) = NoMm
        /\ users[n] = 0 /\ Present(n) = {} /\ mm[t] \in Mm
    BY Zenon, <1>27 DEF Fork, At, Unused, Tasks, PlaceOk
  <2>2. \A u \in Task : mm[u] # n /\ (On(u) = n => pc[u] = "zap")
    BY ZenonT(60), <2>1, UnusedFresh
  <2>3. /\ pc'[t] = "fork" /\ pc'[c] = "born" /\ mm'[c] = n /\ child'[t] = c /\ On(t)' = mm[t] /\ pte' = pte
        /\ \A u \in Task \ {t} : On(u)' = On(u) /\ child'[u] = child[u] /\ left'[u] = left[u]
        /\ \A u \in Task \ {t, c} : pc'[u] = pc[u]
        /\ \A u \in Task \ {c} : mm'[u] = mm[u]
    BY <1>27, <2>1 DEF Fork, Call, On, Shape
  <2>4. \A p \in Page : pte[n][p] = Absent
    BY Zenon, <2>1 DEF Present
  <2>5. \A p \in left'[t] : p \in Page
    BY Zenon DEF Shape
  <2>6. ASSUME NEW f \in Task \ {t, c}, pc[f] = "fork"
        PROVE child[f] \in Task /\ child[f] \notin {t, c} /\ mm[child[f]] \in Mm /\ mm[child[f]] # n
    BY ZenonT(60), <2>1, <2>2, <2>6 DEF Forks, ForkOk, Tasks, PlaceOk
  <2>7. ForkOk(t)'
    <3>1. ASSUME NEW u \in Task
          PROVE  /\ mm'[u] = n => u = c
                 /\ On(u)' = n => pc'[u] = "zap"
                 /\ pc'[u] = "fork" /\ child'[u] = c => u = t
      <4>1. CASE u = t
        BY ZenonT(60), <2>1, <2>2, <2>3, <4>1
      <4>2. CASE u = c
        BY ZenonT(60), <2>1, <2>3, <4>2
      <4>3. CASE u \notin {t, c}
        BY <2>2, <2>3, <2>6, <4>3
      <4> QED
        BY Zenon, <4>1, <4>2, <4>3
    <3> QED
      BY ZenonT(60), <2>3, <2>4, <2>5, <3>1 DEF ForkOk
  <2>8. ASSUME NEW f \in Task \ {t}, pc'[f] = "fork" PROVE ForkOk(f)'
    <3>1. f \in Task \ {t, c} /\ pc[f] = "fork" /\ ForkOk(f)
      BY Zenon, <2>1, <2>3, <2>8 DEF Forks
    <3>2. PICK d \in Task \ {t, c} : d = child[f] /\ mm[d] # n /\ mm[d] \in Mm /\ pc[d] = "born"
      BY Zenon, <2>6, <3>1 DEF ForkOk
    <3>3. /\ d = child'[f] /\ mm'[d] = mm[d] /\ pc'[d] = "born" /\ left'[f] = left[f]
      BY ZenonT(60), <2>3, <3>1, <3>2
    <3>4. ASSUME NEW u \in Task
          PROVE  /\ mm'[u] = mm[d] => u = d
                 /\ On(u)' = mm[d] => pc'[u] = "zap"
                 /\ pc'[u] = "fork" /\ child'[u] = d => u = f
      <4>1. CASE u = t
        BY ZenonT(60), <2>3, <3>1, <3>2, <4>1 DEF ForkOk
      <4>2. CASE u = c
        BY ZenonT(60), <2>1, <2>3, <3>2, <4>2
      <4>3. CASE u \notin {t, c}
        BY <2>3, <3>1, <3>2, <4>3 DEF ForkOk
      <4> QED
        BY ZenonT(60), <4>1, <4>2, <4>3
    <3> QED
      BY <2>3, <3>1, <3>2, <3>3, <3>4 DEF ForkOk
  <2> QED
    BY <2>7, <2>8 DEF Forks, ForkOk
<1>28. ASSUME NEW t \in Task, NEW q \in Page, ForkPage(t, q) PROVE Forks'
  <2>1. PICK c \in Task : c = child[t] /\ pc[t] = "fork" /\ c # t /\ mm[c] \in Mm
    BY ZenonT(60), <1>28 DEF ForkPage, At, Forks, ForkOk, Tasks, PlaceOk
  <2>2. UNCHANGED <<mm, pc, call, child>> /\ left' = [left EXCEPT ![t] = @ \ {q}]
    BY Zenon, <1>28 DEF ForkPage, Walks
  <2>3. \A m \in Mm, p \in Page : pte'[m][p] # pte[m][p] => m \in {On(t), mm[c]} /\ p = q
    BY ZenonT(60), <1>28, <2>1 DEF ForkPage, Shape
  <2>4. On(t) = mm[t] /\ On(t) \in Mm
    BY ZenonT(60), <2>1 DEF Tasks, PlaceOk
  <2>5. ASSUME NEW f \in Task, pc[f] = "fork" PROVE ForkOk(f)'
    <3>1. PICK d \in Task : d = child[f] /\ ForkOk(f) /\ mm[d] \in Mm /\ d # t /\ mm[t] # mm[d]
      BY ZenonT(60), <2>1, <2>5 DEF Forks, ForkOk, Tasks, PlaceOk
    <3>2. d = c => f = t
      BY ZenonT(60), <2>1, <2>5, <3>1 DEF Forks, ForkOk
    <3>3. mm[d] = mm[c] => d = c
      BY ZenonT(60), <2>1, <3>1, <2>5 DEF ForkOk
    <3>4. \A p \in left'[f] : p \in left[f] /\ p \in Page /\ (f = t => p # q)
      BY ZenonT(60), <2>2 DEF Shape
    <3>5. \A p \in left'[f] : pte'[mm[d]][p] = Absent
      BY ZenonT(60), <2>3, <2>4, <2>5, <3>1, <3>2, <3>3, <3>4 DEF ForkOk
    <3> QED
      BY ZenonT(60), <2>2, <2>5, <3>1, <3>5 DEF ForkOk, On
  <2> QED
    BY Zenon, <2>2, <2>5 DEF Forks, ForkOk
<1>29. ASSUME NEW t \in Task, ForkEnd(t) \/ ForkFail(t) PROVE Forks'
  <2>1. PICK c \in Task : c = child[t] /\ pc[t] = "fork" /\ c # t /\ mm[c] \in Mm /\ pc[c] = "born" /\ On(c) = NoMm
    BY ZenonT(60), <1>29, BornChild DEF ForkEnd, ForkFail, At
  <2>2. /\ pc'[t] # "fork" /\ pc'[c] # "fork" /\ pte' = pte /\ mm'[t] = mm[t]
        /\ mm'[c] \in {mm[c], NoMm} /\ On(t)' \in {NoMm, mm[c]}
        /\ \A u \in Task \ {t} : On(u)' = On(u) /\ child'[u] = child[u] /\ left'[u] = left[u]
        /\ \A u \in Task \ {t, c} : pc'[u] = pc[u] /\ mm'[u] = mm[u]
    <3>1. CASE ForkEnd(t)
      BY ZenonT(60), <2>1, <3>1 DEF ForkEnd, NoCall, On, Shape
    <3>2. CASE ForkFail(t)
      BY <2>1, <3>2 DEF ForkFail, On, Shape, CallType
    <3> QED
      BY ZenonT(60), <1>29, <3>1, <3>2
  <2>3. ASSUME NEW f \in Task, pc'[f] = "fork" PROVE ForkOk(f)'
    <3>1. f \in Task \ {t, c} /\ pc[f] = "fork" /\ ForkOk(f)
      BY Zenon, <2>2, <2>3 DEF Forks
    <3>2. PICK d \in Task : d = child[f] /\ pc[d] = "born" /\ d # t /\ mm[d] \in Mm /\ mm[t] # mm[d]
      BY ZenonT(60), <2>1, <3>1 DEF ForkOk, Tasks, PlaceOk
    <3>3. d # c /\ mm[d] # mm[c]
      BY ZenonT(60), <2>1, <3>1, <3>2 DEF ForkOk
    <3>4. d = child'[f] /\ mm'[d] = mm[d] /\ pc'[d] = "born" /\ left'[f] = left[f]
      BY ZenonT(60), <2>2, <3>1, <3>2, <3>3
    <3>5. ASSUME NEW u \in Task
          PROVE  /\ mm'[u] = mm[d] => u = d
                 /\ On(u)' = mm[d] => pc'[u] = "zap"
                 /\ pc'[u] = "fork" /\ child'[u] = d => u = f
      <4>1. CASE u = t
        BY ZenonT(60), <2>2, <3>2, <3>3, <4>1
      <4>2. CASE u = c
        BY ZenonT(60), <2>1, <2>2, <3>2, <3>3, <4>2
      <4>3. CASE u \notin {t, c}
        BY ZenonT(60), <2>2, <3>1, <3>2, <4>3 DEF ForkOk
      <4> QED
        BY ZenonT(60), <4>1, <4>2, <4>3
    <3> QED
      BY <2>2, <3>1, <3>2, <3>4, <3>5 DEF ForkOk
  <2> QED
    BY ZenonT(60), <2>3 DEF Forks, ForkOk
<1> QED
  BY ZenonT(60), <1>1, <1>2, <1>3, <1>4, <1>5, <1>6, <1>7, <1>8, <1>9, <1>10, <1>11, <1>12, <1>13, <1>14, <1>15,
     <1>16, <1>17, <1>18, <1>19, <1>20, <1>21, <1>22, <1>23, <1>24, <1>25, <1>26, <1>27, <1>28, <1>29
     DEF Next, Accesses, Faults, Changes
-----------------------------------------------------------------------------
(* page_ref and page_unref of a frame, which may be none.                   *)
LEMMA RefFun ==
    ASSUME NEW r \in [Frame -> Nat], NEW h \in Frame \cup {NoFrame}
    PROVE  Ref(r, h) \in [Frame -> Nat] /\ \A f \in Frame : Ref(r, h)[f] = r[f] + One(h, f)
<1>1. NoFrame \notin Frame
  BY Zenon, NoFrameOut
<1>2. CASE h = NoFrame
  <2>1. Ref(r, h) = r
    BY Zenon, <1>1, <1>2 DEF Ref
  <2> QED
    BY <1>1, <1>2, <2>1 DEF One
<1>3. CASE h \in Frame
  BY <1>3 DEF Ref, One
<1> QED
  BY Zenon, <1>2, <1>3

(* page_unref takes one from the count of a frame that has one.             *)
LEMMA UnrefFun ==
    ASSUME NEW r \in [Frame -> Nat], NEW h \in Frame \cup {NoFrame}, h \in Frame => r[h] > 0
    PROVE  Unref(r, h) \in [Frame -> Nat] /\ \A f \in Frame : Unref(r, h)[f] = r[f] - One(h, f)
<1>1. NoFrame \notin Frame
  BY Zenon, NoFrameOut
<1>2. CASE h = NoFrame
  <2>1. Unref(r, h) = r
    BY Zenon, <1>1, <1>2 DEF Unref
  <2> QED
    BY <1>1, <1>2, <2>1 DEF One
<1>3. CASE h \in Frame
  BY <1>3 DEF Unref, One
<1> QED
  BY Zenon, <1>2, <1>3

(* The numbers of references are numbers, and a frame that is referred to   *)
(* has one.                                                                 *)
LEMMA Counted ==
    ASSUME NEW f
    PROVE  /\ Tables(f) \in Nat /\ Cached(f) \in Nat /\ Hands(f) \in Nat
           /\ \A m \in Mm, p \in Page : pte[m][p].frame = f => Tables(f) > 0
           /\ \A p \in Page : cache[p] = f => Cached(f) > 0
           /\ \A t \in Task : held[t] = f => Hands(f) > 0
<1>1. IsFiniteSet(InTables(f)) /\ IsFiniteSet(InCache(f)) /\ IsFiniteSet(InHands(f))
  BY Zenon, SpaceAssumption, FS_Product, FS_Subset DEF InTables, InCache, InHands
<1>2. /\ Tables(f) \in Nat /\ Cached(f) \in Nat /\ Hands(f) \in Nat
      /\ Tables(f) = 0 <=> InTables(f) = {}
      /\ Cached(f) = 0 <=> InCache(f) = {}
      /\ Hands(f) = 0 <=> InHands(f) = {}
  BY Zenon, <1>1, FS_CardinalityType, FS_EmptySet DEF Tables, Cached, Hands
<1>3. \A m \in Mm, p \in Page : pte[m][p].frame = f => <<m, p>> \in InTables(f)
  BY Zenon DEF InTables
<1>4. /\ \A p \in Page : cache[p] = f => p \in InCache(f)
      /\ \A t \in Task : held[t] = f => t \in InHands(f)
  BY Zenon DEF InCache, InHands
<1>5. ASSUME NEW m \in Mm, NEW p \in Page, pte[m][p].frame = f PROVE Tables(f) > 0
  <2>1. <<m, p>> \in InTables(f)
    BY Zenon, <1>3, <1>5
  <2>2. InTables(f) # {}
    BY Zenon, <2>1
  <2> QED
    BY <1>2, <2>2
<1>6. ASSUME NEW p \in Page, cache[p] = f PROVE Cached(f) > 0
  BY <1>2, <1>4, <1>6
<1>7. ASSUME NEW t \in Task, held[t] = f PROVE Hands(f) > 0
  BY <1>2, <1>4, <1>7
<1> QED
  BY ZenonT(60), <1>2, <1>5, <1>6, <1>7

(* page_alloc_user: one more reference, to the new frame, and none from     *)
(* the cache to those that pagecache_shrink gave back.                      *)
LEMMA AllocStep ==
    ASSUME Shape, RefsOk, Shrunk
    PROVE  /\ Allocated \in [Frame -> Nat]
           /\ \A f \in Frame : /\ Cached(f)' \in Nat
                               /\ Allocated[f] = Tables(f) + Cached(f)' + Hands(f) + One(NewFrame, f)
<1>1. NewFrame \in Pool /\ Pool \subseteq Frame
  BY Zenon, AllocFrame
<1>2. Allocated \in [Frame -> Nat]
  BY Zenon DEF Allocated, RefsOk
<1>3. ASSUME NEW f \in Frame
      PROVE  /\ Cached(f)' \in Nat
             /\ Allocated[f] = Tables(f) + Cached(f)' + Hands(f) + One(NewFrame, f)
  <2>1. /\ refs[f] = Tables(f) + Cached(f) + Hands(f)
        /\ Tables(f) \in Nat /\ Cached(f) \in Nat /\ Hands(f) \in Nat
    BY Zenon, Counted DEF RefsOk, RefExact, Tables, Cached, Hands
  <2>2. f # NoFrame
    BY Zenon, NoFrameOut
  <2>3. \A p \in Page : cache'[p] = (IF p \in Victim THEN NoFrame ELSE cache[p])
    BY Zenon DEF Shrunk
  <2>4. CASE f \notin Pool
    <3>1. InCache(f)' = InCache(f)
      BY Zenon, <2>2, <2>3, <2>4 DEF InCache, Pool
    <3> QED
      BY <1>1, <2>1, <2>4, <3>1 DEF Allocated, Cached, One
  <2>5. CASE f \in Pool
    <3>1. Allocated[f] = One(NewFrame, f)
      BY Zenon, <2>5 DEF Allocated, One
    <3>2. CASE Free # {}
      <4>1. Victim = {} /\ refs[f] = 0
        BY Zenon, <2>5, <3>2 DEF Victim, Pool, Free
      <4>2. InCache(f)' = InCache(f)
        BY Zenon, <2>3, <4>1 DEF InCache
      <4> QED
        BY <2>1, <3>1, <4>1, <4>2 DEF Cached, One
    <3>3. CASE Free = {}
      <4>1. PICK v \in Page : cache[v] = f /\ refs[f] = 1
        BY Zenon, <2>5, <3>3 DEF Pool, Victim
      <4>2. Cached(f) > 0
        BY ZenonT(60), <4>1, Counted
      <4>3. Tables(f) = 0 /\ Hands(f) = 0
        BY <2>1, <4>1, <4>2
      <4>4. InCache(f)' = {}
        BY <2>2, <2>3, <3>3, <4>1 DEF InCache, Victim
      <4>5. Cached(f)' = 0
        BY Zenon, <4>4, FS_EmptySet DEF Cached
      <4> QED
        BY <3>1, <4>3, <4>5 DEF One
    <3> QED
      BY Zenon, <3>2, <3>3
  <2> QED
    BY Zenon, <2>4, <2>5
<1> QED
  BY ZenonT(60), <1>2, <1>3

(* What refs is to be, in terms of the numbers.                             *)
LEMMA RefsMeans ==
    RefsOk <=> /\ refs \in [Frame -> Nat]
               /\ \A f \in Frame : refs[f] = Tables(f) + Cached(f) + Hands(f)
  BY Zenon DEF RefsOk, RefExact, Tables, Cached, Hands

(* No frame is not a frame.                                                 *)
LEMMA NoneIsNo ==
    ASSUME NEW f \in Frame PROVE One(NoFrame, f) = 0 /\ One(Absent.frame, f) = 0
  BY Zenon, NoFrameOut DEF Absent, One

(* One reference or none.                                                   *)
LEMMA OneType == ASSUME NEW a, NEW f PROVE One(a, f) \in {0, 1}
  BY Zenon DEF One

(* A reference that somebody has can be given back.                         *)
LEMMA Referred ==
    ASSUME RefsOk, NEW f \in Frame,
           \/ \E m \in Mm, p \in Page : pte[m][p].frame = f
           \/ \E p \in Page : cache[p] = f
           \/ \E t \in Task : held[t] = f
    PROVE  refs[f] > 0
<1>1. Tables(f) \in Nat /\ Cached(f) \in Nat /\ Hands(f) \in Nat
  BY Zenon, Counted
<1>2. Tables(f) > 0 \/ Cached(f) > 0 \/ Hands(f) > 0
  BY Zenon, Counted
<1> QED
  BY <1>1, <1>2, RefsMeans

(* fault_around adds one reference for each page around that it maps.       *)
LEMMA AroundStep ==
    ASSUME Shape, NEW t \in Task, On(t) \in Mm, call[t].page \in Page, NEW e \in Entry,
           MapAround(t, e, cache), NEW f \in Frame
    PROVE  LET n == Cardinality({p \in Around(t, cache) : cache[p] = f}) IN
           /\ n \in Nat /\ Tables(f) \in Nat /\ Tables(f)' \in Nat
           /\ Tables(f)' + One(Old(t).frame, f) = Tables(f) + One(e.frame, f) + n
<1> DEFINE m == On(t)  S == {p \in Around(t, cache) : cache[p] = f}
           q == [pte EXCEPT ![m][call[t].page] = e]  A == Tabs(q, f)  B == {m} \X S
<1>1. pte \in [Mm -> [Page -> Entry]]
  BY Zenon DEF Shape
<1>2. /\ InTables(f) = Tabs(pte, f)
      /\ Cardinality(Tabs(pte, f)) \in Nat /\ Cardinality(A) \in Nat
      /\ Cardinality(A) + One(Old(t).frame, f) = Cardinality(Tabs(pte, f)) + One(e.frame, f)
  <2>1. InTables(f) = Tabs(pte, f)
    BY ZenonT(60) DEF InTables, Tabs
  <2>2. /\ Cardinality(Tabs(pte, f)) \in Nat /\ Cardinality(Tabs(q, f)) \in Nat
        /\ Cardinality(Tabs(q, f)) + One(pte[m][call[t].page].frame, f) = Cardinality(Tabs(pte, f)) + One(e.frame, f)
    <3>1. Becomes(pte, q, m, call[t].page, e)
      BY Zenon, <1>1 DEF Becomes
    <3> HIDE DEF q, m
    <3>2. m \in Mm
      BY Zenon DEF m
    <3> QED
      BY <3>1, <3>2, TableCount
  <2> QED
    BY Zenon, <2>1, <2>2 DEF Old
<1>3. S \subseteq Page
  BY Zenon DEF Around
<1>4. /\ IsFiniteSet(S) /\ IsFiniteSet({m}) /\ Cardinality({m}) = 1
      /\ IsFiniteSet(Mm \X Page)
  BY ZenonT(60), <1>3, SpaceAssumption, FS_Subset, FS_Singleton, FS_Product
<1>5. IsFiniteSet(B) /\ Cardinality(S) \in Nat /\ Cardinality(B) = Cardinality(S)
  <2>1. IsFiniteSet(B) /\ Cardinality(B) = Cardinality({m}) * Cardinality(S)
    BY ZenonT(60), <1>4, FS_Product
  <2> QED
    BY <1>4, <2>1, FS_CardinalityType
<1>6. IsFiniteSet(A)
  BY ZenonT(60), <1>4, FS_Subset DEF Tabs
<1>7. NoFrame # f /\ Absent.frame = NoFrame
  BY Zenon, NoFrameOut DEF Absent
<1>8. \A p \in Page : pte'[m][p] = (IF p = call[t].page THEN e
                       ELSE IF p \in Around(t, cache) THEN [frame |-> cache[p], w |-> FALSE] ELSE pte[m][p])
  <2>1. call[t].page \notin Around(t, cache)
    BY Zenon DEF Around
  <2> QED
    BY Zenon, <1>1, <2>1 DEF MapAround
<1>9. \A n \in Mm \ {m} : pte'[n] = pte[n] /\ q[n] = pte[n]
  BY Zenon, <1>1 DEF MapAround
<1>10. \A p \in Page : q[m][p] = (IF p = call[t].page THEN e ELSE pte[m][p])
  BY Zenon, <1>1
<1>11. A \cap B = {}
  <2>1. ASSUME NEW p \in S PROVE q[m][p].frame # f
    BY ZenonT(60), <1>3, <1>7, <1>10 DEF Around
  <2> HIDE DEF q
  <2> QED
    BY Zenon, <2>1 DEF Tabs
<1>12. InTables(f)' = A \cup B
  <2>1. ASSUME NEW n \in Mm, NEW p \in Page
        PROVE  pte'[n][p].frame = f <=> q[n][p].frame = f \/ (n = m /\ p \in S)
    <3>1. CASE n # m
      BY Zenon, <1>9, <3>1
    <3>2. CASE n = m /\ p = call[t].page
      BY ZenonT(60), <1>8, <1>10, <3>2 DEF Around
    <3>3. CASE n = m /\ p # call[t].page /\ p \in Around(t, cache)
      <4>1. pte'[m][p].frame = cache[p]
        <5>1. pte'[m][p] = [frame |-> cache[p], w |-> FALSE]
          BY Zenon, <1>8, <3>3
        <5> QED
          BY <5>1
      <4>2. q[m][p] = Absent
        BY Zenon, <1>10, <3>3 DEF Around
      <4> HIDE DEF q
      <4> QED
        BY ZenonT(60), <1>7, <3>3, <4>1, <4>2
    <3>4. CASE n = m /\ p # call[t].page /\ p \notin Around(t, cache)
      BY ZenonT(60), <1>8, <1>10, <3>4
    <3> QED
      BY ZenonT(60), <3>1, <3>2, <3>3, <3>4
  <2> HIDE DEF q, S
  <2>2. ASSUME NEW x \in Mm \X Page PROVE x \in InTables(f)' <=> x \in A \cup B
    <3>1. PICK n \in Mm, p \in Page : x = <<n, p>>
      OBVIOUS
    <3> QED
      BY Zenon, <2>1, <3>1 DEF InTables, Tabs
  <2>3. A \cup B \subseteq Mm \X Page /\ InTables(f)' \subseteq Mm \X Page
    BY ZenonT(60), <1>3 DEF Tabs, InTables
  <2> QED
    BY Zenon, <2>2, <2>3
<1> HIDE DEF S, A, B
<1>13. Cardinality(InTables(f)') = Cardinality(A) + Cardinality(B)
  <2>1. Cardinality(A \cup B) = Cardinality(A) + Cardinality(B) - Cardinality(A \cap B)
    BY Zenon, <1>5, <1>6, FS_Union
  <2>2. Cardinality(A \cap B) = 0
    BY ZenonT(60), <1>11, FS_EmptySet
  <2> QED
    BY <1>2, <1>5, <1>12, <2>1, <2>2
<1>14. /\ Cardinality(S) \in Nat /\ Tables(f) \in Nat /\ Tables(f)' \in Nat
       /\ Tables(f)' + One(Old(t).frame, f) = Tables(f) + One(e.frame, f) + Cardinality(S)
  BY <1>2, <1>5, <1>13, OneType DEF Tables
<1> QED
  BY Zenon, <1>14 DEF S

(* The counts add up after a step.                                          *)
LEMMA RefsAfter ==
    ASSUME refs' \in [Frame -> Nat],
           \A f \in Frame : refs'[f] = Tables(f)' + Cached(f)' + Hands(f)'
    PROVE  RefsOk'
  BY Zenon DEF RefsOk, RefExact, Tables, Cached, Hands

(* What is not stored into keeps its number of references.                  *)
LEMMA SameCounts ==
    ASSUME NEW f
    PROVE  /\ pte' = pte => Tables(f)' = Tables(f)
           /\ cache' = cache => Cached(f)' = Cached(f)
           /\ held' = held => Hands(f)' = Hands(f)
  BY Zenon DEF Tables, Cached, Hands, InTables, InCache, InHands

(* Every step keeps the reference counts exact.                             *)
LEMMA RefsNext ==
    ASSUME Shape, Tasks, Forks, RefsOk, Shape', [Next]_vars
    PROVE  RefsOk'
<1> USE SpaceAssumption
<1>0. /\ refs \in [Frame -> Nat]
      /\ \A f \in Frame : /\ refs[f] = Tables(f) + Cached(f) + Hands(f)
                          /\ Tables(f) \in Nat /\ Cached(f) \in Nat /\ Hands(f) \in Nat
  BY ZenonT(60), RefsMeans, Counted
<1>1. ASSUME UNCHANGED <<refs, pte, cache, held>> PROVE RefsOk'
  BY ZenonT(60), <1>0, <1>1, SameCounts, RefsAfter
<1>2. CASE UNCHANGED vars
  BY Zenon, <1>1, <1>2 DEF vars, frameVars
<1>3. ASSUME NEW t \in Task, NEW p \in Page, Evict(t, p) PROVE RefsOk'
  BY Zenon, <1>1, <1>3 DEF Evict, frameVars
<1>4. ASSUME NEW t \in Task, NEW p \in Page, NEW v \in Value, Write(t, p, v) PROVE RefsOk'
  BY Zenon, <1>1, <1>4 DEF Write
<1>5. ASSUME NEW t \in Task, NEW p \in Page, NEW h \in {"read", "write"}, Fault(t, p, h) PROVE RefsOk'
  BY ZenonT(60), <1>1, <1>5 DEF Fault, frameVars
<1>6. ASSUME NEW t \in Task, NEW p \in Page, NEW m \in Mm, NEW v \in Value, Poke(t, m, p, v) PROVE RefsOk'
  BY ZenonT(60), <1>1, <1>6 DEF Poke, frameVars
<1>7. ASSUME NEW t \in Task, CopyFlush(t) PROVE RefsOk'
  BY ZenonT(60), <1>1, <1>7 DEF CopyFlush, frameVars
<1>8. ASSUME NEW t \in Task, PokeWrite(t) PROVE RefsOk'
  BY ZenonT(60), <1>1, <1>8 DEF PokeWrite, frameVars
<1>9. ASSUME NEW t \in Task, FaultFails(t) PROVE RefsOk'
  BY ZenonT(60), <1>1, <1>9 DEF FaultFails, frameVars
<1>10. ASSUME NEW t \in Task, FileMiss(t) PROVE RefsOk'
  BY ZenonT(60), <1>1, <1>10 DEF FileMiss, frameVars
<1>11. ASSUME NEW t \in Task, NEW c \in Task, NEW m \in Mm, Fork(t, c, m) PROVE RefsOk'
  BY ZenonT(60), <1>1, <1>11 DEF Fork, frameVars
<1>12. ASSUME NEW t \in Task, ForkEnd(t) PROVE RefsOk'
  BY Zenon, <1>1, <1>12 DEF ForkEnd, frameVars
<1>13. ASSUME NEW t \in Task, ForkFail(t) PROVE RefsOk'
  BY Zenon, <1>1, <1>13 DEF ForkFail, frameVars
<1>14. ASSUME NEW t \in Task, Exit(t) PROVE RefsOk'
  BY ZenonT(60), <1>1, <1>14 DEF Exit, frameVars
<1>15. ASSUME NEW t \in Task, Put(t) PROVE RefsOk'
  BY Zenon, <1>1, <1>15 DEF Put, frameVars
<1>16. ASSUME NEW t \in Task, ZapEnd(t) PROVE RefsOk'
  BY ZenonT(60), <1>1, <1>16 DEF ZapEnd, frameVars
<1>17. ASSUME NEW t \in Task, Discard(t) PROVE RefsOk'
  BY ZenonT(60), <1>1, <1>17 DEF Discard, frameVars
<1>18. ASSUME NEW t \in Task, DiscardEnd(t) PROVE RefsOk'
  BY ZenonT(60), <1>1, <1>18 DEF DiscardEnd, frameVars
<1>19. ASSUME NEW t \in Task, MapAnon(t) PROVE RefsOk'
  <2>1. On(t) \in Mm /\ call[t].page \in Page /\ Old(t) = Absent
    BY ZenonT(60), <1>19, CallFacts DEF MapAnon, At
  <2>2. [frame |-> NewFrame, w |-> TRUE] \in Entry /\ Shrunk /\ refs' = Allocated /\ held' = held
    BY ZenonT(60), <1>19, AllocFrame DEF MapAnon, Entry
  <2>3. ASSUME NEW f \in Frame PROVE refs'[f] = Tables(f)' + Cached(f)' + Hands(f)'
    <3>1. /\ Cached(f)' \in Nat
          /\ refs'[f] = Tables(f) + Cached(f)' + Hands(f) + One(NewFrame, f)
      BY Zenon, <2>2, AllocStep
    <3>2. /\ Tables(f)' \in Nat
          /\ Tables(f)' + One(Absent.frame, f) = Tables(f) + One(NewFrame, f)
      <4>1. PICK e \in Entry : e = [frame |-> NewFrame, w |-> TRUE]
        BY Zenon, <2>2
      <4>2. pte' = [pte EXCEPT ![On(t)][call[t].page] = e]
        BY Zenon, <1>19, <4>1 DEF MapAnon, SetPte
      <4>3. Tables(f)' \in Nat /\ Tables(f)' + One(Old(t).frame, f) = Tables(f) + One(e.frame, f)
        BY ZenonT(60), <2>1, <4>2, TableStep DEF Old
      <4> QED
        BY ZenonT(60), <2>1, <4>1, <4>3
    <3> QED
      BY <1>0, <2>2, <3>1, <3>2, NoneIsNo, SameCounts, OneType
  <2> QED
    BY ZenonT(60), <2>2, <2>3, AllocStep, RefsAfter
<1>20. ASSUME NEW t \in Task, Allow(t) PROVE RefsOk'
  <2>1. CASE pte' = pte
    BY Zenon, <1>1, <1>20, <2>1 DEF Allow, frameVars
  <2>2. CASE SetPte(t, [Old(t) EXCEPT !.w = TRUE])
    <3>1. On(t) \in Mm /\ call[t].page \in Page /\ Old(t) \in Entry /\ Old(t) # Absent
      BY Zenon, <1>20, CallFacts DEF Allow, At
    <3>2. PICK e \in Entry : e = [Old(t) EXCEPT !.w = TRUE] /\ e.frame = Old(t).frame
      BY Zenon, <3>1, EntryFacts
    <3>3. pte' = [pte EXCEPT ![On(t)][call[t].page] = e]
      BY Zenon, <2>2, <3>2 DEF SetPte
    <3>4. UNCHANGED <<refs, cache, held>>
      BY Zenon, <1>20 DEF Allow, frameVars
    <3>5. ASSUME NEW f \in Frame PROVE refs'[f] = Tables(f)' + Cached(f)' + Hands(f)'
      <4>1. Tables(f)' \in Nat /\ Tables(f)' + One(Old(t).frame, f) = Tables(f) + One(e.frame, f)
        BY ZenonT(60), <3>1, <3>3, TableStep DEF Old
      <4> QED
        BY <1>0, <3>2, <3>4, <4>1, SameCounts, OneType
    <3> QED
      BY ZenonT(60), <1>0, <3>4, <3>5, RefsAfter
  <2> QED
    BY Zenon, <1>20, <2>1, <2>2 DEF Allow
<1>21. ASSUME NEW t \in Task, Copy(t) \/ CacheMiss(t) PROVE RefsOk'
  <2>1. Shrunk /\ refs' = Allocated /\ held' = [held EXCEPT ![t] = NewFrame] /\ held[t] = NoFrame /\ pte' = pte
    BY Zenon, <1>21 DEF Copy, CacheMiss, At, Tasks, PlaceOk
  <2>2. ASSUME NEW f \in Frame PROVE refs'[f] = Tables(f)' + Cached(f)' + Hands(f)'
    <3>1. /\ Cached(f)' \in Nat
          /\ refs'[f] = Tables(f) + Cached(f)' + Hands(f) + One(NewFrame, f)
      BY Zenon, <2>1, AllocStep
    <3>2. Hands(f)' \in Nat /\ Hands(f)' + One(held[t], f) = Hands(f) + One(NewFrame, f)
      BY Zenon, <2>1, HandStep
    <3> QED
      BY <1>0, <2>1, <3>1, <3>2, NoneIsNo, SameCounts, OneType
  <2> QED
    BY Zenon, <2>1, <2>2, AllocStep, RefsAfter
<1>22. ASSUME NEW t \in Task, CopyStore(t) PROVE RefsOk'
  <2>0. pc[t] = "store" /\ PlaceOk(t)
    BY Zenon, <1>22 DEF CopyStore, At, Tasks
  <2>1. /\ On(t) \in Mm /\ call[t].page \in Page /\ Old(t) \in Entry
        /\ held[t] \in Frame /\ NoFrame \notin Frame
    BY Zenon, <2>0, CallFacts, NoFrameOut DEF PlaceOk
  <2>2. PICK e \in Entry : e = [frame |-> held[t], w |-> Old(t).w \/ call[t].how = "write"] /\ e.frame = held[t]
    <3>1. [frame |-> held[t], w |-> Old(t).w \/ call[t].how = "write"] \in Entry
      BY ZenonT(60), <2>1, EntryOf
    <3> QED
      BY Zenon, <3>1
  <2>3. /\ pte' = [pte EXCEPT ![On(t)][call[t].page] = e]
        /\ held' = [held EXCEPT ![t] = Old(t).frame] /\ UNCHANGED <<refs, cache>>
    BY ZenonT(60), <1>22, <2>2 DEF CopyStore, SetPte, frameVars
  <2>4. ASSUME NEW f \in Frame PROVE refs'[f] = Tables(f)' + Cached(f)' + Hands(f)'
    <3>1. Tables(f)' \in Nat /\ Tables(f)' + One(Old(t).frame, f) = Tables(f) + One(held[t], f)
      <4>1. Tables(f)' \in Nat /\ Tables(f)' + One(Old(t).frame, f) = Tables(f) + One(e.frame, f)
        BY ZenonT(60), <2>1, <2>3, TableStep DEF Old
      <4> QED
        BY ZenonT(60), <2>2, <4>1
    <3>2. Hands(f)' \in Nat /\ Hands(f)' + One(held[t], f) = Hands(f) + One(Old(t).frame, f)
      BY Zenon, <2>3, HandStep
    <3>3. Cached(f)' = Cached(f) /\ refs'[f] = refs[f]
      BY Zenon, <2>3, SameCounts
    <3>4. One(Old(t).frame, f) \in {0, 1} /\ One(held[t], f) \in {0, 1}
      BY Zenon, OneType
    <3>5. /\ refs[f] = Tables(f) + Cached(f) + Hands(f)
          /\ Tables(f) \in Nat /\ Cached(f) \in Nat /\ Hands(f) \in Nat
      BY ZenonT(60), <1>0
    <3>6. Tables(f)' + Hands(f)' = Tables(f) + Hands(f)
      BY <3>1, <3>2, <3>4, <3>5
    <3> QED
      BY <3>1, <3>2, <3>3, <3>5, <3>6
  <2> QED
    BY ZenonT(60), <1>0, <2>3, <2>4, RefsAfter
<1>23. ASSUME NEW t \in Task, held' = [held EXCEPT ![t] = NoFrame], refs' = Unref(refs, held[t]),
              UNCHANGED <<pte, cache>>
       PROVE RefsOk'
  <2>1. held[t] \in Frame \cup {NoFrame} /\ (held[t] \in Frame => refs[held[t]] > 0)
    BY ZenonT(60), Referred DEF Shape
  <2>2. refs' \in [Frame -> Nat] /\ \A f \in Frame : refs'[f] = refs[f] - One(held[t], f)
    BY ZenonT(60), <1>0, <1>23, <2>1, UnrefFun
  <2>3. ASSUME NEW f \in Frame PROVE refs'[f] = Tables(f)' + Cached(f)' + Hands(f)'
    <3>1. Hands(f)' \in Nat /\ Hands(f)' + One(held[t], f) = Hands(f) + One(NoFrame, f)
      BY Zenon, <1>23, HandStep
    <3>2. /\ refs[f] = Tables(f) + Cached(f) + Hands(f)
          /\ Tables(f) \in Nat /\ Cached(f) \in Nat /\ Hands(f) \in Nat
          /\ Tables(f)' = Tables(f) /\ Cached(f)' = Cached(f)
      BY ZenonT(60), <1>0, <1>23, SameCounts
    <3>3. One(NoFrame, f) = 0 /\ One(held[t], f) \in {0, 1} /\ refs'[f] = refs[f] - One(held[t], f)
      BY ZenonT(60), <2>2, NoneIsNo, OneType
    <3> QED
      BY <3>1, <3>2, <3>3
  <2> QED
    BY ZenonT(60), <2>2, <2>3, RefsAfter
<1>24. ASSUME NEW t \in Task, CopyUnref(t) PROVE RefsOk'
  BY ZenonT(60), <1>23, <1>24 DEF CopyUnref
<1>25. ASSUME NEW t \in Task, CacheHit(t) PROVE RefsOk'
  <2>1. PICK c \in Frame \cup {NoFrame} : c = cache[call[t].page]
    BY ZenonT(60), <1>25, CallFacts DEF CacheHit, At
  <2>2. /\ refs' = Ref(refs, c) /\ held' = [held EXCEPT ![t] = c] /\ held[t] = NoFrame
        /\ UNCHANGED <<pte, cache>>
    BY ZenonT(60), <1>25, <2>1 DEF CacheHit, At, Tasks, PlaceOk
  <2>3. refs' \in [Frame -> Nat] /\ \A f \in Frame : refs'[f] = refs[f] + One(c, f)
    BY ZenonT(60), <1>0, <2>2, RefFun
  <2>4. ASSUME NEW f \in Frame PROVE refs'[f] = Tables(f)' + Cached(f)' + Hands(f)'
    <3>1. Hands(f)' \in Nat /\ Hands(f)' + One(held[t], f) = Hands(f) + One(c, f)
      BY ZenonT(60), <2>2, HandStep
    <3>2. One(c, f) \in {0, 1}
      BY Zenon, OneType
    <3> QED
      BY <1>0, <2>2, <2>3, <3>1, <3>2, NoneIsNo, SameCounts
  <2> QED
    BY Zenon, <2>3, <2>4, RefsAfter
<1>26. ASSUME NEW t \in Task, CacheInsert(t) PROVE RefsOk'
  <2>1. PICK p \in Page : p = call[t].page
    BY ZenonT(60), <1>26, CallFacts DEF CacheInsert, At
  <2>2. /\ cache[p] \in Frame \cup {NoFrame} /\ held[t] \in Frame \cup {NoFrame} /\ pte' = pte
        /\ held[t] \in Frame => refs[held[t]] > 0
    BY ZenonT(60), <1>26, Referred DEF CacheInsert, Shape
  <2>3. CASE UNCHANGED <<refs, cache, held>>
    BY ZenonT(60), <1>1, <2>2, <2>3
  <2>4. CASE refs' = Unref(Ref(refs, cache[p]), held[t]) /\ held' = [held EXCEPT ![t] = cache[p]] /\ cache' = cache
    <3>1. PICK r \in [Frame -> Nat] : r = Ref(refs, cache[p]) /\ \A f \in Frame : r[f] = refs[f] + One(cache[p], f)
      BY <1>0, <2>2, RefFun
    <3>2. held[t] \in Frame => r[held[t]] > 0
      BY <1>0, <2>2, <3>1, OneType
    <3>3. refs' \in [Frame -> Nat] /\ \A f \in Frame : refs'[f] = r[f] - One(held[t], f)
      BY ZenonT(60), <2>2, <2>4, <3>1, <3>2, UnrefFun
    <3>4. ASSUME NEW f \in Frame PROVE refs'[f] = Tables(f)' + Cached(f)' + Hands(f)'
      <4>1. Hands(f)' \in Nat /\ Hands(f)' + One(held[t], f) = Hands(f) + One(cache[p], f)
        BY ZenonT(60), <2>4, HandStep
      <4>2. One(cache[p], f) \in {0, 1} /\ One(held[t], f) \in {0, 1}
        BY Zenon, OneType
      <4>3. Tables(f)' = Tables(f) /\ Cached(f)' = Cached(f)
        BY ZenonT(60), <2>2, <2>4, SameCounts
      <4>4. /\ refs[f] = Tables(f) + Cached(f) + Hands(f)
            /\ Tables(f) \in Nat /\ Cached(f) \in Nat /\ Hands(f) \in Nat
        BY ZenonT(60), <1>0
      <4>5. refs'[f] = refs[f] + One(cache[p], f) - One(held[t], f)
        <5>1. r[f] = refs[f] + One(cache[p], f)
          BY Zenon, <3>1
        <5>2. refs'[f] = r[f] - One(held[t], f)
          BY ZenonT(60), <3>3
        <5> QED
          BY <4>2, <4>4, <5>1, <5>2
      <4>6. Hands(f)' = Hands(f) + One(cache[p], f) - One(held[t], f)
        BY <4>1, <4>2, <4>4
      <4> QED
        BY <4>2, <4>3, <4>4, <4>5, <4>6
    <3> QED
      BY ZenonT(60), <3>3, <3>4, RefsAfter
  <2>5. CASE /\ cache[p] = NoFrame /\ refs' = Ref(refs, held[t])
             /\ cache' = [cache EXCEPT ![p] = held[t]] /\ held' = held
    <3>1. refs' \in [Frame -> Nat] /\ \A f \in Frame : refs'[f] = refs[f] + One(held[t], f)
      BY ZenonT(60), <1>0, <2>2, <2>5, RefFun
    <3>2. ASSUME NEW f \in Frame PROVE refs'[f] = Tables(f)' + Cached(f)' + Hands(f)'
      <4>1. Cached(f)' \in Nat /\ Cached(f)' + One(cache[p], f) = Cached(f) + One(held[t], f)
        BY ZenonT(60), <2>5, CacheStep
      <4>2. One(cache[p], f) = 0 /\ One(held[t], f) \in {0, 1}
        BY ZenonT(60), <2>5, OneType, NoneIsNo
      <4>3. Tables(f)' = Tables(f) /\ Hands(f)' = Hands(f)
        BY ZenonT(60), <2>2, <2>5, SameCounts
      <4> QED
        BY <1>0, <3>1, <4>1, <4>2, <4>3
    <3> QED
      BY ZenonT(60), <3>1, <3>2, RefsAfter
  <2> QED
    BY ZenonT(60), <1>26, <2>1, <2>3, <2>4, <2>5 DEF CacheInsert
<1>27. ASSUME NEW p \in Page, Drop(p) PROVE RefsOk'
  <2>1. cache[p] \in Frame \cup {NoFrame} /\ (cache[p] \in Frame => refs[cache[p]] > 0)
    BY ZenonT(60), Referred DEF Shape
  <2>2. refs' = Unref(refs, cache[p]) /\ cache' = [cache EXCEPT ![p] = NoFrame] /\ UNCHANGED <<pte, held>>
    BY ZenonT(60), <1>27 DEF Drop
  <2>3. refs' \in [Frame -> Nat] /\ \A f \in Frame : refs'[f] = refs[f] - One(cache[p], f)
    BY ZenonT(60), <1>0, <2>1, <2>2, UnrefFun
  <2>4. ASSUME NEW f \in Frame PROVE refs'[f] = Tables(f)' + Cached(f)' + Hands(f)'
    <3>1. Cached(f)' \in Nat /\ Cached(f)' + One(cache[p], f) = Cached(f) + One(NoFrame, f)
      BY ZenonT(60), <2>2, CacheStep
    <3>2. One(cache[p], f) \in {0, 1} /\ One(NoFrame, f) = 0
      BY Zenon, OneType, NoneIsNo
    <3> QED
      BY <1>0, <2>2, <2>3, <3>1, <3>2, SameCounts
  <2> QED
    BY ZenonT(60), <2>3, <2>4, RefsAfter
<1>28. ASSUME NEW t \in Task, NEW p \in Page, ZapPage(t, p) PROVE RefsOk'
  <2>1. PICK m \in Mm : m = On(t)
    BY ZenonT(60), <1>28, CallFacts DEF ZapPage
  <2>2. PICK e \in Entry : e = pte[m][p]
    BY Zenon, TableEntry
  <2>3. e.frame \in Frame \cup {NoFrame} /\ (e.frame \in Frame => refs[e.frame] > 0)
    BY ZenonT(60), <2>2, EntryFacts, Referred
  <2>4. /\ refs' = Unref(refs, e.frame) /\ pte' = [pte EXCEPT ![m][p] = Absent]
        /\ UNCHANGED <<cache, held>> /\ Absent \in Entry
    BY ZenonT(60), <1>28, <2>1, <2>2 DEF ZapPage, Entry
  <2>5. refs' \in [Frame -> Nat] /\ \A f \in Frame : refs'[f] = refs[f] - One(e.frame, f)
    BY ZenonT(60), <1>0, <2>3, <2>4, UnrefFun
  <2>6. ASSUME NEW f \in Frame PROVE refs'[f] = Tables(f)' + Cached(f)' + Hands(f)'
    <3>1. Tables(f)' \in Nat /\ Tables(f)' + One(pte[m][p].frame, f) = Tables(f) + One(Absent.frame, f)
      BY ZenonT(60), <2>4, TableStep
    <3>2. One(e.frame, f) \in {0, 1} /\ One(Absent.frame, f) = 0
      BY Zenon, OneType, NoneIsNo
    <3>3. /\ refs[f] = Tables(f) + Cached(f) + Hands(f)
          /\ Tables(f) \in Nat /\ Cached(f) \in Nat /\ Hands(f) \in Nat
          /\ Hands(f)' = Hands(f) /\ Cached(f)' = Cached(f)
      BY ZenonT(60), <1>0, <2>4, SameCounts
    <3>4. refs'[f] = refs[f] - One(e.frame, f) /\ pte[m][p].frame = e.frame
      BY ZenonT(60), <2>2, <2>5
    <3> QED
      BY <3>1, <3>2, <3>3, <3>4
  <2> QED
    BY ZenonT(60), <2>5, <2>6, RefsAfter
<1>29. ASSUME NEW t \in Task, MapCopy(t) PROVE RefsOk'
  <2>1. /\ On(t) \in Mm /\ call[t].page \in Page /\ held[t] \in Frame \cup {NoFrame}
        /\ held' = [held EXCEPT ![t] = NoFrame]
    BY Zenon, <1>29, CallFacts DEF MapCopy, At
  <2>2. CASE refs' = Unref(refs, held[t]) /\ UNCHANGED <<pte, cache>>
    BY ZenonT(60), <1>23, <2>1, <2>2
  <2>3. CASE /\ Old(t) = Absent /\ Shrunk /\ refs' = Unref(Allocated, held[t])
             /\ SetPte(t, [frame |-> NewFrame, w |-> TRUE])
    <3>1. PICK e \in Entry : e = [frame |-> NewFrame, w |-> TRUE] /\ e.frame = NewFrame
      <4>1. [frame |-> NewFrame, w |-> TRUE] \in Entry
        BY ZenonT(60), <2>3, AllocFrame DEF Entry
      <4> QED
        BY Zenon, <4>1
    <3>2. PICK a \in [Frame -> Nat] : a = Allocated
      BY ZenonT(60), <2>3, AllocStep
    <3>3. ASSUME NEW f \in Frame
          PROVE  /\ Cached(f)' \in Nat /\ One(NewFrame, f) \in {0, 1}
                 /\ a[f] = Tables(f) + Cached(f)' + Hands(f) + One(NewFrame, f)
      BY ZenonT(60), <2>3, <3>2, AllocStep, OneType
    <3>4. held[t] \in Frame => a[held[t]] > 0
      <4>1. ASSUME NEW f \in Frame, held[t] = f PROVE a[f] > 0
        <5>1. Hands(f) > 0
          BY Zenon, <4>1, Counted
        <5>2. Tables(f) \in Nat /\ Hands(f) \in Nat
          BY Zenon, <1>0
        <5> QED
          BY <3>3, <5>1, <5>2
      <4> QED
        BY ZenonT(60), <4>1
    <3>5. refs' \in [Frame -> Nat] /\ \A f \in Frame : refs'[f] = a[f] - One(held[t], f)
      BY ZenonT(60), <2>1, <2>3, <3>2, <3>4, UnrefFun
    <3>6. ASSUME NEW f \in Frame PROVE refs'[f] = Tables(f)' + Cached(f)' + Hands(f)'
      <4>1. pte' = [pte EXCEPT ![On(t)][call[t].page] = e]
        BY ZenonT(60), <2>3, <3>1 DEF SetPte
      <4>2. Tables(f)' \in Nat /\ Tables(f)' + One(Old(t).frame, f) = Tables(f) + One(e.frame, f)
        BY ZenonT(60), <2>1, <4>1, TableStep DEF Old
      <4>3. Hands(f)' \in Nat /\ Hands(f)' + One(held[t], f) = Hands(f) + One(NoFrame, f)
        BY ZenonT(60), <2>1, HandStep
      <4>4. One(Old(t).frame, f) = 0 /\ One(NoFrame, f) = 0 /\ One(held[t], f) \in {0, 1}
        BY Zenon, <2>3, NoneIsNo, OneType
      <4>5. Tables(f) \in Nat /\ Hands(f) \in Nat
        BY Zenon, <1>0
      <4>6. Tables(f)' = Tables(f) + One(NewFrame, f) /\ Hands(f)' = Hands(f) - One(held[t], f)
        BY <3>1, <3>3, <4>2, <4>3, <4>4, <4>5
      <4>7. refs'[f] = a[f] - One(held[t], f)
        BY Zenon, <3>5
      <4> QED
        BY <3>3, <4>4, <4>5, <4>6, <4>7
    <3> QED
      BY ZenonT(60), <3>5, <3>6, RefsAfter
  <2> QED
    BY ZenonT(60), <1>29, <2>2, <2>3 DEF MapCopy
<1>30. ASSUME NEW t \in Task, MapRead(t) PROVE RefsOk'
  <2> DEFINE N(f) == Cardinality({p \in Around(t, cache) : cache[p] = f})
  <2>1. /\ On(t) \in Mm /\ call[t].page \in Page /\ Old(t) \in Entry /\ held[t] \in Frame \cup {NoFrame}
        /\ held' = [held EXCEPT ![t] = NoFrame] /\ cache' = cache
    BY ZenonT(60), <1>30, CallFacts DEF MapRead, At
  <2>2. PICK e \in Entry : /\ e = (IF Old(t) = Absent THEN [frame |-> held[t], w |-> FALSE] ELSE Old(t))
                           /\ e.frame = (IF Old(t) = Absent THEN held[t] ELSE Old(t).frame)
    <3>1. [frame |-> held[t], w |-> FALSE] \in Entry
      BY ZenonT(60), <2>1, EntryOf
    <3> QED
      BY ZenonT(60), <2>1, <3>1
  <2>3. MapAround(t, e, cache)
    BY ZenonT(60), <1>30, <2>2 DEF MapRead
  <2>4. PICK r : r = (IF Old(t) = Absent THEN refs ELSE Unref(refs, held[t]))
    BY ZenonT(60)
  <2>5. /\ r \in [Frame -> Nat]
        /\ \A f \in Frame : r[f] = refs[f] - (IF Old(t) = Absent THEN 0 ELSE One(held[t], f))
    <3>1. held[t] \in Frame => refs[held[t]] > 0
      BY ZenonT(60), Referred
    <3>2. Unref(refs, held[t]) \in [Frame -> Nat] /\ \A f \in Frame : Unref(refs, held[t])[f] = refs[f] - One(held[t], f)
      BY ZenonT(60), <1>0, <2>1, <3>1, UnrefFun
    <3> QED
      BY <1>0, <2>4, <3>2
  <2>6. refs' = [f \in Frame |-> r[f] + N(f)]
    BY ZenonT(60), <1>30, <2>4 DEF MapRead, WithAround
  <2>7. ASSUME NEW f \in Frame
        PROVE  /\ N(f) \in Nat /\ Tables(f)' \in Nat
               /\ Tables(f)' + One(Old(t).frame, f) = Tables(f) + One(e.frame, f) + N(f)
    BY ZenonT(60), <2>1, <2>3, AroundStep
  <2> HIDE DEF N
  <2>8. refs' \in [Frame -> Nat]
    BY <2>5, <2>6, <2>7
  <2>9. ASSUME NEW f \in Frame PROVE refs'[f] = Tables(f)' + Cached(f)' + Hands(f)'
    <3>1. Hands(f)' \in Nat /\ Hands(f)' + One(held[t], f) = Hands(f) + One(NoFrame, f)
      BY ZenonT(60), <2>1, HandStep
    <3>2. /\ One(NoFrame, f) = 0 /\ One(held[t], f) \in {0, 1} /\ One(Old(t).frame, f) \in {0, 1}
          /\ Old(t) = Absent => One(Old(t).frame, f) = 0
      BY ZenonT(60), NoneIsNo, OneType
    <3>3. /\ refs[f] = Tables(f) + Cached(f) + Hands(f)
          /\ Tables(f) \in Nat /\ Cached(f) \in Nat /\ Hands(f) \in Nat /\ Cached(f)' = Cached(f)
      BY ZenonT(60), <1>0, <2>1, SameCounts
    <3>4. refs'[f] = refs[f] - (IF Old(t) = Absent THEN 0 ELSE One(held[t], f)) + N(f)
      BY ZenonT(60), <2>5, <2>6
    <3>5. Hands(f)' = Hands(f) - One(held[t], f)
      BY <3>1, <3>2, <3>3
    <3>6. Tables(f)' = Tables(f) + (IF Old(t) = Absent THEN One(held[t], f) ELSE 0) + N(f)
      <4>0. /\ N(f) \in Nat /\ Tables(f)' \in Nat
            /\ Tables(f)' + One(Old(t).frame, f) = Tables(f) + One(e.frame, f) + N(f)
        BY ZenonT(60), <2>7
      <4>1. CASE Old(t) = Absent
        <5>1. e.frame = held[t] /\ One(Old(t).frame, f) = 0
          BY ZenonT(60), <2>2, <3>2, <4>1
        <5> QED
          BY <3>2, <3>3, <4>0, <4>1, <5>1
      <4>2. CASE Old(t) # Absent
        <5>1. e.frame = Old(t).frame
          BY Zenon, <2>2, <4>2
        <5> QED
          BY <3>2, <3>3, <4>0, <4>2, <5>1
      <4> QED
        BY ZenonT(60), <4>1, <4>2
    <3>7. N(f) \in Nat
      BY Zenon, <2>7
    <3> QED
      BY <3>2, <3>3, <3>4, <3>5, <3>6, <3>7
  <2> QED
    BY ZenonT(60), <2>8, <2>9, RefsAfter
<1>31. ASSUME NEW t \in Task, NEW p \in Page, ForkPage(t, p) PROVE RefsOk'
  <2>01. On(t) \in Mm /\ pc[t] = "fork" /\ p \in left[t]
    BY Zenon, <1>31, CallFacts DEF ForkPage, At, Walks
  <2>02. mm[child[t]] \in Mm /\ pte[mm[child[t]]][p] = Absent /\ On(t) # mm[child[t]]
    BY ZenonT(60), <2>01, BornChild DEF Forks, ForkOk
  <2>1. PICK m \in Mm, n \in Mm : m = On(t) /\ n = mm[child[t]] /\ m # n /\ pte[n][p] = Absent
    BY Zenon, <2>01, <2>02
  <2>2. PICK e \in Entry : e = pte[m][p]
    BY Zenon, TableEntry
  <2>3. PICK x \in Entry, y \in Entry : /\ x = [e EXCEPT !.w = FALSE] /\ x.frame = e.frame
                                       /\ y = [frame |-> e.frame, w |-> FALSE] /\ y.frame = e.frame
    BY Zenon, EntryFacts
  <2>4. PICK q : q = [pte EXCEPT ![m][p] = x]
    BY Zenon
  <2>5. q \in [Mm -> [Page -> Entry]] /\ q[n][p] = Absent
    BY ZenonT(60), <2>1, <2>4 DEF Shape
  <2>6. pte' = [q EXCEPT ![n][p] = y]
    BY ZenonT(60), <1>31, <2>1, <2>2, <2>3, <2>4 DEF ForkPage, Shape
  <2>7. Becomes(pte, q, m, p, x) /\ Becomes(q, pte', n, p, y)
    <3>1. Becomes(pte, q, m, p, x)
      BY ZenonT(60), <2>4 DEF Becomes, Shape
    <3>2. Becomes(q, pte', n, p, y)
      BY Zenon, <2>5, <2>6 DEF Becomes
    <3> QED
      BY Zenon, <3>1, <3>2
  <2>8. e.frame \in Frame \cup {NoFrame} /\ refs' = Ref(refs, e.frame) /\ UNCHANGED <<cache, held>>
    BY ZenonT(60), <1>31, <2>1, <2>2, EntryFacts DEF ForkPage
  <2>9. refs' \in [Frame -> Nat] /\ \A f \in Frame : refs'[f] = refs[f] + One(e.frame, f)
    BY ZenonT(60), <1>0, <2>8, RefFun
  <2>10. ASSUME NEW f \in Frame PROVE refs'[f] = Tables(f)' + Cached(f)' + Hands(f)'
    <3>1. Tables(f) = Cardinality(Tabs(pte, f)) /\ Tables(f)' = Cardinality(Tabs(pte', f))
      BY ZenonT(60) DEF Tables, InTables, Tabs
    <3>2. /\ Cardinality(Tabs(pte, f)) \in Nat /\ Cardinality(Tabs(q, f)) \in Nat
          /\ Cardinality(Tabs(q, f)) + One(pte[m][p].frame, f) = Cardinality(Tabs(pte, f)) + One(x.frame, f)
      BY <2>7, TableCount
    <3>3. /\ Cardinality(Tabs(pte', f)) \in Nat
          /\ Cardinality(Tabs(pte', f)) + One(q[n][p].frame, f) = Cardinality(Tabs(q, f)) + One(y.frame, f)
      BY <2>7, TableCount
    <3>4. One(e.frame, f) \in {0, 1} /\ One(q[n][p].frame, f) = 0
      BY ZenonT(60), <2>5, OneType, NoneIsNo
    <3>5. Cardinality(Tabs(q, f)) = Cardinality(Tabs(pte, f))
      BY <2>2, <2>3, <3>2, <3>4
    <3>6. Tables(f)' = Tables(f) + One(e.frame, f)
      BY <2>3, <3>1, <3>3, <3>4, <3>5
    <3>7. refs[f] = Tables(f) + Cached(f) + Hands(f) /\ Cached(f)' = Cached(f) /\ Hands(f)' = Hands(f)
      BY ZenonT(60), <1>0, <2>8, SameCounts
    <3>8. Tables(f) \in Nat /\ Cached(f) \in Nat /\ Hands(f) \in Nat /\ refs'[f] = refs[f] + One(e.frame, f)
      BY Zenon, <1>0, <2>9
    <3> QED
      BY <3>4, <3>6, <3>7, <3>8
  <2> QED
    BY ZenonT(60), <2>9, <2>10, RefsAfter
<1> QED
  BY ZenonT(60), <1>2, <1>3, <1>4, <1>5, <1>6, <1>7, <1>8, <1>9, <1>10, <1>11, <1>12, <1>13, <1>14, <1>15,
     <1>16, <1>17, <1>18, <1>19, <1>20, <1>21, <1>22, <1>24, <1>25, <1>26, <1>27, <1>28, <1>29,
     <1>30, <1>31 DEF Next, Accesses, Faults, Changes

(* There is one process, which has no page, and nothing is cached.          *)
LEMMA IInvInit == Init => IInv
<1> USE SpaceAssumption
<1> SUFFICES ASSUME Init PROVE IInv
  BY Zenon
<1>1. /\ pc = [t \in Task |-> IF t \in proc.threads THEN "user" ELSE "none"]
      /\ mm = [t \in Task |-> IF t \in proc.threads THEN Mm1 ELSE NoMm]
      /\ call = [t \in Task |-> NoCall] /\ held = [t \in Task |-> NoFrame]
  BY ZenonT(60) DEF Init
<1>2. NoCall \in CallType /\ NoCall.on = NoMm /\ NoCall.how = "read"
  BY ZenonT(60) DEF NoCall, CallType
<1>3. NoFrame \notin Frame /\ Absent \in Entry /\ Absent.frame = NoFrame
  BY Zenon, NoFrameOut DEF Entry, Absent
<1>4. Shape
  BY ZenonT(60), <1>1, <1>2, <1>3 DEF Init, Shape, Blank, Place
<1>5. Tasks
  BY ZenonT(60), <1>1, <1>2 DEF Tasks, PlaceOk, On
<1>6. Forks
  BY Zenon, <1>1 DEF Forks, ForkOk
<1>7. ASSUME NEW f \in Frame PROVE InTables(f) = {} /\ InCache(f) = {} /\ InHands(f) = {}
  <2>1. \A m \in Mm, p \in Page : pte[m][p].frame # f
    BY ZenonT(60), <1>3 DEF Init, Blank
  <2>2. InTables(f) = {}
    BY ZenonT(60), <2>1 DEF InTables
  <2> QED
    BY ZenonT(60), <1>1, <1>3, <2>2 DEF Init, InCache, InHands
<1>8. RefsOk
  <2>1. refs \in [Frame -> Nat] /\ \A f \in Frame : refs[f] = 0
    BY ZenonT(60) DEF Init
  <2> QED
    <3>1. ASSUME NEW f \in Frame
          PROVE  /\ Cardinality(InTables(f)) = 0 /\ Cardinality(InCache(f)) = 0
                 /\ Cardinality(InHands(f)) = 0
      BY Zenon, <1>7, FS_EmptySet
    <3> QED
      BY <2>1, <3>1 DEF RefsOk, RefExact
<1>9. UsersExact
  <2>1. proc.threads \subseteq Task
    BY Zenon DEF Init, Start
  <2>2. IsFiniteSet(proc.threads) /\ Cardinality(proc.threads) \in Nat
    BY ZenonT(60), <2>1, FS_Subset, FS_CardinalityType
  <2>3. ASSUME NEW m \in Mm
        PROVE  users[m] \in Nat /\ users[m] = Cardinality(Members(m)) + Cardinality(Guests(m))
    <3>1. Guests(m) = {}
      BY Zenon, <1>1, <1>2 DEF Guests, Guest, On
    <3>2. Cardinality(Guests(m)) = 0
      BY ZenonT(60), <3>1, FS_EmptySet
    <3>3. CASE m = Mm1
      <4>1. Members(m) = proc.threads
        BY ZenonT(60), <1>1, <2>1, <3>3 DEF Members
      <4> QED
        BY <2>2, <3>2, <3>3, <4>1 DEF Init
    <3>4. CASE m # Mm1
      <4>1. Members(m) = {}
        BY Zenon, <1>1, <3>4 DEF Members
      <4> QED
        BY <3>2, <3>4, <4>1, FS_EmptySet DEF Init
    <3> QED
      BY Zenon, <3>3, <3>4
  <2>4. users \in [Mm -> Nat]
    BY Zenon, <2>2 DEF Init
  <2> QED
    BY ZenonT(60), <2>3, <2>4 DEF UsersExact
<1> QED
  BY ZenonT(60), <1>4, <1>5, <1>6, <1>8, <1>9 DEF IInv

(* Every step keeps the inductive invariant.                                *)
LEMMA IInvNext == IInv /\ [Next]_vars => IInv'
  BY ZenonT(60), LocalNext, UsersNext, ForksNext, RefsNext DEF IInv

(* The reference count of a frame is the number of page table entries, page *)
(* cache pages and faults that refer to it, in every state of any number of *)
(* processes that fault, copy, fork, discard, exit and trace each other     *)
(* while the page cache fills, shrinks and drops pages: page_unref never    *)
(* frees a frame that is in use, and none is lost.                          *)
THEOREM RefsAlwaysExact == Spec => []RefExact
<1>1. IInv => RefExact
  BY ZenonT(60) DEF IInv, RefsOk
<1> QED
  BY <1>1, IInvInit, IInvNext, PTL DEF Spec

(* mm->users is the number of tasks that run in the address space and of    *)
(* those that hold it for ptrace or are about to put it, so that mm_put     *)
(* takes the pages back exactly when the last of them is done.              *)
THEOREM UsersAlwaysExact == Spec => []UsersExact
<1>1. IInv => UsersExact
  BY Zenon DEF IInv
<1> QED
  BY <1>1, IInvInit, IInvNext, PTL DEF Spec
=============================================================================
