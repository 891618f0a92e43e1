--------------------------- MODULE MCAddressSpace ---------------------------
(* The processes AddressSpace is checked for: two threads and one page that *)
(* is anonymous or of a file, one thread and two pages.  What is in a free  *)
(* frame makes no difference to a state (no TLB has one: ReachesOwn).         *)
EXTENDS AddressSpace

CONSTANTS t1, t2, c1, m1, m2

Anon == [vma |-> <<"anon", "none">>, threads |-> {t1, t2}, fork |-> {t1},
         discard |-> {c1}, exit |-> {t2, c1}, trace |-> {c1}]
OfFile == [vma |-> <<"file", "none">>, threads |-> {t1, t2}, fork |-> {t1},
           discard |-> {}, exit |-> {c1}, trace |-> {}]
Two == [vma |-> <<"anon", "file">>, threads |-> {t1}, fork |-> {t1},
        discard |-> {}, exit |-> {c1}, trace |-> {}]
Traced == [vma |-> <<"file", "none">>, threads |-> {t1}, fork |-> {t1},
           discard |-> {}, exit |-> {c1}, trace |-> {t1, c1}]
Files == [vma |-> <<"file", "file">>, threads |-> {t1}, fork |-> {},
          discard |-> {t1}, exit |-> {t1}, trace |-> {}]
Processes == {Anon, OfFile, Two, Traced, Files}

View == <<proc, refs, [f \in Frame |-> IF refs[f] = 0 THEN Zero ELSE data[f]],
          cache, pte, users, lock, mm, tlb, pc, call, held, walkVars>>
=============================================================================
