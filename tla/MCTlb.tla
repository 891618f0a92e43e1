------------------------------- MODULE MCTlb --------------------------------
(* Two address spaces with two threads each, on three CPUs. *)
EXTENDS Tlb, TLC

CONSTANTS t1, t2, t3, t4, m1, m2, c1, c2, c3

MmOf == (t1 :> m1) @@ (t2 :> m1) @@ (t3 :> m2) @@ (t4 :> m2)
=============================================================================
