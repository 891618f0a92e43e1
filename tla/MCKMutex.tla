----------------------------- MODULE MCKMutex -----------------------------
(* Three tasks: a holder, a queued waiter and a latecomer. *)
EXTENDS KMutex
===========================================================================
