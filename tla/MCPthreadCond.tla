---------------------------- MODULE MCPthreadCond ----------------------------
(* Instances of PthreadCond for TLC. *)
EXTENDS PthreadCond

Words == {M, C}
==============================================================================
