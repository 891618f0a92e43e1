--------------------------- MODULE MCPthreadJoin ---------------------------
(* Owners and threads of pthread_create, pthread_join and pthread_detach   *)
(* for TLC.                                                                *)
EXTENDS PthreadJoin

Words == Thread \X {"done", "tid"}
DoneWord(t) == <<t, "done">>
TidWord(t) == <<t, "tid">>
=============================================================================
