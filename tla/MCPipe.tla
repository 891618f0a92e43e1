------------------------------- MODULE MCPipe -------------------------------
(* Instances of Pipe for TLC. *)
EXTENDS Pipe, TLC
CONSTANTS r1, w1, w2

(* One writer's writes are atomic, the other's are longer than the buffer. *)
Lens == w1 :> {2} @@ w2 :> {4}
=============================================================================
