----------------------------- MODULE MCExecutor -----------------------------
(* Four tasks and a queue of three: spawn and a wake can each find it full. *)
EXTENDS Executor
=============================================================================
