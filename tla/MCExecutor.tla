------------------------------- MODULE MCExecutor -------------------------------
(* One Run at a time under its own limits; UnpairedRequest.cfg runs a second    *)
(* one, which starts from the history the first, cut short anywhere, has left. *)
EXTENDS Executor
===============================================================================
