------------------------------- MODULE MCRunStream -------------------------------
(* A chain of up to two Runs whose connections break, fill up and are renewed. *)
EXTENDS RunStream
===============================================================================
