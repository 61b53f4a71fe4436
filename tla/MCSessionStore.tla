---------------------------- MODULE MCSessionStore ----------------------------
(* Values for TLC: items, Runs and operationIds are interchangeable. *)
EXTENDS SessionStore, TLC

Symmetry == Permutations(Items) \cup Permutations(Runs) \cup Permutations(Ops)
===============================================================================
