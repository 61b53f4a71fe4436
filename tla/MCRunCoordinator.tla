--------------------------- MODULE MCRunCoordinator ---------------------------
(* Values for TLC: items and Runs are interchangeable. *)
EXTENDS RunCoordinator, TLC

Symmetry == Permutations(Items) \cup Permutations(Runs)
===============================================================================
