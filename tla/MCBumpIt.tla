-------------------------------- MODULE MCBumpIt --------------------------------
(* Model-checking instances of BumpIt. *)
EXTENDS BumpIt, TLC

Symmetry == Permutations(Worker) \cup Permutations(Alert) \cup Permutations(Project)
=================================================================================
