-------------------------- MODULE MCStitchWorkflow --------------------------
(* Instances of StitchWorkflow for TLC. *)
EXTENDS StitchWorkflow, TLC

Symmetry == Permutations(Agg)

=============================================================================
