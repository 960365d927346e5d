------------------------ MODULE MCExecutionRegistry ------------------------
(* ExecutionRegistry for TLC: release groups are interchangeable.          *)
EXTENDS ExecutionRegistry, TLC

Symmetry == Permutations(Groups)
=============================================================================
