------------------------------- MODULE MCNode -------------------------------
(* TLC instances of Node. *)
EXTENDS Node, TLC

\* Instances are interchangeable.
ProcSymmetry == Permutations(Proc)

=============================================================================
