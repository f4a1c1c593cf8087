--------------------------- MODULE MCNvidiaToolkit ---------------------------
(* TLC instances of NvidiaToolkit. *)
EXTENDS NvidiaToolkit, TLC

\* Executions are interchangeable in the safety properties.
ProcSymmetry == Permutations(Proc)

=============================================================================
