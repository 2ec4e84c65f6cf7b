-------------------------- MODULE MCOrderExecution --------------------------
(* Instances of OrderExecution for TLC. *)
EXTENDS OrderExecution, TLC

Symmetry == Permutations(Names) \cup Permutations(Executors)

=============================================================================
