--------------------------- MODULE MCRunLifecycle ---------------------------
(* Model values and symmetry for the runs of RunLifecycle. *)
EXTENDS RunLifecycle, TLC
CONSTANTS w1, w2, t1, t2, v1, v2, approve, veto
WorkerSymmetry == Permutations(Workers)
Symmetry == Permutations(Workers) \cup Permutations(Opinions)
=============================================================================
