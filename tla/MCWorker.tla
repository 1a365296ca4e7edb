------------------------------ MODULE MCWorker ------------------------------
(***************************************************************************)
(* Instances of the worker processes for TLC.                              *)
(***************************************************************************)
EXTENDS WorkerProps, TLC

\* All connections play the same part, and so do all workers.
ConnSymmetry == Permutations(Conns)
Symmetry     == ConnSymmetry \cup Permutations(Workers)
=============================================================================
