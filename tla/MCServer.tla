------------------------------ MODULE MCServer ------------------------------
(***************************************************************************)
(* Instances of the whole program for TLC.                                 *)
(***************************************************************************)
EXTENDS ServerProps, TLC

\* All connections play the same part, and so do all process ids.
Symmetry == Permutations(Conns) \cup Permutations(Workers)
=============================================================================
