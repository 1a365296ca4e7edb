------------------------------ MODULE MCPgList ------------------------------
(***************************************************************************)
(* An instance of the lists for TLC: addresses are numbers, and the        *)
(* allocator takes the lowest free one, which is reused as soon as it can. *)
(***************************************************************************)
EXTENDS PgListProps, TLC

LowestFree(S) == CHOOSE a \in S : \A b \in S : a <= b

\* No variable and no element is special.
Symmetry == Permutations(Vars) \cup Permutations(Data)
=============================================================================
