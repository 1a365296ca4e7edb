---------------------------- MODULE PgListProps ----------------------------
(***************************************************************************)
(* What the list functions promise: the properties of module PgList.       *)
(***************************************************************************)
EXTENDS PgList, FiniteSets

\* The lists there are: the caller's, and the one the call builds or frees.
Live == ({var[v] : v \in Vars} \cup {call.result}) \ {NULL}

Blocks(l) == {l} \cup CellsOf(l)

\* Every variable has its type; the length of a list is never 0, because NIL is
\* the only empty list (pg_list.h:60).
TypeOK ==
  /\ heap \subseteq Cells \cup Heads
  /\ data \in [Cells -> Data \cup {NULL}]
  /\ next \in [Cells -> Cells \cup {NULL}]
  /\ length \in [Heads -> (Nat \ {0}) \cup {NULL}]
  /\ head \in [Heads -> Cells \cup {NULL}]
  /\ tail \in [Heads -> Cells \cup {NULL}]
  /\ var \in [Vars -> Heads \cup {NULL}]
  /\ call.at \in {"client", "walk", "copy", "each", "search", "free", "exit"}
  /\ call.result \in Heads \cup {NULL}
  /\ {call.cur, call.prev} \subseteq Cells \cup {NULL}
  /\ spine \in [Heads -> Seq(Cells) \cup {NULL}]

\* check_list_invariants (pg_list.c:25).
CheckListInvariants(l) ==
  l # NULL =>
    /\ length[l] > 0 /\ head[l] # NULL /\ tail[l] # NULL
    /\ length[l] = 1 => head[l] = tail[l]
    /\ length[l] = 2 => next[head[l]] = tail[l]
    /\ next[tail[l]] = NULL

\* No assertion of pg_list.c fails, whatever calls came before:
\* check_list_invariants, the assertion of list_delete_cell that prev precedes
\* cell (line 350), and the assert(false) behind list_truncate's loop (line 271).
AssertionsHold ==
  /\ \A v \in Vars : CheckListInvariants(var[v])
  /\ call.at = "each" /\ call.cur = NULL => CheckListInvariants(call.result)
  /\ Found => IF call.prev # NULL THEN next[call.prev] = call.cur
                                  ELSE head[var[call.v]] = call.cur
  /\ call.at = "walk" => call.cur # NULL

\* What check_list_invariants cannot see: the links lead from the head through
\* as many cells as the length says to the tail, which is the last one.
Linked(l) ==
  LET s == spine[l]
      n == Len(s) IN
  /\ n > 0 /\ length[l] = n /\ head[l] = s[1] /\ tail[l] = s[n]
  /\ \A k \in 1..n : next[s[k]] = IF k = n THEN NULL ELSE s[k + 1]

WellLinked == \A v \in Vars : var[v] # NULL => Linked(var[v])

\* No two lists share a cell, none has a cell twice, and no two variables have
\* one list: freeing one of them does not invalidate another.
NoSharing ==
  /\ \A v, w \in Vars : v # w /\ var[v] # NULL => var[v] # var[w]
  /\ \A l \in Live :
       /\ Cardinality(CellsOf(l)) = Len(spine[l])
       /\ \A m \in Live \ {l} : CellsOf(l) \cap CellsOf(m) = {}

\* A block is allocated exactly as long as one variable, or the call in progress,
\* leads to it: no pointer of the caller, and no link that is followed, leads to
\* a freed block, none is freed twice, and none is lost but those the comments
\* of list_concat and list_truncate leave to the caller.
HeapOwned ==
  /\ NoSharing
  /\ heap = UNION {Blocks(l) : l \in Live}
  /\ {call.cur, call.prev} \ {NULL} \subseteq heap

\* list_nth, and the loops of list_truncate and list_copy_tail, stop at the cell
\* with the index that was asked for, by the shortcut to the tail or by walking.
NthRight ==
  call.at = "walk" /\ call.i = call.n => call.cur = spine[var[call.v]][call.n + 1]

\* The list that the loop in progress goes through, and the cells it has still
\* to visit.
Iterated ==
  IF call.at = "free" THEN call.result
  ELSE IF call.at = "each" /\ call.fn # "difference" THEN var[call.w] ELSE var[call.v]

Ahead ==
  IF call.cur = NULL THEN 0
  ELSE Cardinality({k \in DOMAIN spine[Iterated] :
                      \E j \in 1..k : spine[Iterated][j] = call.cur})

\* The loops of one call, in their order.
Stage == CASE call.at \in {"walk", "search"} -> 1
           [] call.at \in {"copy", "free"}   -> 2
           [] call.at = "each"               -> 3

\* Every loop of pg_list.c ends: each round leaves fewer cells ahead, though
\* lists are modified under way, and also if a function is given one list twice.
LoopsAdvance ==
  [][~Calling =>
       \/ call'.at \in {"client", "exit"}
       \/ Stage' > Stage
       \/ Stage' = Stage /\ Ahead' < Ahead]_vars

\* The abstract value of the variable v.  list_concat_unique changes list1 cell
\* by cell; its caller sees the change when it returns.
ListOf(v) ==
  IF call.fn = "concatUnique" /\ call.v = v THEN call.old ELSE Contents(var[v])

Asked == [f \in {"fn", "v", "w", "x", "n", "d"} |-> call[f]]

Abstract == INSTANCE Lists WITH lists <- [v \in Vars |-> ListOf(v)], asked <- Asked

\* The functions do to the sequences of elements what module Lists says.
Refines == Abstract!Spec
=============================================================================
