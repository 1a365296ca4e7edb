------------------------------- MODULE Lists -------------------------------
(***************************************************************************)
(* What pg_list.c promises: a List * variable of a caller stands for a     *)
(* finite sequence, NIL for the empty one, and each function of pg_list.h  *)
(* has the effect on these sequences that its comment states.  A function  *)
(* that loops is called in one step and has its effect, all of it, in a    *)
(* later one.  Module PgList, with its cells and links, implements this.   *)
(***************************************************************************)
EXTENDS Integers, SequencesExt

CONSTANTS Vars, Data, NULL

VARIABLES
  lists,  \* lists[v]: the elements of v's list
  asked   \* the function that is being executed, with its arguments

vars == <<lists, asked>>

Nothing == [fn |-> "none", v |-> NULL, w |-> NULL, x |-> NULL, n |-> 0, d |-> NULL]

Loops == {"nth", "truncate", "copyTail", "copy", "union", "difference",
          "concatUnique", "delete"}

Requests == [fn : Loops, v : Vars, w : Vars \cup {NULL}, x : Vars \cup {NULL},
             n : Nat, d : Data \cup {NULL}]

Init == lists = [v \in Vars |-> <<>>] /\ asked = Nothing

Becomes(v, s) == lists' = [lists EXCEPT ![v] = s]

AddUnique(s, d) == IF Contains(s, d) THEN s ELSE Append(s, d)

\* s, when the first k elements of t have been added.
Merging(s, t) ==
  LET merged[k \in 0..Len(t)] ==
        IF k = 0 THEN s ELSE AddUnique(merged[k - 1], t[k])
  IN  merged

Merged(s, t) == Merging(s, t)[Len(t)]

\* What is left of the first k elements of s without those of t.
Sifting(s, t) ==
  LET sifted[k \in 0..Len(s)] ==
        IF k = 0 THEN <<>>
        ELSE IF Contains(t, s[k]) THEN sifted[k - 1] ELSE Append(sifted[k - 1], s[k])
  IN  sifted

Minus(s, t) == Sifting(s, t)[Len(s)]

-----------------------------------------------------------------------------
\* At once.

Lappend(v, d) == Becomes(v, Append(lists[v], d))

Lcons(v, d) == Becomes(v, Cons(d, lists[v]))

LappendCell(v, k, d) == Becomes(v, InsertAt(lists[v], k + 1, d))

DeleteFirst(v) == lists[v] # <<>> /\ Becomes(v, Tail(lists[v]))

\* list_free, and list_truncate to nothing.
Clear(v) == Becomes(v, <<>>)

\* The elements of the second list live on in the first one only.
Concat(v, w) == v # w /\ lists' = [lists EXCEPT ![v] = @ \o lists[w], ![w] = <<>>]

AtOnce ==
  \E v \in Vars :
    \/ \E d \in Data : Lappend(v, d) \/ Lcons(v, d)
    \/ \E d \in Data, k \in DOMAIN lists[v] : LappendCell(v, k, d)
    \/ DeleteFirst(v) \/ Clear(v)
    \/ \E w \in Vars : Concat(v, w)

-----------------------------------------------------------------------------
\* In two steps.

Effect(f, v, w, x, n, d) ==
  CASE f = "nth"           -> UNCHANGED lists
    [] f = "truncate"      -> Becomes(v, SubSeq(lists[v], 1, n + 1))
    [] f = "copyTail"      -> Becomes(x, SubSeq(lists[v], n + 1, Len(lists[v])))
    [] f = "copy"          -> Becomes(x, lists[v])
    [] f = "union"         -> Becomes(x, Merged(lists[v], lists[w]))
    [] f = "difference"    -> Becomes(x, Minus(lists[v], lists[w]))
    [] f = "concatUnique"  -> Becomes(v, Merged(lists[v], lists[w]))
    [] f = "delete"        -> Becomes(v, RemoveFirst(lists[v], d))

Ask == asked = Nothing /\ asked' \in Requests /\ UNCHANGED lists

Answer ==
  /\ asked # Nothing
  /\ Effect(asked.fn, asked.v, asked.w, asked.x, asked.n, asked.d)
  /\ asked' = Nothing

\* The process runs out of memory, or is told to append a list to itself.
End == lists' = [v \in Vars |-> <<>>] /\ asked' = Nothing

Next == (asked = Nothing /\ AtOnce /\ UNCHANGED asked) \/ Ask \/ Answer \/ End

Spec == Init /\ [][Next]_vars
=============================================================================
