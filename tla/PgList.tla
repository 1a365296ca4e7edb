------------------------------- MODULE PgList -------------------------------
(***************************************************************************)
(* pg_list.c and pg_list.h: singly-linked lists of cells under a header    *)
(* with the length, the first and the last cell.  A caller keeps its lists *)
(* in variables and follows the comments of the source: it goes on with    *)
(* the pointer a function returns, forgets list2 after list_concat, and    *)
(* sets a freed list to NIL.  A function that loops takes a step for each  *)
(* round of the loop; call holds its arguments and locals.  The functions  *)
(* for int differ from those for pointers in the type of the data only.    *)
(*                                                                         *)
(* list_concat and list_truncate leave blocks allocated to which nothing   *)
(* points any more.  The model abandons them: nobody can use them again,   *)
(* and how much memory they hold is not accounted for.                     *)
(***************************************************************************)
EXTENDS Integers, Sequences

CONSTANTS
  Cells,    \* addresses a ListCell may have
  Heads,    \* addresses a List may have
  Vars,     \* the caller's variables of type List *
  Data,     \* the elements
  NULL,     \* a null pointer; also NIL
  Fresh(_)  \* which of the free blocks server_alloc takes

ASSUME PgListAssumption ==
  /\ NULL \notin Cells \cup Heads
  /\ Cells \cap Heads = {}
  /\ \A S \in (SUBSET Cells) \cup (SUBSET Heads) : S # {} => Fresh(S) \in S

VARIABLES
  heap,                \* the blocks that are allocated and not abandoned
  data, next,          \* ListCell
  length, head, tail,  \* List
  spine,               \* history: spine[h], the cells that were linked into h
  var,                 \* var[v]: the caller's pointer
  call                 \* the call in progress

cellVars == <<data, next>>
headVars == <<length, head, tail>>
heapVars == <<heap, cellVars, headVars, spine>>
vars     == <<heapVars, var, call>>

\* at: the loop the call is in.  v, w, d, n: the arguments list (or list1),
\* list2, datum, and the size or index; x: the variable that takes the result.
\* old (history): list1 before list_concat_unique.
Idle == [at |-> "client", fn |-> "none", v |-> NULL, w |-> NULL, x |-> NULL,
         d |-> NULL, n |-> 0, i |-> 0, cur |-> NULL, prev |-> NULL,
         result |-> NULL, old |-> <<>>]

Init ==
  /\ heap = {}
  /\ data = [c \in Cells |-> NULL] /\ next = [c \in Cells |-> NULL]
  /\ length = [h \in Heads |-> NULL] /\ spine = [h \in Heads |-> NULL]
  /\ head = [h \in Heads |-> NULL] /\ tail = [h \in Heads |-> NULL]
  /\ var = [v \in Vars |-> NULL]
  /\ call = Idle

Calling == call.at = "client"
Return  == call' = Idle
Assign(v, l) == var' = [var EXCEPT ![v] = l]

list_head(l)   == IF l = NULL THEN NULL ELSE head[l]
list_length(l) == IF l = NULL THEN 0 ELSE length[l]

CellsOf(l)  == {spine[l][k] : k \in DOMAIN spine[l]}
Contents(l) == IF l = NULL THEN <<>> ELSE [k \in DOMAIN spine[l] |-> data[spine[l][k]]]

\* The fields f of blocks, of which those in B are gone.
Without(f, B) == [a \in DOMAIN f |-> IF a \in B THEN NULL ELSE f[a]]

Release(B) ==
  /\ heap' = heap \ B
  /\ data' = Without(data, B) /\ next' = Without(next, B)
  /\ length' = Without(length, B) /\ spine' = Without(spine, B)
  /\ head' = Without(head, B) /\ tail' = Without(tail, B)

\* exit(EXIT_FAILURE)
Exit ==
  /\ Release(heap)
  /\ var' = [v \in Vars |-> NULL]
  /\ call' = [Idle EXCEPT !.at = "exit"]

-----------------------------------------------------------------------------
\* Cells are added and removed.

NewCell == Fresh(Cells \ heap)
NewHead == Fresh(Heads \ heap)

Exhausted(l) == Cells \subseteq heap \/ (l = NULL /\ Heads \subseteq heap)

\* new_list, with the datum its callers fill in and the length list_copy sets.
NewList(d, n) ==
  /\ ~Exhausted(NULL)
  /\ heap' = heap \cup {NewCell, NewHead}
  /\ data' = [data EXCEPT ![NewCell] = d]
  /\ next' = [next EXCEPT ![NewCell] = NULL]
  /\ length' = [length EXCEPT ![NewHead] = n]
  /\ head' = [head EXCEPT ![NewHead] = NewCell]
  /\ tail' = [tail EXCEPT ![NewHead] = NewCell]
  /\ spine' = [spine EXCEPT ![NewHead] = <<NewCell>>]

\* A new cell with datum d becomes the (k+1)-th one of l.
AddCell(l, k, d) ==
  /\ ~Exhausted(l)
  /\ heap' = heap \cup {NewCell}
  /\ data' = [data EXCEPT ![NewCell] = d]
  /\ length' = [length EXCEPT ![l] = @ + 1]
  /\ spine' = [spine EXCEPT ![l] =
                 SubSeq(@, 1, k) \o <<NewCell>> \o SubSeq(@, k + 1, Len(@))]

NewHeadCell(l, d) ==
  /\ AddCell(l, 0, d)
  /\ next' = [next EXCEPT ![NewCell] = head[l]]
  /\ head' = [head EXCEPT ![l] = NewCell]
  /\ UNCHANGED tail

\* Mutant: the last cell is not linked to the new one.
NewTailCellUnlinked(l, d) ==
  /\ AddCell(l, Len(spine[l]), d)
  /\ next' = [next EXCEPT ![NewCell] = NULL]
  /\ tail' = [tail EXCEPT ![l] = NewCell]
  /\ UNCHANGED head

NewTailCell(l, d) ==
  /\ AddCell(l, Len(spine[l]), d)
  /\ next' = [next EXCEPT ![NewCell] = NULL, ![tail[l]] = NewCell]
  /\ tail' = [tail EXCEPT ![l] = NewCell]
  /\ UNCHANGED head

\* Behind the cell p, the k-th one.
AddNewCell(l, p, k, d) ==
  /\ AddCell(l, k, d)
  /\ next' = [next EXCEPT ![NewCell] = next[p], ![p] = NewCell]
  /\ tail' = [tail EXCEPT ![l] = IF @ = p THEN NewCell ELSE @]
  /\ UNCHANGED head

\* lappend on a list that need not be a variable of the caller.
AppendTo(l, d) == IF l = NULL THEN NewList(d, 1) ELSE NewTailCell(l, d)

\* What lappend and lcons return.
Grown(l) == IF l = NULL THEN NewHead ELSE l

\* list_free's loop starts; the caller's variable is NIL from now on.
StartFree(v) ==
  /\ Assign(v, NULL)
  /\ call' = [Idle EXCEPT !.at = "free", !.result = var[v], !.cur = head[var[v]]]
  /\ UNCHANGED heapVars

\* Mutant: the tail stays where it was.
TailKept(l, c, prev) == tail

TailWithout(l, c, prev) == [tail EXCEPT ![l] = IF @ = c THEN prev ELSE @]

\* k cells come before c, the last of them is prev.
Unlink(v, c, prev, k) ==
  LET l == var[v] IN
  /\ length' = [length EXCEPT ![l] = @ - 1]
  /\ IF prev # NULL
     THEN next' = Without([next EXCEPT ![prev] = next[c]], {c}) /\ UNCHANGED head
     ELSE next' = Without(next, {c}) /\ head' = [head EXCEPT ![l] = next[c]]
  /\ tail' = TailWithout(l, c, prev)
  /\ heap' = heap \ {c} /\ data' = Without(data, {c})
  /\ spine' = [spine EXCEPT ![l] = SubSeq(@, 1, k) \o SubSeq(@, k + 2, Len(@))]
  /\ Return
  /\ UNCHANGED var

\* Mutant: the last cell is not a special case.
DeleteCellAlways(v, c, prev, k) == Unlink(v, c, prev, k)

list_delete_cell(v, c, prev, k) ==
  IF length[var[v]] = 1 THEN StartFree(v) ELSE Unlink(v, c, prev, k)

-----------------------------------------------------------------------------
\* The functions without a loop.

lappend(v, d) ==
  Calling /\ AppendTo(var[v], d) /\ Assign(v, Grown(var[v])) /\ UNCHANGED call

lcons(v, d) ==
  /\ Calling
  /\ IF var[v] = NULL THEN NewList(d, 1) ELSE NewHeadCell(var[v], d)
  /\ Assign(v, Grown(var[v]))
  /\ UNCHANGED call

lappend_cell(v, k, d) ==
  /\ Calling /\ var[v] # NULL
  /\ AddNewCell(var[v], spine[var[v]][k], k, d)
  /\ UNCHANGED <<var, call>>

\* Where one list is NIL, the other is returned.  list2's header is abandoned.
list_concat(v, w) ==
  LET l1 == var[v]
      l2 == var[w] IN
  /\ Calling /\ v # w /\ l2 # NULL
  /\ var' = [var EXCEPT ![v] = IF l1 = NULL THEN l2 ELSE l1, ![w] = NULL]
  /\ \/ l1 = NULL /\ UNCHANGED heapVars
     \/ /\ l1 # NULL
        /\ length' = Without([length EXCEPT ![l1] = @ + length[l2]], {l2})
        /\ next' = [next EXCEPT ![tail[l1]] = head[l2]]
        /\ tail' = Without([tail EXCEPT ![l1] = tail[l2]], {l2})
        /\ head' = Without(head, {l2})
        /\ spine' = Without([spine EXCEPT ![l1] = @ \o spine[l2]], {l2})
        /\ heap' = heap \ {l2}
        /\ UNCHANGED data
  /\ UNCHANGED call

\* list_concat(list, list) is an internal error.
ConcatSelf(v) == Calling /\ var[v] # NULL /\ Exit

list_delete_first(v) ==
  Calling /\ var[v] # NULL /\ list_delete_cell(v, head[var[v]], NULL, 0)

\* list_truncate with new_size <= 0 returns NIL; the list is abandoned.
TruncateToNil(v) ==
  /\ Calling /\ var[v] # NULL
  /\ Release({var[v]} \cup CellsOf(var[v]))
  /\ Assign(v, NULL)
  /\ UNCHANGED call

-----------------------------------------------------------------------------
\* Loops that count cells: list_nth, list_truncate, list_copy_tail.

Walk(f, v, n) ==
  [Idle EXCEPT !.at = "walk", !.fn = f, !.v = v, !.n = n, !.cur = head[var[v]]]

\* Mutant: the shortcut is taken for the last but one, too.
TakesShortcutEarly(v, n) == n >= length[var[v]] - 2

TakesShortcut(v, n) == n = length[var[v]] - 1

\* The last cell is not walked to.
list_nth(v, n) ==
  /\ Calling /\ n < list_length(var[v])
  /\ call' = IF TakesShortcut(v, n)
             THEN [Walk("nth", v, n) EXCEPT !.cur = tail[var[v]], !.i = n]
             ELSE Walk("nth", v, n)
  /\ UNCHANGED <<heapVars, var>>

\* new_size = n + 1: the loop stops at the last cell that is kept.
list_truncate(v, n) ==
  /\ Calling /\ n + 1 < list_length(var[v])
  /\ call' = Walk("truncate", v, n)
  /\ UNCHANGED <<heapVars, var>>

list_copy_tail(v, n, x) ==
  /\ Calling /\ n < list_length(var[v]) /\ var[x] = NULL
  /\ NewList(NULL, length[var[v]] - n)
  /\ call' = [Walk("copyTail", v, n) EXCEPT !.x = x, !.result = NewHead]
  /\ UNCHANGED var

WalkOn ==
  /\ call.at = "walk" /\ call.i < call.n
  /\ call' = [call EXCEPT !.cur = next[@], !.i = @ + 1]
  /\ UNCHANGED <<heapVars, var>>

WalkEnds(f) == call.at = "walk" /\ call.i = call.n /\ call.fn = f

NthReturns == WalkEnds("nth") /\ Return /\ UNCHANGED <<heapVars, var>>

\* The cells behind call.cur are abandoned.
Cut ==
  LET l    == var[call.v]
      rest == {spine[l][k] : k \in (call.n + 2)..Len(spine[l])} IN
  /\ WalkEnds("truncate")
  /\ next' = Without(next, rest \cup {call.cur})
  /\ tail' = [tail EXCEPT ![l] = call.cur]
  /\ length' = [length EXCEPT ![l] = call.n + 1]
  /\ spine' = [spine EXCEPT ![l] = SubSeq(@, 1, call.n + 1)]
  /\ heap' = heap \ rest /\ data' = Without(data, rest)
  /\ Return
  /\ UNCHANGED <<head, var>>

SkipEnds ==
  /\ WalkEnds("copyTail")
  /\ data' = [data EXCEPT ![head[call.result]] = data[call.cur]]
  /\ call' = [call EXCEPT !.at = "copy", !.prev = head[call.result], !.cur = next[@]]
  /\ UNCHANGED <<heap, next, headVars, spine, var>>

-----------------------------------------------------------------------------
\* list_copy, and the copy that list_union and list_difference make.

StartCopy(f, v, w, x) ==
  LET first == head[var[v]] IN
  /\ NewList(data[first], length[var[v]])
  /\ call' = [Idle EXCEPT !.at = "copy", !.fn = f, !.v = v, !.w = w, !.x = x,
                          !.result = NewHead, !.prev = NewCell, !.cur = next[first]]
  /\ UNCHANGED var

list_copy(v, x) ==
  Calling /\ var[v] # NULL /\ var[x] = NULL /\ StartCopy("copy", v, NULL, x)

CopyCell ==
  /\ call.at = "copy" /\ call.cur # NULL
  /\ ~Exhausted(call.result)
  /\ heap' = heap \cup {NewCell}
  /\ data' = [data EXCEPT ![NewCell] = data[call.cur]]
  /\ next' = [next EXCEPT ![NewCell] = NULL, ![call.prev] = NewCell]
  /\ spine' = [spine EXCEPT ![call.result] = Append(@, NewCell)]
  /\ call' = [call EXCEPT !.prev = NewCell, !.cur = next[@]]
  /\ UNCHANGED <<headVars, var>>

\* list_union goes on with list2.
CopyEnds ==
  /\ call.at = "copy" /\ call.cur = NULL
  /\ next' = [next EXCEPT ![call.prev] = NULL]
  /\ tail' = [tail EXCEPT ![call.result] = call.prev]
  /\ \/ /\ call.fn = "union"
        /\ call' = [call EXCEPT !.at = "each", !.prev = NULL, !.cur = list_head(var[call.w])]
        /\ UNCHANGED var
     \/ call.fn # "union" /\ Assign(call.x, call.result) /\ Return
  /\ UNCHANGED <<heap, data, length, head, spine>>

-----------------------------------------------------------------------------
\* Loops over the cells of one list that search another one.

Each(f, v, w, x, result, over) ==
  /\ call' = [Idle EXCEPT !.at = "each", !.fn = f, !.v = v, !.w = w, !.x = x,
                          !.result = result, !.cur = list_head(over),
                          !.old = IF f = "concatUnique" THEN Contents(result) ELSE <<>>]
  /\ UNCHANGED <<heapVars, var>>

list_union(v, w, x) ==
  /\ Calling /\ var[x] = NULL
  /\ \/ var[v] # NULL /\ StartCopy("union", v, w, x)
     \/ var[v] = NULL /\ Each("union", v, w, x, NULL, var[w])

list_difference(v, w, x) ==
  /\ Calling /\ var[x] = NULL /\ var[v] # NULL
  /\ \/ var[w] = NULL /\ StartCopy("difference", v, w, x)
     \/ var[w] # NULL /\ Each("difference", v, w, x, NULL, var[v])

list_concat_unique(v, w) == Calling /\ Each("concatUnique", v, w, v, var[v], var[w])

\* The cells that foreach visits: it follows the links until it finds NULL.
Visited(l) ==
  LET Closed(S) == {list_head(l)} \cup {next[c] : c \in S} \subseteq S \cup {NULL}
  IN  {c \in Cells : \A S \in SUBSET Cells : Closed(S) => c \in S}

list_member(l, d) == \E c \in Visited(l) : data[c] = d

\* Mutant: list_difference looks for duplicates, like list_union.
SearchedResult == call.result

Searched == IF call.fn = "difference" THEN var[call.w] ELSE call.result

EachFound ==
  /\ call.at = "each" /\ call.cur # NULL /\ list_member(Searched, data[call.cur])
  /\ call' = [call EXCEPT !.cur = next[@]]
  /\ UNCHANGED <<heapVars, var>>

\* Mutant: nothing is looked for.
MissingUnchecked == call.at = "each" /\ call.cur # NULL

Missing ==
  call.at = "each" /\ call.cur # NULL /\ ~list_member(Searched, data[call.cur])

\* The loop goes on from call.cur after the list has grown.
EachMissing ==
  /\ Missing
  /\ AppendTo(call.result, data[call.cur])
  /\ call' = [call EXCEPT !.result = Grown(@), !.cur = next'[@]]
  /\ UNCHANGED var

EachEnds ==
  /\ call.at = "each" /\ call.cur = NULL
  /\ Assign(call.x, call.result)
  /\ Return
  /\ UNCHANGED heapVars

list_append_unique(v, d) == ~list_member(var[v], d) /\ lappend(v, d)

-----------------------------------------------------------------------------
\* list_delete_ptr and list_free

list_delete(v, d) ==
  /\ Calling /\ var[v] # NULL
  /\ call' = [Idle EXCEPT !.at = "search", !.fn = "delete", !.v = v, !.d = d,
                          !.cur = head[var[v]]]
  /\ UNCHANGED <<heapVars, var>>

Found == call.at = "search" /\ call.cur # NULL /\ data[call.cur] = call.d

SearchOn ==
  /\ call.at = "search" /\ call.cur # NULL /\ ~Found
  /\ call' = [call EXCEPT !.prev = call.cur, !.cur = next[@], !.i = @ + 1]
  /\ UNCHANGED <<heapVars, var>>

SearchFinds == Found /\ list_delete_cell(call.v, call.cur, call.prev, call.i)

SearchFails ==
  /\ call.at = "search" /\ call.cur = NULL
  /\ Return
  /\ UNCHANGED <<heapVars, var>>

list_free(v) == Calling /\ var[v] # NULL /\ StartFree(v)

\* Mutant: the link is read from the freed cell.
FreeCellFirst ==
  /\ call.at = "free" /\ call.cur # NULL
  /\ heap' = heap \ {call.cur}
  /\ data' = Without(data, {call.cur}) /\ next' = Without(next, {call.cur})
  /\ call' = [call EXCEPT !.cur = next'[@]]
  /\ spine' = [spine EXCEPT ![call.result] = Tail(@)]
  /\ UNCHANGED <<headVars, var>>

\* The link is read before the cell is freed.
FreeCell ==
  /\ call.at = "free" /\ call.cur # NULL
  /\ call' = [call EXCEPT !.cur = next[@]]
  /\ heap' = heap \ {call.cur}
  /\ data' = Without(data, {call.cur}) /\ next' = Without(next, {call.cur})
  /\ spine' = [spine EXCEPT ![call.result] = Tail(@)]
  /\ UNCHANGED <<headVars, var>>

FreeEnds ==
  /\ call.at = "free" /\ call.cur = NULL
  /\ Release({call.result})
  /\ Return
  /\ UNCHANGED var

-----------------------------------------------------------------------------
\* server_alloc calls exit.
OutOfMemory ==
  /\ \/ Calling /\ \E v \in Vars : Exhausted(var[v])
     \/ call.at = "copy" /\ call.cur # NULL /\ Exhausted(call.result)
     \/ Missing /\ Exhausted(call.result)
  /\ Exit

LoopStep ==
  \/ WalkOn \/ NthReturns \/ Cut \/ SkipEnds
  \/ CopyCell \/ CopyEnds
  \/ EachFound \/ EachMissing \/ EachEnds
  \/ SearchOn \/ SearchFinds \/ SearchFails
  \/ FreeCell \/ FreeEnds
  \/ ~Calling /\ OutOfMemory

Call ==
  \/ \E v \in Vars :
       \/ ConcatSelf(v) \/ list_delete_first(v) \/ TruncateToNil(v) \/ list_free(v)
       \/ \E d \in Data :
            \/ lappend(v, d) \/ lcons(v, d) \/ list_append_unique(v, d) \/ list_delete(v, d)
            \/ \E k \in 1..list_length(var[v]) : lappend_cell(v, k, d)
       \/ \E n \in 0..list_length(var[v]) : list_truncate(v, n) \/ list_nth(v, n)
       \/ \E w \in Vars : list_concat(v, w) \/ list_concat_unique(v, w)
  \/ \E v, x \in Vars :
       \/ list_copy(v, x)
       \/ \E n \in 0..list_length(var[v]) : list_copy_tail(v, n, x)
       \/ \E w \in Vars : list_union(v, w, x) \/ list_difference(v, w, x)
  \/ Calling /\ OutOfMemory

Next == Call \/ LoopStep

Spec == Init /\ [][Next]_vars
=============================================================================
