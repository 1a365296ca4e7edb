---------------------------- MODULE PgListProofs ----------------------------
(***************************************************************************)
(* Proofs about the lists, for any number of variables, cells, headers and *)
(* elements, and any way in which the allocator reuses blocks.             *)
(*                                                                         *)
(* The history spine makes the links of a list a statement about each of   *)
(* its cells: what a step does to a list is an operation on a sequence.    *)
(* The first part is about those sequences, the second about a heap of     *)
(* lists; then the steps are taken one by one.                             *)
(***************************************************************************)
EXTENDS PgListProps, SequenceTheorems, FiniteSetTheorems, WellFoundedInduction, TLAPS

-----------------------------------------------------------------------------
\* The invariant.

Members(s)  == {s[k] : k \in DOMAIN s}
Distinct(s) == \A i, j \in DOMAIN s : s[i] = s[j] => i = j

\* The k-th cell of s; before and behind s there is nothing.
Nth(s, k) == IF k \in 1..Len(s) THEN s[k] ELSE NULL

Chained(s, nx) == \A k \in 1..Len(s) : nx[s[k]] = Nth(s, k + 1)

\* The lists L, and nothing else, are in the heap h: they share no cell, and their
\* links nx follow their spines sp.
Heap(L, h, sp, nx) ==
  /\ L \subseteq Heads /\ h \subseteq Cells \cup Heads
  /\ sp \in [Heads -> Seq(Cells) \cup {NULL}] /\ nx \in [Cells -> Cells \cup {NULL}]
  /\ \A l \in L : sp[l] \in Seq(Cells) /\ Distinct(sp[l]) /\ Chained(sp[l], nx)
  /\ \A l, m \in L : l # m => Members(sp[l]) \cap Members(sp[m]) = {}
  /\ \A b \in Cells \cup Heads : b \in h <=> b \in L \/ \E l \in L : b \in Members(sp[l])

\* The header l fits the cells s.
Header(s, l, ln, hd, tl) ==
  Len(s) > 0 /\ ln[l] = Len(s) /\ hd[l] = s[1] /\ tl[l] = s[Len(s)]

FunctionNames ==
  {"none", "nth", "truncate", "copyTail", "copy", "union", "difference",
   "concatUnique", "delete"}

Calls ==
  [at : {"client", "walk", "copy", "each", "search", "free", "exit"}, fn : FunctionNames,
   v : Vars \cup {NULL}, w : Vars \cup {NULL}, x : Vars \cup {NULL},
   d : Data \cup {NULL}, n : Nat, i : Nat,
   cur : Cells \cup {NULL}, prev : Cells \cup {NULL}, result : Heads \cup {NULL},
   old : Seq(Data \cup {NULL})]

Fields ==
  /\ data \in [Cells -> Data \cup {NULL}]
  /\ length \in [Heads -> (Nat \ {0}) \cup {NULL}]
  /\ head \in [Heads -> Cells \cup {NULL}] /\ tail \in [Heads -> Cells \cup {NULL}]
  /\ var \in [Vars -> Heads \cup {NULL}]
  /\ call \in Calls

\* The caller's lists are complete, and each is in one variable.
Variables ==
  /\ \A v \in Vars : var[v] # NULL => Header(spine[var[v]], var[v], length, head, tail)
  /\ \A v, w \in Vars : v # w /\ var[v] # NULL => var[v] # var[w]

\* No variable leads to the list that the call builds or frees.
Private == call.result # NULL /\ \A v \in Vars : var[v] # call.result

Source == spine[var[call.v]]
Built  == spine[call.result]

\* The result goes to a variable that is NIL; otherwise its list would be lost.
Returns == call.x \in Vars /\ var[call.x] = NULL

Walking ==
  /\ call.v \in Vars /\ var[call.v] # NULL
  /\ call.i <= call.n /\ call.n < Len(Source)
  /\ call.cur = Nth(Source, call.i + 1) /\ call.prev = NULL
  /\ \/ call.fn \in {"nth", "truncate"} /\ call.result = NULL
     \/ /\ call.fn = "copyTail" /\ Private /\ Returns
        /\ Len(Built) = 1 /\ head[call.result] = Built[1]
        /\ length[call.result] = Len(Source) - call.n

\* The length of the copy counts the cells that are still to be copied, too.
Copying ==
  /\ call.fn \in {"copyTail", "copy", "union", "difference"}
  /\ call.v \in Vars /\ var[call.v] # NULL /\ Private /\ Returns
  /\ call.fn = "union" => call.w \in Vars
  /\ Len(Built) > 0 /\ head[call.result] = Built[1] /\ call.prev = Built[Len(Built)]
  /\ \E p \in 2..(Len(Source) + 1) :
       /\ call.cur = Nth(Source, p)
       /\ length[call.result] = Len(Built) + Len(Source) + 1 - p

Visiting ==
  /\ call.fn \in {"union", "difference", "concatUnique"}
  /\ call.w \in Vars /\ call.x \in Vars /\ call.v \in Vars /\ call.prev = NULL
  /\ call.result # NULL => Header(Built, call.result, length, head, tail)
  /\ IF call.fn = "concatUnique"
     THEN call.x = call.v /\ (call.result = var[call.v] \/ (var[call.v] = NULL /\ Private))
     ELSE var[call.x] = NULL /\ (call.result = NULL \/ Private)
  /\ call.cur # NULL =>
       Iterated # NULL /\ \E p \in 1..Len(spine[Iterated]) : call.cur = spine[Iterated][p]

Searching ==
  /\ call.v \in Vars /\ var[call.v] # NULL /\ call.result = NULL
  /\ call.i <= Len(Source)
  /\ call.cur = Nth(Source, call.i + 1) /\ call.prev = Nth(Source, call.i)

Freeing == Private /\ call.cur = Nth(Built, 1) /\ call.prev = NULL

Progress ==
  /\ call.at = "client" => call = Idle
  /\ call.at = "exit"   => call = [Idle EXCEPT !.at = "exit"]
  /\ call.at = "walk"   => Walking
  /\ call.at = "copy"   => Copying
  /\ call.at = "each"   => Visiting
  /\ call.at = "search" => Searching
  /\ call.at = "free"   => Freeing

IInv == Fields /\ Heap(Live, heap, spine, next) /\ Variables /\ Progress

-----------------------------------------------------------------------------
\* Sequences of cells.

LEMMA MemberFacts ==
  ASSUME NEW s \in Seq(Cells)
  PROVE  /\ Members(s) \subseteq Cells
         /\ Len(s) \in Nat /\ DOMAIN s = 1..Len(s)
         /\ \A k \in 1..Len(s) : s[k] \in Cells /\ s[k] \in Members(s)
         /\ \A c \in Members(s) : \E k \in 1..Len(s) : c = s[k]
         /\ \A k \in Int : Nth(s, k) \in Cells \cup {NULL}
         /\ NULL \notin Members(s)
  <1>1. Len(s) \in Nat /\ DOMAIN s = 1..Len(s) /\ \A k \in 1..Len(s) : s[k] \in Cells
    BY LenProperties
  <1> QED  BY <1>1, PgListAssumption DEF Members, Nth

Insert(s, k, c) == SubSeq(s, 1, k) \o <<c>> \o SubSeq(s, k + 1, Len(s))

LEMMA InsertElements ==
  ASSUME NEW s \in Seq(Cells), NEW k \in 0..Len(s), NEW c \in Cells
  PROVE  /\ Insert(s, k, c) \in Seq(Cells) /\ Len(Insert(s, k, c)) = Len(s) + 1
         /\ \A j \in 1..(Len(s) + 1) :
              Insert(s, k, c)[j] = IF j <= k THEN s[j]
                                   ELSE IF j = k + 1 THEN c ELSE s[j - 1]
  <1> DEFINE a == SubSeq(s, 1, k)
             b == <<c>>
             d == SubSeq(s, k + 1, Len(s))
             ab == a \o b
  <1>1. Len(s) \in Nat /\ \A j \in 1..Len(s) : s[j] \in Cells  BY LenProperties
  <1>2. a \in Seq(Cells) /\ Len(a) = k /\ \A j \in 1..k : a[j] = s[j]
    BY <1>1, SubSeqProperties
  <1>3. b \in Seq(Cells) /\ Len(b) = 1 /\ b[1] = c  OBVIOUS
  <1>4. /\ d \in Seq(Cells) /\ Len(d) = Len(s) - k
        /\ \A j \in 1..(Len(s) - k) : d[j] = s[k + j]
    <2>1. \A j \in (k + 1)..Len(s) : s[j] \in Cells  BY <1>1
    <2>2. k + 1 \in 1..(Len(s) + 1)  BY <1>1
    <2> QED  BY <1>1, <2>1, <2>2, SubSeqProperties
  <1> HIDE DEF a, b, d
  <1>5. /\ ab \in Seq(Cells) /\ Len(ab) = k + 1
        /\ \A j \in 1..(k + 1) : ab[j] = IF j <= k THEN a[j] ELSE b[j - k]
    <2>1. /\ a \o b \in Seq(Cells) /\ Len(a \o b) = Len(a) + Len(b)
          /\ \A j \in 1..(Len(a) + Len(b)) :
               (a \o b)[j] = IF j <= Len(a) THEN a[j] ELSE b[j - Len(a)]
      BY <1>2, <1>3, ConcatProperties
    <2> QED  BY <1>2, <1>3, <2>1
  <1> HIDE DEF ab
  <1>6. /\ ab \o d \in Seq(Cells) /\ Len(ab \o d) = Len(s) + 1
        /\ \A j \in 1..(Len(s) + 1) : (ab \o d)[j] = IF j <= k + 1 THEN ab[j] ELSE d[j - (k + 1)]
    BY <1>1, <1>4, <1>5, ConcatProperties
  <1>7. Insert(s, k, c) = ab \o d  BY DEF Insert, a, b, d, ab
  <1> DEFINE t == Insert(s, k, c)
  <1> HIDE DEF t
  <1>8. ASSUME NEW j \in 1..(Len(s) + 1)
        PROVE  (ab \o d)[j] = IF j <= k THEN s[j] ELSE IF j = k + 1 THEN c ELSE s[j - 1]
    <2>1. CASE j <= k  BY <2>1, <1>1, <1>2, <1>5, <1>6
    <2>2. CASE j = k + 1
      <3>1. j - k = 1  BY <2>2
      <3> QED  BY <2>2, <3>1, <1>1, <1>3, <1>5, <1>6
    <2>3. CASE j > k + 1
      <3>1. j - (k + 1) \in 1..(Len(s) - k) /\ k + (j - (k + 1)) = j - 1  BY <2>3, <1>1
      <3>2. d[j - (k + 1)] = s[j - 1]  BY <3>1, <1>4
      <3> QED  BY <2>3, <3>2, <1>1, <1>6
    <2>4. j \in Int /\ k \in Int  OBVIOUS
    <2>5. j <= k \/ j = k + 1 \/ j > k + 1  BY <2>4
    <2> QED  BY <2>1, <2>2, <2>3, <2>5
  <1> QED  BY <1>6, <1>7, <1>8

LEMMA InsertMembers ==
  ASSUME NEW s \in Seq(Cells), NEW k \in 0..Len(s), NEW c \in Cells
  PROVE  /\ Members(Insert(s, k, c)) = Members(s) \cup {c}
         /\ Distinct(s) /\ c \notin Members(s) => Distinct(Insert(s, k, c))
  <1> DEFINE t == Insert(s, k, c)
  <1>1. /\ t \in Seq(Cells) /\ Len(t) = Len(s) + 1
        /\ \A j \in 1..(Len(s) + 1) :
             t[j] = IF j <= k THEN s[j] ELSE IF j = k + 1 THEN c ELSE s[j - 1]
    BY InsertElements
  <1> HIDE DEF t
  <1>2. /\ DOMAIN t = 1..(Len(s) + 1) /\ DOMAIN s = 1..Len(s) /\ Len(s) \in Nat
        /\ k \in Int
    BY <1>1, LenProperties
  <1>3. \A j \in 1..(Len(s) + 1) :
          \/ j <= k /\ j \in 1..Len(s) /\ t[j] = s[j]
          \/ j = k + 1 /\ t[j] = c
          \/ j > k + 1 /\ j - 1 \in 1..Len(s) /\ t[j] = s[j - 1]
    BY <1>1, <1>2
  <1>4. Members(t) \subseteq Members(s) \cup {c}  BY <1>2, <1>3 DEF Members
  <1>5. c \in Members(t)
    <2>1. k + 1 \in 1..(Len(s) + 1) /\ t[k + 1] = c  BY <1>1, <1>2
    <2> QED  BY <2>1, <1>2 DEF Members
  <1>6. ASSUME NEW j \in 1..Len(s) PROVE s[j] \in Members(t)
    <2>1. j <= k => j \in 1..(Len(s) + 1) /\ t[j] = s[j]  BY <1>1, <1>2
    <2>2. ~ (j <= k) => j + 1 \in 1..(Len(s) + 1) /\ t[j + 1] = s[j]
      <3>1. (j + 1) - 1 = j  OBVIOUS
      <3> QED  BY <1>1, <1>2, <3>1
    <2> QED  BY <2>1, <2>2, <1>2 DEF Members
  <1>7. Members(t) = Members(s) \cup {c}  BY <1>2, <1>4, <1>5, <1>6 DEF Members
  <1>8. ASSUME Distinct(s), c \notin Members(s) PROVE Distinct(t)
    <2>1. \A j \in 1..Len(s) : s[j] # c  BY <1>2, <1>8 DEF Members
    <2>2. \A i, j \in 1..Len(s) : s[i] = s[j] => i = j  BY <1>2, <1>8 DEF Distinct
    <2>3. ASSUME NEW i \in 1..(Len(s) + 1), NEW j \in 1..(Len(s) + 1), t[i] = t[j]
          PROVE  i = j
      <3>1. CASE i <= k  BY <3>1, <1>2, <1>3, <2>1, <2>2, <2>3
      <3>2. CASE i = k + 1  BY <3>2, <1>2, <1>3, <2>1, <2>2, <2>3
      <3>3. CASE i > k + 1  BY <3>3, <1>2, <1>3, <2>1, <2>2, <2>3
      <3> QED  BY <3>1, <3>2, <3>3, <1>2
    <2> QED  BY <2>3, <1>2 DEF Distinct
  <1> QED  BY <1>7, <1>8 DEF t

LEMMA InsertChained ==
  ASSUME NEW s \in Seq(Cells), NEW k \in 0..Len(s), NEW c \in Cells, NEW nx, NEW nx2,
         Distinct(s), Chained(s, nx), c \notin Members(s),
         nx2[c] = Nth(s, k + 1),
         k > 0 => nx2[s[k]] = c,
         \A j \in 1..Len(s) : j # k => nx2[s[j]] = nx[s[j]]
  PROVE  Chained(Insert(s, k, c), nx2)
  <1> DEFINE t == Insert(s, k, c)
  <1>1. /\ t \in Seq(Cells) /\ Len(t) = Len(s) + 1
        /\ \A j \in 1..(Len(s) + 1) :
             t[j] = IF j <= k THEN s[j] ELSE IF j = k + 1 THEN c ELSE s[j - 1]
    BY InsertElements
  <1> HIDE DEF t
  <1>2. Len(s) \in Nat /\ k \in Int  BY LenProperties
  <1>3. \A j \in 1..Len(s) : nx[s[j]] = Nth(s, j + 1)  BY DEF Chained
  <1>4. ASSUME NEW j \in 1..(Len(s) + 1) PROVE nx2[t[j]] = Nth(t, j + 1)
    <2>1. CASE j < k
      <3>1. j \in 1..Len(s) /\ j + 1 \in 1..Len(s) /\ j # k  BY <2>1, <1>2
      <3>2. t[j] = s[j]  BY <3>1, <2>1, <1>1, <1>2
      <3>4. t[j + 1] = s[j + 1]
        <4>1. j + 1 <= k /\ j + 1 \in 1..(Len(s) + 1)  BY <2>1, <1>2
        <4> QED  BY <4>1, <1>1
      <3>3. nx2[t[j]] = s[j + 1]  BY <3>1, <3>2, <1>3 DEF Nth
      <3> QED  BY <3>1, <3>2, <3>3, <3>4, <1>1, <1>2 DEF Nth
    <2>2. CASE j = k
      <3>1. t[j] = s[k] /\ t[j + 1] = c /\ k > 0 /\ j + 1 \in 1..(Len(s) + 1)
        BY <2>2, <1>1, <1>2
      <3> QED  BY <3>1, <1>1 DEF Nth
    <2>3. CASE j = k + 1
      <3>1. t[j] = c  BY <2>3, <1>1, <1>2
      <3>2. CASE j = Len(s) + 1
        <4>1. k + 1 \notin 1..Len(s) /\ j + 1 \notin 1..(Len(s) + 1)  BY <3>2, <2>3, <1>2
        <4> QED  BY <3>1, <4>1, <1>1 DEF Nth
      <3>3. CASE j # Len(s) + 1
        <4>1. k + 1 \in 1..Len(s) /\ j + 1 \in 1..(Len(s) + 1)  BY <3>3, <2>3, <1>2
        <4>2. t[j + 1] = s[k + 1]
          <5>1. (j + 1) - 1 = k + 1 /\ ~ (j + 1 <= k) /\ j + 1 # k + 1  BY <2>3, <1>2
          <5> QED  BY <5>1, <4>1, <1>1
        <4> QED  BY <3>1, <4>1, <4>2, <1>1 DEF Nth
      <3> QED  BY <3>2, <3>3
    <2>4. CASE j > k + 1
      <3>1. j - 1 \in 1..Len(s) /\ j - 1 # k /\ (j - 1) + 1 = j  BY <2>4, <1>2
      <3>2. t[j] = s[j - 1]  BY <2>4, <1>1, <1>2
      <3>3. nx2[t[j]] = Nth(s, j)  BY <3>1, <3>2, <1>3
      <3>4. CASE j = Len(s) + 1
        <4>1. j \notin 1..Len(s) /\ j + 1 \notin 1..(Len(s) + 1)  BY <3>4, <1>2
        <4> QED  BY <3>3, <4>1, <1>1 DEF Nth
      <3>5. CASE j # Len(s) + 1
        <4>1. j \in 1..Len(s) /\ j + 1 \in 1..(Len(s) + 1)  BY <3>5, <1>2
        <4>2. t[j + 1] = s[j]
          <5>1. (j + 1) - 1 = j /\ ~ (j + 1 <= k) /\ j + 1 # k + 1  BY <2>4, <1>2
          <5> QED  BY <5>1, <4>1, <1>1
        <4> QED  BY <3>3, <4>1, <4>2, <1>1 DEF Nth
      <3> QED  BY <3>4, <3>5
    <2>5. j < k \/ j = k \/ j = k + 1 \/ j > k + 1  BY <1>2
    <2> QED  BY <2>1, <2>2, <2>3, <2>4, <2>5
  <1>5. Chained(t, nx2)  BY <1>1, <1>4 DEF Chained
  <1> QED  BY <1>5 DEF t

Delete(s, k) == SubSeq(s, 1, k) \o SubSeq(s, k + 2, Len(s))

LEMMA DeleteElements ==
  ASSUME NEW s \in Seq(Cells), NEW k \in 0..(Len(s) - 1)
  PROVE  /\ Delete(s, k) \in Seq(Cells) /\ Len(Delete(s, k)) = Len(s) - 1
         /\ \A j \in 1..(Len(s) - 1) :
              Delete(s, k)[j] = IF j <= k THEN s[j] ELSE s[j + 1]
  <1> DEFINE a == SubSeq(s, 1, k)
             d == SubSeq(s, k + 2, Len(s))
             t == Delete(s, k)
  <1>1. Len(s) \in Nat /\ k \in Int /\ \A j \in 1..Len(s) : s[j] \in Cells
    BY LenProperties
  <1>2. a \in Seq(Cells) /\ Len(a) = k /\ \A j \in 1..k : a[j] = s[j]
    BY <1>1, SubSeqProperties
  <1>3. /\ d \in Seq(Cells) /\ Len(d) = Len(s) - k - 1
        /\ \A j \in 1..(Len(s) - k - 1) : d[j] = s[k + 1 + j]
    <2>1. \A j \in (k + 2)..Len(s) : s[j] \in Cells  BY <1>1
    <2>2. k + 2 \in 1..(Len(s) + 1)  BY <1>1
    <2>3. /\ d \in Seq(Cells)
          /\ Len(d) = IF k + 2 <= Len(s) THEN Len(s) - (k + 2) + 1 ELSE 0
          /\ \A i \in 1..(Len(s) - (k + 2) + 1) : d[i] = s[(k + 2) + i - 1]
      BY <1>1, <2>1, <2>2, SubSeqProperties
    <2> HIDE DEF d
    <2> QED  BY <1>1, <2>3
  <1>4. t = a \o d  BY DEF Delete
  <1> HIDE DEF a, d, t
  <1>5. /\ t \in Seq(Cells) /\ Len(t) = Len(s) - 1
        /\ \A j \in 1..(Len(s) - 1) : t[j] = IF j <= k THEN a[j] ELSE d[j - k]
    <2>1. /\ a \o d \in Seq(Cells) /\ Len(a \o d) = Len(a) + Len(d)
          /\ \A j \in 1..(Len(a) + Len(d)) :
               (a \o d)[j] = IF j <= Len(a) THEN a[j] ELSE d[j - Len(a)]
      BY <1>2, <1>3, ConcatProperties
    <2>2. Len(a) + Len(d) = Len(s) - 1  BY <1>1, <1>2, <1>3
    <2> QED  BY <1>2, <1>4, <2>1, <2>2
  <1>6. ASSUME NEW j \in 1..(Len(s) - 1) PROVE t[j] = IF j <= k THEN s[j] ELSE s[j + 1]
    <2>1. CASE j <= k  BY <2>1, <1>1, <1>2, <1>5
    <2>2. CASE j > k
      <3>1. j - k \in 1..(Len(s) - k - 1) /\ k + 1 + (j - k) = j + 1  BY <2>2, <1>1
      <3>2. d[j - k] = s[j + 1]  BY <3>1, <1>3
      <3> QED  BY <2>2, <3>2, <1>1, <1>5
    <2> QED  BY <2>1, <2>2, <1>1
  <1> QED  BY <1>5, <1>6 DEF t

LEMMA DeleteMembers ==
  ASSUME NEW s \in Seq(Cells), NEW k \in 0..(Len(s) - 1), Distinct(s)
  PROVE  /\ Members(Delete(s, k)) = Members(s) \ {s[k + 1]}
         /\ Distinct(Delete(s, k))
  <1> DEFINE t == Delete(s, k)
  <1>1. /\ t \in Seq(Cells) /\ Len(t) = Len(s) - 1
        /\ \A j \in 1..(Len(s) - 1) : t[j] = IF j <= k THEN s[j] ELSE s[j + 1]
    BY DeleteElements
  <1> HIDE DEF t
  <1>2. /\ DOMAIN t = 1..(Len(s) - 1) /\ DOMAIN s = 1..Len(s) /\ Len(s) \in Nat
        /\ k \in Int
    BY <1>1, LenProperties
  <1>3. \A i, j \in 1..Len(s) : s[i] = s[j] => i = j  BY <1>2 DEF Distinct
  <1>4. \A j \in 1..(Len(s) - 1) :
          \/ j <= k /\ j \in 1..Len(s) /\ t[j] = s[j]
          \/ j > k /\ j + 1 \in 1..Len(s) /\ t[j] = s[j + 1]
    BY <1>1, <1>2
  <1>5. Members(t) \subseteq Members(s) \ {s[k + 1]}
    <2>1. k + 1 \in 1..Len(s)  BY <1>2
    <2>2. ASSUME NEW j \in 1..(Len(s) - 1) PROVE t[j] \in Members(s) \ {s[k + 1]}
      <3>1. CASE j <= k  BY <3>1, <2>1, <1>2, <1>3, <1>4 DEF Members
      <3>2. CASE j > k  BY <3>2, <2>1, <1>2, <1>3, <1>4 DEF Members
      <3> QED  BY <3>1, <3>2, <1>2
    <2> QED  BY <2>2, <1>2 DEF Members
  <1>6. ASSUME NEW j \in 1..Len(s), j # k + 1 PROVE s[j] \in Members(t)
    <2>1. j <= k => j \in 1..(Len(s) - 1) /\ t[j] = s[j]  BY <1>1, <1>2
    <2>2. ~ (j <= k) => j - 1 \in 1..(Len(s) - 1) /\ t[j - 1] = s[j]
      <3>1. (j - 1) + 1 = j  OBVIOUS
      <3>2. ~ (j <= k) => j - 1 \in 1..(Len(s) - 1) /\ ~ (j - 1 <= k)  BY <1>6, <1>2
      <3> QED  BY <1>1, <3>1, <3>2
    <2> QED  BY <2>1, <2>2, <1>2 DEF Members
  <1>7. Members(t) = Members(s) \ {s[k + 1]}  BY <1>2, <1>5, <1>6 DEF Members
  <1>8. Distinct(t)
    <2>1. ASSUME NEW i \in 1..(Len(s) - 1), NEW j \in 1..(Len(s) - 1), t[i] = t[j]
          PROVE  i = j
      <3>1. CASE i <= k  BY <3>1, <1>2, <1>3, <1>4, <2>1
      <3>2. CASE i > k  BY <3>2, <1>2, <1>3, <1>4, <2>1
      <3> QED  BY <3>1, <3>2, <1>2
    <2> QED  BY <2>1, <1>2 DEF Distinct
  <1> QED  BY <1>7, <1>8 DEF t

LEMMA DeleteChained ==
  ASSUME NEW s \in Seq(Cells), NEW k \in 0..(Len(s) - 1), NEW nx, NEW nx2,
         Distinct(s), Chained(s, nx),
         k > 0 => nx2[s[k]] = nx[s[k + 1]],
         \A j \in 1..Len(s) : j # k /\ j # k + 1 => nx2[s[j]] = nx[s[j]]
  PROVE  Chained(Delete(s, k), nx2)
  <1> DEFINE t == Delete(s, k)
  <1>1. /\ t \in Seq(Cells) /\ Len(t) = Len(s) - 1
        /\ \A j \in 1..(Len(s) - 1) : t[j] = IF j <= k THEN s[j] ELSE s[j + 1]
    BY DeleteElements
  <1> HIDE DEF t
  <1>2. Len(s) \in Nat /\ k \in Int  BY LenProperties
  <1>3. \A j \in 1..Len(s) : nx[s[j]] = Nth(s, j + 1)  BY DEF Chained
  <1>4. ASSUME NEW j \in Int, j >= k PROVE Nth(t, j + 1) = Nth(s, j + 2)
    <2>1. CASE j + 1 \in 1..(Len(s) - 1)
      <3>1. j + 2 \in 1..Len(s) /\ ~ (j + 1 <= k) /\ (j + 1) + 1 = j + 2
        BY <2>1, <1>2, <1>4
      <3>2. t[j + 1] = s[j + 2]  BY <3>1, <2>1, <1>1
      <3> QED  BY <2>1, <3>1, <3>2, <1>1 DEF Nth
    <2>2. CASE j + 1 \notin 1..(Len(s) - 1)
      <3>1. j + 2 \notin 1..Len(s)  BY <2>2, <1>2, <1>4
      <3> QED  BY <2>2, <3>1, <1>1 DEF Nth
    <2> QED  BY <2>1, <2>2
  <1>5. ASSUME NEW j \in 1..(Len(s) - 1) PROVE nx2[t[j]] = Nth(t, j + 1)
    <2>1. CASE j < k
      <3>1. j \in 1..Len(s) /\ j + 1 \in 1..(Len(s) - 1) /\ j + 1 \in 1..Len(s)
        BY <2>1, <1>2
      <3>2. j # k /\ j # k + 1 /\ j + 1 <= k /\ j <= k  BY <2>1, <1>2
      <3>3. t[j] = s[j]  BY <3>2, <1>1
      <3>4. t[j + 1] = s[j + 1]  BY <3>1, <3>2, <1>1
      <3>5. nx2[t[j]] = s[j + 1]  BY <3>1, <3>2, <3>3, <1>3 DEF Nth
      <3> QED  BY <3>1, <3>4, <3>5, <1>1 DEF Nth
    <2>2. CASE j = k
      <3>1. t[j] = s[k] /\ k > 0 /\ k + 1 \in 1..Len(s) /\ (k + 1) + 1 = k + 2
        BY <2>2, <1>1, <1>2
      <3>2. nx2[t[j]] = Nth(s, k + 2)  BY <3>1, <1>3
      <3>3. Nth(t, k + 1) = Nth(s, k + 2)  BY <1>4, <1>2
      <3> QED  BY <2>2, <3>2, <3>3
    <2>3. CASE j > k
      <3>1. /\ j + 1 \in 1..Len(s) /\ j + 1 # k /\ j + 1 # k + 1 /\ ~ (j <= k)
            /\ (j + 1) + 1 = j + 2 /\ j >= k
        BY <2>3, <1>2
      <3>2. t[j] = s[j + 1]  BY <3>1, <1>1
      <3>3. nx2[t[j]] = Nth(s, j + 2)  BY <3>1, <3>2, <1>3
      <3>4. Nth(t, j + 1) = Nth(s, j + 2)  BY <3>1, <1>4
      <3> QED  BY <3>3, <3>4
    <2> QED  BY <2>1, <2>2, <2>3, <1>2
  <1>6. Chained(t, nx2)  BY <1>1, <1>5 DEF Chained
  <1> QED  BY <1>6 DEF t

LEMMA AppendIsInsert ==
  ASSUME NEW s \in Seq(Cells), NEW c \in Cells
  PROVE  Append(s, c) = Insert(s, Len(s), c)
  <1>1. Len(s) \in Nat  BY LenProperties
  <1>2. SubSeq(s, 1, Len(s)) = s  BY SubSeqFull
  <1>3. SubSeq(s, Len(s) + 1, Len(s)) = <<>>  BY <1>1, SubSeqEmpty
  <1>4. s \o <<c>> = Append(s, c) /\ s \o <<c>> \in Seq(Cells)  BY AppendIsConcat, AppendProperties
  <1>5. (s \o <<c>>) \o <<>> = s \o <<c>>  BY <1>4, ConcatEmptySeq
  <1> QED  BY <1>2, <1>3, <1>4, <1>5 DEF Insert

LEMMA TailIsDelete ==
  ASSUME NEW s \in Seq(Cells), Len(s) > 0
  PROVE  Tail(s) = Delete(s, 0)
  <1>1. Len(s) \in Nat /\ s # <<>>  BY EmptySeq
  <1>2. Tail(s) = SubSeq(s, 2, Len(s)) /\ Tail(s) \in Seq(Cells)
    BY <1>1, TailIsSubSeq, HeadTailProperties
  <1>3. SubSeq(s, 1, 0) = <<>>  BY SubSeqEmpty
  <1>4. <<>> \o Tail(s) = Tail(s)  BY <1>2, ConcatEmptySeq
  <1>5. 0 + 2 = 2  OBVIOUS
  <1> QED  BY <1>2, <1>3, <1>4, <1>5 DEF Delete

LEMMA PrefixFacts ==
  ASSUME NEW s \in Seq(Cells), NEW m \in 1..Len(s), NEW nx, NEW nx2,
         Distinct(s), Chained(s, nx), nx2[s[m]] = NULL,
         \A j \in 1..(m - 1) : nx2[s[j]] = nx[s[j]]
  PROVE  LET t == SubSeq(s, 1, m) IN
         /\ t \in Seq(Cells) /\ Len(t) = m /\ \A j \in 1..m : t[j] = s[j]
         /\ Members(t) = Members(s) \ {s[k] : k \in (m + 1)..Len(s)}
         /\ Distinct(t) /\ Chained(t, nx2)
  <1> DEFINE t == SubSeq(s, 1, m)
  <1>1. Len(s) \in Nat /\ m \in Int /\ \A j \in 1..Len(s) : s[j] \in Cells
    BY LenProperties
  <1>2. t \in Seq(Cells) /\ Len(t) = m /\ \A j \in 1..m : t[j] = s[j]
    BY <1>1, SubSeqProperties
  <1> HIDE DEF t
  <1>3. DOMAIN t = 1..m /\ DOMAIN s = 1..Len(s) /\ \A j \in 1..m : j \in 1..Len(s)
    BY <1>1, <1>2, LenProperties
  <1>4. \A i, j \in 1..Len(s) : s[i] = s[j] => i = j  BY <1>3 DEF Distinct
  <1>5. Members(t) = Members(s) \ {s[k] : k \in (m + 1)..Len(s)}
    <2>1. ASSUME NEW j \in 1..m PROVE t[j] \in Members(s) \ {s[k] : k \in (m + 1)..Len(s)}
      BY <1>1, <1>2, <1>3, <1>4 DEF Members
    <2>2. ASSUME NEW j \in 1..Len(s), s[j] \notin {s[k] : k \in (m + 1)..Len(s)}
          PROVE  s[j] \in Members(t)
      <3>1. j \in 1..m  BY <2>2, <1>1
      <3> QED  BY <3>1, <1>2, <1>3 DEF Members
    <2> DEFINE R == {s[k] : k \in (m + 1)..Len(s)}
    <2> HIDE DEF R
    <2>3. Members(t) \subseteq Members(s) \ R  BY <2>1, <1>3 DEF Members, R
    <2>4. Members(s) \ R \subseteq Members(t)
      <3>1. \A j \in 1..Len(s) : s[j] \notin R => s[j] \in Members(t)  BY <2>2 DEF R
      <3>2. \A b \in Members(s) : \E j \in 1..Len(s) : b = s[j]  BY <1>3 DEF Members
      <3> QED  BY <3>1, <3>2
    <2> QED  BY <2>3, <2>4 DEF R
  <1>6. Distinct(t)
    <2>1. ASSUME NEW i \in 1..m, NEW j \in 1..m, t[i] = t[j] PROVE i = j
      BY <2>1, <1>2, <1>3, <1>4
    <2> QED  BY <2>1, <1>3 DEF Distinct
  <1>7. ASSUME NEW j \in 1..m PROVE nx2[t[j]] = Nth(t, j + 1)
    <2>1. CASE j = m
      <3>1. j + 1 \notin 1..m  BY <2>1, <1>1
      <3> QED  BY <2>1, <3>1, <1>2 DEF Nth
    <2>2. CASE j # m
      <3>1. j \in 1..(m - 1) /\ j + 1 \in 1..m /\ j + 1 \in 1..Len(s) /\ j \in 1..Len(s)
        BY <2>2, <1>1
      <3>2. nx2[t[j]] = s[j + 1]  BY <3>1, <1>2 DEF Chained, Nth
      <3> QED  BY <3>1, <3>2, <1>2 DEF Nth
    <2> QED  BY <2>1, <2>2
  <1>8. Chained(t, nx2)  BY <1>2, <1>7 DEF Chained
  <1> QED  BY <1>2, <1>5, <1>6, <1>8 DEF t

LEMMA ConcatFacts ==
  ASSUME NEW s \in Seq(Cells), NEW t \in Seq(Cells), NEW nx, NEW nx2,
         Len(s) > 0, Len(t) > 0,
         Distinct(s), Distinct(t), Members(s) \cap Members(t) = {},
         Chained(s, nx), Chained(t, nx),
         nx2[s[Len(s)]] = t[1],
         \A b \in Members(s) \cup Members(t) : b # s[Len(s)] => nx2[b] = nx[b]
  PROVE  /\ s \o t \in Seq(Cells) /\ Len(s \o t) = Len(s) + Len(t)
         /\ (s \o t)[1] = s[1] /\ (s \o t)[Len(s \o t)] = t[Len(t)]
         /\ Members(s \o t) = Members(s) \cup Members(t)
         /\ Distinct(s \o t) /\ Chained(s \o t, nx2)
  <1> DEFINE r == s \o t
  <1>1. /\ Len(s) \in Nat /\ Len(t) \in Nat
        /\ DOMAIN s = 1..Len(s) /\ DOMAIN t = 1..Len(t)
    BY LenProperties
  <1>2. /\ r \in Seq(Cells) /\ Len(r) = Len(s) + Len(t)
        /\ \A j \in 1..(Len(s) + Len(t)) :
             r[j] = IF j <= Len(s) THEN s[j] ELSE t[j - Len(s)]
    BY ConcatProperties
  <1> HIDE DEF r
  <1>3. DOMAIN r = 1..(Len(s) + Len(t))  BY <1>2, LenProperties
  <1>4. \A j \in 1..(Len(s) + Len(t)) :
          \/ j <= Len(s) /\ j \in 1..Len(s) /\ r[j] = s[j]
          \/ j > Len(s) /\ j - Len(s) \in 1..Len(t) /\ r[j] = t[j - Len(s)]
    BY <1>1, <1>2
  <1>5. \A j \in 1..Len(s) : j \in 1..(Len(s) + Len(t)) /\ r[j] = s[j]  BY <1>1, <1>2
  <1>6. ASSUME NEW j \in 1..Len(t)
        PROVE  Len(s) + j \in 1..(Len(s) + Len(t)) /\ r[Len(s) + j] = t[j]
    <2>1. (Len(s) + j) - Len(s) = j /\ ~ (Len(s) + j <= Len(s))  BY <1>1
    <2>2. Len(s) + j \in 1..(Len(s) + Len(t))  BY <1>1
    <2> QED  BY <2>1, <2>2, <1>2
  <1>7. Members(r) = Members(s) \cup Members(t)
    <2>1. Members(r) \subseteq Members(s) \cup Members(t)  BY <1>1, <1>3, <1>4 DEF Members
    <2>2. Members(s) \subseteq Members(r)  BY <1>1, <1>3, <1>5 DEF Members
    <2>3. Members(t) \subseteq Members(r)  BY <1>1, <1>3, <1>6 DEF Members
    <2> QED  BY <2>1, <2>2, <2>3
  <1>8. Distinct(r)
    <2>1. /\ \A i, j \in 1..Len(s) : s[i] = s[j] => i = j
          /\ \A i, j \in 1..Len(t) : t[i] = t[j] => i = j
          /\ \A i \in 1..Len(s), j \in 1..Len(t) : s[i] # t[j]
      <3>1. \A i, j \in 1..Len(s) : s[i] = s[j] => i = j  BY <1>1 DEF Distinct
      <3>2. \A i, j \in 1..Len(t) : t[i] = t[j] => i = j  BY <1>1 DEF Distinct
      <3>3. \A i \in 1..Len(s), j \in 1..Len(t) : s[i] # t[j]  BY <1>1 DEF Members
      <3> QED  BY <3>1, <3>2, <3>3
    <2>2. ASSUME NEW i \in 1..(Len(s) + Len(t)), NEW j \in 1..(Len(s) + Len(t)), r[i] = r[j]
          PROVE  i = j
      <3>1. CASE i <= Len(s) /\ j <= Len(s)  BY <3>1, <1>1, <1>4, <2>1, <2>2
      <3>2. CASE i > Len(s) /\ j > Len(s)
        <4>1. i - Len(s) = j - Len(s)  BY SMTT(20), <3>2, <1>1, <1>4, <2>1, <2>2
        <4> QED  BY <4>1, <1>1
      <3>3. CASE i <= Len(s) /\ j > Len(s)  BY <3>3, <1>1, <1>4, <2>1, <2>2
      <3>4. CASE i > Len(s) /\ j <= Len(s)
        <4>1. r[i] = t[i - Len(s)] /\ i - Len(s) \in 1..Len(t)  BY <3>4, <1>1, <1>4
        <4>2. r[j] = s[j] /\ j \in 1..Len(s)  BY <3>4, <1>1, <1>4
        <4> QED  BY ZenonT(30), <4>1, <4>2, <2>1, <2>2
      <3> QED  BY <3>1, <3>2, <3>3, <3>4, <1>1
    <2> QED  BY <2>2, <1>3 DEF Distinct
  <1>9. ASSUME NEW j \in 1..(Len(s) + Len(t)) PROVE nx2[r[j]] = Nth(r, j + 1)
    <2>1. CASE j = Len(s)
      <3>1. r[j] = s[Len(s)]  BY <2>1, <1>4, <1>1
      <3>2. j + 1 \in 1..(Len(s) + Len(t)) /\ r[j + 1] = t[1]
        <4>1. 1 \in 1..Len(t)  BY <1>1
        <4> QED  BY <4>1, <2>1, <1>6
      <3> QED  BY <3>1, <3>2, <1>2 DEF Nth
    <2>2. CASE j < Len(s)
      <3>1. j \in 1..Len(s) /\ j + 1 \in 1..Len(s) /\ Len(s) \in 1..Len(s) /\ j # Len(s)
        BY <2>2, <1>1
      <3>2. r[j] = s[j] /\ r[j + 1] = s[j + 1] /\ j + 1 \in 1..(Len(s) + Len(t))
        BY <3>1, <1>5
      <3>3. s[j] # s[Len(s)] /\ s[j] \in Members(s)  BY <3>1, <1>1 DEF Distinct, Members
      <3>4. nx2[r[j]] = s[j + 1]  BY <3>1, <3>2, <3>3 DEF Chained, Nth
      <3> QED  BY <3>2, <3>4, <1>2 DEF Nth
    <2>3. CASE j > Len(s)
      <3>1. /\ j - Len(s) \in 1..Len(t) /\ Len(s) \in 1..Len(s)
            /\ Len(s) + ((j - Len(s)) + 1) = j + 1
        BY <2>3, <1>1
      <3> DEFINE i == j - Len(s)
      <3>2. r[j] = t[i]  BY <2>3, <1>4, <1>1
      <3>3. /\ Len(s) + (i + 1) = j + 1 /\ i \in 1..Len(t)
            /\ i + 1 \in 1..Len(t) <=> j + 1 \in 1..(Len(s) + Len(t))
        BY <3>1, <1>1
      <3> HIDE DEF i
      <3>4. t[i] # s[Len(s)] /\ t[i] \in Members(t)  BY <3>1, <3>3, <1>1 DEF Members
      <3>5. nx2[r[j]] = Nth(t, i + 1)  BY <3>2, <3>3, <3>4 DEF Chained
      <3>6. CASE i + 1 \in 1..Len(t)
        <4>1. r[j + 1] = t[i + 1]  BY <3>6, <3>3, <1>6
        <4> QED  BY <3>3, <3>5, <3>6, <4>1, <1>2 DEF Nth
      <3>7. CASE i + 1 \notin 1..Len(t)  BY <3>3, <3>5, <3>7, <1>2 DEF Nth
      <3> QED  BY <3>6, <3>7
    <2>4. j \in Int /\ Len(s) \in Int  BY ONLY <1>1, j \in 1..(Len(s) + Len(t))
    <2>5. j = Len(s) \/ j < Len(s) \/ j > Len(s)  BY ONLY <2>4
    <2> QED  BY <2>1, <2>2, <2>3, <2>5
  <1>10. Chained(r, nx2)  BY <1>2, <1>9 DEF Chained
  <1>11. r[1] = s[1] /\ r[Len(r)] = t[Len(t)]
    <2>1. 1 \in 1..Len(s) /\ Len(t) \in 1..Len(t)  BY <1>1
    <2> QED  BY <2>1, <1>2, <1>5, <1>6
  <1> QED  BY <1>2, <1>7, <1>8, <1>10, <1>11 DEF r

-----------------------------------------------------------------------------
\* A heap of lists.

LEMMA ChainedSame ==
  ASSUME NEW s \in Seq(Cells), NEW nx, NEW nx2, Chained(s, nx),
         \A b \in Members(s) : nx2[b] = nx[b]
  PROVE  Chained(s, nx2)
  BY MemberFacts DEF Chained

LEMMA HeapFacts ==
  ASSUME NEW L, NEW h, NEW sp, NEW nx, Heap(L, h, sp, nx)
  PROVE  /\ \A l \in Heads : l \in h <=> l \in L
         /\ \A l \in L : /\ sp[l] \in Seq(Cells) /\ Members(sp[l]) \subseteq h
                         /\ Members(sp[l]) \subseteq Cells
                         /\ Distinct(sp[l]) /\ Chained(sp[l], nx)
                         /\ l \in h /\ l \in Heads
         /\ \A l, m \in L : \A b \in Members(sp[l]) : b \in Members(sp[m]) => l = m
  <1>1. \A l \in L : sp[l] \in Seq(Cells) /\ Distinct(sp[l]) /\ Chained(sp[l], nx) /\ l \in Heads
    BY DEF Heap
  <1>2. \A l \in L : Members(sp[l]) \subseteq Cells  BY <1>1, MemberFacts
  <1>3. \A l \in L : Members(sp[l]) \subseteq h /\ l \in h  BY <1>1, <1>2 DEF Heap
  <1>4. \A l \in Heads : l \in h <=> l \in L  BY <1>2, PgListAssumption DEF Heap
  <1>5. \A l, m \in L : \A b \in Members(sp[l]) : b \in Members(sp[m]) => l = m
    BY DEF Heap
  <1> QED  BY <1>1, <1>2, <1>3, <1>4, <1>5

\* The cells of one list are replaced by s; those that leave it are freed.
LEMMA HeapChange ==
  ASSUME NEW L, NEW h, NEW sp, NEW nx, Heap(L, h, sp, nx),
         NEW l \in L, NEW s \in Seq(Cells), Distinct(s),
         NEW nx2 \in [Cells -> Cells \cup {NULL}], Chained(s, nx2),
         NEW h2, h2 = (h \ Members(sp[l])) \cup Members(s),
         Members(s) \cap h \subseteq Members(sp[l]),
         \A m \in L \ {l} : \A b \in Members(sp[m]) : nx2[b] = nx[b],
         NEW sp2, sp2 = [sp EXCEPT ![l] = s]
  PROVE  Heap(L, h2, sp2, nx2)
  <1>1. /\ L \subseteq Heads /\ h \subseteq Cells \cup Heads
        /\ sp \in [Heads -> Seq(Cells) \cup {NULL}]
        /\ \A m, k \in L : m # k => Members(sp[m]) \cap Members(sp[k]) = {}
        /\ \A b \in Cells \cup Heads : b \in h <=> b \in L \/ \E m \in L : b \in Members(sp[m])
    BY DEF Heap
  <1>2. \A m \in L : /\ sp[m] \in Seq(Cells) /\ Members(sp[m]) \subseteq h
                     /\ Members(sp[m]) \subseteq Cells
                     /\ Distinct(sp[m]) /\ Chained(sp[m], nx)
    BY HeapFacts
  <1>3. Members(s) \subseteq Cells  BY MemberFacts
  <1>4. /\ sp2 \in [Heads -> Seq(Cells) \cup {NULL}] /\ sp2[l] = s
        /\ \A m \in L : m # l => sp2[m] = sp[m]
    BY <1>1
  <1>5. h2 \subseteq Cells \cup Heads  BY <1>1, <1>3
  <1>6. ASSUME NEW m \in L PROVE sp2[m] \in Seq(Cells) /\ Distinct(sp2[m]) /\ Chained(sp2[m], nx2)
    <2>1. m # l => Chained(sp[m], nx2)  BY <1>2, ChainedSame
    <2> QED  BY <2>1, <1>2, <1>4
  <1>7. ASSUME NEW m \in L, NEW k \in L, m # k PROVE Members(sp2[m]) \cap Members(sp2[k]) = {}
    <2>1. \A i \in L : i # l => Members(s) \cap Members(sp[i]) = {}  BY <1>1, <1>2
    <2> QED  BY <1>1, <1>4, <1>7, <2>1
  <1>8. ASSUME NEW b \in Cells \cup Heads
        PROVE  b \in h2 <=> b \in L \/ \E m \in L : b \in Members(sp2[m])
    <2>1. L \cap Cells = {}  BY <1>1, PgListAssumption
    <2>2. CASE b \in Members(s)  BY <2>2, <1>4
    <2>3. CASE b \notin Members(s) /\ b \in Members(sp[l])
      <3>1. b \notin h2 /\ b \notin L  BY <2>1, <2>3, <1>2
      <3>2. \A m \in L : b \notin Members(sp2[m])  BY <2>3, <1>1, <1>4
      <3> QED  BY <3>1, <3>2
    <2>4. CASE b \notin Members(s) /\ b \notin Members(sp[l])
      <3>1. b \in h2 <=> b \in h  BY <2>4
      <3>2. \A m \in L : b \in Members(sp2[m]) <=> b \in Members(sp[m])  BY <2>4, <1>4
      <3> QED  BY <3>1, <3>2, <1>1
    <2> QED  BY <2>2, <2>3, <2>4
  <1> QED  BY <1>1, <1>4, <1>5, <1>6, <1>7, <1>8 DEF Heap

\* A list of one new cell is added.
LEMMA HeapNew ==
  ASSUME NEW L, NEW h, NEW sp, NEW nx, Heap(L, h, sp, nx),
         NEW l \in Heads \ h, NEW c \in Cells \ h
  PROVE  Heap(L \cup {l}, h \cup {c, l}, [sp EXCEPT ![l] = <<c>>], [nx EXCEPT ![c] = NULL])
  <1> DEFINE s   == <<c>>
             sp2 == [sp EXCEPT ![l] = s]
             nx2 == [nx EXCEPT ![c] = NULL]
             h2  == h \cup {c, l}
             L2  == L \cup {l}
  <1>1. /\ L \subseteq Heads /\ h \subseteq Cells \cup Heads
        /\ sp \in [Heads -> Seq(Cells) \cup {NULL}] /\ nx \in [Cells -> Cells \cup {NULL}]
        /\ \A m, k \in L : m # k => Members(sp[m]) \cap Members(sp[k]) = {}
        /\ \A b \in Cells \cup Heads : b \in h <=> b \in L \/ \E m \in L : b \in Members(sp[m])
    BY DEF Heap
  <1>2. \A m \in L : /\ sp[m] \in Seq(Cells) /\ Members(sp[m]) \subseteq h
                     /\ Members(sp[m]) \subseteq Cells
                     /\ Distinct(sp[m]) /\ Chained(sp[m], nx)
    BY HeapFacts
  <1>3. s \in Seq(Cells) /\ Len(s) = 1 /\ s[1] = c /\ DOMAIN s = {1}  OBVIOUS
  <1> HIDE DEF s
  <1>4. Members(s) = {c} /\ Distinct(s)  BY <1>3 DEF Members, Distinct
  <1>5. nx2 \in [Cells -> Cells \cup {NULL}] /\ nx2[c] = NULL /\ \A b \in Cells : b # c => nx2[b] = nx[b]
    BY <1>1
  <1>6. l \notin L /\ \A m \in L : c \notin Members(sp[m])  BY <1>1, <1>2
  <1>7. /\ sp2 \in [Heads -> Seq(Cells) \cup {NULL}] /\ sp2[l] = s
        /\ \A m \in L : sp2[m] = sp[m]
    BY <1>1, <1>3, <1>6
  <1> HIDE DEF sp2, nx2
  <1>8. Chained(s, nx2)
    <2>1. \A k \in 1..1 : k = 1 /\ k + 1 \notin 1..1  OBVIOUS
    <2> QED  BY <1>3, <1>5, <2>1 DEF Chained, Nth
  <1>9. ASSUME NEW m \in L2 PROVE sp2[m] \in Seq(Cells) /\ Distinct(sp2[m]) /\ Chained(sp2[m], nx2)
    <2>1. CASE m = l  BY <2>1, <1>3, <1>4, <1>7, <1>8
    <2>2. CASE m \in L
      <3>1. \A b \in Members(sp[m]) : nx2[b] = nx[b]  BY <2>2, <1>2, <1>5, <1>6
      <3>2. Chained(sp[m], nx2)  BY <2>2, <3>1, <1>2, ChainedSame
      <3> QED  BY <2>2, <3>2, <1>2, <1>7
    <2> QED  BY <2>1, <2>2
  <1>10. ASSUME NEW m \in L2, NEW k \in L2, m # k PROVE Members(sp2[m]) \cap Members(sp2[k]) = {}
    <2>1. CASE m \in L /\ k \in L  BY <2>1, <1>1, <1>7, <1>10
    <2>2. CASE m = l  BY <2>2, <1>4, <1>6, <1>7, <1>10
    <2>3. CASE k = l  BY <2>3, <1>4, <1>6, <1>7, <1>10
    <2> QED  BY <2>1, <2>2, <2>3
  <1>11. ASSUME NEW b \in Cells \cup Heads
         PROVE  b \in h2 <=> b \in L2 \/ \E m \in L2 : b \in Members(sp2[m])
    <2>1. (\E m \in L2 : b \in Members(sp2[m])) <=> b = c \/ \E m \in L : b \in Members(sp[m])
      <3>1. Members(sp2[l]) = {c}  BY <1>4, <1>7
      <3>2. \A m \in L : Members(sp2[m]) = Members(sp[m])  BY <1>7
      <3> HIDE DEF L2
      <3>3. \A m : m \in L2 <=> m \in L \/ m = l  BY DEF L2
      <3> QED  BY <3>1, <3>2, <3>3
    <2> QED  BY <2>1, <1>1
  <1>12. L2 \subseteq Heads /\ h2 \subseteq Cells \cup Heads  BY <1>1
  <1> HIDE DEF L2, h2
  <1>13. Heap(L2, h2, sp2, nx2)  BY <1>5, <1>7, <1>9, <1>10, <1>11, <1>12 DEF Heap
  <1> QED  BY <1>13 DEF L2, h2, sp2, nx2, s

\* A list and its cells are freed, or abandoned.
LEMMA HeapRelease ==
  ASSUME NEW L, NEW h, NEW sp, NEW nx, Heap(L, h, sp, nx), NEW l \in L,
         NEW sp2 \in [Heads -> Seq(Cells) \cup {NULL}],
         NEW nx2 \in [Cells -> Cells \cup {NULL}],
         \A m \in L \ {l} : sp2[m] = sp[m] /\ \A b \in Members(sp[m]) : nx2[b] = nx[b]
  PROVE  Heap(L \ {l}, h \ ({l} \cup Members(sp[l])), sp2, nx2)
  <1> DEFINE L2 == L \ {l}
             h2 == h \ ({l} \cup Members(sp[l]))
  <1>1. /\ L \subseteq Heads /\ h \subseteq Cells \cup Heads
        /\ \A m, k \in L : m # k => Members(sp[m]) \cap Members(sp[k]) = {}
        /\ \A b \in Cells \cup Heads : b \in h <=> b \in L \/ \E m \in L : b \in Members(sp[m])
    BY DEF Heap
  <1>2. \A m \in L : /\ sp[m] \in Seq(Cells) /\ Members(sp[m]) \subseteq Cells
                     /\ Distinct(sp[m]) /\ Chained(sp[m], nx)
    BY HeapFacts
  <1>3. ASSUME NEW m \in L2 PROVE sp2[m] \in Seq(Cells) /\ Distinct(sp2[m]) /\ Chained(sp2[m], nx2)
    <2>1. \A b \in Members(sp[m]) : nx2[b] = nx[b]  OBVIOUS
    <2>2. sp[m] \in Seq(Cells) /\ Chained(sp[m], nx)  BY <1>2
    <2>3. Chained(sp[m], nx2)  BY <2>1, <2>2, ChainedSame
    <2> QED  BY <2>3, <1>2
  <1>4. ASSUME NEW m \in L2, NEW k \in L2, m # k PROVE Members(sp2[m]) \cap Members(sp2[k]) = {}
    BY <1>1, <1>4
  <1>5. ASSUME NEW b \in Cells \cup Heads
        PROVE  b \in h2 <=> b \in L2 \/ \E m \in L2 : b \in Members(sp2[m])
    <2>1. \A m \in L2 : Members(sp2[m]) = Members(sp[m])  OBVIOUS
    <2>2. \A m \in L2 : Members(sp[m]) \cap Members(sp[l]) = {} /\ l \notin Members(sp[m])
      BY <1>1, <1>2, PgListAssumption
    <2>3. CASE b = l  BY <2>1, <2>2, <2>3
    <2>4. CASE b \in Members(sp[l])
      <3>1. b \notin L2  BY <2>4, <1>1, <1>2, PgListAssumption
      <3> QED  BY <3>1, <2>1, <2>2, <2>4
    <2>5. CASE b # l /\ b \notin Members(sp[l])
      <3>1. b \in h2 <=> b \in L \/ \E m \in L : b \in Members(sp[m])  BY <2>5, <1>1
      <3> QED  BY <3>1, <2>1, <2>5
    <2> QED  BY <2>3, <2>4, <2>5
  <1>6. L2 \subseteq Heads /\ h2 \subseteq Cells \cup Heads  BY <1>1
  <1> HIDE DEF L2, h2
  <1>7. Heap(L2, h2, sp2, nx2)  BY <1>3, <1>4, <1>5, <1>6 DEF Heap
  <1> QED  BY <1>7 DEF L2, h2

\* The cells of the second list are linked to those of the first one; the second
\* header is abandoned.
LEMMA HeapConcat ==
  ASSUME NEW L, NEW h, NEW sp, NEW nx, Heap(L, h, sp, nx),
         NEW l \in L, NEW k \in L, l # k, Len(sp[l]) > 0, Len(sp[k]) > 0,
         NEW sp2 \in [Heads -> Seq(Cells) \cup {NULL}], sp2[l] = sp[l] \o sp[k],
         \A m \in L \ {l, k} : sp2[m] = sp[m],
         NEW nx2, nx2 = [nx EXCEPT ![sp[l][Len(sp[l])]] = sp[k][1]]
  PROVE  Heap(L \ {k}, h \ {k}, sp2, nx2)
  <1> DEFINE L2 == L \ {k}
             h2 == h \ {k}
             s  == sp[l]
             t  == sp[k]
  <1>1. /\ L \subseteq Heads /\ h \subseteq Cells \cup Heads
        /\ nx \in [Cells -> Cells \cup {NULL}]
        /\ \A m, i \in L : m # i => Members(sp[m]) \cap Members(sp[i]) = {}
        /\ \A b \in Cells \cup Heads : b \in h <=> b \in L \/ \E m \in L : b \in Members(sp[m])
    BY DEF Heap
  <1>2. \A m \in L : /\ sp[m] \in Seq(Cells) /\ Members(sp[m]) \subseteq Cells
                     /\ Distinct(sp[m]) /\ Chained(sp[m], nx)
    BY HeapFacts
  <1>3. s \in Seq(Cells) /\ t \in Seq(Cells)  BY <1>2
  <1>4. s[Len(s)] \in Members(s) /\ s[Len(s)] \in Cells /\ t[1] \in Cells
    <2>1. Len(s) \in 1..Len(s) /\ 1 \in 1..Len(t)  BY <1>3, LenProperties
    <2> QED  BY <2>1, <1>3, MemberFacts
  <1>5. /\ nx2 \in [Cells -> Cells \cup {NULL}] /\ nx2[s[Len(s)]] = t[1]
        /\ \A b \in Cells : b # s[Len(s)] => nx2[b] = nx[b]
    BY <1>1, <1>4
  <1>6. \A b \in Members(s) \cup Members(t) : b # s[Len(s)] => nx2[b] = nx[b]  BY <1>2, <1>5
  <1>7. Distinct(s) /\ Distinct(t) /\ Chained(s, nx) /\ Chained(t, nx) /\ Members(s) \cap Members(t) = {}
    BY <1>1, <1>2
  <1>8. /\ s \o t \in Seq(Cells) /\ Members(s \o t) = Members(s) \cup Members(t)
        /\ Distinct(s \o t) /\ Chained(s \o t, nx2)
    <2> HIDE DEF s, t
    <2>1. Len(s) > 0 /\ Len(t) > 0  BY DEF s, t
    <2>2. /\ nx2[s[Len(s)]] = t[1]
          /\ \A b \in Members(s) \cup Members(t) : b # s[Len(s)] => nx2[b] = nx[b]
      BY <1>5, <1>6
    <2> QED  BY ONLY <1>3, <1>7, <2>1, <2>2, ConcatFacts
  <1>9. l \in L2 /\ sp2[l] = s \o t  OBVIOUS
  <1>10. ASSUME NEW m \in L2 PROVE sp2[m] \in Seq(Cells) /\ Distinct(sp2[m]) /\ Chained(sp2[m], nx2)
    <2>1. CASE m = l  BY <2>1, <1>8, <1>9
    <2>2. CASE m # l
      <3>1. Members(s) \cap Members(sp[m]) = {} /\ m \in L  BY <2>2, <1>1
      <3>2. \A b \in Members(sp[m]) : b \in Cells /\ b # s[Len(s)]  BY <3>1, <1>2, <1>4
      <3> HIDE DEF s, t
      <3>3. \A b \in Members(sp[m]) : nx2[b] = nx[b]  BY <3>2, <1>5
      <3>4. sp[m] \in Seq(Cells) /\ Chained(sp[m], nx)  BY <3>1, <1>2
      <3>5. Chained(sp[m], nx2)  BY <3>3, <3>4, ChainedSame
      <3> QED  BY <2>2, <3>1, <3>5, <1>2
    <2> QED  BY <2>1, <2>2
  <1>11. Members(sp2[l]) = Members(s) \cup Members(t)  BY <1>8, <1>9
  <1>12. \A m \in L2 : m # l => Members(sp2[m]) = Members(sp[m])  OBVIOUS
  <1>13. ASSUME NEW m \in L2, NEW i \in L2, m # i PROVE Members(sp2[m]) \cap Members(sp2[i]) = {}
    <2>1. CASE m # l /\ i # l  BY <2>1, <1>1, <1>12, <1>13
    <2>2. CASE m = l
      <3>1. Members(s) \cap Members(sp[i]) = {} /\ Members(t) \cap Members(sp[i]) = {}
        BY <2>2, <1>1, <1>13
      <3> QED  BY <2>2, <3>1, <1>11, <1>12, <1>13
    <2>3. CASE i = l
      <3>1. Members(s) \cap Members(sp[m]) = {} /\ Members(t) \cap Members(sp[m]) = {}
        BY <2>3, <1>1, <1>13
      <3> QED  BY <2>3, <3>1, <1>11, <1>12, <1>13
    <2> QED  BY <2>1, <2>2, <2>3
  <1>14. ASSUME NEW b \in Cells \cup Heads
         PROVE  b \in h2 <=> b \in L2 \/ \E m \in L2 : b \in Members(sp2[m])
    <2>1. (\E m \in L2 : b \in Members(sp2[m])) <=> \E m \in L : b \in Members(sp[m])
      <3>1. ASSUME NEW m \in L2, b \in Members(sp2[m]) PROVE \E i \in L : b \in Members(sp[i])
        BY <3>1, <1>11, <1>12
      <3>2. ASSUME NEW m \in L, b \in Members(sp[m]) PROVE \E i \in L2 : b \in Members(sp2[i])
        <4>1. CASE m = l \/ m = k  BY <4>1, <3>2, <1>9, <1>11
        <4>2. CASE m # l /\ m # k  BY <4>2, <3>2, <1>12
        <4> QED  BY <4>1, <4>2
      <3> QED  BY <3>1, <3>2
    <2>2. k \notin Cells  BY <1>1, PgListAssumption
    <2>3. b = k => ~ \E m \in L : b \in Members(sp[m])  BY <2>2, <1>2
    <2> HIDE DEF s, t
    <2>4. \A m : m \in L2 <=> m \in L /\ m # k  OBVIOUS
    <2>5. b \in h2 <=> b \in h /\ b # k  OBVIOUS
    <2> HIDE DEF L2, h2
    <2> QED  BY <1>1, <2>1, <2>3, <2>4, <2>5
  <1>15. L2 \subseteq Heads /\ h2 \subseteq Cells \cup Heads  BY <1>1
  <1> HIDE DEF L2, h2, s, t
  <1>16. Heap(L2, h2, sp2, nx2)  BY <1>5, <1>10, <1>13, <1>14, <1>15 DEF Heap
  <1> QED  BY <1>16 DEF L2, h2

-----------------------------------------------------------------------------
\* The lists that are alive.

LEMMA LiveDef == \A l : l \in Live <=> l # NULL /\ (l = call.result \/ \E v \in Vars : l = var[v])
  BY DEF Live

LEMMA LiveDefNext ==
  \A l : l \in Live' <=> l # NULL /\ (l = call'.result \/ \E v \in Vars : l = var'[v])
  BY DEF Live

LEMMA CallFacts ==
  ASSUME call \in Calls
  PROVE  /\ call.v \in Vars \cup {NULL} /\ call.w \in Vars \cup {NULL}
         /\ call.x \in Vars \cup {NULL} /\ call.n \in Nat /\ call.i \in Nat
         /\ call.cur \in Cells \cup {NULL} /\ call.prev \in Cells \cup {NULL}
         /\ call.result \in Heads \cup {NULL} /\ call.fn \in FunctionNames
         /\ call.d \in Data \cup {NULL} /\ call.old \in Seq(Data \cup {NULL})
  BY DEF Calls

LEMMA IdleFacts ==
  /\ Idle \in Calls /\ Idle.at = "client" /\ Idle.result = NULL
  /\ call' = Idle => Progress'
  <1>1. Idle \in Calls  BY EmptySeq DEF Idle, Calls, FunctionNames
  <1> QED  BY <1>1 DEF Idle, Progress

LEMMA CallingFacts ==
  ASSUME IInv, Calling
  PROVE  /\ call = Idle /\ call.result = NULL
         /\ \A l : l \in Live <=> l # NULL /\ \E v \in Vars : l = var[v]
  <1>1. call = Idle  BY DEF IInv, Progress, Calling
  <1> QED  BY <1>1, IdleFacts, LiveDef

\* What the invariant says of a list that is alive.
LEMMA ListFacts ==
  ASSUME IInv, NEW l, l # NULL, l = call.result \/ \E v \in Vars : l = var[v]
  PROVE  /\ l \in Live /\ l \in Heads /\ l \in heap
         /\ spine[l] \in Seq(Cells) /\ Distinct(spine[l]) /\ Chained(spine[l], next)
         /\ Members(spine[l]) \subseteq Cells /\ Members(spine[l]) \subseteq heap
         /\ \A k \in 1..Len(spine[l]) : next[spine[l][k]] = Nth(spine[l], k + 1)
         /\ Len(spine[l]) \in Nat /\ NULL \notin Cells
         /\ \A k \in 1..Len(spine[l]) : spine[l][k] \in Cells
  <1>1. l \in Live  BY LiveDef
  <1>2. Heap(Live, heap, spine, next)  BY DEF IInv
  <1>3. /\ l \in Heads /\ l \in heap
        /\ spine[l] \in Seq(Cells) /\ Distinct(spine[l]) /\ Chained(spine[l], next)
        /\ Members(spine[l]) \subseteq Cells /\ Members(spine[l]) \subseteq heap
    BY <1>1, <1>2, HeapFacts
  <1>4. \A k \in 1..Len(spine[l]) : next[spine[l][k]] = Nth(spine[l], k + 1)
    BY <1>3 DEF Chained
  <1> QED  BY <1>1, <1>3, <1>4, MemberFacts, PgListAssumption

LEMMA VarFacts ==
  ASSUME IInv, NEW v \in Vars, var[v] # NULL
  PROVE  /\ Header(spine[var[v]], var[v], length, head, tail)
         /\ length[var[v]] = Len(spine[var[v]]) /\ Len(spine[var[v]]) > 0
         /\ head[var[v]] = spine[var[v]][1]
         /\ tail[var[v]] = spine[var[v]][Len(spine[var[v]])]
         /\ \A w \in Vars : w # v => var[w] # var[v]
  BY DEF IInv, Variables, Header

\* A step that changes neither the lists nor the variables.
LEMMA QuietStep ==
  ASSUME IInv, UNCHANGED <<heapVars, var>>, call' \in Calls, Progress',
         call'.result = call.result
           \/ (call.result = NULL /\ (call'.result = NULL \/ \E v \in Vars : call'.result = var[v]))
  PROVE  IInv'
  <1>1. UNCHANGED <<heap, data, next, length, head, tail, spine, var>>
    BY DEF heapVars, cellVars, headVars
  <1>2. Live' = Live  BY <1>1, LiveDef, LiveDefNext
  <1>3. Heap(Live, heap, spine, next)'  BY <1>1, <1>2 DEF IInv
  <1>4. Fields'  BY <1>1 DEF IInv, Fields
  <1>5. Variables'  BY <1>1 DEF IInv, Variables
  <1> QED  BY <1>3, <1>4, <1>5 DEF IInv

-----------------------------------------------------------------------------
\* The loops that count cells, and the search of list_delete.

LEMMA WalkStarts ==
  ASSUME IInv, Calling, NEW v \in Vars, var[v] # NULL, NEW n \in Nat,
         n < Len(spine[var[v]]),
         NEW f \in {"nth", "truncate"}, UNCHANGED <<heapVars, var>>,
         \/ call' = Walk(f, v, n)
         \/ /\ n = Len(spine[var[v]]) - 1
            /\ call' = [Walk(f, v, n) EXCEPT !.cur = tail[var[v]], !.i = n]
  PROVE  IInv'
  <1> DEFINE s == spine[var[v]]
  <1>1. call = Idle /\ call.result = NULL  BY CallingFacts
  <1>2. UNCHANGED <<spine, var>>  BY DEF heapVars
  <1>3. /\ Len(s) \in Nat /\ \A k \in 1..Len(s) : s[k] \in Cells
        /\ head[var[v]] = s[1] /\ tail[var[v]] = s[Len(s)]
    BY ListFacts, VarFacts
  <1> HIDE DEF s
  <1>4. 1 \in 1..Len(s) /\ Len(s) \in 1..Len(s) /\ 0 + 1 = 1  BY <1>3 DEF s
  <1>5. Walk(f, v, n) \in Calls
    <2>1. head[var[v]] \in Cells  BY <1>3, <1>4
    <2> QED  BY <2>1, IdleFacts DEF Walk, Idle, Calls, FunctionNames
  <1>6. /\ call' \in Calls /\ call'.at = "walk" /\ call'.v = v /\ call'.n = n
        /\ call'.result = NULL /\ call'.prev = NULL /\ call'.fn = f
        /\ call'.i <= n /\ call'.cur = s[call'.i + 1] /\ call'.i + 1 \in 1..Len(s)
    <2>1. CASE call' = Walk(f, v, n)
      BY <2>1, <1>3, <1>4, <1>5 DEF Walk, Idle
    <2>2. CASE /\ n = Len(spine[var[v]]) - 1
               /\ call' = [Walk(f, v, n) EXCEPT !.cur = tail[var[v]], !.i = n]
      <3>1. n + 1 = Len(s)  BY <2>2, <1>3 DEF s
      <3>2. s[Len(s)] \in Cells  BY <1>3, <1>4
      <3>3. call' \in Calls  BY ZenonT(30), <2>2, <3>2, <1>3, <1>5 DEF Calls
      <3>4. /\ call'.at = "walk" /\ call'.v = v /\ call'.n = n /\ call'.i = n
            /\ call'.result = NULL /\ call'.prev = NULL /\ call'.fn = f
            /\ call'.cur = s[Len(s)]
        BY <2>2, <1>3 DEF Walk, Idle
      <3> QED  BY <3>1, <3>3, <3>4, <1>4
    <2> QED  BY <2>1, <2>2
  <1>7. Walking'
    BY <1>2, <1>6 DEF Walking, Source, Nth, s
  <1>8. Progress'  BY <1>6, <1>7 DEF Progress
  <1> QED  BY <1>1, <1>6, <1>8, QuietStep

LEMMA WalkingFacts ==
  ASSUME IInv, call.at = "walk"
  PROVE  /\ Walking /\ call \in Calls /\ call.v \in Vars /\ var[call.v] # NULL
         /\ Source \in Seq(Cells) /\ Len(Source) \in Nat
         /\ \A k \in 1..Len(Source) : Source[k] \in Cells /\ next[Source[k]] = Nth(Source, k + 1)
         /\ call.i \in Nat /\ call.n \in Nat /\ call.i + 1 \in 1..Len(Source)
         /\ call.cur = Source[call.i + 1] /\ call.cur \in Cells
  <1>1. Walking /\ call \in Calls  BY DEF IInv, Progress, Fields
  <1>2. call.i \in Nat /\ call.n \in Nat  BY <1>1, CallFacts
  <1>3. call.v \in Vars /\ var[call.v] # NULL  BY <1>1 DEF Walking
  <1>4. /\ Source \in Seq(Cells) /\ Len(Source) \in Nat
        /\ \A k \in 1..Len(Source) : Source[k] \in Cells /\ next[Source[k]] = Nth(Source, k + 1)
    BY <1>3, ListFacts DEF Source
  <1>5. call.i + 1 \in 1..Len(Source)  BY <1>1, <1>2, <1>4 DEF Walking
  <1>6. call.cur = Source[call.i + 1]  BY <1>1, <1>5 DEF Walking, Nth
  <1> QED  BY <1>1, <1>2, <1>3, <1>4, <1>5, <1>6

LEMMA WalkOnKeeps ==
  ASSUME IInv, WalkOn
  PROVE  IInv'
  <1> DEFINE s == Source
             i == call.i
  <1>1. /\ call.at = "walk" /\ i < call.n /\ UNCHANGED <<heapVars, var>>
        /\ call' = [call EXCEPT !.cur = next[call.cur], !.i = call.i + 1]
    BY DEF WalkOn
  <1>2. /\ Walking /\ call \in Calls /\ s \in Seq(Cells) /\ Len(s) \in Nat
        /\ \A k \in 1..Len(s) : s[k] \in Cells /\ next[s[k]] = Nth(s, k + 1)
        /\ i \in Nat /\ call.n \in Nat /\ i + 1 \in 1..Len(s) /\ call.cur = s[i + 1]
    BY <1>1, WalkingFacts
  <1>3. call.n < Len(s)  BY <1>2 DEF Walking
  <1>4. UNCHANGED <<head, length, spine, var>>  BY <1>1 DEF heapVars, headVars
  <1>5. /\ call'.at = "walk" /\ call'.i = i + 1 /\ call'.cur = next[call.cur]
        /\ call'.v = call.v /\ call'.n = call.n /\ call'.prev = call.prev
        /\ call'.fn = call.fn /\ call'.result = call.result /\ call'.x = call.x
    BY <1>1, <1>2 DEF Calls
  <1>6. s' = s  BY <1>4, <1>5 DEF Source
  <1> HIDE DEF s, i
  <1>7. i + 1 \in Nat /\ i + 1 <= call.n  BY <1>1, <1>2
  <1>8. next[call.cur] = Nth(s, (i + 1) + 1) /\ next[call.cur] \in Cells \cup {NULL}
    BY <1>2 DEF Nth
  <1>9. call' \in Calls  BY <1>1, <1>2, <1>7, <1>8 DEF Calls, i
  <1>10. Built' = Built  BY <1>4, <1>5 DEF Built
  <1>11. (Private => Private') /\ (Returns => Returns')
    BY <1>4, <1>5 DEF Private, Returns
  <1>12. Walking'
    BY <1>2, <1>4, <1>5, <1>6, <1>7, <1>8, <1>10, <1>11 DEF Walking, s
  <1>13. Progress'  BY <1>5, <1>12 DEF Progress
  <1> QED  BY <1>1, <1>5, <1>9, <1>13, QuietStep

LEMMA NthReturnsKeeps ==
  ASSUME IInv, NthReturns
  PROVE  IInv'
  <1>1. /\ call.at = "walk" /\ call.fn = "nth" /\ call' = Idle /\ UNCHANGED <<heapVars, var>>
    BY DEF NthReturns, WalkEnds, Return
  <1>2. call.result = NULL  BY <1>1, WalkingFacts DEF Walking
  <1> QED  BY <1>1, <1>2, IdleFacts, QuietStep

LEMMA DeleteStarts ==
  ASSUME IInv, NEW v \in Vars, NEW d \in Data, list_delete(v, d)
  PROVE  IInv'
  <1> DEFINE s == spine[var[v]]
             c == [Idle EXCEPT !.at = "search", !.fn = "delete", !.v = v, !.d = d,
                               !.cur = head[var[v]]]
  <1>1. Calling /\ var[v] # NULL /\ call' = c /\ UNCHANGED <<heapVars, var>>
    BY DEF list_delete
  <1>2. call.result = NULL  BY <1>1, CallingFacts
  <1>3. Len(s) \in Nat /\ Len(s) > 0 /\ s[1] \in Cells /\ head[var[v]] = s[1]
    <2>1. Len(s) \in Nat /\ Len(s) > 0 /\ head[var[v]] = s[1] /\ \A k \in 1..Len(s) : s[k] \in Cells
      BY <1>1, ListFacts, VarFacts
    <2> HIDE DEF s
    <2> QED  BY <2>1
  <1>4. c \in Calls
    <2> HIDE DEF s
    <2> QED  BY <1>3, IdleFacts DEF Calls, Idle, FunctionNames
  <1>5. /\ c.at = "search" /\ c.v = v /\ c.result = NULL /\ c.i = 0
        /\ c.cur = head[var[v]] /\ c.prev = NULL
    BY DEF Idle
  <1> HIDE DEF c
  <1>6. UNCHANGED <<spine, var>>  BY <1>1 DEF heapVars
  <1>7. s[1] = Nth(s, 0 + 1) /\ Nth(s, 0) = NULL  BY <1>3 DEF Nth
  <1>8. Searching'
    BY <1>1, <1>3, <1>5, <1>6, <1>7 DEF Searching, Source
  <1>9. Progress'  BY <1>1, <1>5, <1>8 DEF Progress
  <1> QED  BY <1>1, <1>2, <1>4, <1>5, <1>9, QuietStep

LEMMA SearchingFacts ==
  ASSUME IInv, call.at = "search"
  PROVE  /\ Searching /\ call \in Calls /\ call.v \in Vars /\ var[call.v] # NULL
         /\ Source \in Seq(Cells) /\ Len(Source) \in Nat
         /\ \A k \in 1..Len(Source) : Source[k] \in Cells /\ next[Source[k]] = Nth(Source, k + 1)
         /\ call.i \in Nat /\ NULL \notin Cells
         /\ call.cur # NULL => call.i + 1 \in 1..Len(Source) /\ call.cur = Source[call.i + 1]
                               /\ call.cur \in Cells
  <1>1. Searching /\ call \in Calls  BY DEF IInv, Progress, Fields
  <1>2. call.i \in Nat  BY <1>1, CallFacts
  <1>3. call.v \in Vars /\ var[call.v] # NULL  BY <1>1 DEF Searching
  <1>4. /\ Source \in Seq(Cells) /\ Len(Source) \in Nat
        /\ \A k \in 1..Len(Source) : Source[k] \in Cells /\ next[Source[k]] = Nth(Source, k + 1)
    BY <1>3, ListFacts DEF Source
  <1>5. call.cur # NULL => call.i + 1 \in 1..Len(Source) /\ call.cur = Source[call.i + 1]
    BY <1>1 DEF Searching, Nth
  <1> QED  BY <1>1, <1>2, <1>3, <1>4, <1>5, PgListAssumption

LEMMA SearchOnKeeps ==
  ASSUME IInv, SearchOn
  PROVE  IInv'
  <1> DEFINE s == Source
             i == call.i
  <1>1. /\ call.at = "search" /\ call.cur # NULL /\ UNCHANGED <<heapVars, var>>
        /\ call' = [call EXCEPT !.prev = call.cur, !.cur = next[call.cur], !.i = call.i + 1]
    BY DEF SearchOn
  <1>2. /\ Searching /\ call \in Calls /\ s \in Seq(Cells) /\ Len(s) \in Nat
        /\ \A k \in 1..Len(s) : s[k] \in Cells /\ next[s[k]] = Nth(s, k + 1)
        /\ i \in Nat /\ i + 1 \in 1..Len(s) /\ call.cur = s[i + 1]
    BY <1>1, SearchingFacts
  <1>3. UNCHANGED <<spine, var>>  BY <1>1 DEF heapVars
  <1>4. /\ call'.at = "search" /\ call'.i = i + 1 /\ call'.cur = next[call.cur]
        /\ call'.v = call.v /\ call'.prev = call.cur /\ call'.result = call.result
    BY <1>1, <1>2 DEF Calls
  <1>5. s' = s  BY <1>3, <1>4 DEF Source
  <1> HIDE DEF s, i
  <1>6. next[call.cur] = Nth(s, (i + 1) + 1) /\ next[call.cur] \in Cells \cup {NULL}
    BY <1>2 DEF Nth
  <1>7. call.cur = Nth(s, i + 1) /\ call.cur \in Cells /\ i + 1 \in Nat  BY <1>2 DEF Nth
  <1>8. call' \in Calls  BY <1>1, <1>2, <1>6, <1>7 DEF Calls, i
  <1>9. Searching'
    BY <1>2, <1>3, <1>4, <1>5, <1>6, <1>7 DEF Searching, s
  <1>10. Progress'  BY <1>4, <1>9 DEF Progress
  <1> QED  BY <1>1, <1>4, <1>8, <1>10, QuietStep

LEMMA SearchFailsKeeps ==
  ASSUME IInv, SearchFails
  PROVE  IInv'
  <1>1. call.at = "search" /\ call' = Idle /\ UNCHANGED <<heapVars, var>>
    BY DEF SearchFails, Return
  <1>2. call.result = NULL  BY <1>1, SearchingFacts DEF Searching
  <1> QED  BY <1>1, <1>2, IdleFacts, QuietStep

-----------------------------------------------------------------------------
\* The loops over one list that search another one.

LEMMA ContentsType ==
  ASSUME IInv, NEW l, l = NULL \/ l = call.result \/ \E v \in Vars : l = var[v]
  PROVE  Contents(l) \in Seq(Data \cup {NULL})
  <1>1. CASE l = NULL  BY <1>1, EmptySeq DEF Contents
  <1>2. CASE l # NULL
    <2> DEFINE s == spine[l]
    <2>1. s \in Seq(Cells) /\ Len(s) \in Nat /\ \A k \in 1..Len(s) : s[k] \in Cells
      BY <1>2, ListFacts
    <2>2. DOMAIN s = 1..Len(s)  BY <2>1, LenProperties
    <2>3. data \in [Cells -> Data \cup {NULL}]  BY DEF IInv, Fields
    <2>4. Contents(l) = [k \in 1..Len(s) |-> data[s[k]]]  BY <1>2, <2>2 DEF Contents
    <2> HIDE DEF s
    <2>5. \A k \in 1..Len(s) : data[s[k]] \in Data \cup {NULL}  BY <2>1, <2>3
    <2>6. [k \in 1..Len(s) |-> data[s[k]]] \in Seq(Data \cup {NULL})
      BY <2>1, <2>5, IsASeq
    <2> QED  BY <2>4, <2>6
  <1> QED  BY <1>1, <1>2

LEMMA EachStarts ==
  ASSUME IInv, Calling, NEW v \in Vars, NEW w \in Vars, NEW x \in Vars,
         NEW f, NEW r, NEW over, Each(f, v, w, x, r, over),
         \/ f = "union" /\ r = NULL /\ over = var[w] /\ var[x] = NULL
         \/ f = "difference" /\ r = NULL /\ over = var[v] /\ var[x] = NULL
         \/ f = "concatUnique" /\ r = var[v] /\ over = var[w] /\ x = v
  PROVE  IInv'
  <1> DEFINE o == IF f = "concatUnique" THEN Contents(r) ELSE <<>>
             c == [Idle EXCEPT !.at = "each", !.fn = f, !.v = v, !.w = w, !.x = x,
                               !.result = r, !.cur = list_head(over), !.old = o]
  <1>1. call' = c /\ UNCHANGED <<heapVars, var>>  BY DEF Each
  <1>2. call.result = NULL  BY CallingFacts
  <1>3. UNCHANGED <<length, head, tail, spine, var>>  BY <1>1 DEF heapVars, headVars
  <1>4. \/ over = NULL /\ list_head(over) = NULL
        \/ /\ over # NULL /\ list_head(over) = spine[over][1]
           /\ Len(spine[over]) \in Nat /\ Len(spine[over]) > 0 /\ spine[over][1] \in Cells
    <2>1. CASE over = NULL  BY <2>1 DEF list_head
    <2>2. CASE over # NULL
      <3>1. PICK u \in Vars : over = var[u]  OBVIOUS
      <3> DEFINE s == spine[over]
      <3>2. Len(s) \in Nat /\ Len(s) > 0 /\ head[over] = s[1] /\ \A k \in 1..Len(s) : s[k] \in Cells
        BY <2>2, <3>1, ListFacts, VarFacts
      <3> HIDE DEF s
      <3>3. s[1] \in Cells  BY <3>2
      <3> QED  BY <2>2, <3>2, <3>3 DEF s, list_head
    <2> QED  BY <2>1, <2>2
  <1>5. o \in Seq(Data \cup {NULL})
    <2>1. r = NULL \/ \E u \in Vars : r = var[u]  OBVIOUS
    <2>2. Contents(r) \in Seq(Data \cup {NULL})  BY <2>1, ContentsType
    <2> QED  BY <2>2, EmptySeq
  <1>6. r \in Heads \cup {NULL} /\ list_head(over) \in Cells \cup {NULL} /\ f \in FunctionNames
    BY <1>4 DEF IInv, Fields, FunctionNames
  <1> HIDE DEF o
  <1>7. c \in Calls  BY <1>5, <1>6, IdleFacts DEF Calls, Idle
  <1>8. /\ c.at = "each" /\ c.fn = f /\ c.v = v /\ c.w = w /\ c.x = x /\ c.result = r
        /\ c.cur = list_head(over) /\ c.prev = NULL
    BY DEF Idle
  <1> HIDE DEF c
  <1>9. Iterated' = over  BY <1>1, <1>3, <1>8 DEF Iterated
  <1>10. call'.cur # NULL =>
           Iterated' # NULL /\ \E p \in 1..Len(spine'[Iterated']) : call'.cur = spine'[Iterated'][p]
    BY <1>1, <1>3, <1>4, <1>8, <1>9
  <1>11. r # NULL => Header(spine[r], r, length, head, tail)  BY VarFacts
  <1>12. Visiting'
    BY <1>1, <1>3, <1>8, <1>10, <1>11 DEF Visiting, Built
  <1>13. Progress'  BY <1>1, <1>8, <1>12 DEF Progress
  <1> QED  BY <1>1, <1>2, <1>7, <1>8, <1>13, QuietStep

LEMMA VisitingFacts ==
  ASSUME IInv, call.at = "each"
  PROVE  /\ Visiting /\ call \in Calls /\ call.v \in Vars /\ call.w \in Vars /\ call.x \in Vars
         /\ NULL \notin Cells
         /\ call.cur # NULL =>
              /\ Iterated # NULL /\ \E u \in Vars : Iterated = var[u]
              /\ Iterated = (IF call.fn # "difference" THEN var[call.w] ELSE var[call.v])
              /\ spine[Iterated] \in Seq(Cells) /\ Len(spine[Iterated]) \in Nat
              /\ \A k \in 1..Len(spine[Iterated]) :
                   /\ spine[Iterated][k] \in Cells
                   /\ next[spine[Iterated][k]] = Nth(spine[Iterated], k + 1)
              /\ \E p \in 1..Len(spine[Iterated]) : call.cur = spine[Iterated][p]
  <1>1. Visiting /\ call \in Calls  BY DEF IInv, Progress, Fields
  <1>2. call.v \in Vars /\ call.w \in Vars /\ call.x \in Vars  BY <1>1 DEF Visiting
  <1>3. Iterated = (IF call.fn # "difference" THEN var[call.w] ELSE var[call.v])
    BY DEF Iterated
  <1>4. \E u \in Vars : Iterated = var[u]  BY <1>2, <1>3
  <1>5. Iterated # NULL =>
          /\ spine[Iterated] \in Seq(Cells) /\ Len(spine[Iterated]) \in Nat
          /\ \A k \in 1..Len(spine[Iterated]) :
               /\ spine[Iterated][k] \in Cells
               /\ next[spine[Iterated][k]] = Nth(spine[Iterated], k + 1)
    BY <1>4, ListFacts
  <1>6. call.cur # NULL =>
          Iterated # NULL /\ \E p \in 1..Len(spine[Iterated]) : call.cur = spine[Iterated][p]
    BY <1>1 DEF Visiting
  <1> QED  BY <1>1, <1>2, <1>3, <1>4, <1>5, <1>6, PgListAssumption

\* A cell of a list leads to a cell of the list, or nowhere.
LEMMA NextInList ==
  ASSUME NEW s \in Seq(Cells), NEW nx, \A k \in 1..Len(s) : nx[s[k]] = Nth(s, k + 1),
         NEW p \in 1..Len(s), NEW c, c = nx[s[p]], c # NULL
  PROVE  \E q \in 1..Len(s) : c = s[q]
  <1>1. c = Nth(s, p + 1)  OBVIOUS
  <1>2. p + 1 \in 1..Len(s)  BY <1>1 DEF Nth
  <1> QED  BY <1>1, <1>2 DEF Nth

LEMMA EachFoundKeeps ==
  ASSUME IInv, EachFound
  PROVE  IInv'
  <1>1. /\ call.at = "each" /\ call.cur # NULL /\ UNCHANGED <<heapVars, var>>
        /\ call' = [call EXCEPT !.cur = next[call.cur]]
    BY DEF EachFound
  <1>2. UNCHANGED <<length, head, tail, spine, var, next>>
    BY <1>1 DEF heapVars, headVars, cellVars
  <1>3. Visiting /\ call \in Calls  BY <1>1, VisitingFacts
  <1>4. /\ call'.at = "each" /\ call'.fn = call.fn /\ call'.v = call.v /\ call'.w = call.w
        /\ call'.x = call.x /\ call'.result = call.result /\ call'.prev = call.prev
        /\ call'.cur = next[call.cur]
    BY <1>1, <1>3 DEF Calls
  <1>5. Iterated' = Iterated  BY <1>1, <1>2, <1>4 DEF Iterated
  <1>6. Built' = Built /\ (Private => Private')  BY <1>2, <1>4 DEF Built, Private
  <1> DEFINE s == spine[Iterated]
  <1>7. /\ Iterated # NULL /\ s \in Seq(Cells)
        /\ \A k \in 1..Len(s) : next[s[k]] = Nth(s, k + 1)
        /\ \A k \in 1..Len(s) : s[k] \in Cells
        /\ \E p \in 1..Len(s) : call.cur = s[p]
    BY <1>1, VisitingFacts
  <1>8. s' = s  BY <1>2, <1>5
  <1> HIDE DEF s
  <1>9. PICK p \in 1..Len(s) : call.cur = s[p]  BY <1>7
  <1>10. call'.cur # NULL => \E q \in 1..Len(s) : call'.cur = s[q]
    <2>1. call'.cur = next[s[p]]  BY <1>4, <1>9
    <2> QED  BY <1>7, <2>1, NextInList
  <1>11. call'.cur \in Cells \cup {NULL}  BY <1>7, <1>10
  <1>12. call' \in Calls  BY <1>1, <1>3, <1>4, <1>11 DEF Calls
  <1>13. call'.cur # NULL =>
           Iterated' # NULL /\ \E q \in 1..Len(spine'[Iterated']) : call'.cur = spine'[Iterated'][q]
    BY <1>5, <1>7, <1>8, <1>10 DEF s
  <1>14. Visiting'
    BY <1>2, <1>3, <1>4, <1>6, <1>13 DEF Visiting
  <1>15. Progress'  BY <1>4, <1>14 DEF Progress
  <1> QED  BY <1>1, <1>4, <1>12, <1>15, QuietStep

LEMMA EachEndsKeeps ==
  ASSUME IInv, EachEnds
  PROVE  IInv'
  <1> DEFINE r == call.result
             x == call.x
  <1>1. /\ call.at = "each" /\ call' = Idle /\ UNCHANGED heapVars
        /\ var' = [var EXCEPT ![x] = r]
    BY DEF EachEnds, Assign, Return
  <1>2. UNCHANGED <<heap, data, next, length, head, tail, spine>>
    BY <1>1 DEF heapVars, cellVars, headVars
  <1>3. /\ Visiting /\ call \in Calls /\ x \in Vars /\ r \in Heads \cup {NULL}
        /\ call' \in Calls /\ call'.result = NULL /\ Progress'
    BY <1>1, VisitingFacts, CallFacts, IdleFacts
  <1>4. var \in [Vars -> Heads \cup {NULL}]  BY DEF IInv, Fields
  <1>5. /\ var' \in [Vars -> Heads \cup {NULL}] /\ var'[x] = r
        /\ \A u \in Vars : u # x => var'[u] = var[u]
    BY <1>1, <1>3, <1>4
  <1>6. /\ r # NULL => Header(spine[r], r, length, head, tail)
        /\ \/ r = var[x]
           \/ var[x] = NULL /\ (r = NULL \/ \A u \in Vars : var[u] # r)
    BY <1>3 DEF Visiting, Built, Private
  <1> HIDE DEF r, x
  <1>7. Live' = Live
    <2>1. \A l : l \in Live' => l \in Live
      BY <1>3, <1>5, LiveDef, LiveDefNext DEF r
    <2>2. \A l : l \in Live => l \in Live'
      BY <1>3, <1>5, <1>6, LiveDef, LiveDefNext DEF r
    <2> QED  BY <2>1, <2>2
  <1>8. Heap(Live, heap, spine, next)'  BY <1>2, <1>7 DEF IInv
  <1>9. Fields'  BY <1>2, <1>3, <1>5 DEF IInv, Fields
  <1>10. Variables'
    <2>1. \A u \in Vars : var'[u] # NULL =>
            Header(spine[var'[u]], var'[u], length, head, tail)
      BY <1>5, <1>6 DEF IInv, Variables
    <2>2. \A u, w \in Vars : u # w /\ var'[u] # NULL => var'[u] # var'[w]
      BY <1>3, <1>5, <1>6 DEF IInv, Variables
    <2> QED  BY <1>2, <2>1, <2>2 DEF Variables
  <1> QED  BY <1>3, <1>8, <1>9, <1>10 DEF IInv

-----------------------------------------------------------------------------
\* Blocks are freed.

LEMMA WithoutFacts ==
  ASSUME NEW D, NEW R, NEW f \in [D -> R], NULL \in R, NEW B
  PROVE  /\ Without(f, B) \in [D -> R]
         /\ \A a \in D : Without(f, B)[a] = IF a \in B THEN NULL ELSE f[a]
  BY DEF Without

LEMMA WithoutTypes ==
  ASSUME IInv, NEW B
  PROVE  /\ Without(next, B) \in [Cells -> Cells \cup {NULL}]
         /\ \A b \in Cells : Without(next, B)[b] = IF b \in B THEN NULL ELSE next[b]
         /\ Without(data, B) \in [Cells -> Data \cup {NULL}]
         /\ Without(length, B) \in [Heads -> (Nat \ {0}) \cup {NULL}]
         /\ Without(head, B) \in [Heads -> Cells \cup {NULL}]
         /\ Without(tail, B) \in [Heads -> Cells \cup {NULL}]
         /\ Without(spine, B) \in [Heads -> Seq(Cells) \cup {NULL}]
         /\ \A l \in Heads \ B :
              /\ Without(spine, B)[l] = spine[l] /\ Without(length, B)[l] = length[l]
              /\ Without(head, B)[l] = head[l] /\ Without(tail, B)[l] = tail[l]
  <1>1. /\ next \in [Cells -> Cells \cup {NULL}] /\ data \in [Cells -> Data \cup {NULL}]
        /\ length \in [Heads -> (Nat \ {0}) \cup {NULL}]
        /\ head \in [Heads -> Cells \cup {NULL}] /\ tail \in [Heads -> Cells \cup {NULL}]
        /\ spine \in [Heads -> Seq(Cells) \cup {NULL}]
    BY DEF IInv, Fields, Heap
  <1> QED  BY <1>1 DEF Without

\* The lists of the variables stay as they are.
LEMMA VariablesSame ==
  ASSUME IInv, UNCHANGED var,
         \A v \in Vars : var[v] # NULL =>
           /\ spine'[var[v]] = spine[var[v]] /\ length'[var[v]] = length[var[v]]
           /\ head'[var[v]] = head[var[v]] /\ tail'[var[v]] = tail[var[v]]
  PROVE  Variables'
  <1>1. \A v \in Vars : var[v] # NULL => Header(spine'[var[v]], var[v], length', head', tail')
    BY DEF IInv, Variables, Header
  <1>2. \A v, w \in Vars : v # w /\ var[v] # NULL => var[v] # var[w]
    BY DEF IInv, Variables
  <1> QED  BY <1>1, <1>2 DEF Variables

LEMMA StartFreeKeeps ==
  ASSUME IInv, NEW v \in Vars, var[v] # NULL, call.result = NULL, StartFree(v)
  PROVE  IInv'
  <1> DEFINE l == var[v]
             s == spine[l]
             c == [Idle EXCEPT !.at = "free", !.result = l, !.cur = head[l]]
  <1>1. call' = c /\ var' = [var EXCEPT ![v] = NULL] /\ UNCHANGED heapVars
    BY DEF StartFree, Assign
  <1>2. UNCHANGED <<heap, data, next, length, head, tail, spine>>
    BY <1>1 DEF heapVars, cellVars, headVars
  <1>3. var \in [Vars -> Heads \cup {NULL}] /\ l \in Heads  BY DEF IInv, Fields
  <1>4. /\ var' \in [Vars -> Heads \cup {NULL}] /\ var'[v] = NULL
        /\ \A u \in Vars : u # v => var'[u] = var[u]
    BY <1>1, <1>3
  <1>5. \A u \in Vars : u # v => var[u] # l  BY VarFacts
  <1>6. head[l] = Nth(s, 1) /\ head[l] \in Cells
    <2>1. head[l] = s[1] /\ Len(s) > 0 /\ Len(s) \in Nat /\ \A k \in 1..Len(s) : s[k] \in Cells
      BY VarFacts, ListFacts
    <2> HIDE DEF s
    <2>2. 1 \in 1..Len(s)  BY <2>1
    <2> QED  BY <2>1, <2>2 DEF Nth
  <1> HIDE DEF s, l
  <1>7. c \in Calls  BY <1>3, <1>6, IdleFacts DEF Calls
  <1>8. c.at = "free" /\ c.result = l /\ c.cur = head[l] /\ c.prev = NULL  BY DEF Idle
  <1> HIDE DEF c
  <1>9. Live' = Live
    <2>1. \A m : m \in Live' <=> m # NULL /\ (m = l \/ \E u \in Vars : m = var'[u])
      BY <1>1, <1>8, LiveDefNext
    <2>2. \A m : m \in Live <=> m # NULL /\ \E u \in Vars : m = var[u]
      BY LiveDef
    <2>3. (\E u \in Vars : l = var[u]) /\ l # NULL  BY DEF l
    <2> QED  BY <1>4, <2>1, <2>2, <2>3 DEF l
  <1>10. Heap(Live, heap, spine, next)'  BY <1>2, <1>9 DEF IInv
  <1>11. Fields'  BY <1>1, <1>2, <1>4, <1>7 DEF IInv, Fields
  <1>12. Variables'
    <2>1. \A u \in Vars : var'[u] # NULL => Header(spine[var'[u]], var'[u], length, head, tail)
      BY <1>4 DEF IInv, Variables
    <2>2. \A u, w \in Vars : u # w /\ var'[u] # NULL => var'[u] # var'[w]
      BY <1>4 DEF IInv, Variables
    <2> QED  BY <1>2, <2>1, <2>2 DEF Variables
  <1>13. Freeing'
    <2>1. \A u \in Vars : var'[u] # l  BY <1>4, <1>5, <1>3, PgListAssumption DEF l
    <2>2. l # NULL  BY DEF l
    <2> QED  BY <1>1, <1>2, <1>6, <1>8, <2>1, <2>2 DEF Freeing, Private, Built, s
  <1>14. Progress'  BY <1>1, <1>8, <1>13 DEF Progress
  <1> QED  BY <1>10, <1>11, <1>12, <1>14 DEF IInv

LEMMA FreeingFacts ==
  ASSUME IInv, call.at = "free"
  PROVE  /\ Freeing /\ call \in Calls /\ call.result # NULL /\ call.result \in Heads
         /\ Built \in Seq(Cells) /\ Len(Built) \in Nat
         /\ \A v \in Vars : var[v] # call.result
         /\ call.cur # NULL => Len(Built) > 0 /\ call.cur = Built[1] /\ call.cur \in Cells
         /\ call.cur = NULL => Len(Built) = 0
  <1>1. Freeing /\ call \in Calls  BY DEF IInv, Progress, Fields
  <1>2. call.result # NULL /\ \A v \in Vars : var[v] # call.result
    BY <1>1 DEF Freeing, Private
  <1>3. /\ call.result \in Heads /\ Built \in Seq(Cells) /\ Len(Built) \in Nat
        /\ \A k \in 1..Len(Built) : Built[k] \in Cells /\ NULL \notin Cells
    BY <1>2, ListFacts DEF Built
  <1>4. /\ call.cur # NULL => 1 \in 1..Len(Built) /\ call.cur = Built[1]
        /\ call.cur = NULL => 1 \notin 1..Len(Built)
    BY <1>1, <1>3 DEF Freeing, Nth
  <1> QED  BY <1>1, <1>2, <1>3, <1>4

LEMMA FreeCellKeeps ==
  ASSUME IInv, FreeCell
  PROVE  IInv'
  <1> DEFINE r == call.result
             s == Built
             t == Delete(s, 0)
             c == call.cur
  <1>1. /\ call.at = "free" /\ c # NULL /\ call' = [call EXCEPT !.cur = next[call.cur]]
        /\ heap' = heap \ {c} /\ data' = Without(data, {c}) /\ next' = Without(next, {c})
        /\ spine' = [spine EXCEPT ![r] = Tail(spine[r])]
        /\ UNCHANGED <<length, head, tail, var>>
    BY DEF FreeCell, headVars
  <1>2. /\ Freeing /\ call \in Calls /\ r # NULL /\ r \in Heads
        /\ s \in Seq(Cells) /\ Len(s) \in Nat /\ Len(s) > 0 /\ c = s[1] /\ c \in Cells
        /\ \A v \in Vars : var[v] # r
    BY <1>1, FreeingFacts
  <1>3. /\ r \in Live /\ Distinct(s) /\ Chained(s, next) /\ Members(s) \subseteq heap
        /\ next[s[1]] = Nth(s, 1 + 1)
    <2>1. 1 \in 1..Len(s)  BY <1>2
    <2> QED  BY <1>2, <2>1, ListFacts DEF Built
  <1>4. Tail(spine[r]) = t  BY <1>2, TailIsDelete DEF Built
  <1>5. 0 \in 0..(Len(s) - 1) /\ 0 + 1 = 1  BY <1>2
  <1>6. /\ t \in Seq(Cells) /\ Len(t) = Len(s) - 1
        /\ \A j \in 1..(Len(s) - 1) : t[j] = IF j <= 0 THEN s[j] ELSE s[j + 1]
        /\ Members(t) = Members(s) \ {c} /\ Distinct(t)
    BY <1>2, <1>3, <1>5, DeleteElements, DeleteMembers
  <1>7. /\ next \in [Cells -> Cells \cup {NULL}] /\ data \in [Cells -> Data \cup {NULL}]
        /\ spine \in [Heads -> Seq(Cells) \cup {NULL}]
    BY DEF IInv, Fields, Heap
  <1>8. /\ next' \in [Cells -> Cells \cup {NULL}] /\ data' \in [Cells -> Data \cup {NULL}]
        /\ \A b \in Cells : b # c => next'[b] = next[b]
    BY <1>1, WithoutTypes
  <1> DEFINE nx2 == next'
  <1> HIDE DEF nx2
  <1>9. Chained(t, nx2)
    <2>1. \A j \in 1..Len(s) : j # 0 /\ j # 0 + 1 => nx2[s[j]] = next[s[j]]
      <3>1. ASSUME NEW j \in 1..Len(s), j # 1 PROVE nx2[s[j]] = next[s[j]]
        <4>1. s[j] # s[1] /\ s[j] \in Cells  BY <1>2, <1>3, <3>1, LenProperties DEF Distinct
        <4> QED  BY <4>1, <1>2, <1>8 DEF nx2
      <3> QED  BY <3>1
    <2> QED  BY <1>2, <1>3, <1>5, <2>1, DeleteChained
  <1>10. Members(s) \subseteq Cells /\ c \in Members(s)
    <2>1. 1 \in 1..Len(s)  BY <1>2
    <2> QED  BY <1>2, <2>1, MemberFacts
  <1> HIDE DEF t, s, c, r
  <1>11. /\ spine' = [spine EXCEPT ![r] = t] /\ spine[r] = s
         /\ heap' = (heap \ Members(s)) \cup Members(t) /\ Members(t) \cap heap \subseteq Members(s)
    <2>1. spine[r] = s  BY DEF Built, s, r
    <2>2. heap' = (heap \ Members(s)) \cup Members(t)  BY <1>1, <1>3, <1>6, <1>10
    <2> QED  BY <1>1, <1>4, <1>6, <2>1, <2>2
  <1>12. Heap(Live, heap, spine, next)  BY DEF IInv
  <1>13. \A m \in Live \ {r} : \A b \in Members(spine[m]) : nx2[b] = next[b]
    <2>1. \A m \in Live : Members(spine[m]) \subseteq Cells  BY <1>12, HeapFacts
    <2>2. \A m \in Live \ {r} : c \notin Members(spine[m])
      BY <1>3, <1>10, <1>11, <1>12, HeapFacts
    <2> QED  BY <1>8, <2>1, <2>2 DEF nx2
  <1>14. /\ call'.at = "free" /\ call'.result = r /\ call'.prev = call.prev
         /\ call'.cur = next[call.cur]
    BY <1>1, <1>2 DEF Calls, r
  <1>15. Live' = Live  BY <1>1, <1>14, LiveDef, LiveDefNext DEF r
  <1>16. nx2 \in [Cells -> Cells \cup {NULL}]  BY <1>8 DEF nx2
  <1>17. Heap(Live, heap', spine', nx2)
    BY <1>3, <1>6, <1>9, <1>11, <1>12, <1>13, <1>16, HeapChange
  <1>18. Heap(Live, heap, spine, next)'  BY <1>15, <1>17 DEF nx2
  <1>19. Variables'
    <2>1. \A v \in Vars : var[v] # NULL => spine'[var[v]] = spine[var[v]]
      BY <1>2, <1>7, <1>11 DEF IInv, Fields
    <2> QED  BY <1>1, <2>1, VariablesSame
  <1>20. call' \in Calls
    <2>1. next[call.cur] \in Cells \cup {NULL}  BY <1>2, <1>7 DEF c
    <2> QED  BY <1>1, <1>2, <2>1 DEF Calls
  <1>21. Fields'  BY <1>1, <1>8, <1>20 DEF IInv, Fields
  <1>22. Freeing'
    <2>1. Built' = t  BY <1>2, <1>7, <1>11, <1>14 DEF Built
    <2>2. Private'  BY <1>1, <1>2, <1>14 DEF Private, r
    <2>3. call.prev = NULL  BY <1>2 DEF Freeing
    <2>4. Nth(t, 1) = Nth(s, 1 + 1)
      <3>1. CASE Len(s) = 1
        <4>1. 1 \notin 1..0 /\ 1 + 1 \notin 1..1 /\ Len(s) - 1 = 0  BY <3>1
        <4> QED  BY <3>1, <4>1, <1>6 DEF Nth
      <3>2. CASE Len(s) # 1
        <4>1. 1 \in 1..(Len(s) - 1) /\ 1 + 1 \in 1..Len(s)
          <5>1. \A n \in Nat : n > 0 /\ n # 1 => 1 \in 1..(n - 1) /\ 1 + 1 \in 1..n
            OBVIOUS
          <5> QED  BY <5>1, <3>2, <1>2
        <4>2. t[1] = s[1 + 1]  BY <4>1, <1>6
        <4> QED  BY <4>1, <4>2, <1>6 DEF Nth
      <3> QED  BY <3>1, <3>2
    <2> QED  BY <1>2, <1>3, <1>14, <2>1, <2>2, <2>3, <2>4 DEF Freeing, c
  <1>23. Progress'  BY <1>14, <1>22 DEF Progress
  <1> QED  BY <1>18, <1>19, <1>21, <1>23 DEF IInv

LEMMA FreeEndsKeeps ==
  ASSUME IInv, FreeEnds
  PROVE  IInv'
  <1> DEFINE r == call.result
             B == {r}
  <1>1. /\ call.at = "free" /\ call.cur = NULL /\ call' = Idle /\ UNCHANGED var
        /\ heap' = heap \ B /\ data' = Without(data, B) /\ next' = Without(next, B)
        /\ length' = Without(length, B) /\ spine' = Without(spine, B)
        /\ head' = Without(head, B) /\ tail' = Without(tail, B)
    BY DEF FreeEnds, Release, Return
  <1>2. /\ r # NULL /\ r \in Heads /\ spine[r] \in Seq(Cells) /\ Len(spine[r]) = 0
        /\ \A v \in Vars : var[v] # r
    BY <1>1, FreeingFacts DEF Built
  <1>3. r \in Live  BY <1>2, LiveDef
  <1>4. Members(spine[r]) = {}
    <2>1. DOMAIN spine[r] = 1..0  BY <1>2, LenProperties
    <2> QED  BY <2>1 DEF Members
  <1>5. /\ next \in [Cells -> Cells \cup {NULL}] /\ data \in [Cells -> Data \cup {NULL}]
        /\ length \in [Heads -> (Nat \ {0}) \cup {NULL}]
        /\ head \in [Heads -> Cells \cup {NULL}] /\ tail \in [Heads -> Cells \cup {NULL}]
        /\ spine \in [Heads -> Seq(Cells) \cup {NULL}]
        /\ var \in [Vars -> Heads \cup {NULL}] /\ Live \subseteq Heads
    BY DEF IInv, Fields, Heap
  <1> HIDE DEF r
  <1>6. B \cap Cells = {}  BY <1>2, PgListAssumption
  <1> HIDE DEF B
  <1>7. /\ next' \in [Cells -> Cells \cup {NULL}] /\ data' \in [Cells -> Data \cup {NULL}]
        /\ \A b \in Cells : next'[b] = next[b]
    BY <1>1, <1>6, WithoutTypes
  <1>8. /\ length' \in [Heads -> (Nat \ {0}) \cup {NULL}]
        /\ head' \in [Heads -> Cells \cup {NULL}] /\ tail' \in [Heads -> Cells \cup {NULL}]
        /\ spine' \in [Heads -> Seq(Cells) \cup {NULL}]
    BY <1>1, WithoutTypes
  <1>9. \A l \in Heads : l # r => /\ spine'[l] = spine[l] /\ length'[l] = length[l]
                                  /\ head'[l] = head[l] /\ tail'[l] = tail[l]
    BY <1>1, WithoutTypes DEF B
  <1>10. Heap(Live, heap, spine, next)  BY DEF IInv
  <1> DEFINE nx2 == next'
             sp2 == spine'
  <1>11. /\ nx2 \in [Cells -> Cells \cup {NULL}] /\ sp2 \in [Heads -> Seq(Cells) \cup {NULL}]
         /\ \A m \in Live \ {r} : sp2[m] = spine[m] /\ \A b \in Members(spine[m]) : nx2[b] = next[b]
    <2>1. \A m \in Live : Members(spine[m]) \subseteq Cells  BY <1>10, HeapFacts
    <2> QED  BY <1>5, <1>7, <1>8, <1>9, <2>1
  <1> HIDE DEF nx2, sp2
  <1>12. Heap(Live \ {r}, heap \ ({r} \cup Members(spine[r])), sp2, nx2)
    BY <1>3, <1>10, <1>11, HeapRelease
  <1>13. heap' = heap \ ({r} \cup Members(spine[r]))  BY <1>1, <1>4 DEF B
  <1>14. Live' = Live \ {r}
    <2>1. \A m : m \in Live' <=> m # NULL /\ \E u \in Vars : m = var[u]
      BY <1>1, IdleFacts, LiveDefNext
    <2> QED  BY <1>2, <2>1, LiveDef DEF r
  <1>15. Heap(Live, heap, spine, next)'  BY <1>12, <1>13, <1>14 DEF nx2, sp2
  <1>16. Variables'
    <2>1. \A v \in Vars : var[v] # NULL => var[v] \in Heads /\ var[v] # r
      BY <1>2, <1>5
    <2> QED  BY <1>1, <1>9, <2>1, VariablesSame
  <1>17. Fields' /\ Progress'  BY <1>1, <1>5, <1>7, <1>8, IdleFacts DEF Fields
  <1> QED  BY <1>15, <1>16, <1>17 DEF IInv

LEMMA ExitKeeps ==
  ASSUME IInv, Exit
  PROVE  IInv'
  <1>1. /\ heap' = heap \ heap /\ data' = Without(data, heap) /\ next' = Without(next, heap)
        /\ length' = Without(length, heap) /\ spine' = Without(spine, heap)
        /\ head' = Without(head, heap) /\ tail' = Without(tail, heap)
        /\ var' = [v \in Vars |-> NULL] /\ call' = [Idle EXCEPT !.at = "exit"]
    BY DEF Exit, Release
  <1>2. /\ next' \in [Cells -> Cells \cup {NULL}] /\ data' \in [Cells -> Data \cup {NULL}]
        /\ length' \in [Heads -> (Nat \ {0}) \cup {NULL}]
        /\ head' \in [Heads -> Cells \cup {NULL}] /\ tail' \in [Heads -> Cells \cup {NULL}]
        /\ spine' \in [Heads -> Seq(Cells) \cup {NULL}]
    BY <1>1, WithoutTypes
  <1>3. /\ call' \in Calls /\ call'.at = "exit" /\ call'.result = NULL
    <2>1. call' \in Calls  BY <1>1, IdleFacts DEF Calls
    <2> QED  BY <1>1, <2>1 DEF Idle
  <1>4. Live' = {}  BY <1>1, <1>3, LiveDefNext
  <1> DEFINE nx2 == next'
             sp2 == spine'
  <1> HIDE DEF nx2, sp2
  <1>5. Heap({}, {}, sp2, nx2)
    <2>1. nx2 \in [Cells -> Cells \cup {NULL}] /\ sp2 \in [Heads -> Seq(Cells) \cup {NULL}]
      BY <1>2 DEF nx2, sp2
    <2> QED  BY <2>1 DEF Heap
  <1>6. heap' = {}  BY <1>1
  <1>7. Heap(Live, heap, spine, next)'  BY <1>4, <1>5, <1>6 DEF nx2, sp2
  <1>8. Fields'  BY <1>1, <1>2, <1>3 DEF Fields
  <1>9. Variables'  BY <1>1 DEF Variables
  <1>10. Progress'  BY <1>1, <1>3 DEF Progress
  <1> QED  BY <1>7, <1>8, <1>9, <1>10 DEF IInv

LEMMA TruncateToNilKeeps ==
  ASSUME IInv, NEW v \in Vars, TruncateToNil(v)
  PROVE  IInv'
  <1> DEFINE l == var[v]
             B == {l} \cup CellsOf(l)
  <1>1. /\ Calling /\ l # NULL /\ call' = call /\ var' = [var EXCEPT ![v] = NULL]
        /\ heap' = heap \ B /\ data' = Without(data, B) /\ next' = Without(next, B)
        /\ length' = Without(length, B) /\ spine' = Without(spine, B)
        /\ head' = Without(head, B) /\ tail' = Without(tail, B)
    BY DEF TruncateToNil, Release, Assign
  <1>2. B = {l} \cup Members(spine[l])  BY DEF CellsOf, Members
  <1>3. /\ call = Idle /\ call.result = NULL
        /\ \A m : m \in Live <=> m # NULL /\ \E u \in Vars : m = var[u]
    BY <1>1, CallingFacts
  <1>4. /\ l \in Live /\ l \in Heads /\ Members(spine[l]) \subseteq Cells  BY <1>1, ListFacts
  <1>5. var \in [Vars -> Heads \cup {NULL}] /\ Live \subseteq Heads  BY DEF IInv, Fields, Heap
  <1>6. /\ var' \in [Vars -> Heads \cup {NULL}] /\ var'[v] = NULL
        /\ \A u \in Vars : u # v => var'[u] = var[u] /\ (var[u] # NULL => var[u] # l)
    BY <1>1, <1>5, VarFacts
  <1>7. Live' = Live \ {l}
    <2>1. \A m : m \in Live' <=> m # NULL /\ \E u \in Vars : m = var'[u]
      BY <1>1, <1>3, LiveDefNext
    <2> HIDE DEF B
    <2>2. \A m : m \in Live' => m \in Live \ {l}  BY <2>1, <1>3, <1>6
    <2>3. \A m : m \in Live \ {l} => m \in Live'  BY <2>1, <1>3, <1>6
    <2> QED  BY <2>2, <2>3
  <1> HIDE DEF l, B
  <1>8. /\ next' \in [Cells -> Cells \cup {NULL}] /\ data' \in [Cells -> Data \cup {NULL}]
        /\ length' \in [Heads -> (Nat \ {0}) \cup {NULL}]
        /\ head' \in [Heads -> Cells \cup {NULL}] /\ tail' \in [Heads -> Cells \cup {NULL}]
        /\ spine' \in [Heads -> Seq(Cells) \cup {NULL}]
        /\ \A b \in Cells \ B : next'[b] = next[b]
    BY <1>1, WithoutTypes
  <1>9. \A m \in Heads \ {l} : /\ spine'[m] = spine[m] /\ length'[m] = length[m]
                               /\ head'[m] = head[m] /\ tail'[m] = tail[m]
    <2>1. \A m \in Heads \ {l} : m \in Heads \ B  BY <1>2, <1>4, PgListAssumption
    <2> QED  BY <1>1, <2>1, WithoutTypes
  <1>10. Heap(Live, heap, spine, next)  BY DEF IInv
  <1> DEFINE nx2 == next'
             sp2 == spine'
  <1>11. /\ nx2 \in [Cells -> Cells \cup {NULL}] /\ sp2 \in [Heads -> Seq(Cells) \cup {NULL}]
         /\ \A m \in Live \ {l} : sp2[m] = spine[m] /\ \A b \in Members(spine[m]) : nx2[b] = next[b]
    <2>1. \A m \in Live \ {l} : \A b \in Members(spine[m]) : b \in Cells \ B
      BY <1>2, <1>4, <1>10, HeapFacts, PgListAssumption
    <2> QED  BY <1>5, <1>8, <1>9, <2>1
  <1> HIDE DEF nx2, sp2
  <1>12. Heap(Live \ {l}, heap \ ({l} \cup Members(spine[l])), sp2, nx2)
    BY <1>4, <1>10, <1>11, HeapRelease
  <1>13. Heap(Live, heap, spine, next)'
    <2>1. heap' = heap \ ({l} \cup Members(spine[l]))  BY <1>1, <1>2
    <2> QED  BY <1>7, <1>12, <2>1 DEF nx2, sp2
  <1>14. Variables'
    <2>1. \A u \in Vars : var'[u] # NULL => u # v /\ var'[u] = var[u] /\ var[u] \in Heads \ {l}
      BY <1>5, <1>6
    <2>2. \A u \in Vars : var'[u] # NULL => Header(spine'[var'[u]], var'[u], length', head', tail')
      <3>1. ASSUME NEW u \in Vars, var'[u] # NULL
            PROVE  Header(spine'[var'[u]], var'[u], length', head', tail')
        <4>1. Header(spine[var[u]], var[u], length, head, tail)
          BY <2>1, <3>1 DEF IInv, Variables
        <4> QED  BY <4>1, <2>1, <3>1, <1>9 DEF Header
      <3> QED  BY <3>1
    <2>3. \A u, w \in Vars : u # w /\ var'[u] # NULL => var'[u] # var'[w]
      BY <1>6 DEF IInv, Variables
    <2> QED  BY <2>2, <2>3 DEF Variables
  <1>15. Fields' /\ Progress'  BY <1>1, <1>3, <1>6, <1>8, IdleFacts DEF Fields
  <1> QED  BY <1>13, <1>14, <1>15 DEF IInv

-----------------------------------------------------------------------------
\* A list is made.

LEMMA FreshFacts ==
  ASSUME IInv, NEW l, ~Exhausted(l)
  PROVE  /\ NewCell \in Cells \ heap
         /\ l = NULL => NewHead \in Heads \ heap
  <1>1. Cells \ heap # {} /\ Cells \ heap \in SUBSET Cells
    BY DEF Exhausted
  <1>2. l = NULL => Heads \ heap # {} /\ Heads \ heap \in SUBSET Heads
    BY DEF Exhausted
  <1>3. ASSUME NEW S, S \in (SUBSET Cells) \cup (SUBSET Heads), S # {} PROVE Fresh(S) \in S
    BY <1>3, PgListAssumption
  <1>4. Fresh(Cells \ heap) \in Cells \ heap  BY <1>1, <1>3
  <1>5. ASSUME l = NULL PROVE Fresh(Heads \ heap) \in Heads \ heap
    BY <1>2, <1>3, <1>5
  <1> QED  BY <1>4, <1>5 DEF NewCell, NewHead

LEMMA NewListFacts ==
  ASSUME IInv, NEW d \in Data \cup {NULL}, NEW n \in Nat \ {0}, NewList(d, n)
  PROVE  /\ NewHead \in Heads \ heap /\ NewCell \in Cells \ heap
         /\ NewHead # NULL /\ NewHead \notin Live /\ \A v \in Vars : var[v] # NewHead
         /\ Heap(Live \cup {NewHead}, heap', spine', next')
         /\ spine'[NewHead] = <<NewCell>> /\ head'[NewHead] = NewCell
         /\ tail'[NewHead] = NewCell /\ length'[NewHead] = n
         /\ \A m \in Heads \ {NewHead} : /\ spine'[m] = spine[m] /\ length'[m] = length[m]
                                         /\ head'[m] = head[m] /\ tail'[m] = tail[m]
         /\ data' \in [Cells -> Data \cup {NULL}] /\ length' \in [Heads -> (Nat \ {0}) \cup {NULL}]
         /\ head' \in [Heads -> Cells \cup {NULL}] /\ tail' \in [Heads -> Cells \cup {NULL}]
         /\ \A b \in Cells : next'[b] = IF b = NewCell THEN NULL ELSE next[b]
  <1> DEFINE l == NewHead
             c == NewCell
  <1>1. /\ ~Exhausted(NULL) /\ heap' = heap \cup {c, l}
        /\ data' = [data EXCEPT ![c] = d] /\ next' = [next EXCEPT ![c] = NULL]
        /\ length' = [length EXCEPT ![l] = n] /\ head' = [head EXCEPT ![l] = c]
        /\ tail' = [tail EXCEPT ![l] = c] /\ spine' = [spine EXCEPT ![l] = <<c>>]
    BY DEF NewList
  <1>2. c \in Cells \ heap /\ l \in Heads \ heap  BY <1>1, FreshFacts
  <1> HIDE DEF c, l
  <1>3. /\ next \in [Cells -> Cells \cup {NULL}] /\ data \in [Cells -> Data \cup {NULL}]
        /\ length \in [Heads -> (Nat \ {0}) \cup {NULL}]
        /\ head \in [Heads -> Cells \cup {NULL}] /\ tail \in [Heads -> Cells \cup {NULL}]
        /\ spine \in [Heads -> Seq(Cells) \cup {NULL}]
        /\ Heap(Live, heap, spine, next)
    BY DEF IInv, Fields, Heap
  <1>4. l # NULL /\ l \notin Live /\ \A v \in Vars : var[v] # l
    <2>1. l # NULL  BY <1>2, PgListAssumption
    <2>2. l \notin Live  BY <1>2, <1>3, HeapFacts
    <2> QED  BY <2>1, <2>2, LiveDef
  <1>5. Heap(Live \cup {l}, heap', spine', next')
    <2>1. Heap(Live \cup {l}, heap \cup {c, l}, [spine EXCEPT ![l] = <<c>>], [next EXCEPT ![c] = NULL])
      BY <1>2, <1>3, HeapNew
    <2> QED  BY <1>1, <2>1
  <1>6. /\ spine'[l] = <<c>> /\ head'[l] = c /\ tail'[l] = c /\ length'[l] = n
        /\ \A m \in Heads \ {l} : /\ spine'[m] = spine[m] /\ length'[m] = length[m]
                                  /\ head'[m] = head[m] /\ tail'[m] = tail[m]
    BY <1>1, <1>2, <1>3
  <1>7. /\ data' \in [Cells -> Data \cup {NULL}] /\ length' \in [Heads -> (Nat \ {0}) \cup {NULL}]
        /\ head' \in [Heads -> Cells \cup {NULL}] /\ tail' \in [Heads -> Cells \cup {NULL}]
        /\ \A b \in Cells : next'[b] = IF b = c THEN NULL ELSE next[b]
    BY <1>1, <1>2, <1>3
  <1> QED  BY <1>2, <1>4, <1>5, <1>6, <1>7 DEF l, c

\* The variables' lists are not the new one.
LEMMA NewListVariables ==
  ASSUME IInv, NEW d \in Data \cup {NULL}, NEW n \in Nat \ {0}, NewList(d, n),
         UNCHANGED var
  PROVE  Variables'
  <1>1. \A v \in Vars : var[v] # NULL => var[v] \in Heads \ {NewHead}
    BY ZenonT(30), NewListFacts DEF IInv, Fields
  <1> QED  BY <1>1, NewListFacts, VariablesSame

LEMMA LappendNew ==
  ASSUME IInv, Calling, NEW v \in Vars, NEW d \in Data, var[v] = NULL,
         NewList(d, 1), Assign(v, NewHead), UNCHANGED call
  PROVE  IInv'
  <1> DEFINE l == NewHead
             c == NewCell
             s == <<c>>
  <1>1. var' = [var EXCEPT ![v] = l]  BY DEF Assign
  <1>2. /\ call = Idle /\ call.result = NULL
        /\ \A m : m \in Live <=> m # NULL /\ \E u \in Vars : m = var[u]
    BY CallingFacts
  <1>3. d \in Data \cup {NULL} /\ 1 \in Nat \ {0}  OBVIOUS
  <1>4. /\ l \in Heads /\ c \in Cells /\ l # NULL /\ \A u \in Vars : var[u] # l
        /\ Heap(Live \cup {l}, heap', spine', next')
        /\ spine'[l] = s /\ head'[l] = c /\ tail'[l] = c /\ length'[l] = 1
        /\ \A m \in Heads \ {l} : /\ spine'[m] = spine[m] /\ length'[m] = length[m]
                                  /\ head'[m] = head[m] /\ tail'[m] = tail[m]
        /\ data' \in [Cells -> Data \cup {NULL}] /\ length' \in [Heads -> (Nat \ {0}) \cup {NULL}]
        /\ head' \in [Heads -> Cells \cup {NULL}] /\ tail' \in [Heads -> Cells \cup {NULL}]
    BY <1>3, NewListFacts
  <1> HIDE DEF l
  <1>5. Len(s) = 1 /\ s[1] = c  OBVIOUS
  <1> HIDE DEF c, s
  <1>6. var \in [Vars -> Heads \cup {NULL}]  BY DEF IInv, Fields
  <1>7. /\ var' \in [Vars -> Heads \cup {NULL}] /\ var'[v] = l
        /\ \A u \in Vars : u # v => var'[u] = var[u]
    BY <1>1, <1>4, <1>6
  <1>8. Live' = Live \cup {l}
    <2>1. \A m : m \in Live' <=> m # NULL /\ \E u \in Vars : m = var'[u]
      BY <1>2, LiveDefNext
    <2>2. \A m : m \in Live' => m \in Live \cup {l}  BY <2>1, <1>2, <1>7
    <2>3. \A m : m \in Live \cup {l} => m \in Live'  BY <2>1, <1>2, <1>4, <1>7
    <2> QED  BY <2>2, <2>3
  <1>9. Heap(Live, heap, spine, next)'  BY <1>4, <1>8
  <1>10. Variables'
    <2>1. ASSUME NEW u \in Vars, var'[u] # NULL
          PROVE  Header(spine'[var'[u]], var'[u], length', head', tail')
      <3>1. CASE u = v
        <4>1. s[Len(s)] = c /\ Len(s) > 0  BY <1>5
        <4> QED  BY <3>1, <4>1, <1>4, <1>5, <1>7 DEF Header
      <3>2. CASE u # v
        <4>1. var'[u] = var[u] /\ var[u] \in Heads \ {l} /\ var[u] # NULL
          BY <3>2, <2>1, <1>4, <1>6, <1>7
        <4>2. Header(spine[var[u]], var[u], length, head, tail)  BY <4>1, VarFacts
        <4> QED  BY <4>1, <4>2, <1>4 DEF Header
      <3> QED  BY <3>1, <3>2
    <2>2. \A u, w \in Vars : u # w /\ var'[u] # NULL => var'[u] # var'[w]
      BY <1>4, <1>7 DEF IInv, Variables
    <2> QED  BY <2>1, <2>2 DEF Variables
  <1>11. Fields' /\ Progress'  BY <1>2, <1>4, <1>7, IdleFacts DEF Fields
  <1> QED  BY <1>9, <1>10, <1>11 DEF IInv

\* What is alive when the call gets the new list.
LEMMA NewResult ==
  ASSUME IInv, call.result = NULL, UNCHANGED var, NEW l, l # NULL, call'.result = l
  PROVE  Live' = Live \cup {l}
  BY LiveDef, LiveDefNext

LEMMA StartCopyKeeps ==
  ASSUME IInv, Calling, NEW v \in Vars, NEW w \in Vars \cup {NULL}, NEW x \in Vars,
         var[v] # NULL, var[x] = NULL, NEW f \in {"copy", "union", "difference"},
         f = "union" => w \in Vars, StartCopy(f, v, w, x)
  PROVE  IInv'
  <1> DEFINE l == NewHead
             c == NewCell
             s == spine[var[v]]
             n == length[var[v]]
             first == head[var[v]]
             t == <<c>>
             k == [Idle EXCEPT !.at = "copy", !.fn = f, !.v = v, !.w = w, !.x = x,
                               !.result = l, !.prev = c, !.cur = next[first]]
  <1>1. NewList(data[first], n) /\ UNCHANGED var /\ call' = k
    BY DEF StartCopy
  <1>2. call.result = NULL  BY CallingFacts
  <1>3. /\ s \in Seq(Cells) /\ Len(s) \in Nat /\ Len(s) > 0 /\ n = Len(s) /\ first = s[1]
        /\ \A j \in 1..Len(s) : s[j] \in Cells /\ next[s[j]] = Nth(s, j + 1)
    BY VarFacts, ListFacts
  <1>4. 1 \in 1..Len(s) /\ Len(s) \in Nat \ {0} /\ 1 + 1 = 2  BY <1>3
  <1>5. first \in Cells /\ next[first] = Nth(s, 2)
    <2> HIDE DEF s, first
    <2> QED  BY <1>3, <1>4
  <1>6. data[first] \in Data \cup {NULL} /\ next[first] \in Cells \cup {NULL}
    BY <1>5 DEF IInv, Fields, Heap
  <1>7. n \in Nat \ {0}  BY <1>3, <1>4
  <1>8. /\ l \in Heads /\ c \in Cells /\ l # NULL /\ \A u \in Vars : var[u] # l
        /\ Heap(Live \cup {l}, heap', spine', next')
        /\ spine'[l] = t /\ head'[l] = c /\ tail'[l] = c /\ length'[l] = n
        /\ \A m \in Heads \ {l} : /\ spine'[m] = spine[m] /\ length'[m] = length[m]
                                  /\ head'[m] = head[m] /\ tail'[m] = tail[m]
        /\ data' \in [Cells -> Data \cup {NULL}] /\ length' \in [Heads -> (Nat \ {0}) \cup {NULL}]
        /\ head' \in [Heads -> Cells \cup {NULL}] /\ tail' \in [Heads -> Cells \cup {NULL}]
    <2> HIDE DEF n, first
    <2> QED  BY <1>1, <1>6, <1>7, NewListFacts
  <1>9. Variables'
    <2> HIDE DEF n, first
    <2> QED  BY <1>1, <1>6, <1>7, NewListVariables
  <1> HIDE DEF l, c, n, first
  <1>10. Len(t) = 1 /\ t[1] = c  OBVIOUS
  <1>11. k \in Calls
    <2>1. f \in FunctionNames  BY DEF FunctionNames
    <2> QED  BY <2>1, <1>6, <1>8, IdleFacts DEF Calls
  <1>12. /\ k.at = "copy" /\ k.fn = f /\ k.v = v /\ k.w = w /\ k.x = x /\ k.result = l
         /\ k.prev = c /\ k.cur = next[first]
    BY DEF Idle
  <1> HIDE DEF k, t, s
  <1>13. Live' = Live \cup {l}
    <2>1. call'.result = l  BY <1>1, <1>12
    <2> QED  BY <1>1, <1>2, <1>8, <2>1, NewResult
  <1>14. Heap(Live, heap, spine, next)'  BY <1>8, <1>13
  <1>15. Fields'  BY <1>1, <1>8, <1>11 DEF IInv, Fields
  <1>16. Copying'
    <2>1. Source' = s
      <3>1. var[v] \in Heads \ {l}  BY <1>8 DEF IInv, Fields
      <3> QED  BY <1>1, <1>8, <1>12, <3>1 DEF Source, s
    <2>2. Built' = t /\ call'.result = l  BY <1>1, <1>8, <1>12 DEF Built
    <2>3. Private' /\ Returns'  BY <1>1, <1>8, <1>12 DEF Private, Returns
    <2>4. \E p \in 2..(Len(s) + 1) :
            call'.cur = Nth(s, p) /\ length'[l] = Len(t) + Len(s) + 1 - p
      <3>1. call'.cur = Nth(s, 2)  BY <1>1, <1>5, <1>12
      <3>2. length'[l] = Len(t) + Len(s) + 1 - 2 /\ 2 \in 2..(Len(s) + 1)
        BY <1>3, <1>4, <1>8, <1>10
      <3> QED  BY <3>1, <3>2
    <2>5. /\ Len(t) > 0 /\ head'[l] = t[1] /\ call'.prev = t[Len(t)]
          /\ call'.fn \in {"copyTail", "copy", "union", "difference"}
          /\ call'.v \in Vars /\ var'[call'.v] # NULL
          /\ call'.fn = "union" => call'.w \in Vars
      BY <1>1, <1>8, <1>10, <1>12
    <2> QED  BY <2>1, <2>2, <2>3, <2>4, <2>5 DEF Copying
  <1>17. Progress'  BY <1>1, <1>12, <1>16 DEF Progress
  <1> QED  BY <1>9, <1>14, <1>15, <1>17 DEF IInv

LEMMA CopyTailStarts ==
  ASSUME IInv, NEW v \in Vars, NEW x \in Vars, NEW n \in Nat, list_copy_tail(v, n, x)
  PROVE  IInv'
  <1> DEFINE l == NewHead
             c == NewCell
             s == spine[var[v]]
             t == <<c>>
             k == [Walk("copyTail", v, n) EXCEPT !.x = x, !.result = l]
  <1>1. /\ Calling /\ n < list_length(var[v]) /\ var[x] = NULL
        /\ NewList(NULL, length[var[v]] - n) /\ call' = k /\ UNCHANGED var
    BY DEF list_copy_tail
  <1>2. var[v] # NULL /\ n < length[var[v]]  BY <1>1 DEF list_length
  <1>3. call.result = NULL  BY <1>1, CallingFacts
  <1>4. /\ s \in Seq(Cells) /\ Len(s) \in Nat /\ Len(s) > 0 /\ length[var[v]] = Len(s)
        /\ head[var[v]] = s[1] /\ \A j \in 1..Len(s) : s[j] \in Cells
    BY <1>2, VarFacts, ListFacts
  <1>5. head[var[v]] \in Cells /\ head[var[v]] = Nth(s, 0 + 1)
    <2> HIDE DEF s
    <2>1. 1 \in 1..Len(s) /\ 0 + 1 = 1  BY <1>4
    <2> QED  BY <2>1, <1>4 DEF Nth
  <1>6. Len(s) - n \in Nat \ {0}
    <2> HIDE DEF s
    <2>1. \A m \in Nat : n < m => m - n \in Nat \ {0}  OBVIOUS
    <2> QED  BY <2>1, <1>2, <1>4
  <1>7. /\ l \in Heads /\ c \in Cells /\ l # NULL /\ \A u \in Vars : var[u] # l
        /\ Heap(Live \cup {l}, heap', spine', next')
        /\ spine'[l] = t /\ head'[l] = c /\ tail'[l] = c /\ length'[l] = Len(s) - n
        /\ \A m \in Heads \ {l} : /\ spine'[m] = spine[m] /\ length'[m] = length[m]
                                  /\ head'[m] = head[m] /\ tail'[m] = tail[m]
        /\ data' \in [Cells -> Data \cup {NULL}] /\ length' \in [Heads -> (Nat \ {0}) \cup {NULL}]
        /\ head' \in [Heads -> Cells \cup {NULL}] /\ tail' \in [Heads -> Cells \cup {NULL}]
        /\ Variables'
    <2> DEFINE m == Len(s) - n
    <2>1. NewList(NULL, m) /\ m \in Nat \ {0}  BY <1>1, <1>4, <1>6
    <2> HIDE DEF m
    <2>2. NULL \in Data \cup {NULL}  OBVIOUS
    <2> QED  BY <1>1, <2>1, <2>2, NewListFacts, NewListVariables DEF m
  <1> HIDE DEF l, c
  <1>8. Len(t) = 1 /\ t[1] = c  OBVIOUS
  <1>9. k \in Calls
    <2>1. head[var[v]] \in Cells \cup {NULL} /\ "copyTail" \in FunctionNames
      BY <1>5 DEF FunctionNames
    <2>2. Walk("copyTail", v, n) \in Calls  BY <2>1, IdleFacts DEF Walk, Idle, Calls
    <2> QED  BY <2>2, <1>7 DEF Calls
  <1>10. /\ k.at = "walk" /\ k.fn = "copyTail" /\ k.v = v /\ k.x = x /\ k.result = l
         /\ k.n = n /\ k.i = 0 /\ k.cur = head[var[v]] /\ k.prev = NULL
    BY DEF Walk, Idle
  <1> HIDE DEF k, t, s
  <1>11. Live' = Live \cup {l}
    <2>1. call'.result = l  BY <1>1, <1>10
    <2> QED  BY <1>1, <1>3, <1>7, <2>1, NewResult
  <1>12. Heap(Live, heap, spine, next)'  BY <1>7, <1>11
  <1>13. Fields'  BY <1>1, <1>7, <1>9 DEF IInv, Fields
  <1>14. Walking'
    <2>1. Source' = s
      <3>1. var[v] \in Heads \ {l}  BY <1>2, <1>7 DEF IInv, Fields
      <3> QED  BY <1>1, <1>7, <1>10, <3>1 DEF Source, s
    <2>2. Built' = t /\ call'.result = l  BY <1>1, <1>7, <1>10 DEF Built
    <2>3. Private' /\ Returns'  BY <1>1, <1>7, <1>10 DEF Private, Returns
    <2> QED
      BY <1>1, <1>2, <1>4, <1>5, <1>7, <1>8, <1>10, <2>1, <2>2, <2>3 DEF Walking
  <1>15. Progress'  BY <1>1, <1>10, <1>14 DEF Progress
  <1> QED  BY <1>7, <1>12, <1>13, <1>15 DEF IInv

-----------------------------------------------------------------------------
\* A list grows.

LEMMA HeapInsert ==
  ASSUME NEW L, NEW h, NEW sp, NEW nx, Heap(L, h, sp, nx), NEW l \in L, NEW c \in Cells \ h,
         NEW k \in 0..Len(sp[l]), NEW nx2 \in [Cells -> Cells \cup {NULL}],
         nx2[c] = Nth(sp[l], k + 1), k > 0 => nx2[sp[l][k]] = c,
         \A b \in Cells \ {c} : k = 0 \/ b # sp[l][k] => nx2[b] = nx[b]
  PROVE  Heap(L, h \cup {c}, [sp EXCEPT ![l] = Insert(sp[l], k, c)], nx2)
  <1> DEFINE s == sp[l]
             t == Insert(s, k, c)
             h2 == h \cup {c}
             sp2 == [sp EXCEPT ![l] = t]
  <1>1. /\ s \in Seq(Cells) /\ Members(s) \subseteq h /\ Members(s) \subseteq Cells
        /\ Distinct(s) /\ Chained(s, nx)
    BY HeapFacts
  <1>2. c \notin Members(s)  BY <1>1
  <1>3. /\ Len(s) \in Nat /\ DOMAIN s = 1..Len(s)
        /\ \A j \in 1..Len(s) : s[j] \in Cells /\ s[j] \in Members(s)
    BY <1>1, MemberFacts
  <1> HIDE DEF s
  <1>4. k \in 0..Len(s) /\ nx2[c] = Nth(s, k + 1) /\ (k > 0 => nx2[s[k]] = c)  BY DEF s
  <1>5. \A j \in 1..Len(s) : j # k => nx2[s[j]] = nx[s[j]]
    <2>1. ASSUME NEW j \in 1..Len(s), j # k PROVE nx2[s[j]] = nx[s[j]]
      <3>1. s[j] \in Cells \ {c}  BY <1>2, <1>3
      <3>2. k = 0 \/ s[j] # s[k]
        <4>1. k # 0 => k \in 1..Len(s)  BY <1>3, <1>4
        <4> QED  BY <1>1, <1>3, <2>1, <4>1 DEF Distinct
      <3> QED  BY <3>1, <3>2 DEF s
    <2> QED  BY <2>1
  <1>6. /\ t \in Seq(Cells) /\ Members(t) = Members(s) \cup {c} /\ Distinct(t)
    BY <1>1, <1>2, <1>4, InsertElements, InsertMembers
  <1>7. Chained(t, nx2)
    <2>1. c \in Cells  OBVIOUS
    <2> HIDE DEF t
    <2>2. Chained(Insert(s, k, c), nx2)
      BY ONLY <2>1, <1>1, <1>2, <1>4, <1>5, InsertChained
    <2> QED  BY <2>2 DEF t
  <1> HIDE DEF t
  <1>8. h2 = (h \ Members(s)) \cup Members(t) /\ Members(t) \cap h \subseteq Members(s)
    BY <1>1, <1>6
  <1>9. \A m \in L \ {l} : \A b \in Members(sp[m]) : nx2[b] = nx[b]
    <2>1. ASSUME NEW m \in L \ {l}, NEW b \in Members(sp[m]) PROVE nx2[b] = nx[b]
      <3>1. b \in Cells \ {c} /\ b \notin Members(s)  BY HeapFacts DEF s
      <3>2. k = 0 \/ b # s[k]
        <4>1. k # 0 => k \in 1..Len(s)  BY <1>3, <1>4
        <4> QED  BY <1>3, <3>1, <4>1
      <3> QED  BY <3>1, <3>2 DEF s
    <2> QED  BY <2>1
  <1> HIDE DEF h2
  <1>10. h2 = (h \ Members(sp[l])) \cup Members(t) /\ Members(t) \cap h \subseteq Members(sp[l])
    BY <1>8 DEF s
  <1>11. Heap(L, h2, sp2, nx2)  BY <1>6, <1>7, <1>9, <1>10, HeapChange
  <1> QED  BY <1>11 DEF h2, sp2, t, s

\* A step adds a cell to the list l, and changes no other one.
Grows(l) ==
  /\ Heap(Live, heap', spine', next')
  /\ Header(spine'[l], l, length', head', tail')
  /\ \A m \in Heads \ {l} : /\ spine'[m] = spine[m] /\ length'[m] = length[m]
                            /\ head'[m] = head[m] /\ tail'[m] = tail[m]
  /\ data' \in [Cells -> Data \cup {NULL}] /\ length' \in [Heads -> (Nat \ {0}) \cup {NULL}]
  /\ head' \in [Heads -> Cells \cup {NULL}] /\ tail' \in [Heads -> Cells \cup {NULL}]

LEMMA AddCellFacts ==
  ASSUME IInv, NEW l, l # NULL, l = call.result \/ \E v \in Vars : l = var[v],
         Header(spine[l], l, length, head, tail),
         NEW k \in 0..Len(spine[l]), NEW d \in Data \cup {NULL}, AddCell(l, k, d),
         next' \in [Cells -> Cells \cup {NULL}],
         next'[NewCell] = Nth(spine[l], k + 1),
         k > 0 => next'[spine[l][k]] = NewCell,
         \A b \in Cells \ {NewCell} : k = 0 \/ b # spine[l][k] => next'[b] = next[b]
  PROVE  /\ Heap(Live, heap', spine', next')
         /\ NewCell \in Cells \ heap
         /\ spine'[l] = Insert(spine[l], k, NewCell) /\ length'[l] = Len(spine[l]) + 1
         /\ \A m \in Heads \ {l} : spine'[m] = spine[m] /\ length'[m] = length[m]
         /\ data' \in [Cells -> Data \cup {NULL}] /\ length' \in [Heads -> (Nat \ {0}) \cup {NULL}]
  <1> DEFINE c == NewCell
             s == spine[l]
             nx2 == next'
  <1>1. /\ ~Exhausted(l) /\ heap' = heap \cup {c} /\ data' = [data EXCEPT ![c] = d]
        /\ length' = [length EXCEPT ![l] = length[l] + 1]
        /\ spine' = [spine EXCEPT ![l] = Insert(s, k, c)]
    BY DEF AddCell, Insert
  <1>2. c \in Cells \ heap  BY <1>1, FreshFacts
  <1>3. /\ l \in Live /\ l \in Heads /\ s \in Seq(Cells) /\ Len(s) \in Nat
        /\ Heap(Live, heap, spine, next)
    BY ListFacts DEF IInv
  <1>4. /\ data \in [Cells -> Data \cup {NULL}] /\ length \in [Heads -> (Nat \ {0}) \cup {NULL}]
        /\ spine \in [Heads -> Seq(Cells) \cup {NULL}] /\ length[l] = Len(s)
    BY DEF IInv, Fields, Heap, Header
  <1>5. /\ nx2 \in [Cells -> Cells \cup {NULL}]
        /\ nx2[c] = Nth(spine[l], k + 1) /\ (k > 0 => nx2[spine[l][k]] = c)
        /\ \A b \in Cells \ {c} : k = 0 \/ b # spine[l][k] => nx2[b] = next[b]
    OBVIOUS
  <1> HIDE DEF c, nx2
  <1>6. Heap(Live, heap \cup {c}, [spine EXCEPT ![l] = Insert(spine[l], k, c)], nx2)
    <2>1. k \in 0..Len(spine[l])  OBVIOUS
    <2> QED  BY ONLY <1>2, <1>3, <1>5, <2>1, HeapInsert
  <1>7. Heap(Live, heap', spine', next')  BY <1>1, <1>6 DEF nx2
  <1>8. /\ spine'[l] = Insert(s, k, c) /\ length'[l] = Len(s) + 1
        /\ \A m \in Heads \ {l} : spine'[m] = spine[m] /\ length'[m] = length[m]
        /\ data' \in [Cells -> Data \cup {NULL}]
    BY <1>1, <1>2, <1>3, <1>4
  <1>9. length' \in [Heads -> (Nat \ {0}) \cup {NULL}]
    <2>1. \A n \in Nat : n + 1 \in Nat \ {0}  OBVIOUS
    <2>2. length[l] + 1 \in Nat \ {0}  BY <1>3, <1>4, <2>1
    <2> QED  BY <1>1, <1>4, <2>2
  <1> QED  BY <1>2, <1>7, <1>8, <1>9 DEF c

LEMMA NewHeadCellGrows ==
  ASSUME IInv, NEW l, l # NULL, l = call.result \/ \E v \in Vars : l = var[v],
         Header(spine[l], l, length, head, tail), NEW d \in Data \cup {NULL},
         NewHeadCell(l, d)
  PROVE  Grows(l)
  <1> DEFINE c == NewCell
             s == spine[l]
             t == Insert(s, 0, c)
  <1>1. /\ AddCell(l, 0, d) /\ next' = [next EXCEPT ![c] = head[l]]
        /\ head' = [head EXCEPT ![l] = c] /\ tail' = tail
    BY DEF NewHeadCell
  <1>2. /\ l \in Heads /\ s \in Seq(Cells) /\ Len(s) \in Nat
        /\ \A j \in 1..Len(s) : s[j] \in Cells
    BY ListFacts
  <1>3. Len(s) > 0 /\ head[l] = s[1] /\ tail[l] = s[Len(s)]  BY DEF Header
  <1>4. /\ next \in [Cells -> Cells \cup {NULL}] /\ head \in [Heads -> Cells \cup {NULL}]
        /\ tail \in [Heads -> Cells \cup {NULL}]
    BY DEF IInv, Fields, Heap
  <1>5. c \in Cells \ heap  BY <1>1, FreshFacts DEF AddCell
  <1>6. s[1] \in Cells /\ Nth(s, 0 + 1) = s[1] /\ 0 \in 0..Len(s)
    <2> HIDE DEF s
    <2>1. 1 \in 1..Len(s) /\ 0 + 1 = 1  BY <1>2, <1>3
    <2> QED  BY <2>1, <1>2 DEF Nth
  <1> HIDE DEF c
  <1>7. /\ next' \in [Cells -> Cells \cup {NULL}] /\ next'[c] = Nth(s, 0 + 1)
        /\ \A b \in Cells \ {c} : next'[b] = next[b]
    BY <1>1, <1>3, <1>4, <1>5, <1>6
  <1>8. /\ Heap(Live, heap', spine', next') /\ spine'[l] = t /\ length'[l] = Len(s) + 1
        /\ \A m \in Heads \ {l} : spine'[m] = spine[m] /\ length'[m] = length[m]
        /\ data' \in [Cells -> Data \cup {NULL}] /\ length' \in [Heads -> (Nat \ {0}) \cup {NULL}]
    <2> DEFINE k == 0
    <2>1. /\ k \in 0..Len(s) /\ AddCell(l, k, d) /\ next'[c] = Nth(s, k + 1)
          /\ (k > 0 => next'[s[k]] = c)
          /\ \A b \in Cells \ {c} : k = 0 \/ b # s[k] => next'[b] = next[b]
      BY <1>1, <1>6, <1>7
    <2> HIDE DEF k
    <2>2. next' \in [Cells -> Cells \cup {NULL}]  BY <1>7
    <2> HIDE DEF t
    <2>3. /\ Heap(Live, heap', spine', next') /\ spine'[l] = Insert(s, k, c)
          /\ length'[l] = Len(s) + 1
          /\ \A m \in Heads \ {l} : spine'[m] = spine[m] /\ length'[m] = length[m]
          /\ data' \in [Cells -> Data \cup {NULL}] /\ length' \in [Heads -> (Nat \ {0}) \cup {NULL}]
      BY <2>1, <2>2, AddCellFacts DEF c
    <2> QED  BY <2>3 DEF k, t
  <1>9. /\ head' \in [Heads -> Cells \cup {NULL}] /\ tail' \in [Heads -> Cells \cup {NULL}]
        /\ \A m \in Heads \ {l} : head'[m] = head[m] /\ tail'[m] = tail[m]
        /\ head'[l] = c /\ tail'[l] = s[Len(s)]
    BY <1>1, <1>2, <1>3, <1>4, <1>5
  <1> HIDE DEF s
  <1>10. Len(t) = Len(s) + 1 /\ t[1] = c /\ t[Len(s) + 1] = s[Len(s)]
    <2>1. /\ Len(t) = Len(s) + 1
          /\ \A j \in 1..(Len(s) + 1) :
               t[j] = IF j <= 0 THEN s[j] ELSE IF j = 0 + 1 THEN c ELSE s[j - 1]
      BY <1>2, <1>5, <1>6, InsertElements
    <2> HIDE DEF t
    <2>2. /\ 1 \in 1..(Len(s) + 1) /\ 0 + 1 = 1 /\ ~ (1 <= 0)
          /\ Len(s) + 1 \in 1..(Len(s) + 1) /\ (Len(s) + 1) - 1 = Len(s)
          /\ ~ (Len(s) + 1 <= 0) /\ Len(s) + 1 # 1
      BY <1>2, <1>3
    <2>3. t[1] = c  BY <2>1, <2>2
    <2>4. t[Len(s) + 1] = s[(Len(s) + 1) - 1]  BY <2>1, <2>2
    <2> QED  BY <2>1, <2>2, <2>3, <2>4
  <1>11. Header(spine'[l], l, length', head', tail')
    <2>1. Len(s) + 1 > 0  BY <1>2
    <2> HIDE DEF t
    <2> QED  BY <2>1, <1>8, <1>9, <1>10 DEF Header
  <1> QED  BY <1>8, <1>9, <1>11 DEF Grows

LEMMA NewTailCellGrows ==
  ASSUME IInv, NEW l, l # NULL, l = call.result \/ \E v \in Vars : l = var[v],
         Header(spine[l], l, length, head, tail), NEW d \in Data \cup {NULL},
         NewTailCell(l, d)
  PROVE  /\ Grows(l) /\ spine'[l] = Insert(spine[l], Len(spine[l]), NewCell)
         /\ NewCell \in Cells
  <1> DEFINE c == NewCell
             s == spine[l]
             n == Len(s)
             t == Insert(s, n, c)
  <1>1. /\ AddCell(l, n, d)
        /\ next' = [next EXCEPT ![c] = NULL, ![tail[l]] = c]
        /\ tail' = [tail EXCEPT ![l] = c] /\ head' = head
    BY DEF NewTailCell
  <1>2. /\ l \in Heads /\ s \in Seq(Cells) /\ n \in Nat
        /\ \A j \in 1..n : s[j] \in Cells /\ s[j] \in heap
    BY ListFacts DEF Members
  <1>3. n > 0 /\ head[l] = s[1] /\ tail[l] = s[n]  BY DEF Header
  <1>4. /\ next \in [Cells -> Cells \cup {NULL}] /\ head \in [Heads -> Cells \cup {NULL}]
        /\ tail \in [Heads -> Cells \cup {NULL}]
    BY DEF IInv, Fields, Heap
  <1>5. c \in Cells \ heap  BY <1>1, FreshFacts DEF AddCell
  <1> HIDE DEF c, n
  <1>6. s[n] \in Cells /\ s[n] # c /\ Nth(s, n + 1) = NULL /\ n \in 0..n
    <2> HIDE DEF s
    <2>1. n \in 1..n /\ n + 1 \notin 1..n /\ n \in 0..n  BY <1>2, <1>3
    <2> QED  BY <2>1, <1>2, <1>5 DEF Nth, n
  <1>7. /\ next' \in [Cells -> Cells \cup {NULL}] /\ next'[c] = Nth(s, n + 1)
        /\ next'[s[n]] = c /\ \A b \in Cells \ {c} : b # s[n] => next'[b] = next[b]
    BY <1>1, <1>3, <1>4, <1>5, <1>6
  <1>8. /\ Heap(Live, heap', spine', next') /\ spine'[l] = t /\ length'[l] = n + 1
        /\ \A m \in Heads \ {l} : spine'[m] = spine[m] /\ length'[m] = length[m]
        /\ data' \in [Cells -> Data \cup {NULL}] /\ length' \in [Heads -> (Nat \ {0}) \cup {NULL}]
    <2>1. n \in 0..Len(s) /\ n = Len(s)  BY <1>6 DEF n
    <2>2. n > 0 => next'[s[n]] = c  BY <1>7
    <2>3. \A b \in Cells \ {c} : n = 0 \/ b # s[n] => next'[b] = next[b]  BY <1>3, <1>7
    <2> QED  BY <1>1, <1>7, <2>1, <2>2, <2>3, AddCellFacts DEF c
  <1>9. /\ head' \in [Heads -> Cells \cup {NULL}] /\ tail' \in [Heads -> Cells \cup {NULL}]
        /\ \A m \in Heads \ {l} : head'[m] = head[m] /\ tail'[m] = tail[m]
        /\ head'[l] = s[1] /\ tail'[l] = c
    BY <1>1, <1>2, <1>3, <1>4, <1>5
  <1> HIDE DEF s
  <1>10. Len(t) = n + 1 /\ t[1] = s[1] /\ t[n + 1] = c
    <2>1. /\ Len(t) = n + 1
          /\ \A j \in 1..(n + 1) :
               t[j] = IF j <= n THEN s[j] ELSE IF j = n + 1 THEN c ELSE s[j - 1]
      BY <1>2, <1>5, <1>6, InsertElements DEF n
    <2> HIDE DEF t
    <2>2. 1 \in 1..(n + 1) /\ 1 <= n /\ n + 1 \in 1..(n + 1) /\ ~ (n + 1 <= n)
      BY <1>2, <1>3
    <2> QED  BY <2>1, <2>2
  <1>11. Header(spine'[l], l, length', head', tail')
    <2>1. n + 1 > 0  BY <1>2
    <2> HIDE DEF t
    <2> QED  BY <2>1, <1>8, <1>9, <1>10 DEF Header
  <1> QED  BY <1>5, <1>8, <1>9, <1>11 DEF Grows, t, s, n, c

LEMMA AddNewCellGrows ==
  ASSUME IInv, NEW l, l # NULL, l = call.result \/ \E v \in Vars : l = var[v],
         Header(spine[l], l, length, head, tail), NEW d \in Data \cup {NULL},
         NEW k \in 1..Len(spine[l]), AddNewCell(l, spine[l][k], k, d)
  PROVE  Grows(l)
  <1> DEFINE c == NewCell
             s == spine[l]
             n == Len(s)
             t == Insert(s, k, c)
  <1>1. /\ AddCell(l, k, d)
        /\ next' = [next EXCEPT ![c] = next[s[k]], ![s[k]] = c]
        /\ tail' = [tail EXCEPT ![l] = IF tail[l] = s[k] THEN c ELSE tail[l]] /\ head' = head
    BY DEF AddNewCell
  <1>2. /\ l \in Heads /\ s \in Seq(Cells) /\ n \in Nat /\ Distinct(s)
        /\ \A j \in 1..n : s[j] \in Cells /\ next[s[j]] = Nth(s, j + 1)
        /\ Members(s) \subseteq heap
    BY ListFacts
  <1>3. n > 0 /\ head[l] = s[1] /\ tail[l] = s[n]  BY DEF Header
  <1>4. /\ next \in [Cells -> Cells \cup {NULL}] /\ head \in [Heads -> Cells \cup {NULL}]
        /\ tail \in [Heads -> Cells \cup {NULL}]
    BY DEF IInv, Fields, Heap
  <1>5. c \in Cells \ heap  BY <1>1, FreshFacts DEF AddCell
  <1>6. s[k] \in Cells /\ s[k] # c /\ s[k] \in Members(s) /\ next[s[k]] = Nth(s, k + 1)
    BY <1>2, <1>5, MemberFacts
  <1>7. k \in 1..n  OBVIOUS
  <1> HIDE DEF c
  <1>8. /\ next' \in [Cells -> Cells \cup {NULL}] /\ next'[c] = Nth(s, k + 1)
        /\ next'[s[k]] = c /\ \A b \in Cells \ {c} : b # s[k] => next'[b] = next[b]
    BY <1>1, <1>4, <1>5, <1>6
  <1>9. /\ Heap(Live, heap', spine', next') /\ spine'[l] = t /\ length'[l] = n + 1
        /\ \A m \in Heads \ {l} : spine'[m] = spine[m] /\ length'[m] = length[m]
        /\ data' \in [Cells -> Data \cup {NULL}] /\ length' \in [Heads -> (Nat \ {0}) \cup {NULL}]
    <2>1. k \in 0..Len(s) /\ k # 0  BY <1>2
    <2>2. k > 0 => next'[s[k]] = c  BY <1>8
    <2>3. \A b \in Cells \ {c} : k = 0 \/ b # s[k] => next'[b] = next[b]  BY <1>8, <2>1
    <2> QED  BY <1>1, <1>8, <2>1, <2>2, <2>3, AddCellFacts DEF c
  <1>10. tail[l] = s[k] <=> k = n
    <2>1. DOMAIN s = 1..n /\ n \in 1..n  BY <1>2, <1>3, LenProperties
    <2> QED  BY <1>2, <1>3, <1>7, <2>1 DEF Distinct
  <1>11. /\ head' \in [Heads -> Cells \cup {NULL}] /\ tail' \in [Heads -> Cells \cup {NULL}]
         /\ \A m \in Heads \ {l} : head'[m] = head[m] /\ tail'[m] = tail[m]
         /\ head'[l] = s[1] /\ tail'[l] = (IF k = n THEN c ELSE s[n])
    <2>1. tail' = [tail EXCEPT ![l] = IF k = n THEN c ELSE s[n]]  BY <1>1, <1>3, <1>10
    <2>2. (IF k = n THEN c ELSE s[n]) \in Cells
      <3>1. n \in 1..n  BY <1>2, <1>3
      <3> QED  BY <1>2, <1>5, <3>1
    <2> HIDE DEF n, s
    <2> QED  BY <1>1, <1>2, <1>3, <1>4, <2>1, <2>2
  <1>12. /\ Len(t) = n + 1
         /\ \A j \in 1..(n + 1) :
              t[j] = IF j <= k THEN s[j] ELSE IF j = k + 1 THEN c ELSE s[j - 1]
    <2>1. k \in 0..Len(s) /\ s \in Seq(Cells) /\ c \in Cells  BY <1>2, <1>5
    <2> HIDE DEF s
    <2> QED  BY <2>1, InsertElements
  <1>13. 1 \in 1..(n + 1) /\ 1 <= k /\ n + 1 \in 1..(n + 1) /\ ~ (n + 1 <= k) /\ k <= n
    BY <1>2
  <1> HIDE DEF s, n, t
  <1>14. t[1] = s[1]  BY <1>12, <1>13
  <1>15. t[n + 1] = IF k = n THEN c ELSE s[n]
    <2>1. CASE k = n  BY <2>1, <1>12, <1>13
    <2>2. CASE k # n
      <3>1. n + 1 # k + 1 /\ (n + 1) - 1 = n  BY <2>2, <1>2, <1>7
      <3> QED  BY <2>2, <3>1, <1>12, <1>13
    <2> QED  BY <2>1, <2>2
  <1>16. Header(spine'[l], l, length', head', tail')
    <2>1. n + 1 > 0  BY <1>2
    <2> QED  BY <2>1, <1>9, <1>11, <1>12, <1>14, <1>15 DEF Header
  <1> QED  BY <1>9, <1>11, <1>16 DEF Grows

LEMMA GrowsKeeps ==
  ASSUME IInv, Calling, NEW v \in Vars, var[v] # NULL, Grows(var[v]), UNCHANGED <<var, call>>
  PROVE  IInv'
  <1>1. Live' = Live  BY LiveDef, LiveDefNext
  <1>2. Heap(Live, heap, spine, next)'  BY <1>1 DEF Grows
  <1>3. Fields'  BY DEF Grows, IInv, Fields
  <1>4. Variables'
    <2>1. ASSUME NEW u \in Vars, var[u] # NULL
          PROVE  Header(spine'[var[u]], var[u], length', head', tail')
      <3>1. CASE u = v  BY <3>1 DEF Grows
      <3>2. CASE u # v
        <4>1. var[u] \in Heads \ {var[v]}  BY <2>1, <3>2, VarFacts DEF IInv, Fields
        <4>2. Header(spine[var[u]], var[u], length, head, tail)  BY <2>1, VarFacts
        <4> QED  BY <4>1, <4>2 DEF Grows, Header
      <3> QED  BY <3>1, <3>2
    <2>2. \A u, w \in Vars : u # w /\ var[u] # NULL => var[u] # var[w]  BY DEF IInv, Variables
    <2> QED  BY <2>1, <2>2 DEF Variables
  <1>5. Progress'  BY CallingFacts, IdleFacts
  <1> QED  BY <1>2, <1>3, <1>4, <1>5 DEF IInv

LEMMA LappendKeeps ==
  ASSUME IInv, NEW v \in Vars, NEW d \in Data, lappend(v, d) \/ lcons(v, d)
  PROVE  IInv'
  <1>1. Calling /\ Assign(v, Grown(var[v])) /\ UNCHANGED call  BY DEF lappend, lcons
  <1>2. CASE var[v] = NULL
    <2>1. NewList(d, 1) /\ Assign(v, NewHead)
      BY <1>1, <1>2 DEF lappend, lcons, AppendTo, Grown
    <2> QED  BY <1>1, <1>2, <2>1, LappendNew
  <1>3. CASE var[v] # NULL
    <2>1. UNCHANGED var  BY <1>1, <1>3 DEF Grown, Assign, IInv, Fields
    <2>2. NewTailCell(var[v], d) \/ NewHeadCell(var[v], d)
      BY <1>3 DEF lappend, lcons, AppendTo
    <2>3. Header(spine[var[v]], var[v], length, head, tail) /\ d \in Data \cup {NULL}
      BY <1>3, VarFacts
    <2>4. Grows(var[v])  BY <1>3, <2>2, <2>3, NewTailCellGrows, NewHeadCellGrows
    <2> QED  BY <1>1, <1>3, <2>1, <2>4, GrowsKeeps
  <1> QED  BY <1>2, <1>3

LEMMA LappendCellKeeps ==
  ASSUME IInv, NEW v \in Vars, NEW d \in Data, NEW k \in 1..list_length(var[v]),
         lappend_cell(v, k, d)
  PROVE  IInv'
  <1>1. /\ Calling /\ var[v] # NULL /\ AddNewCell(var[v], spine[var[v]][k], k, d)
        /\ UNCHANGED <<var, call>>
    BY DEF lappend_cell
  <1>2. Header(spine[var[v]], var[v], length, head, tail) /\ length[var[v]] = Len(spine[var[v]])
    BY <1>1, VarFacts
  <1>3. k \in 1..Len(spine[var[v]])  BY <1>1, <1>2 DEF list_length
  <1>4. d \in Data \cup {NULL}  OBVIOUS
  <1>5. Grows(var[v])  BY <1>1, <1>2, <1>3, <1>4, AddNewCellGrows
  <1> QED  BY <1>1, <1>5, GrowsKeeps

-----------------------------------------------------------------------------
\* Copies.

LEMMA CopyingFacts ==
  ASSUME IInv, call.at = "copy"
  PROVE  /\ Copying /\ call \in Calls /\ call.v \in Vars /\ call.x \in Vars
         /\ var[call.v] # NULL /\ var[call.x] = NULL
         /\ Source \in Seq(Cells) /\ Len(Source) \in Nat
         /\ \A k \in 1..Len(Source) : Source[k] \in Cells /\ next[Source[k]] = Nth(Source, k + 1)
         /\ call.result # NULL /\ call.result \in Live /\ call.result \in Heads
         /\ \A v \in Vars : var[v] # call.result
         /\ Built \in Seq(Cells) /\ Len(Built) \in Nat /\ Len(Built) > 0
         /\ Members(Built) \subseteq heap /\ call.prev = Built[Len(Built)] /\ call.prev \in Cells
         /\ call.prev \in heap /\ head[call.result] = Built[1] /\ next[call.prev] = NULL
         /\ NULL \notin Cells
  <1>1. Copying /\ call \in Calls  BY DEF IInv, Progress, Fields
  <1>2. /\ call.v \in Vars /\ call.x \in Vars /\ var[call.v] # NULL /\ var[call.x] = NULL
        /\ call.result # NULL /\ \A v \in Vars : var[v] # call.result
        /\ Len(Built) > 0 /\ head[call.result] = Built[1] /\ call.prev = Built[Len(Built)]
    BY <1>1 DEF Copying, Private, Returns
  <1>3. /\ Source \in Seq(Cells) /\ Len(Source) \in Nat
        /\ \A k \in 1..Len(Source) : Source[k] \in Cells /\ next[Source[k]] = Nth(Source, k + 1)
    BY <1>2, ListFacts DEF Source
  <1>4. /\ call.result \in Live /\ call.result \in Heads /\ NULL \notin Cells
        /\ Built \in Seq(Cells) /\ Len(Built) \in Nat /\ Members(Built) \subseteq heap
        /\ \A k \in 1..Len(Built) : Built[k] \in Cells /\ next[Built[k]] = Nth(Built, k + 1)
    BY <1>2, ListFacts DEF Built
  <1> DEFINE n == Len(Built)
  <1>5. n \in 1..n /\ n + 1 \notin 1..n
    <2> HIDE DEF n
    <2> QED  BY <1>2, <1>4 DEF n
  <1>6. call.prev \in Cells /\ next[call.prev] = NULL  BY <1>2, <1>4, <1>5 DEF Nth
  <1>7. call.prev \in heap  BY <1>2, <1>4, <1>5, MemberFacts
  <1> QED  BY <1>1, <1>2, <1>3, <1>4, <1>6, <1>7

LEMMA SkipEndsKeeps ==
  ASSUME IInv, SkipEnds
  PROVE  IInv'
  <1> DEFINE r == call.result
             s == Source
             n == call.n
  <1>1. /\ call.at = "walk" /\ call.i = n /\ call.fn = "copyTail"
        /\ data' = [data EXCEPT ![head[r]] = data[call.cur]]
        /\ call' = [call EXCEPT !.at = "copy", !.prev = head[call.result], !.cur = next[call.cur]]
        /\ UNCHANGED <<heap, next, length, head, tail, spine, var>>
    BY DEF SkipEnds, WalkEnds, headVars
  <1>2. /\ Walking /\ call \in Calls /\ call.v \in Vars /\ var[call.v] # NULL
        /\ s \in Seq(Cells) /\ Len(s) \in Nat
        /\ \A k \in 1..Len(s) : s[k] \in Cells /\ next[s[k]] = Nth(s, k + 1)
        /\ n \in Nat /\ n + 1 \in 1..Len(s) /\ call.cur = s[n + 1] /\ call.cur \in Cells
    BY <1>1, WalkingFacts
  <1>3. /\ Private /\ Returns /\ Len(Built) = 1 /\ head[r] = Built[1] /\ length[r] = Len(s) - n
    BY <1>1, <1>2 DEF Walking
  <1>4. head[r] \in Cells
    <2>1. r # NULL  BY <1>3 DEF Private
    <2>2. \A k \in 1..Len(Built) : Built[k] \in Cells  BY <2>1, ListFacts DEF Built
    <2>3. 1 \in 1..1  OBVIOUS
    <2> QED  BY <1>3, <2>2, <2>3
  <1>5. /\ data \in [Cells -> Data \cup {NULL}] /\ next \in [Cells -> Cells \cup {NULL}]
    BY DEF IInv, Fields, Heap
  <1>6. data' \in [Cells -> Data \cup {NULL}]  BY <1>1, <1>2, <1>4, <1>5
  <1>7. /\ call'.at = "copy" /\ call'.prev = head[r] /\ call'.cur = next[call.cur]
        /\ call'.v = call.v /\ call'.x = call.x /\ call'.fn = call.fn /\ call'.result = r
    BY <1>1, <1>2 DEF Calls
  <1>8. call' \in Calls
    <2>1. next[call.cur] \in Cells \cup {NULL}  BY <1>2, <1>5
    <2> QED  BY <1>1, <1>2, <1>4, <2>1 DEF Calls
  <1>9. Live' = Live  BY <1>1, <1>7, LiveDef, LiveDefNext
  <1>10. Heap(Live, heap, spine, next)'  BY <1>1, <1>9 DEF IInv
  <1>11. Fields'  BY <1>1, <1>6, <1>8 DEF IInv, Fields
  <1>12. Variables'  BY <1>1, VariablesSame
  <1>13. Source' = s /\ Built' = Built  BY <1>1, <1>7 DEF Source, Built
  <1>14. Private' /\ Returns'  BY <1>1, <1>3, <1>7 DEF Private, Returns
  <1> HIDE DEF s, n, r
  <1>15. \E p \in 2..(Len(s) + 1) :
           call'.cur = Nth(s, p) /\ length'[r] = 1 + Len(s) + 1 - p
    <2>1. next[call.cur] = Nth(s, (n + 1) + 1)  BY <1>2
    <2>2. (n + 1) + 1 = n + 2 /\ n + 2 \in 2..(Len(s) + 1) /\ 1 + Len(s) + 1 - (n + 2) = Len(s) - n
      BY <1>2
    <2> QED  BY <1>1, <1>3, <1>7, <2>1, <2>2
  <1>16. Copying'
    <2>1. call'.v \in Vars /\ var'[call'.v] # NULL /\ call'.fn = "copyTail"  BY <1>1, <1>2, <1>7
    <2>2. /\ Len(Built') = 1 /\ head'[call'.result] = Built'[1] /\ call'.prev = Built'[1]
          /\ Len(Built') > 0
      <3>1. Len(Built') = 1 /\ Built'[1] = Built[1]  BY <1>3, <1>13
      <3>2. head'[call'.result] = Built[1] /\ call'.prev = Built[1]  BY <1>1, <1>3, <1>7
      <3> QED  BY <3>1, <3>2
    <2>3. \E p \in 2..(Len(Source') + 1) :
            /\ call'.cur = Nth(Source', p)
            /\ length'[call'.result] = Len(Built') + Len(Source') + 1 - p
      BY <1>7, <1>13, <1>15, <2>2 DEF r
    <2> QED  BY <1>14, <2>1, <2>2, <2>3 DEF Copying
  <1>17. Progress'  BY <1>7, <1>16 DEF Progress
  <1> QED  BY <1>10, <1>11, <1>12, <1>17 DEF IInv

LEMMA CopyCellKeeps ==
  ASSUME IInv, CopyCell
  PROVE  IInv'
  <1> DEFINE r == call.result
             s == Built
             src == Source
             n == Len(s)
             c == NewCell
             t == Insert(s, n, c)
  <1>1. /\ call.at = "copy" /\ call.cur # NULL /\ ~Exhausted(call.result)
        /\ heap' = heap \cup {c} /\ data' = [data EXCEPT ![c] = data[call.cur]]
        /\ next' = [next EXCEPT ![c] = NULL, ![call.prev] = c]
        /\ spine' = [spine EXCEPT ![r] = Append(spine[r], c)]
        /\ call' = [call EXCEPT !.prev = c, !.cur = next[call.cur]]
        /\ UNCHANGED <<length, head, tail, var>>
    BY DEF CopyCell, headVars
  <1>2. c \in Cells \ heap  BY <1>1, FreshFacts
  <1>3. /\ Copying /\ call \in Calls /\ call.v \in Vars /\ call.x \in Vars
        /\ var[call.v] # NULL /\ var[call.x] = NULL
        /\ src \in Seq(Cells) /\ Len(src) \in Nat
        /\ \A k \in 1..Len(src) : src[k] \in Cells /\ next[src[k]] = Nth(src, k + 1)
        /\ r # NULL /\ r \in Live /\ r \in Heads /\ \A v \in Vars : var[v] # r
        /\ s \in Seq(Cells) /\ n \in Nat /\ n > 0 /\ call.prev = s[n] /\ call.prev \in Cells
        /\ call.prev \in heap /\ head[r] = s[1]
    BY <1>1, CopyingFacts
  <1>4. PICK p \in 2..(Len(src) + 1) :
          call.cur = Nth(src, p) /\ length[r] = n + Len(src) + 1 - p
    BY <1>3 DEF Copying
  <1>5. /\ next \in [Cells -> Cells \cup {NULL}] /\ data \in [Cells -> Data \cup {NULL}]
        /\ spine \in [Heads -> Seq(Cells) \cup {NULL}] /\ Heap(Live, heap, spine, next)
        /\ var \in [Vars -> Heads \cup {NULL}]
    BY DEF IInv, Fields, Heap
  <1>6. p \in 1..Len(src) /\ call.cur = src[p] /\ call.cur \in Cells
        /\ next[call.cur] = Nth(src, p + 1) /\ next[call.cur] \in Cells \cup {NULL}
    <2>1. p \in 1..Len(src) /\ call.cur = src[p]  BY <1>1, <1>4 DEF Nth
    <2> QED  BY <2>1, <1>3, <1>5
  <1>7. Append(spine[r], c) = t  BY <1>2, <1>3, AppendIsInsert DEF Built
  <1>8. /\ call'.at = "copy" /\ call'.prev = c /\ call'.cur = next[call.cur] /\ call'.w = call.w
        /\ call'.v = call.v /\ call'.x = call.x /\ call'.fn = call.fn /\ call'.result = r
    BY <1>1, <1>3 DEF Calls
  <1>9. call' \in Calls  BY ZenonT(30), <1>1, <1>2, <1>3, <1>6 DEF Calls
  <1>10. data' \in [Cells -> Data \cup {NULL}]  BY <1>1, <1>2, <1>5, <1>6
  <1> DEFINE nx2 == next'
  <1>11. /\ nx2 \in [Cells -> Cells \cup {NULL}] /\ nx2[c] = NULL /\ nx2[s[n]] = c
         /\ \A b \in Cells \ {c} : b # s[n] => nx2[b] = next[b]
    BY <1>1, <1>2, <1>3, <1>5
  <1> HIDE DEF nx2, c, n
  <1>12. Heap(Live, heap \cup {c}, [spine EXCEPT ![r] = Insert(spine[r], n, c)], nx2)
    <2>1. spine[r] = s  BY DEF Built
    <2>2. n \in 0..Len(spine[r]) /\ Nth(spine[r], n + 1) = NULL
      <3>1. n = Len(spine[r])  BY <2>1 DEF n
      <3>2. n \in 0..n /\ n + 1 \notin 1..n  BY <1>3
      <3> QED  BY <3>1, <3>2 DEF Nth
    <2>3. nx2[c] = Nth(spine[r], n + 1) /\ (n > 0 => nx2[spine[r][n]] = c)
      BY <1>11, <2>1, <2>2
    <2>4. \A b \in Cells \ {c} : n = 0 \/ b # spine[r][n] => nx2[b] = next[b]
      BY <1>3, <1>11, <2>1
    <2> HIDE DEF s, r
    <2>5. /\ r \in Live /\ c \in Cells \ heap /\ n \in 0..Len(spine[r])
          /\ nx2 \in [Cells -> Cells \cup {NULL}] /\ Heap(Live, heap, spine, next)
      BY <1>2, <1>3, <1>5, <1>11, <2>2
    <2> QED  BY ONLY ZenonT(30), <2>3, <2>4, <2>5, HeapInsert
  <1>13. Live' = Live  BY <1>1, <1>8, LiveDef, LiveDefNext
  <1>14. spine' = [spine EXCEPT ![r] = t] /\ spine[r] = s  BY <1>1, <1>7 DEF Built
  <1> HIDE DEF s, src, r
  <1>15. Heap(Live, heap, spine, next)'
    <2>1. spine' = [spine EXCEPT ![r] = Insert(spine[r], n, c)]  BY <1>14
    <2> QED  BY <1>1, <1>12, <1>13, <2>1 DEF nx2
  <1>16. /\ spine'[r] = t /\ \A m \in Heads : m # r => spine'[m] = spine[m]
    <2> HIDE DEF t
    <2> QED  BY <1>3, <1>5, <1>14
  <1>17. Variables'
    <2>1. \A v \in Vars : var[v] # NULL => var[v] \in Heads /\ var[v] # r  BY <1>3, <1>5
    <2> QED  BY <1>1, <1>16, <2>1, VariablesSame
  <1>18. Fields'  BY <1>1, <1>9, <1>10 DEF IInv, Fields
  <1>19. Len(t) = n + 1 /\ t[1] = s[1] /\ t[n + 1] = c
    <2>1. n = Len(s) /\ c \in Cells  BY <1>2 DEF n
    <2>2. n \in 0..Len(s)  BY <2>1, <1>3
    <2>3. /\ Len(t) = n + 1
          /\ \A j \in 1..(n + 1) :
               t[j] = IF j <= n THEN s[j] ELSE IF j = n + 1 THEN c ELSE s[j - 1]
      BY <1>3, <2>1, <2>2, InsertElements
    <2> HIDE DEF t
    <2>4. 1 \in 1..(n + 1) /\ 1 <= n /\ n + 1 \in 1..(n + 1) /\ ~ (n + 1 <= n)
      BY <1>3
    <2> QED  BY <2>3, <2>4
  <1> HIDE DEF t
  <1>20. Source' = src
    <2>1. var[call.v] \in Heads /\ var[call.v] # r  BY <1>3, <1>5
    <2> QED  BY <1>1, <1>8, <1>16, <2>1 DEF Source, src
  <1>21. Built' = t /\ call'.result = r  BY <1>8, <1>16 DEF Built
  <1>22. \E q \in 2..(Len(src) + 1) :
           call'.cur = Nth(src, q) /\ length'[r] = (n + 1) + Len(src) + 1 - q
    <2>1. /\ p + 1 \in 2..(Len(src) + 1)
          /\ n + Len(src) + 1 - p = (n + 1) + Len(src) + 1 - (p + 1)
      BY <1>3, <1>6
    <2> QED  BY <1>1, <1>4, <1>6, <1>8, <2>1
  <1>23. Copying'
    <2>1. Private' /\ Returns'
      BY <1>1, <1>3, <1>8 DEF Private, Returns, r
    <2>2. /\ call'.fn \in {"copyTail", "copy", "union", "difference"}
          /\ call'.v \in Vars /\ var'[call'.v] # NULL
          /\ call'.fn = "union" => call'.w \in Vars
      BY <1>1, <1>3, <1>8 DEF Copying
    <2>3. Len(t) > 0 /\ head'[r] = t[1] /\ call'.prev = t[Len(t)]
      BY <1>1, <1>3, <1>8, <1>19
    <2> QED  BY <1>19, <1>20, <1>21, <1>22, <2>1, <2>2, <2>3 DEF Copying
  <1>24. Progress'  BY <1>8, <1>23 DEF Progress
  <1> QED  BY <1>15, <1>17, <1>18, <1>24 DEF IInv

LEMMA CopyEndsKeeps ==
  ASSUME IInv, CopyEnds
  PROVE  IInv'
  <1> DEFINE r == call.result
             s == Built
             n == Len(s)
             x == call.x
  <1>1. /\ call.at = "copy" /\ call.cur = NULL
        /\ next' = [next EXCEPT ![call.prev] = NULL] /\ tail' = [tail EXCEPT ![r] = call.prev]
        /\ \/ /\ call.fn = "union" /\ UNCHANGED var
              /\ call' = [call EXCEPT !.at = "each", !.prev = NULL, !.cur = list_head(var[call.w])]
           \/ call.fn # "union" /\ var' = [var EXCEPT ![x] = r] /\ call' = Idle
        /\ UNCHANGED <<heap, data, length, head, spine>>
    BY DEF CopyEnds, Assign, Return
  <1>2. /\ Copying /\ call \in Calls /\ call.v \in Vars /\ x \in Vars
        /\ var[call.v] # NULL /\ var[x] = NULL /\ Len(Source) \in Nat
        /\ \A k \in 1..Len(Source) : Source[k] \in Cells
        /\ r # NULL /\ r \in Live /\ r \in Heads /\ \A v \in Vars : var[v] # r
        /\ s \in Seq(Cells) /\ n \in Nat /\ n > 0 /\ call.prev = s[n] /\ call.prev \in Cells
        /\ head[r] = s[1] /\ next[call.prev] = NULL /\ NULL \notin Cells
    BY <1>1, CopyingFacts
  <1>3. /\ next \in [Cells -> Cells \cup {NULL}] /\ tail \in [Heads -> Cells \cup {NULL}]
        /\ var \in [Vars -> Heads \cup {NULL}] /\ Heap(Live, heap, spine, next)
    BY DEF IInv, Fields, Heap
  <1>4. next' = next  BY <1>1, <1>2, <1>3
  <1>5. /\ tail' \in [Heads -> Cells \cup {NULL}] /\ tail'[r] = s[n]
        /\ \A m \in Heads : m # r => tail'[m] = tail[m]
    BY <1>1, <1>2, <1>3
  <1>6. length[r] = n
    <2>1. PICK p \in 2..(Len(Source) + 1) :
            call.cur = Nth(Source, p) /\ length[r] = n + Len(Source) + 1 - p
      BY <1>2 DEF Copying
    <2>2. p \notin 1..Len(Source)  BY <1>1, <1>2, <2>1 DEF Nth
    <2>3. p = Len(Source) + 1  BY <1>2, <2>2
    <2> QED  BY <1>2, <2>1, <2>3
  <1>7. Header(s, r, length, head, tail')  BY <1>2, <1>5, <1>6 DEF Header
  <1>8. \A v \in Vars : var[v] # NULL =>
          var[v] \in Heads /\ var[v] # r /\ Header(spine[var[v]], var[v], length, head, tail')
    <2>1. ASSUME NEW v \in Vars, var[v] # NULL
          PROVE  var[v] \in Heads /\ var[v] # r /\ Header(spine[var[v]], var[v], length, head, tail')
      <3>1. var[v] \in Heads /\ var[v] # r  BY <2>1, <1>2, <1>3
      <3>2. Header(spine[var[v]], var[v], length, head, tail)  BY <2>1, VarFacts
      <3> QED  BY <3>1, <3>2, <1>5 DEF Header
    <2> QED  BY <2>1
  <1>9. \A v, w \in Vars : v # w /\ var[v] # NULL => var[v] # var[w]  BY DEF IInv, Variables
  <1>10. s = spine[r]  BY DEF Built
  <1> HIDE DEF s, n
  <1>11. CASE call.fn = "union"
    <2> DEFINE w == call.w
    <2>1. /\ UNCHANGED var
          /\ call' = [call EXCEPT !.at = "each", !.prev = NULL, !.cur = list_head(var[w])]
      BY <1>1, <1>11
    <2>2. w \in Vars  BY <1>2, <1>11 DEF Copying
    <2>3. \/ var[w] = NULL /\ list_head(var[w]) = NULL
          \/ /\ var[w] # NULL /\ list_head(var[w]) = spine[var[w]][1]
             /\ 1 \in 1..Len(spine[var[w]]) /\ spine[var[w]][1] \in Cells
      <3>1. CASE var[w] = NULL  BY <3>1 DEF list_head
      <3>2. CASE var[w] # NULL
        <4> DEFINE u == spine[var[w]]
        <4>1. Len(u) \in Nat /\ Len(u) > 0 /\ head[var[w]] = u[1] /\ \A k \in 1..Len(u) : u[k] \in Cells
          BY <2>2, <3>2, ListFacts, VarFacts
        <4> HIDE DEF u
        <4>2. 1 \in 1..Len(u) /\ u[1] \in Cells  BY <4>1
        <4> QED  BY <3>2, <4>1, <4>2 DEF u, list_head
      <3> QED  BY <3>1, <3>2
    <2>4. /\ call'.at = "each" /\ call'.prev = NULL /\ call'.cur = list_head(var[w])
          /\ call'.v = call.v /\ call'.w = w /\ call'.x = x /\ call'.fn = "union"
          /\ call'.result = r
      BY <2>1, <1>2, <1>11 DEF Calls
    <2>5. call' \in Calls
      <3>1. list_head(var[w]) \in Cells \cup {NULL}  BY <2>3
      <3> QED  BY <2>1, <3>1, <1>2 DEF Calls
    <2>6. Live' = Live  BY <2>1, <2>4, LiveDef, LiveDefNext
    <2>7. Heap(Live, heap, spine, next)'  BY <1>1, <1>3, <1>4, <2>6
    <2>8. Fields'  BY <1>1, <1>5, <2>1, <2>5 DEF IInv, Fields
    <2>9. Variables'  BY <1>1, <1>8, <1>9, <2>1 DEF Variables
    <2>10. Iterated' = var[w]  BY <2>1, <2>4 DEF Iterated
    <2>11. call'.cur # NULL =>
             Iterated' # NULL /\ \E p \in 1..Len(spine'[Iterated']) : call'.cur = spine'[Iterated'][p]
      BY <1>1, <2>3, <2>4, <2>10
    <2>12. Private'  BY <1>2, <2>1, <2>4 DEF Private
    <2>13. Header(Built', call'.result, length', head', tail')
      BY <1>1, <1>7, <1>10, <2>4 DEF Built
    <2>14. Visiting'
      BY <1>2, <2>1, <2>2, <2>4, <2>11, <2>12, <2>13 DEF Visiting
    <2>15. Progress'  BY <2>4, <2>14 DEF Progress
    <2> QED  BY <2>7, <2>8, <2>9, <2>15 DEF IInv
  <1>12. CASE call.fn # "union"
    <2>1. var' = [var EXCEPT ![x] = r] /\ call' = Idle  BY <1>1, <1>12
    <2>2. call' \in Calls /\ call'.result = NULL /\ Progress'  BY <2>1, IdleFacts
    <2>3. /\ var' \in [Vars -> Heads \cup {NULL}] /\ var'[x] = r
          /\ \A v \in Vars : v # x => var'[v] = var[v]
      BY <1>2, <1>3, <2>1
    <2> HIDE DEF r, x
    <2>4. Live' = Live
      <3>1. \A l : l \in Live' => l \in Live  BY <1>2, <2>2, <2>3, LiveDef, LiveDefNext DEF r
      <3>2. \A l : l \in Live => l \in Live'  BY <1>2, <2>2, <2>3, LiveDef, LiveDefNext DEF r
      <3> QED  BY <3>1, <3>2
    <2>5. Heap(Live, heap, spine, next)'  BY <1>1, <1>3, <1>4, <2>4
    <2>6. Fields'  BY <1>1, <1>5, <2>2, <2>3 DEF IInv, Fields
    <2>7. Variables'
      <3>1. \A v \in Vars : var'[v] # NULL => Header(spine[var'[v]], var'[v], length, head, tail')
        BY <1>7, <1>8, <1>10, <2>3
      <3>2. \A v, w \in Vars : v # w /\ var'[v] # NULL => var'[v] # var'[w]
        BY <1>2, <1>9, <2>3
      <3> QED  BY <1>1, <3>1, <3>2 DEF Variables
    <2> QED  BY <2>2, <2>5, <2>6, <2>7 DEF IInv
  <1> QED  BY <1>11, <1>12

-----------------------------------------------------------------------------
\* The list that is built by list_union, list_difference and list_concat_unique.

LEMMA EachMissingKeeps ==
  ASSUME IInv, EachMissing
  PROVE  IInv'
  <1> DEFINE r == call.result
             r2 == Grown(call.result)
             d == data[call.cur]
             I == Iterated
             nx2 == next'
  <1>1. /\ call.at = "each" /\ call.cur # NULL /\ AppendTo(r, d) /\ UNCHANGED var
        /\ call' = [call EXCEPT !.result = Grown(call.result), !.cur = nx2[call.cur]]
    BY DEF EachMissing, Missing
  <1>2. /\ Visiting /\ call \in Calls /\ call.v \in Vars /\ call.w \in Vars /\ call.x \in Vars
        /\ NULL \notin Cells /\ I # NULL
        /\ I = (IF call.fn # "difference" THEN var[call.w] ELSE var[call.v])
        /\ spine[I] \in Seq(Cells) /\ \A k \in 1..Len(spine[I]) : spine[I][k] \in Cells
    BY <1>1, VisitingFacts
  <1>3. PICK u \in Vars : I = var[u]  BY <1>1, VisitingFacts
  <1>4. PICK p \in 1..Len(spine[I]) : call.cur = spine[I][p]  BY <1>1, VisitingFacts
  <1>5. call.cur \in Cells /\ d \in Data \cup {NULL}
    <2>1. call.cur \in Cells  BY <1>2, <1>4
    <2> QED  BY <2>1 DEF IInv, Fields
  <1>6. /\ call'.at = "each" /\ call'.fn = call.fn /\ call'.v = call.v /\ call'.w = call.w
        /\ call'.x = call.x /\ call'.prev = call.prev /\ call'.result = r2
        /\ call'.cur = nx2[call.cur]
    BY <1>1, <1>2 DEF Calls
  <1>7. r \in Heads \cup {NULL} /\ var \in [Vars -> Heads \cup {NULL}]
    BY <1>2, CallFacts DEF IInv, Fields
  <1> HIDE DEF d
  \* What the two cases have in common.
  <1>8. /\ r2 # NULL /\ r2 \in Heads /\ (r # NULL => r2 = r)
        /\ (r = NULL => \A v \in Vars : var[v] # r2)
        /\ Heap(Live', heap', spine', next')
        /\ Header(spine'[r2], r2, length', head', tail')
        /\ \A m \in Heads \ {r2} : /\ spine'[m] = spine[m] /\ length'[m] = length[m]
                                   /\ head'[m] = head[m] /\ tail'[m] = tail[m]
        /\ data' \in [Cells -> Data \cup {NULL}] /\ length' \in [Heads -> (Nat \ {0}) \cup {NULL}]
        /\ head' \in [Heads -> Cells \cup {NULL}] /\ tail' \in [Heads -> Cells \cup {NULL}]
        /\ \E q \in 1..Len(spine'[I]) : call.cur = spine'[I][q]
    <2>1. CASE r = NULL
      <3>1. r2 = NewHead /\ NewList(d, 1) /\ 1 \in Nat \ {0}
        BY <1>1, <2>1 DEF Grown, AppendTo
      <3> DEFINE c == NewCell
                 t == <<c>>
      <3>2. /\ r2 \in Heads /\ r2 # NULL /\ \A v \in Vars : var[v] # r2
            /\ Heap(Live \cup {r2}, heap', spine', next')
            /\ spine'[r2] = t /\ head'[r2] = c /\ tail'[r2] = c /\ length'[r2] = 1
            /\ \A m \in Heads \ {r2} : /\ spine'[m] = spine[m] /\ length'[m] = length[m]
                                       /\ head'[m] = head[m] /\ tail'[m] = tail[m]
            /\ data' \in [Cells -> Data \cup {NULL}] /\ length' \in [Heads -> (Nat \ {0}) \cup {NULL}]
            /\ head' \in [Heads -> Cells \cup {NULL}] /\ tail' \in [Heads -> Cells \cup {NULL}]
        BY <1>5, <3>1, NewListFacts
      <3> HIDE DEF r2, c
      <3>3. Len(t) = 1 /\ t[1] = c /\ t[Len(t)] = c  OBVIOUS
      <3> HIDE DEF t
      <3>4. Live' = Live \cup {r2}  BY <1>1, <1>6, <2>1, <3>2, NewResult
      <3>5. Header(spine'[r2], r2, length', head', tail')  BY <3>2, <3>3 DEF Header
      <3>6. spine'[I] = spine[I]
        <4>1. I \in Heads /\ I # r2  BY <1>2, <1>3, <1>7, <3>2
        <4> QED  BY <3>2, <4>1
      <3>7. \E q \in 1..Len(spine'[I]) : call.cur = spine'[I][q]  BY <1>4, <3>6
      <3> HIDE DEF r, I
      <3> QED  BY <2>1, <3>2, <3>4, <3>5, <3>7
    <2>2. CASE r # NULL
      <3> DEFINE s == spine[r]
                 n == Len(s)
                 c == NewCell
                 t == Insert(s, n, c)
      <3>1. r2 = r /\ NewTailCell(r, d)  BY <1>1, <2>2 DEF Grown, AppendTo
      <3>2. Header(s, r, length, head, tail)  BY <1>2, <2>2 DEF Visiting, Built
      <3>3. Grows(r) /\ spine'[r] = t /\ c \in Cells
        BY <1>5, <2>2, <3>1, <3>2, NewTailCellGrows
      <3>4. s \in Seq(Cells) /\ n \in Nat  BY <2>2, ListFacts
      <3>5. Live' = Live  BY <1>1, <1>6, <3>1, LiveDef, LiveDefNext
      <3>6. \E q \in 1..Len(spine'[I]) : call.cur = spine'[I][q]
        <4>1. CASE I # r
          <5>1. I \in Heads  BY <1>2, <1>3, <1>7
          <5>2. spine'[I] = spine[I]  BY <4>1, <5>1, <3>3 DEF Grows
          <5> QED  BY <1>4, <5>2
        <4>2. CASE I = r
          <5>1. n \in 0..n  BY <3>4
          <5>2. /\ Len(t) = n + 1
                /\ \A j \in 1..(n + 1) :
                     t[j] = IF j <= n THEN s[j] ELSE IF j = n + 1 THEN c ELSE s[j - 1]
            BY ZenonT(30), <3>3, <3>4, <5>1, InsertElements
          <5>3. p \in 1..n /\ call.cur = s[p]  BY <1>4, <4>2
          <5> HIDE DEF t, s, n
          <5>4. p \in 1..(n + 1) /\ p <= n  BY <3>4, <5>3
          <5>5. t[p] = call.cur  BY <5>2, <5>3, <5>4
          <5>6. spine'[I] = t  BY <3>3, <4>2 DEF s, n
          <5> QED  BY <5>2, <5>4, <5>5, <5>6
        <4> QED  BY <4>1, <4>2
      <3> HIDE DEF I
      <3> QED  BY <1>7, <2>2, <3>1, <3>3, <3>5, <3>6 DEF Grows
    <2> QED  BY <2>1, <2>2
  <1> HIDE DEF r2
  <1>9. I \in Live'  BY <1>1, <1>2, <1>3, LiveDefNext
  <1> DEFINE L2 == Live'
             sp2 == spine'
             h2 == heap'
             w == sp2[I]
  <1>10. Heap(L2, h2, sp2, nx2) /\ I \in L2  BY <1>8, <1>9
  <1> HIDE DEF L2, sp2, h2, nx2
  <1>11. w \in Seq(Cells) /\ \A k \in 1..Len(w) : nx2[w[k]] = Nth(w, k + 1)
    BY <1>10, HeapFacts DEF Chained
  <1>12. PICK q \in 1..Len(w) : call.cur = w[q]  BY <1>8 DEF sp2
  <1>13. call'.cur # NULL => \E k \in 1..Len(w) : call'.cur = w[k]
    <2>1. call'.cur = nx2[w[q]]  BY <1>6, <1>12
    <2> HIDE DEF w
    <2> QED  BY <1>11, <2>1, NextInList
  <1>14. call'.cur \in Cells \cup {NULL}  BY <1>11, <1>13, MemberFacts
  <1>15. call' \in Calls
    <2>1. Grown(call.result) \in Heads \cup {NULL}  BY <1>8 DEF r2
    <2> QED  BY <1>1, <1>2, <1>6, <1>14, <2>1 DEF Calls
  <1>16. Fields'  BY <1>1, <1>8, <1>15 DEF IInv, Fields
  <1>17. Variables'
    <2>1. ASSUME NEW v \in Vars, var[v] # NULL
          PROVE  Header(spine'[var[v]], var[v], length', head', tail')
      <3>1. CASE var[v] = r2  BY <3>1, <1>8
      <3>2. CASE var[v] # r2
        <4>1. var[v] \in Heads \ {r2}  BY <2>1, <3>2, <1>7
        <4>2. Header(spine[var[v]], var[v], length, head, tail)  BY <2>1, VarFacts
        <4> QED  BY <4>1, <4>2, <1>8 DEF Header
      <3> QED  BY <3>1, <3>2
    <2>2. \A v, z \in Vars : v # z /\ var[v] # NULL => var[v] # var[z]  BY DEF IInv, Variables
    <2> QED  BY <1>1, <2>1, <2>2 DEF Variables
  <1>18. Iterated' = I  BY <1>1, <1>6 DEF Iterated
  <1>19. call'.cur # NULL =>
           Iterated' # NULL /\ \E k \in 1..Len(spine'[Iterated']) : call'.cur = spine'[Iterated'][k]
    BY <1>2, <1>13, <1>18 DEF sp2
  <1>20. Header(Built', call'.result, length', head', tail')  BY <1>6, <1>8 DEF Built
  <1>21. r = NULL => Private'  BY <1>1, <1>6, <1>8 DEF Private
  <1>22. Private => Private'  BY <1>1, <1>6, <1>8 DEF Private
  <1>23. IF call.fn = "concatUnique"
         THEN call.x = call.v /\ (r2 = var[call.v] \/ (var[call.v] = NULL /\ Private'))
         ELSE var[call.x] = NULL /\ (r2 = NULL \/ Private')
    <2>1. IF call.fn = "concatUnique"
          THEN call.x = call.v /\ (r = var[call.v] \/ (var[call.v] = NULL /\ Private))
          ELSE var[call.x] = NULL /\ (r = NULL \/ Private)
      BY <1>2 DEF Visiting
    <2> HIDE DEF r, I
    <2>2. r # NULL => r2 = r  BY <1>8
    <2> QED  BY <2>1, <2>2, <1>21, <1>22
  <1>24. Visiting'
    <2>1. /\ call'.fn \in {"union", "difference", "concatUnique"} /\ call'.prev = NULL
          /\ call'.w \in Vars /\ call'.x \in Vars /\ call'.v \in Vars
      BY <1>2, <1>6 DEF Visiting
    <2>2. IF call'.fn = "concatUnique"
          THEN call'.x = call'.v
                 /\ (call'.result = var'[call'.v] \/ (var'[call'.v] = NULL /\ Private'))
          ELSE var'[call'.x] = NULL /\ (call'.result = NULL \/ Private')
      BY <1>1, <1>6, <1>23
    <2> QED  BY <1>19, <1>20, <2>1, <2>2 DEF Visiting
  <1>25. Progress'  BY <1>6, <1>24 DEF Progress
  <1>26. Heap(Live, heap, spine, next)'  BY <1>8
  <1> QED  BY <1>16, <1>17, <1>25, <1>26 DEF IInv

-----------------------------------------------------------------------------
\* A list shrinks.

\* The cell c, behind the k-th one, leaves the list l and is freed.
LEMMA HeapDelete ==
  ASSUME NEW L, NEW h, NEW sp, NEW nx, Heap(L, h, sp, nx), NEW l \in L,
         NEW k \in Nat, k < Len(sp[l]), NEW c \in Cells, c = sp[l][k + 1],
         NEW nx2 \in [Cells -> Cells \cup {NULL}],
         k > 0 => nx2[sp[l][k]] = nx[c],
         \A b \in Cells \ {c} : k = 0 \/ b # sp[l][k] => nx2[b] = nx[b]
  PROVE  Heap(L, h \ {c}, [sp EXCEPT ![l] = Delete(sp[l], k)], nx2)
  <1> DEFINE s == sp[l]
             t == Delete(s, k)
             h2 == h \ {c}
             sp2 == [sp EXCEPT ![l] = t]
  <1>1. /\ s \in Seq(Cells) /\ Members(s) \subseteq h /\ Members(s) \subseteq Cells
        /\ Distinct(s) /\ Chained(s, nx)
        /\ \A m \in L : Members(sp[m]) \subseteq Cells
    BY HeapFacts
  <1>2. \A i, j \in L : i # j => Members(sp[i]) \cap Members(sp[j]) = {}  BY DEF Heap
  <1>3. /\ Len(s) \in Nat /\ DOMAIN s = 1..Len(s)
        /\ \A j \in 1..Len(s) : s[j] \in Cells /\ s[j] \in Members(s)
    BY <1>1, MemberFacts
  <1> HIDE DEF s
  <1>4. k \in 0..(Len(s) - 1) /\ c = s[k + 1] /\ (k > 0 => nx2[s[k]] = nx[s[k + 1]])  BY <1>3 DEF s
  <1>5. k + 1 \in 1..Len(s) /\ (k = 0 \/ k \in 1..Len(s))  BY <1>3, <1>4
  <1>6. c \in Members(s)  BY <1>3, <1>4, <1>5
  <1>7. \A j \in 1..Len(s) : j # k /\ j # k + 1 => nx2[s[j]] = nx[s[j]]
    <2>1. ASSUME NEW j \in 1..Len(s), j # k, j # k + 1 PROVE nx2[s[j]] = nx[s[j]]
      <3>1. s[j] \in Cells \ {c}
        <4>1. s[j] # s[k + 1]  BY <1>1, <1>3, <1>5, <2>1 DEF Distinct
        <4> QED  BY <4>1, <1>3, <1>4
      <3>2. k = 0 \/ s[j] # s[k]  BY <1>1, <1>3, <1>5, <2>1 DEF Distinct
      <3> QED  BY <3>1, <3>2 DEF s
    <2> QED  BY <2>1
  <1>8. t \in Seq(Cells) /\ Members(t) = Members(s) \ {c} /\ Distinct(t)
    BY <1>1, <1>4, DeleteElements, DeleteMembers
  <1>9. Chained(t, nx2)
    <2> HIDE DEF t
    <2>1. Chained(Delete(s, k), nx2)  BY ONLY <1>1, <1>4, <1>7, DeleteChained
    <2> QED  BY <2>1 DEF t
  <1> HIDE DEF t
  <1>10. \A m \in L \ {l} : \A b \in Members(sp[m]) : nx2[b] = nx[b]
    <2>1. ASSUME NEW m \in L \ {l}, NEW b \in Members(sp[m]) PROVE nx2[b] = nx[b]
      <3>1. m \in L /\ l \in L /\ m # l /\ b \in Members(sp[m])  OBVIOUS
      <3>2. b \in Cells /\ b \notin Members(s)  BY ONLY <3>1, <1>2, <1>1 DEF s
      <3>3. b \in Cells \ {c} /\ (k = 0 \/ b # s[k])  BY <1>3, <1>5, <1>6, <3>2
      <3> QED  BY <3>3 DEF s
    <2> QED  BY <2>1
  <1>11. h2 = (h \ Members(s)) \cup Members(t) /\ Members(t) \cap h \subseteq Members(s)
    BY <1>1, <1>6, <1>8
  <1> HIDE DEF h2
  <1>12. h2 = (h \ Members(sp[l])) \cup Members(t) /\ Members(t) \cap h \subseteq Members(sp[l])
    BY <1>11 DEF s
  <1>13. Heap(L, h2, sp2, nx2)  BY <1>8, <1>9, <1>10, <1>12, HeapChange
  <1> QED  BY <1>13 DEF h2, sp2, t, s

LEMMA UnlinkKeeps ==
  ASSUME IInv, call.result = NULL, NEW v \in Vars, var[v] # NULL,
         NEW k \in Nat, k < Len(spine[var[v]]), Len(spine[var[v]]) # 1,
         NEW c, c = spine[var[v]][k + 1], NEW prev, prev = Nth(spine[var[v]], k),
         Unlink(v, c, prev, k)
  PROVE  IInv'
  <1> DEFINE l == var[v]
             s == spine[l]
             n == Len(s)
             t == Delete(s, k)
             nx2 == next'
  <1>1. /\ length' = [length EXCEPT ![l] = length[l] - 1]
        /\ IF prev # NULL
           THEN next' = Without([next EXCEPT ![prev] = next[c]], {c}) /\ head' = head
           ELSE next' = Without(next, {c}) /\ head' = [head EXCEPT ![l] = next[c]]
        /\ tail' = [tail EXCEPT ![l] = IF tail[l] = c THEN prev ELSE tail[l]]
        /\ heap' = heap \ {c} /\ data' = Without(data, {c})
        /\ spine' = [spine EXCEPT ![l] = t]
        /\ call' = Idle /\ UNCHANGED var
    BY DEF Unlink, TailWithout, Return, Delete
  <1>2. /\ l \in Live /\ l \in Heads /\ s \in Seq(Cells) /\ n \in Nat /\ Distinct(s)
        /\ Chained(s, next) /\ Members(s) \subseteq Cells /\ Members(s) \subseteq heap
        /\ \A j \in 1..n : s[j] \in Cells /\ next[s[j]] = Nth(s, j + 1)
        /\ NULL \notin Cells
    BY ListFacts
  <1>3. /\ length[l] = n /\ n > 0 /\ head[l] = s[1] /\ tail[l] = s[n]  BY VarFacts
  <1>4. \A i, j \in 1..n : s[i] = s[j] => i = j  BY <1>2, LenProperties DEF Distinct
  <1>5. /\ next \in [Cells -> Cells \cup {NULL}] /\ data \in [Cells -> Data \cup {NULL}]
        /\ length \in [Heads -> (Nat \ {0}) \cup {NULL}]
        /\ head \in [Heads -> Cells \cup {NULL}] /\ tail \in [Heads -> Cells \cup {NULL}]
        /\ spine \in [Heads -> Seq(Cells) \cup {NULL}] /\ var \in [Vars -> Heads \cup {NULL}]
        /\ Heap(Live, heap, spine, next)
    BY DEF IInv, Fields, Heap
  <1>6. c = s[k + 1] /\ prev = Nth(s, k) /\ k \in 0..(n - 1) /\ n # 1  BY <1>2
  <1> HIDE DEF t, s, n, l
  <1>7. n > 1 /\ k + 1 \in 1..n /\ (k > 0 <=> k \in 1..n) /\ (k = 0 \/ k > 0)
    BY <1>2, <1>3, <1>6
  <1>8. /\ c \in Cells /\ c \in Members(s) /\ next[c] = Nth(s, (k + 1) + 1)
        /\ next[c] \in Cells \cup {NULL}
    <2>1. c \in Cells  BY <1>2, <1>6, <1>7
    <2>2. c \in Members(s)  BY <1>2, <1>6, <1>7, MemberFacts DEF n
    <2> QED  BY <2>1, <2>2, <1>2, <1>5, <1>6, <1>7
  <1>9. /\ k > 0 => prev = s[k] /\ prev \in Cells /\ prev # NULL /\ prev # c
        /\ k = 0 => prev = NULL
    <2>1. k = 0 => k \notin 1..n  BY <1>7
    <2>2. prev = IF k \in 1..n THEN s[k] ELSE NULL  BY <1>6 DEF Nth, n
    <2>3. k # k + 1  BY <1>6
    <2> QED  BY <2>1, <2>2, <2>3, <1>2, <1>4, <1>6, <1>7
  <1>10. /\ nx2 \in [Cells -> Cells \cup {NULL}]
         /\ k > 0 => nx2[prev] = next[c]
         /\ \A b \in Cells : b # prev /\ b # c => nx2[b] = next[b]
    <2>1. CASE k > 0
      <3> DEFINE f == [next EXCEPT ![prev] = next[c]]
      <3>1. /\ f \in [Cells -> Cells \cup {NULL}] /\ f[prev] = next[c]
            /\ \A b \in Cells : b # prev => f[b] = next[b]
        BY <2>1, <1>5, <1>8, <1>9
      <3>2. nx2 = Without(f, {c})  BY <2>1, <1>1, <1>9
      <3> HIDE DEF f, nx2
      <3>3. /\ nx2 \in [Cells -> Cells \cup {NULL}]
            /\ \A b \in Cells : nx2[b] = IF b \in {c} THEN NULL ELSE f[b]
        <4>1. f \in [Cells -> Cells \cup {NULL}]  BY <3>1
        <4>2. DOMAIN f = Cells  BY <4>1
        <4> QED  BY <3>2, <4>1, <4>2 DEF Without
      <3> QED  BY <2>1, <3>1, <3>3, <1>9
    <2>2. CASE k = 0
      <3>1. nx2 = Without(next, {c}) /\ ~ (k > 0)  BY <2>2, <1>1, <1>9
      <3> HIDE DEF nx2
      <3>2. /\ nx2 \in [Cells -> Cells \cup {NULL}]
            /\ \A b \in Cells : nx2[b] = IF b \in {c} THEN NULL ELSE next[b]
        BY <3>1, WithoutTypes
      <3> QED  BY <3>1, <3>2
    <2> QED  BY <2>1, <2>2, <1>7
  <1>11. data' \in [Cells -> Data \cup {NULL}]  BY <1>1, WithoutTypes
  <1>12. /\ t \in Seq(Cells) /\ Len(t) = n - 1
         /\ \A j \in 1..(n - 1) : t[j] = IF j <= k THEN s[j] ELSE s[j + 1]
         /\ Members(t) = Members(s) \ {c} /\ Distinct(t)
    <2>1. k \in 0..(Len(s) - 1) /\ n = Len(s)  BY <1>6 DEF n
    <2> QED  BY <2>1, <1>2, <1>6, DeleteElements, DeleteMembers DEF t
  <1>13. /\ l \in Live /\ c \in Cells /\ Heap(Live, heap, spine, next) /\ nx2 \in [Cells -> Cells \cup {NULL}]
         /\ k \in Nat /\ k < Len(spine[l]) /\ c = spine[l][k + 1]
         /\ k > 0 => nx2[spine[l][k]] = next[c]
         /\ \A b \in Cells \ {c} : k = 0 \/ b # spine[l][k] => nx2[b] = next[b]
    <2>1. \A b \in Cells \ {c} : k = 0 \/ b # s[k] => nx2[b] = next[b]
      <3>1. NULL \notin Cells  BY <1>2
      <3> QED  BY <3>1, <1>7, <1>9, <1>10
    <2>2. k > 0 => nx2[s[k]] = next[c]  BY <1>9, <1>10
    <2> QED  BY <2>1, <2>2, <1>2, <1>5, <1>6, <1>8, <1>10 DEF s, n
  <1> HIDE DEF nx2
  <1>14. Heap(Live, heap \ {c}, [spine EXCEPT ![l] = Delete(spine[l], k)], nx2)
    BY ONLY <1>13, HeapDelete
  <1>15. Live' = Live
    <2>1. call.result = NULL /\ call'.result = NULL /\ var' = var  BY <1>1, IdleFacts
    <2> QED  BY ONLY <2>1, LiveDef, LiveDefNext
  <1>16. Heap(Live, heap, spine, next)'  BY <1>1, <1>14, <1>15 DEF nx2, t, s
  <1>17. /\ length' \in [Heads -> (Nat \ {0}) \cup {NULL}] /\ length'[l] = n - 1
         /\ \A m \in Heads : m # l => length'[m] = length[m] /\ spine'[m] = spine[m]
         /\ spine'[l] = t
    <2>1. n - 1 \in Nat \ {0}  BY <1>2, <1>7
    <2> QED  BY <2>1, <1>1, <1>2, <1>3, <1>5
  <1>18. /\ head' \in [Heads -> Cells \cup {NULL}] /\ head'[l] = t[1]
         /\ \A m \in Heads : m # l => head'[m] = head[m]
    <2>1. CASE k > 0
      <3>1. 1 \in 1..(n - 1) /\ 1 <= k  BY <2>1, <1>6, <1>7, <1>2
      <3>2. t[1] = s[1]  BY <3>1, <1>12
      <3> QED  BY <2>1, <3>2, <1>1, <1>3, <1>5, <1>9
    <2>2. CASE k = 0
      <3>1. 1 \in 1..(n - 1) /\ ~ (1 <= k) /\ (k + 1) + 1 = 2 /\ 1 + 1 = 2 /\ 2 \in 1..n
        BY <2>2, <1>7, <1>2
      <3>2. t[1] = s[2]  BY <3>1, <1>12
      <3>3. next[c] = s[2]  BY <3>1, <1>8 DEF Nth, n
      <3>4. head' = [head EXCEPT ![l] = s[2]]  BY <2>2, <3>3, <1>1, <1>9
      <3>5. s[2] \in Cells  BY <3>1, <1>2
      <3> QED  BY <3>2, <3>4, <3>5, <1>2, <1>5
    <2> QED  BY <2>1, <2>2, <1>7
  <1>19. /\ tail' \in [Heads -> Cells \cup {NULL}] /\ tail'[l] = t[n - 1]
         /\ \A m \in Heads : m # l => tail'[m] = tail[m]
    <2>1. n \in 1..n /\ n - 1 \in 1..(n - 1) /\ n - 1 \in 1..n /\ (n - 1) + 1 = n
      BY <1>2, <1>7
    <2>2. CASE k + 1 = n
      <3>1. n - 1 <= k /\ k > 0 /\ k = n - 1  BY <2>2, <1>2, <1>6, <1>7
      <3>2. t[n - 1] = s[k] /\ tail[l] = c  BY <2>1, <2>2, <3>1, <1>3, <1>6, <1>12
      <3>3. tail' = [tail EXCEPT ![l] = s[k]] /\ s[k] \in Cells  BY <3>1, <3>2, <1>1, <1>9
      <3> QED  BY <3>2, <3>3, <1>2, <1>5
    <2>3. CASE k + 1 # n
      <3>1. ~ (n - 1 <= k)  BY <2>3, <1>2, <1>6
      <3>2. t[n - 1] = s[n]  BY <2>1, <3>1, <1>12
      <3>3. tail[l] # c  BY <2>1, <2>3, <1>3, <1>4, <1>6, <1>7
      <3>4. tail' = [tail EXCEPT ![l] = s[n]] /\ s[n] \in Cells  BY <2>1, <3>3, <1>1, <1>2, <1>3
      <3> QED  BY <3>2, <3>4, <1>2, <1>5
    <2> QED  BY <2>2, <2>3
  <1>20. Header(spine'[l], l, length', head', tail')
    <2>1. n - 1 > 0  BY <1>2, <1>7
    <2> QED  BY <2>1, <1>12, <1>17, <1>18, <1>19 DEF Header
  <1>21. Variables'
    <2>1. ASSUME NEW u \in Vars, var[u] # NULL
          PROVE  Header(spine'[var[u]], var[u], length', head', tail')
      <3>1. CASE var[u] = l  BY <3>1, <1>20
      <3>2. CASE var[u] # l
        <4>1. var[u] \in Heads /\ Header(spine[var[u]], var[u], length, head, tail)
          BY <2>1, <1>5, VarFacts
        <4> QED  BY <3>2, <4>1, <1>17, <1>18, <1>19 DEF Header
      <3> QED  BY <3>1, <3>2
    <2>2. \A u, w \in Vars : u # w /\ var[u] # NULL => var[u] # var[w]  BY DEF IInv, Variables
    <2> QED  BY <1>1, <2>1, <2>2 DEF Variables
  <1>22. Fields' /\ Progress'
    BY <1>1, <1>5, <1>11, <1>17, <1>18, <1>19, IdleFacts DEF Fields
  <1> QED  BY <1>16, <1>21, <1>22 DEF IInv

\* list_delete_cell, with the cell and its predecessor in their places.
LEMMA DeleteCellKeeps ==
  ASSUME IInv, call.result = NULL, NEW v \in Vars, var[v] # NULL,
         NEW k \in Nat, k < Len(spine[var[v]]),
         NEW c, c = spine[var[v]][k + 1], NEW prev, prev = Nth(spine[var[v]], k),
         list_delete_cell(v, c, prev, k)
  PROVE  IInv'
  <1>1. length[var[v]] = Len(spine[var[v]])  BY VarFacts
  <1>2. CASE length[var[v]] = 1
    <2>1. StartFree(v)  BY <1>2 DEF list_delete_cell
    <2> QED  BY <2>1, StartFreeKeeps
  <1>3. CASE length[var[v]] # 1
    <2>1. Unlink(v, c, prev, k)  BY <1>3 DEF list_delete_cell
    <2> QED  BY <1>1, <1>3, <2>1, UnlinkKeeps
  <1> QED  BY <1>2, <1>3

LEMMA DeleteFirstKeeps ==
  ASSUME IInv, NEW v \in Vars, list_delete_first(v)
  PROVE  IInv'
  <1> DEFINE s == spine[var[v]]
             k == 0
  <1>1. Calling /\ var[v] # NULL /\ list_delete_cell(v, head[var[v]], NULL, k)
    BY DEF list_delete_first
  <1>2. call.result = NULL  BY <1>1, CallingFacts
  <1>3. Len(s) \in Nat /\ Len(s) > 0 /\ head[var[v]] = s[1]  BY <1>1, ListFacts, VarFacts
  <1> HIDE DEF s
  <1>4. k \in Nat /\ k < Len(s) /\ k + 1 = 1 /\ k \notin 1..Len(s)  BY <1>3
  <1>5. Nth(s, k) = NULL  BY <1>4 DEF Nth
  <1> HIDE DEF k
  <1>6. head[var[v]] = s[k + 1]  BY <1>3, <1>4
  <1> QED  BY <1>1, <1>2, <1>4, <1>5, <1>6, DeleteCellKeeps DEF s

LEMMA SearchFindsKeeps ==
  ASSUME IInv, SearchFinds
  PROVE  IInv'
  <1>1. /\ call.at = "search" /\ call.cur # NULL
        /\ list_delete_cell(call.v, call.cur, call.prev, call.i)
    BY DEF SearchFinds, Found
  <1>2. /\ Searching /\ call.v \in Vars /\ var[call.v] # NULL /\ Len(Source) \in Nat
        /\ call.i \in Nat /\ call.i + 1 \in 1..Len(Source) /\ call.cur = Source[call.i + 1]
    BY <1>1, SearchingFacts
  <1>3. call.result = NULL /\ call.prev = Nth(Source, call.i)  BY <1>2 DEF Searching
  <1>4. call.i < Len(Source)  BY <1>2
  <1> QED  BY <1>1, <1>2, <1>3, <1>4, DeleteCellKeeps DEF Source

\* list_truncate's end.
LEMMA CutKeeps ==
  ASSUME IInv, Cut
  PROVE  IInv'
  <1> DEFINE l == var[call.v]
             s == spine[l]
             n == Len(s)
             m == call.n + 1
             rest == {s[k] : k \in (m + 1)..n}
             t == SubSeq(s, 1, m)
             c == call.cur
             nx2 == next'
  <1>1. /\ call.at = "walk" /\ call.fn = "truncate" /\ call.i = call.n
        /\ next' = Without(next, {s[k] : k \in (call.n + 2)..n} \cup {c})
        /\ tail' = [tail EXCEPT ![l] = c] /\ length' = [length EXCEPT ![l] = call.n + 1]
        /\ spine' = [spine EXCEPT ![l] = SubSeq(s, 1, call.n + 1)]
        /\ heap' = heap \ {s[k] : k \in (call.n + 2)..n}
        /\ data' = Without(data, {s[k] : k \in (call.n + 2)..n})
        /\ call' = Idle /\ head' = head /\ var' = var
    BY DEF Cut, WalkEnds, Return
  <1>2. /\ Walking /\ call \in Calls /\ call.v \in Vars /\ l # NULL /\ call.n \in Nat
    BY <1>1, WalkingFacts, CallFacts
  <1>3. /\ call.n < Len(Source) /\ call.cur = Nth(Source, call.n + 1) /\ call.result = NULL
    BY <1>1, <1>2 DEF Walking
  <1>4. /\ l \in Live /\ l \in Heads /\ s \in Seq(Cells) /\ n \in Nat /\ Distinct(s)
        /\ Chained(s, next) /\ Members(s) \subseteq Cells /\ Members(s) \subseteq heap
        /\ \A j \in 1..n : s[j] \in Cells
    BY <1>2, ListFacts
  <1>5. /\ length[l] = n /\ n > 0 /\ head[l] = s[1]  BY <1>2, VarFacts
  <1>6. /\ next \in [Cells -> Cells \cup {NULL}] /\ data \in [Cells -> Data \cup {NULL}]
        /\ length \in [Heads -> (Nat \ {0}) \cup {NULL}]
        /\ head \in [Heads -> Cells \cup {NULL}] /\ tail \in [Heads -> Cells \cup {NULL}]
        /\ spine \in [Heads -> Seq(Cells) \cup {NULL}] /\ var \in [Vars -> Heads \cup {NULL}]
        /\ Heap(Live, heap, spine, next)
    BY DEF IInv, Fields, Heap
  <1>7. /\ {s[k] : k \in (call.n + 2)..n} = rest /\ SubSeq(s, 1, call.n + 1) = t
    <2>1. m + 1 = call.n + 2  BY <1>2
    <2> HIDE DEF m, n, s
    <2> QED  BY <2>1 DEF m
  <1>8. m \in 1..n /\ m \in Nat \ {0} /\ c = s[m]
    <2>1. m \in 1..n /\ m \in Nat \ {0}  BY <1>2, <1>3, <1>4 DEF Source
    <2> QED  BY <2>1, <1>3 DEF Source, Nth
  <1>9. /\ nx2 = Without(next, rest \cup {c}) /\ tail' = [tail EXCEPT ![l] = c]
        /\ length' = [length EXCEPT ![l] = m] /\ spine' = [spine EXCEPT ![l] = t]
        /\ heap' = heap \ rest /\ data' = Without(data, rest)
    BY <1>1, <1>7
  <1> HIDE DEF t, m, c, nx2, n
  <1>10. rest \subseteq Members(s) /\ c \in Members(s) /\ c \in Cells
    <2>1. \A k \in (m + 1)..n : k \in 1..n  BY <1>4, <1>8
    <2>2. \A k \in 1..n : s[k] \in Members(s)  BY <1>4, MemberFacts DEF n
    <2> HIDE DEF s
    <2> QED  BY <2>1, <2>2, <1>4, <1>8
  <1>11. \A j \in 1..(m - 1) : s[j] \in Cells /\ s[j] \notin rest /\ s[j] # c
    <2>1. \A i, j \in 1..n : s[i] = s[j] => i = j  BY <1>4, LenProperties DEF Distinct, n
    <2>2. \A j \in 1..(m - 1) : j \in 1..n /\ j # m /\ \A k \in (m + 1)..n : k \in 1..n /\ j # k
      BY <1>4, <1>8
    <2> HIDE DEF s
    <2> QED  BY <2>1, <2>2, <1>4, <1>8
  <1> HIDE DEF rest
  <1>12. /\ nx2 \in [Cells -> Cells \cup {NULL}]
         /\ \A b \in Cells : nx2[b] = IF b \in rest \cup {c} THEN NULL ELSE next[b]
         /\ data' \in [Cells -> Data \cup {NULL}]
    BY <1>9, WithoutTypes
  <1>13. /\ t \in Seq(Cells) /\ Len(t) = m /\ \A j \in 1..m : t[j] = s[j]
         /\ Members(t) = Members(s) \ rest /\ Distinct(t) /\ Chained(t, nx2)
    <2>1. nx2[s[m]] = NULL /\ \A j \in 1..(m - 1) : nx2[s[j]] = next[s[j]]
      BY <1>8, <1>10, <1>11, <1>12
    <2>2. s \in Seq(Cells) /\ m \in 1..Len(s) /\ Distinct(s) /\ Chained(s, next)
      BY <1>4, <1>8 DEF n
    <2>3. rest = {s[k] : k \in (m + 1)..Len(s)}  BY DEF rest, n
    <2> HIDE DEF s
    <2>4. LET u == SubSeq(s, 1, m) IN
          /\ u \in Seq(Cells) /\ Len(u) = m /\ \A j \in 1..m : u[j] = s[j]
          /\ Members(u) = Members(s) \ {s[k] : k \in (m + 1)..Len(s)}
          /\ Distinct(u) /\ Chained(u, nx2)
      BY ONLY <2>1, <2>2, PrefixFacts
    <2> QED  BY <2>3, <2>4 DEF t
  <1> DEFINE h2 == heap'
             sp2 == spine'
  <1>14. Heap(Live, h2, sp2, nx2)
    <2>1. /\ h2 = (heap \ Members(spine[l])) \cup Members(t)
          /\ Members(t) \cap heap \subseteq Members(spine[l])
          /\ sp2 = [spine EXCEPT ![l] = t]
      BY <1>4, <1>9, <1>10, <1>13
    <2>2. \A i \in Live \ {l} : \A b \in Members(spine[i]) : nx2[b] = next[b]
      <3>1. ASSUME NEW i \in Live \ {l}, NEW b \in Members(spine[i]) PROVE nx2[b] = next[b]
        <4>1. Members(spine[i]) \subseteq Cells  BY <1>6, HeapFacts
        <4>2. \A a, j \in Live : a # j => Members(spine[a]) \cap Members(spine[j]) = {}
          BY <1>6 DEF Heap
        <4>3. b \in Cells /\ b \notin Members(s)  BY <4>1, <4>2, <3>1, <1>4
        <4> QED  BY <4>3, <1>10, <1>12
      <3> QED  BY <3>1
    <2> HIDE DEF h2, sp2
    <2>3. /\ nx2 \in [Cells -> Cells \cup {NULL}] /\ l \in Live
          /\ t \in Seq(Cells) /\ Distinct(t) /\ Chained(t, nx2)
          /\ Heap(Live, heap, spine, next)
      BY <1>4, <1>6, <1>12, <1>13
    <2> HIDE DEF l, s
    <2> QED  BY ONLY <2>1, <2>2, <2>3, HeapChange
  <1>15. Live' = Live
    <2>1. call.result = NULL /\ call'.result = NULL /\ var' = var  BY <1>1, <1>3, IdleFacts
    <2> QED  BY ONLY <2>1, LiveDef, LiveDefNext
  <1>16. Heap(Live, heap, spine, next)'  BY <1>14, <1>15 DEF nx2
  <1>17. /\ length' \in [Heads -> (Nat \ {0}) \cup {NULL}]
         /\ tail' \in [Heads -> Cells \cup {NULL}] /\ head' \in [Heads -> Cells \cup {NULL}]
         /\ length'[l] = m /\ tail'[l] = c /\ head'[l] = s[1] /\ spine'[l] = t
         /\ \A i \in Heads : i # l => /\ length'[i] = length[i] /\ spine'[i] = spine[i]
                                      /\ tail'[i] = tail[i] /\ head'[i] = head[i]
    BY SMTT(20), <1>1, <1>4, <1>5, <1>6, <1>8, <1>9, <1>10
  <1>18. Header(spine'[l], l, length', head', tail')
    <2>1. m > 0 /\ 1 \in 1..m /\ m \in 1..m  BY <1>8
    <2> QED  BY <2>1, <1>8, <1>13, <1>17 DEF Header
  <1>19. Variables'
    <2>1. ASSUME NEW u \in Vars, var[u] # NULL
          PROVE  Header(spine'[var[u]], var[u], length', head', tail')
      <3>1. CASE var[u] = l  BY <3>1, <1>18
      <3>2. CASE var[u] # l
        <4>1. var[u] \in Heads /\ Header(spine[var[u]], var[u], length, head, tail)
          BY <2>1, <1>6, VarFacts
        <4> QED  BY <3>2, <4>1, <1>17 DEF Header
      <3> QED  BY <3>1, <3>2
    <2>2. \A u, w \in Vars : u # w /\ var[u] # NULL => var[u] # var[w]  BY DEF IInv, Variables
    <2> QED  BY <1>1, <2>1, <2>2 DEF Variables
  <1>20. Fields' /\ Progress'
    BY <1>1, <1>6, <1>12, <1>17, IdleFacts DEF Fields
  <1> QED  BY <1>16, <1>19, <1>20 DEF IInv

-----------------------------------------------------------------------------
\* The cells of one list become cells of another one.

LEMMA ConcatKeeps ==
  ASSUME IInv, NEW v \in Vars, NEW w \in Vars, list_concat(v, w)
  PROVE  IInv'
  <1> DEFINE l1 == var[v]
             l2 == var[w]
  <1>1. /\ Calling /\ v # w /\ l2 # NULL /\ call' = call
        /\ var' = [var EXCEPT ![v] = IF l1 = NULL THEN l2 ELSE l1, ![w] = NULL]
    BY DEF list_concat
  <1>2. call = Idle /\ call.result = NULL /\ call' = Idle /\ call'.result = NULL
    BY <1>1, CallingFacts
  <1>3. /\ var \in [Vars -> Heads \cup {NULL}] /\ Heap(Live, heap, spine, next)
        /\ data \in [Cells -> Data \cup {NULL}]
        /\ length \in [Heads -> (Nat \ {0}) \cup {NULL}]
        /\ head \in [Heads -> Cells \cup {NULL}] /\ tail \in [Heads -> Cells \cup {NULL}]
        /\ next \in [Cells -> Cells \cup {NULL}]
        /\ spine \in [Heads -> Seq(Cells) \cup {NULL}]
        /\ \A x \in Vars : var[x] # NULL => Header(spine[var[x]], var[x], length, head, tail)
        /\ \A x, y \in Vars : x # y /\ var[x] # NULL => var[x] # var[y]
    BY DEF IInv, Fields, Variables, Heap
  <1>4. /\ var' \in [Vars -> Heads \cup {NULL}] /\ var'[w] = NULL
        /\ var'[v] = IF l1 = NULL THEN l2 ELSE l1
        /\ \A x \in Vars : x # v /\ x # w => var'[x] = var[x]
    BY <1>1, <1>3
  <1>5. \A x, y \in Vars : x # y /\ var'[x] # NULL => var'[x] # var'[y]
    BY <1>1, <1>3, <1>4
  <1>6. Progress' /\ call' \in Calls  BY <1>2, IdleFacts
  <1>7. CASE l1 = NULL /\ UNCHANGED heapVars
    <2>1. UNCHANGED <<heap, data, next, length, head, tail, spine>>
      BY <1>7 DEF heapVars, cellVars, headVars
    <2>2. Live' = Live
      <3>1. \A l : (\E x \in Vars : l = var[x]) => l = NULL \/ \E x \in Vars : l = var'[x]
        BY <1>4, <1>7
      <3>2. \A l : (\E x \in Vars : l = var'[x]) => l = NULL \/ \E x \in Vars : l = var[x]
        BY <1>4, <1>7
      <3> QED  BY ONLY <3>1, <3>2, <1>2, LiveDef, LiveDefNext
    <2>3. Heap(Live, heap, spine, next)'  BY <2>1, <2>2, <1>3
    <2>4. Fields'  BY <2>1, <1>3, <1>4, <1>6 DEF Fields
    <2>5. \A x \in Vars : var'[x] # NULL => \E y \in Vars : var'[x] = var[y]  BY <1>4, <1>7
    <2>6. Variables'  BY <2>1, <2>5, <1>3, <1>5 DEF Variables, Header
    <2> QED  BY <2>3, <2>4, <2>6, <1>6 DEF IInv
  <1>8. CASE /\ l1 # NULL
             /\ length' = Without([length EXCEPT ![l1] = length[l1] + length[l2]], {l2})
             /\ next' = [next EXCEPT ![tail[l1]] = head[l2]]
             /\ tail' = Without([tail EXCEPT ![l1] = tail[l2]], {l2})
             /\ head' = Without(head, {l2})
             /\ spine' = Without([spine EXCEPT ![l1] = spine[l1] \o spine[l2]], {l2})
             /\ heap' = heap \ {l2} /\ data' = data
    <2> DEFINE s == spine[l1]
               t == spine[l2]
               r == s \o t
    <2>1. /\ l1 # l2 /\ l1 \in Live /\ l2 \in Live /\ l1 \in Heads /\ l2 \in Heads
          /\ s \in Seq(Cells) /\ t \in Seq(Cells) /\ Len(s) \in Nat /\ Len(t) \in Nat
      BY <1>1, <1>3, <1>8, ListFacts
    <2>2. /\ Len(s) > 0 /\ length[l1] = Len(s) /\ head[l1] = s[1] /\ tail[l1] = s[Len(s)]
          /\ Len(t) > 0 /\ length[l2] = Len(t) /\ head[l2] = t[1] /\ tail[l2] = t[Len(t)]
      BY <1>1, <1>8, VarFacts
    <2> HIDE DEF l1, l2
    <2>3. /\ r \in Seq(Cells) /\ Len(r) = Len(s) + Len(t)
          /\ r[1] = s[1] /\ r[Len(r)] = t[Len(t)]
      <3>1. /\ r \in Seq(Cells) /\ Len(r) = Len(s) + Len(t)
            /\ \A j \in 1..(Len(s) + Len(t)) :
                 r[j] = IF j <= Len(s) THEN s[j] ELSE t[j - Len(s)]
        BY <2>1, ConcatProperties
      <3> HIDE DEF r, s, t
      <3>2. /\ 1 \in 1..(Len(s) + Len(t)) /\ 1 <= Len(s)
            /\ Len(s) + Len(t) \in 1..(Len(s) + Len(t)) /\ ~ (Len(s) + Len(t) <= Len(s))
            /\ (Len(s) + Len(t)) - Len(s) = Len(t)
        BY <2>1, <2>2
      <3> QED  BY <3>1, <3>2
    <2> HIDE DEF r
    <2>4. s[1] \in Cells /\ t[1] \in Cells /\ t[Len(t)] \in Cells
      <3>1. 1 \in 1..Len(s) /\ 1 \in 1..Len(t) /\ Len(t) \in 1..Len(t)  BY <2>1, <2>2
      <3> QED  BY <3>1, <2>1, MemberFacts
    <2>5. Len(s) + Len(t) \in Nat \ {0} /\ Len(s) + Len(t) > 0
      <3>1. \A i, j \in Nat : i > 0 => i + j \in Nat \ {0} /\ i + j > 0  OBVIOUS
      <3> HIDE DEF s, t
      <3> QED  BY <2>1, <2>2, <3>1
    <2> DEFINE f == [length EXCEPT ![l1] = length[l1] + length[l2]]
               g == [tail EXCEPT ![l1] = tail[l2]]
               e == [spine EXCEPT ![l1] = r]
    <2>6. /\ f \in [Heads -> (Nat \ {0}) \cup {NULL}] /\ f[l1] = Len(r)
          /\ \A m \in Heads : m # l1 => f[m] = length[m]
      BY <2>1, <2>2, <2>3, <2>5, <1>3
    <2>7. /\ g \in [Heads -> Cells \cup {NULL}] /\ g[l1] = r[Len(r)]
          /\ \A m \in Heads : m # l1 => g[m] = tail[m]
      BY <2>1, <2>2, <2>3, <2>4, <1>3
    <2>8. /\ e \in [Heads -> Seq(Cells) \cup {NULL}] /\ e[l1] = r
          /\ \A m \in Heads : m # l1 => e[m] = spine[m]
      BY <2>1, <2>3, <1>3
    <2>9. /\ length' = Without(f, {l2}) /\ tail' = Without(g, {l2})
          /\ head' = Without(head, {l2}) /\ spine' = Without(e, {l2})
      BY <1>8 DEF r
    <2> HIDE DEF f, g, e
    <2>10. /\ length' \in [Heads -> (Nat \ {0}) \cup {NULL}]
           /\ \A m \in Heads : m # l2 => length'[m] = f[m]
      <3>1. DOMAIN f = Heads  BY <2>6
      <3> QED  BY <3>1, <2>6, <2>9 DEF Without
    <2>11. /\ tail' \in [Heads -> Cells \cup {NULL}] /\ \A m \in Heads : m # l2 => tail'[m] = g[m]
      <3>1. DOMAIN g = Heads  BY <2>7
      <3> QED  BY <3>1, <2>7, <2>9 DEF Without
    <2>12. /\ spine' \in [Heads -> Seq(Cells) \cup {NULL}]
           /\ \A m \in Heads : m # l2 => spine'[m] = e[m]
      <3>1. DOMAIN e = Heads  BY <2>8
      <3> QED  BY <3>1, <2>8, <2>9 DEF Without
    <2>13. /\ head' \in [Heads -> Cells \cup {NULL}]
           /\ \A m \in Heads : m # l2 => head'[m] = head[m]
      <3>1. DOMAIN head = Heads  BY <1>3
      <3> QED  BY <3>1, <1>3, <2>9 DEF Without
    <2> DEFINE sp2 == spine'
               nx2 == next'
    <2>14. Heap(Live \ {l2}, heap \ {l2}, sp2, nx2)
      <3>1. /\ Heap(Live, heap, spine, next) /\ l1 \in Live /\ l2 \in Live /\ l1 # l2
            /\ Len(spine[l1]) > 0 /\ Len(spine[l2]) > 0
        BY <1>3, <2>1, <2>2
      <3>2. /\ sp2 \in [Heads -> Seq(Cells) \cup {NULL}] /\ sp2[l1] = spine[l1] \o spine[l2]
            /\ \A m \in Live \ {l1, l2} : sp2[m] = spine[m]
        <4>1. Live \subseteq Heads  BY <1>3 DEF Heap
        <4> QED  BY <4>1, <2>1, <2>8, <2>12 DEF r
      <3>3. nx2 = [next EXCEPT ![spine[l1][Len(spine[l1])]] = spine[l2][1]]
        BY <1>8, <2>2
      <3> HIDE DEF sp2, nx2
      <3> QED  BY ONLY <3>1, <3>2, <3>3, HeapConcat
    <2>15. Live' = Live \ {l2}
      <3>1. \A l : l # NULL /\ (\E x \in Vars : l = var[x]) /\ l # l2 => \E x \in Vars : l = var'[x]
        BY <1>4, <1>8, <2>1 DEF l1, l2
      <3>2. \A l : l # NULL /\ (\E x \in Vars : l = var'[x]) => l # l2 /\ \E x \in Vars : l = var[x]
        BY <1>1, <1>3, <1>4, <1>8, <2>1 DEF l1, l2
      <3> QED  BY ONLY <3>1, <3>2, <1>2, LiveDef, LiveDefNext
    <2>16. Heap(Live, heap, spine, next)'  BY <2>14, <2>15, <1>8
    <2>17. Fields'  BY <1>3, <1>4, <1>6, <1>8, <2>10, <2>11, <2>13 DEF Fields
    <2>18. ASSUME NEW x \in Vars, var'[x] # NULL
           PROVE  Header(spine'[var'[x]], var'[x], length', head', tail')
      <3>1. CASE x = v
        <4>1. var'[x] = l1  BY <3>1, <1>4, <1>8 DEF l1
        <4>2. /\ spine'[l1] = r /\ length'[l1] = Len(r) /\ head'[l1] = r[1]
              /\ tail'[l1] = r[Len(r)] /\ Len(r) > 0
          BY <2>1, <2>2, <2>3, <2>5, <2>6, <2>7, <2>8, <2>10, <2>11, <2>12, <2>13
        <4> QED  BY <4>1, <4>2 DEF Header
      <3>2. CASE x # v
        <4>1. /\ var'[x] = var[x] /\ var[x] # NULL /\ x # w  BY <2>18, <3>2, <1>4
        <4>2. var[x] # l1 /\ var[x] # l2 /\ var[x] \in Heads
          BY <4>1, <3>2, <1>3 DEF l1, l2
        <4>3. Header(spine[var[x]], var[x], length, head, tail)  BY <4>1, <1>3
        <4> QED  BY <4>1, <4>2, <4>3, <2>6, <2>7, <2>8, <2>10, <2>11, <2>12, <2>13 DEF Header
      <3> QED  BY <3>1, <3>2
    <2>19. Variables'  BY <2>18, <1>5 DEF Variables
    <2> QED  BY <2>16, <2>17, <2>19, <1>6 DEF IInv
  <1> QED  BY <1>7, <1>8 DEF list_concat

-----------------------------------------------------------------------------
\* The invariant.

LEMMA InitInv == Init => IInv
  <1> SUFFICES ASSUME Init PROVE IInv  OBVIOUS
  <1>1. /\ heap = {} /\ call = Idle
        /\ data = [c \in Cells |-> NULL] /\ next = [c \in Cells |-> NULL]
        /\ length = [h \in Heads |-> NULL] /\ spine = [h \in Heads |-> NULL]
        /\ head = [h \in Heads |-> NULL] /\ tail = [h \in Heads |-> NULL]
        /\ var = [v \in Vars |-> NULL]
    BY DEF Init
  <1>2. \A v \in Vars : var[v] = NULL  BY <1>1
  <1>3. Live = {}  BY <1>1, <1>2, IdleFacts, LiveDef
  <1>4. Heap(Live, heap, spine, next)  BY <1>1, <1>3 DEF Heap
  <1>5. Fields
    <2>1. /\ data \in [Cells -> Data \cup {NULL}] /\ length \in [Heads -> (Nat \ {0}) \cup {NULL}]
          /\ head \in [Heads -> Cells \cup {NULL}] /\ tail \in [Heads -> Cells \cup {NULL}]
          /\ var \in [Vars -> Heads \cup {NULL}]
      BY <1>1
    <2> QED  BY <2>1, <1>1, IdleFacts DEF Fields
  <1>6. Variables  BY <1>2 DEF Variables
  <1>7. Progress  BY <1>1 DEF Progress, Idle
  <1> QED  BY <1>4, <1>5, <1>6, <1>7 DEF IInv

\* The calls of list_nth and list_truncate.
LEMMA IndexStarts ==
  ASSUME IInv, NEW v \in Vars, NEW n \in 0..list_length(var[v]),
         list_nth(v, n) \/ list_truncate(v, n)
  PROVE  IInv'
  <1>1. var[v] # NULL
    <2>1. var[v] = NULL => list_length(var[v]) = 0  BY DEF list_length
    <2> QED  BY <2>1 DEF list_nth, list_truncate
  <1>2. list_length(var[v]) = Len(spine[var[v]]) /\ Len(spine[var[v]]) \in Nat
    BY <1>1, VarFacts, ListFacts DEF list_length
  <1>3. n \in Nat  BY <1>2
  <1>4. CASE list_nth(v, n)
    <2>1. /\ Calling /\ n < Len(spine[var[v]]) /\ UNCHANGED <<heapVars, var>>
          /\ call' = IF TakesShortcut(v, n)
                     THEN [Walk("nth", v, n) EXCEPT !.cur = tail[var[v]], !.i = n]
                     ELSE Walk("nth", v, n)
      BY <1>2, <1>4 DEF list_nth
    <2>2. TakesShortcut(v, n) => n = Len(spine[var[v]]) - 1
      BY <1>1, VarFacts DEF TakesShortcut
    <2>3. \/ call' = Walk("nth", v, n)
          \/ /\ n = Len(spine[var[v]]) - 1
             /\ call' = [Walk("nth", v, n) EXCEPT !.cur = tail[var[v]], !.i = n]
      BY <2>1, <2>2
    <2> QED  BY <1>1, <1>3, <2>1, <2>3, WalkStarts
  <1>5. CASE list_truncate(v, n)
    <2>1. /\ Calling /\ n < Len(spine[var[v]]) /\ UNCHANGED <<heapVars, var>>
          /\ call' = Walk("truncate", v, n)
      BY <1>2, <1>3, <1>5 DEF list_truncate
    <2> QED  BY <1>1, <1>3, <2>1, WalkStarts
  <1> QED  BY <1>4, <1>5

\* The calls of list_union and list_difference.
LEMMA SetOperationStarts ==
  ASSUME IInv, NEW v \in Vars, NEW w \in Vars, NEW x \in Vars,
         list_union(v, w, x) \/ list_difference(v, w, x)
  PROVE  IInv'
  <1>1. Calling /\ var[x] = NULL  BY DEF list_union, list_difference
  <1>2. CASE var[v] # NULL /\ StartCopy("union", v, w, x)  BY <1>1, <1>2, StartCopyKeeps
  <1>3. CASE var[v] # NULL /\ StartCopy("difference", v, w, x)  BY <1>1, <1>3, StartCopyKeeps
  <1>4. CASE Each("union", v, w, x, NULL, var[w])  BY <1>1, <1>4, EachStarts
  <1>5. CASE Each("difference", v, w, x, NULL, var[v])  BY <1>1, <1>5, EachStarts
  <1> QED  BY <1>2, <1>3, <1>4, <1>5 DEF list_union, list_difference

\* What the caller does.
LEMMA CallKeeps ==
  ASSUME IInv, Call
  PROVE  IInv'
  <1>1. ASSUME NEW v \in Vars,
               ConcatSelf(v) \/ list_delete_first(v) \/ TruncateToNil(v) \/ list_free(v)
        PROVE  IInv'
    <2>1. CASE ConcatSelf(v)  BY <2>1, ExitKeeps DEF ConcatSelf
    <2>2. CASE list_delete_first(v)  BY <2>2, DeleteFirstKeeps
    <2>3. CASE TruncateToNil(v)  BY <2>3, TruncateToNilKeeps
    <2>4. CASE list_free(v)  BY <2>4, CallingFacts, StartFreeKeeps DEF list_free
    <2> QED  BY <1>1, <2>1, <2>2, <2>3, <2>4
  <1>2. ASSUME NEW v \in Vars, NEW d \in Data,
               \/ lappend(v, d) \/ lcons(v, d) \/ list_append_unique(v, d) \/ list_delete(v, d)
               \/ \E k \in 1..list_length(var[v]) : lappend_cell(v, k, d)
        PROVE  IInv'
    <2>1. CASE lappend(v, d) \/ lcons(v, d)  BY <2>1, LappendKeeps
    <2>2. CASE list_append_unique(v, d)  BY <2>2, LappendKeeps DEF list_append_unique
    <2>3. CASE list_delete(v, d)  BY <2>3, DeleteStarts
    <2>4. CASE \E k \in 1..list_length(var[v]) : lappend_cell(v, k, d)
      BY <2>4, LappendCellKeeps
    <2> QED  BY <1>2, <2>1, <2>2, <2>3, <2>4
  <1>3. ASSUME NEW v \in Vars, NEW n \in 0..list_length(var[v]),
               list_truncate(v, n) \/ list_nth(v, n)
        PROVE  IInv'
    BY <1>3, IndexStarts
  <1>4. ASSUME NEW v \in Vars, NEW w \in Vars, list_concat(v, w) \/ list_concat_unique(v, w)
        PROVE  IInv'
    <2>1. CASE list_concat(v, w)  BY <2>1, ConcatKeeps
    <2>2. CASE list_concat_unique(v, w)  BY <2>2, EachStarts DEF list_concat_unique
    <2> QED  BY <1>4, <2>1, <2>2
  <1>5. ASSUME NEW v \in Vars, NEW x \in Vars, list_copy(v, x)
        PROVE  IInv'
    BY <1>5, StartCopyKeeps DEF list_copy
  <1>6. ASSUME NEW v \in Vars, NEW x \in Vars, NEW n \in 0..list_length(var[v]),
               list_copy_tail(v, n, x)
        PROVE  IInv'
    <2>1. list_length(var[v]) \in Nat
      BY VarFacts, ListFacts DEF list_length
    <2>2. n \in Nat  BY <2>1
    <2> QED  BY <1>6, <2>2, CopyTailStarts
  <1>7. ASSUME NEW v \in Vars, NEW x \in Vars, NEW w \in Vars,
               list_union(v, w, x) \/ list_difference(v, w, x)
        PROVE  IInv'
    BY <1>7, SetOperationStarts
  <1>8. CASE OutOfMemory  BY <1>8, ExitKeeps DEF OutOfMemory
  <1> QED  BY <1>1, <1>2, <1>3, <1>4, <1>5, <1>6, <1>7, <1>8 DEF Call

\* What a loop does.
LEMMA LoopStepKeeps ==
  ASSUME IInv, LoopStep
  PROVE  IInv'
  <1>1. CASE WalkOn  BY <1>1, WalkOnKeeps
  <1>2. CASE NthReturns  BY <1>2, NthReturnsKeeps
  <1>3. CASE Cut  BY <1>3, CutKeeps
  <1>4. CASE SkipEnds  BY <1>4, SkipEndsKeeps
  <1>5. CASE CopyCell  BY <1>5, CopyCellKeeps
  <1>6. CASE CopyEnds  BY <1>6, CopyEndsKeeps
  <1>7. CASE EachFound  BY <1>7, EachFoundKeeps
  <1>8. CASE EachMissing  BY <1>8, EachMissingKeeps
  <1>9. CASE EachEnds  BY <1>9, EachEndsKeeps
  <1>10. CASE SearchOn  BY <1>10, SearchOnKeeps
  <1>11. CASE SearchFinds  BY <1>11, SearchFindsKeeps
  <1>12. CASE SearchFails  BY <1>12, SearchFailsKeeps
  <1>13. CASE FreeCell  BY <1>13, FreeCellKeeps
  <1>14. CASE FreeEnds  BY <1>14, FreeEndsKeeps
  <1>15. CASE OutOfMemory  BY <1>15, ExitKeeps DEF OutOfMemory
  <1> QED
    BY <1>1, <1>2, <1>3, <1>4, <1>5, <1>6, <1>7, <1>8, <1>9, <1>10, <1>11, <1>12,
       <1>13, <1>14, <1>15 DEF LoopStep

LEMMA NextKeeps == IInv /\ [Next]_vars => IInv'
  <1> SUFFICES ASSUME IInv, [Next]_vars PROVE IInv'  OBVIOUS
  <1>1. CASE Call  BY <1>1, CallKeeps
  <1>2. CASE LoopStep  BY <1>2, LoopStepKeeps
  <1>3. CASE UNCHANGED vars
    <2>1. /\ UNCHANGED <<heapVars, var>> /\ call' = call
          /\ UNCHANGED <<heap, data, next, length, head, tail, spine, var>>
      BY <1>3 DEF vars, heapVars, cellVars, headVars
    <2>2. call' \in Calls  BY <2>1 DEF IInv, Fields
    <2>3. Progress'
      BY ZenonT(30), <2>1 DEF IInv, Progress, Walking, Copying, Visiting, Searching, Freeing,
                  Source, Built, Private, Returns, Iterated
    <2> QED  BY <2>1, <2>2, <2>3, QuietStep
  <1> QED  BY <1>1, <1>2, <1>3 DEF Next

LEMMA Invariance == Spec => []IInv
  <1> QED  BY InitInv, NextKeeps, PTL DEF Spec

\* Every variable has its type, in every state of the program; in particular, no
\* list has length 0: the only empty list is NIL (pg_list.h:60).
THEOREM TypeCorrect == Spec => []TypeOK
  <1>1. ASSUME IInv PROVE TypeOK
    <2>1. call \in Calls /\ heap \subseteq Cells \cup Heads
      BY <1>1 DEF IInv, Fields, Heap
    <2>2. call.at \in {"client", "walk", "copy", "each", "search", "free", "exit"}
      BY <2>1 DEF Calls
    <2> QED  BY <1>1, <2>1, <2>2, CallFacts DEF TypeOK, IInv, Fields, Heap
  <1> QED  BY <1>1, Invariance, PTL

LEMMA CompleteLists ==
  ASSUME IInv, NEW l, l # NULL, l = call.result \/ \E v \in Vars : l = var[v],
         Header(spine[l], l, length, head, tail)
  PROVE  Linked(l) /\ CheckListInvariants(l)
  <1> DEFINE s == spine[l]
             n == Len(s)
  <1>1. /\ n \in Nat /\ NULL \notin Cells
        /\ \A k \in 1..n : s[k] \in Cells /\ next[s[k]] = Nth(s, k + 1)
    BY ListFacts
  <1>2. n > 0 /\ length[l] = n /\ head[l] = s[1] /\ tail[l] = s[n]  BY DEF Header
  <1>3. \A k \in 1..n : next[s[k]] = IF k = n THEN NULL ELSE s[k + 1]
    <2>1. ASSUME NEW k \in 1..n PROVE Nth(s, k + 1) = IF k = n THEN NULL ELSE s[k + 1]
      <3> HIDE DEF n, s
      <3>1. k + 1 \in 1..n <=> k # n  BY <1>1
      <3> QED  BY <3>1 DEF Nth, n
    <2> QED  BY <1>1, <2>1
  <1> HIDE DEF n, s
  <1>4. 1 \in 1..n /\ n \in 1..n  BY <1>1, <1>2
  <1>5. CheckListInvariants(l)
    <2>1. head[l] # NULL /\ tail[l] # NULL /\ next[tail[l]] = NULL /\ length[l] > 0
      BY <1>1, <1>2, <1>3, <1>4
    <2>2. length[l] = 1 => head[l] = tail[l]  BY <1>2
    <2>3. length[l] = 2 => next[head[l]] = tail[l]
      <3>1. 1 # 2 /\ 1 + 1 = 2  OBVIOUS
      <3> QED  BY <3>1, <1>2, <1>3, <1>4
    <2> QED  BY <2>1, <2>2, <2>3 DEF CheckListInvariants
  <1> QED  BY <1>2, <1>3, <1>5 DEF Linked, s, n

\* The links of each of the caller's lists lead from its head, through as many
\* cells as its length says, to its tail: whatever functions were called before,
\* and between two rounds of any loop.
THEOREM ListsLinked == Spec => []WellLinked
  <1>1. ASSUME IInv PROVE WellLinked
    <2>1. ASSUME NEW v \in Vars, var[v] # NULL PROVE Linked(var[v])
      BY <1>1, <2>1, VarFacts, CompleteLists
    <2> QED  BY <2>1 DEF WellLinked
  <1> QED  BY <1>1, Invariance, PTL

\* None of the assertions of pg_list.c fails: check_list_invariants (line 25) at
\* the entry and the exit of every function, prev precedes cell (line 350), and
\* the assert(false) behind list_truncate's loop (line 271) is never reached.
THEOREM NoAssertionFails == Spec => []AssertionsHold
  <1>1. ASSUME IInv PROVE AssertionsHold
    <2>1. ASSUME NEW v \in Vars PROVE CheckListInvariants(var[v])
      <3>1. CASE var[v] # NULL  BY <1>1, <3>1, VarFacts, CompleteLists
      <3>2. CASE var[v] = NULL  BY <3>2 DEF CheckListInvariants
      <3> QED  BY <3>1, <3>2
    <2>2. ASSUME call.at = "each" PROVE CheckListInvariants(call.result)
      <3>1. CASE call.result # NULL
        <4>1. Header(Built, call.result, length, head, tail)
          BY <1>1, <2>2, <3>1, VisitingFacts DEF Visiting
        <4> QED  BY <1>1, <3>1, <4>1, CompleteLists DEF Built
      <3>2. CASE call.result = NULL  BY <3>2 DEF CheckListInvariants
      <3> QED  BY <3>1, <3>2
    <2>3. ASSUME Found
          PROVE  IF call.prev # NULL THEN next[call.prev] = call.cur
                                     ELSE head[var[call.v]] = call.cur
      <3>1. call.at = "search" /\ call.cur # NULL  BY <2>3 DEF Found
      <3>2. /\ Searching /\ call.v \in Vars /\ var[call.v] # NULL /\ Len(Source) \in Nat
            /\ \A k \in 1..Len(Source) : Source[k] \in Cells /\ next[Source[k]] = Nth(Source, k + 1)
            /\ call.i \in Nat /\ NULL \notin Cells
            /\ call.i + 1 \in 1..Len(Source) /\ call.cur = Source[call.i + 1]
        BY <1>1, <3>1, SearchingFacts
      <3>3. call.prev = Nth(Source, call.i) /\ call.cur = Nth(Source, call.i + 1)
        BY <3>2 DEF Searching
      <3>4. CASE call.prev # NULL
        <4>1. call.i \in 1..Len(Source) /\ call.prev = Source[call.i]
          BY <3>3, <3>4 DEF Nth
        <4> QED  BY <3>2, <3>3, <3>4, <4>1
      <3>5. CASE call.prev = NULL
        <4>1. call.i \notin 1..Len(Source)  BY <3>2, <3>3, <3>5 DEF Nth
        <4>2. call.i + 1 = 1  BY <4>1, <3>2
        <4>3. head[var[call.v]] = Source[1]  BY <1>1, <3>2, VarFacts DEF Source
        <4> QED  BY <3>2, <3>5, <4>2, <4>3
      <3> QED  BY <3>4, <3>5
    <2>4. ASSUME call.at = "walk" PROVE call.cur # NULL
      BY <1>1, <2>4, WalkingFacts, PgListAssumption
    <2> QED  BY <2>1, <2>2, <2>3, <2>4 DEF AssertionsHold
  <1> QED  BY <1>1, Invariance, PTL

\* list_nth, with its shortcut to the tail, and the loops of list_truncate and
\* list_copy_tail stop at the cell with the index that was asked for.
THEOREM IndexFound == Spec => []NthRight
  <1>1. ASSUME IInv PROVE NthRight
    <2>1. ASSUME call.at = "walk", call.i = call.n
          PROVE  call.cur = spine[var[call.v]][call.n + 1]
      <3>1. Walking /\ call.n \in Nat /\ Len(Source) \in Nat
        BY <1>1, <2>1, WalkingFacts, CallFacts
      <3>2. call.n + 1 \in 1..Len(Source) /\ call.cur = Nth(Source, call.n + 1)
        BY <2>1, <3>1 DEF Walking
      <3> QED  BY <3>2 DEF Nth, Source
    <2> QED  BY <2>1 DEF NthRight
  <1> QED  BY <1>1, Invariance, PTL

LEMMA MemberCount ==
  ASSUME NEW s \in Seq(Cells), Distinct(s)
  PROVE  Cardinality(Members(s)) = Len(s)
  <1> DEFINE n == Len(s)
             S == 1..n
             T == Members(s)
  <1>1. n \in Nat /\ DOMAIN s = S /\ s \in [S -> Cells]  BY LenProperties
  <1>2. s \in [S -> T]  BY <1>1, MemberFacts
  <1>3. s \in Surjection(S, T)
    <2>1. \A c \in T : \E k \in S : s[k] = c  BY MemberFacts
    <2> QED  BY <1>2, <2>1 DEF Surjection
  <1>4. s \in Injection(S, T)
    <2>1. \A i, j \in S : s[i] = s[j] => i = j  BY <1>1 DEF Distinct
    <2> QED  BY <1>2, <2>1 DEF Injection, IsInjective
  <1>5. IsFiniteSet(S) /\ Cardinality(S) = n
    <2> HIDE DEF n
    <2>1. /\ IsFiniteSet(1..n) /\ Cardinality(1..n) = IF 1 > n THEN 0 ELSE n - 1 + 1
      <3>1. 1 \in Int /\ n \in Int  BY <1>1
      <3> QED  BY <3>1, FS_Interval
    <2> QED  BY <1>1, <2>1
  <1> HIDE DEF n, S, T
  <1>6. Cardinality(T) = Cardinality(S)  BY <1>3, <1>4, <1>5, FS_Surjection
  <1> QED  BY <1>5, <1>6 DEF T, n

\* What a call holds on to is allocated.
LEMMA CursorsOwned ==
  ASSUME IInv
  PROVE  {call.cur, call.prev} \ {NULL} \subseteq heap
  <1>1. call.at \in {"client", "walk", "copy", "each", "search", "free", "exit"}
    BY DEF IInv, Fields, Calls
  <1>2. \A l : l # NULL /\ (l = call.result \/ \E v \in Vars : l = var[v]) =>
          \A k \in 1..Len(spine[l]) : spine[l][k] \in heap
    <2>1. ASSUME NEW l, l # NULL, l = call.result \/ \E v \in Vars : l = var[v],
                 NEW k \in 1..Len(spine[l])
          PROVE  spine[l][k] \in heap
      BY <2>1, ListFacts, MemberFacts
    <2> QED  BY <2>1
  <1>3. CASE call.at \in {"client", "exit"}
    <2>1. call.cur = NULL /\ call.prev = NULL  BY <1>3 DEF IInv, Progress, Idle
    <2> QED  BY <2>1
  <1>4. CASE call.at = "walk"
    <2>1. call.prev = NULL /\ call.cur \in heap
      BY <1>2, <1>4, WalkingFacts DEF Walking, Source
    <2> QED  BY <2>1
  <1>5. CASE call.at = "copy"
    <2>1. /\ call.prev \in heap /\ call.v \in Vars /\ var[call.v] # NULL
          /\ \E p \in 2..(Len(Source) + 1) : call.cur = Nth(Source, p)
      BY <1>5, CopyingFacts DEF Copying
    <2>2. call.cur # NULL => call.cur \in heap  BY <1>2, <2>1 DEF Nth, Source
    <2> QED  BY <2>1, <2>2
  <1>6. CASE call.at = "each"
    <2>1. call.prev = NULL  BY <1>6, VisitingFacts DEF Visiting
    <2>2. call.cur # NULL => call.cur \in heap  BY <1>2, <1>6, VisitingFacts
    <2> QED  BY <2>1, <2>2
  <1>7. CASE call.at = "search"
    <2>1. /\ call.v \in Vars /\ var[call.v] # NULL
          /\ call.cur = Nth(Source, call.i + 1) /\ call.prev = Nth(Source, call.i)
      BY <1>7, SearchingFacts DEF Searching
    <2>2. \A k \in 1..Len(Source) : Source[k] \in heap  BY <1>2, <2>1 DEF Source
    <2> QED  BY <2>1, <2>2 DEF Nth
  <1>8. CASE call.at = "free"
    <2>1. /\ call.result # NULL /\ call.prev = NULL /\ call.cur = Nth(Built, 1)
      BY <1>8, FreeingFacts DEF Freeing
    <2>2. \A k \in 1..Len(Built) : Built[k] \in heap  BY <1>2, <2>1 DEF Built
    <2> QED  BY <2>1, <2>2 DEF Nth
  <1> QED  BY <1>1, <1>3, <1>4, <1>5, <1>6, <1>7, <1>8

\* A block is allocated exactly as long as one variable, or the call in progress,
\* leads to it: server_free is never given a block that is free already, no pointer
\* that is followed leads to a freed block, and no two lists share a cell.
THEOREM BlocksOwned == Spec => []HeapOwned
  <1>1. ASSUME IInv PROVE HeapOwned
    <2>1. Heap(Live, heap, spine, next)  BY <1>1 DEF IInv
    <2>2. \A l : CellsOf(l) = Members(spine[l])  BY DEF CellsOf, Members
    <2>3. \A l \in Live : Cardinality(CellsOf(l)) = Len(spine[l])
      <3>1. ASSUME NEW l \in Live PROVE Cardinality(Members(spine[l])) = Len(spine[l])
        <4>1. spine[l] \in Seq(Cells) /\ Distinct(spine[l])  BY <2>1 DEF Heap
        <4> QED  BY <4>1, MemberCount
      <3> QED  BY <2>2, <3>1
    <2>4. \A l \in Live : \A m \in Live \ {l} : CellsOf(l) \cap CellsOf(m) = {}
      BY <2>1, <2>2 DEF Heap
    <2>5. NoSharing  BY <1>1, <2>3, <2>4 DEF NoSharing, IInv, Variables
    <2>6. heap = UNION {Blocks(l) : l \in Live}
      <3>1. heap \subseteq Cells \cup Heads /\ Live \subseteq Heads
            /\ \A b \in Cells \cup Heads : b \in heap <=> b \in Live \/ \E l \in Live : b \in Members(spine[l])
        BY <2>1 DEF Heap
      <3>2. \A l \in Live : Members(spine[l]) \subseteq Cells  BY <2>1, HeapFacts
      <3>3. \A b : b \in UNION {Blocks(l) : l \in Live} <=>
                     b \in Live \/ \E l \in Live : b \in Members(spine[l])
        BY <2>2 DEF Blocks
      <3>4. \A b : b \in heap <=> b \in UNION {Blocks(l) : l \in Live}
        <4>1. ASSUME NEW b, b \in heap PROVE b \in UNION {Blocks(l) : l \in Live}
          BY <3>1, <3>3, <4>1
        <4>2. ASSUME NEW b, b \in UNION {Blocks(l) : l \in Live} PROVE b \in heap
          BY <3>1, <3>2, <3>3, <4>2
        <4> QED  BY <4>1, <4>2
      <3> QED  BY <3>4
    <2>7. {call.cur, call.prev} \ {NULL} \subseteq heap  BY <1>1, CursorsOwned
    <2> QED  BY <2>5, <2>6, <2>7 DEF HeapOwned
  <1> QED  BY <1>1, Invariance, PTL

-----------------------------------------------------------------------------
\* The loops end.

LEMMA Least ==
  ASSUME NEW S, S \subseteq Nat, S # {}
  PROVE  \E x \in S : \A y \in S : x <= y
  <1> DEFINE R == {p \in Nat \X Nat : p[1] < p[2]}
  <1>1. IsWellFoundedOn(R, Nat)  BY NatLessThanWellFounded DEF OpToRel
  <1> HIDE DEF R
  <1>2. PICK x \in S : \A y \in S : ~ (<<y, x>> \in R)  BY <1>1, WFMin
  <1>3. \A y \in S : ~ (y < x)  BY <1>2 DEF R
  <1> QED  BY <1>3

\* foreach visits every cell of a complete list: a first one that a set closed
\* under the links lacks would come behind one that the set has.
LEMMA AllVisited ==
  ASSUME IInv, NEW l, l # NULL, l = call.result \/ \E v \in Vars : l = var[v],
         head[l] = spine[l][1], NEW p \in 1..Len(spine[l])
  PROVE  spine[l][p] \in Visited(l)
  <1> DEFINE s == spine[l]
             n == Len(s)
  <1>1. /\ n \in Nat /\ NULL \notin Cells
        /\ \A k \in 1..n : s[k] \in Cells /\ next[s[k]] = Nth(s, k + 1)
    BY ListFacts
  <1>2. list_head(l) = s[1] /\ p \in 1..n  BY DEF list_head
  <1> HIDE DEF n, s
  <1>3. ASSUME NEW S \in SUBSET Cells,
               {list_head(l)} \cup {next[c] : c \in S} \subseteq S \cup {NULL}
        PROVE  s[p] \in S
    <2> DEFINE T == {k \in 1..n : s[k] \notin S}
    <2>1. SUFFICES ASSUME T # {} PROVE FALSE  BY <1>2
    <2>2. T \subseteq Nat  OBVIOUS
    <2>3. PICK m \in T : \A k \in T : m <= k
      <3> HIDE DEF T
      <3> QED  BY <2>1, <2>2, Least
    <2>4. m \in 1..n /\ s[m] \notin S /\ s[m] # NULL  BY <1>1
    <2>5. m # 1  BY <2>4, <1>2, <1>3
    <2> DEFINE k == m - 1
    <2>6. k \in 1..n /\ k + 1 = m /\ ~ (m <= k)
      <3>1. \A a \in Nat : \A b \in 1..a :
              b # 1 => b - 1 \in 1..a /\ (b - 1) + 1 = b /\ ~ (b <= b - 1)
        OBVIOUS
      <3> QED  BY ONLY <1>1, <2>4, <2>5, <3>1
    <2> HIDE DEF k
    <2>7. s[k] \in S  BY <2>3, <2>6
    <2>8. next[s[k]] = s[m]  BY <1>1, <2>4, <2>6 DEF Nth, n
    <2> QED  BY <2>4, <2>7, <2>8, <1>3
  <1>4. s[p] \in Cells  BY <1>1, <1>2
  <1> QED  BY <1>3, <1>4 DEF Visited, s

AheadIn(s, c) ==
  IF c = NULL THEN 0 ELSE Cardinality({k \in DOMAIN s : \E j \in 1..k : s[j] = c})

LEMMA AheadCount ==
  ASSUME NEW s \in Seq(Cells), Distinct(s), NEW p \in 1..(Len(s) + 1), NEW c, c = Nth(s, p)
  PROVE  AheadIn(s, c) = Len(s) + 1 - p
  <1> DEFINE n == Len(s)
             S == {k \in DOMAIN s : \E j \in 1..k : s[j] = c}
  <1>1. n \in Nat /\ DOMAIN s = 1..n /\ NULL \notin Cells /\ \A k \in 1..n : s[k] \in Cells
    BY LenProperties, PgListAssumption
  <1>2. \A i, j \in 1..n : s[i] = s[j] => i = j  BY <1>1 DEF Distinct
  <1>3. p \in 1..(n + 1)  OBVIOUS
  <1>4. c = IF p \in 1..n THEN s[p] ELSE NULL  BY DEF Nth
  <1> HIDE DEF n
  <1>5. CASE p \in 1..n
    <2>1. S = p..n
      <3>1. ASSUME NEW k \in 1..n, NEW j \in 1..k, s[j] = c PROVE k \in p..n
        <4>1. j \in 1..n  BY <1>1
        <4>2. j = p  BY <3>1, <4>1, <1>2, <1>4, <1>5
        <4> QED  BY <4>2, <1>1
      <3>2. ASSUME NEW k \in p..n PROVE k \in 1..n /\ p \in 1..k /\ s[p] = c
        BY <1>1, <1>4, <1>5
      <3> QED  BY <3>1, <3>2, <1>1
    <2>2. Cardinality(p..n) = n + 1 - p
      <3>1. p \in Int /\ n \in Int /\ ~ (p > n) /\ n - p + 1 = n + 1 - p  BY <1>1, <1>5
      <3>2. Cardinality(p..n) = IF p > n THEN 0 ELSE n - p + 1  BY <3>1, FS_Interval
      <3> QED  BY <3>1, <3>2
    <2>3. c # NULL  BY <1>1, <1>4, <1>5
    <2> QED  BY <2>1, <2>2, <2>3 DEF AheadIn, n
  <1>6. CASE p \notin 1..n
    <2>1. n + 1 - p = 0 /\ c = NULL  BY <1>1, <1>3, <1>4, <1>6
    <2> QED  BY <2>1 DEF AheadIn, n
  <1> QED  BY <1>5, <1>6

LEMMA AheadFalls ==
  ASSUME NEW s \in Seq(Cells), Distinct(s), NEW p \in 1..Len(s),
         spine[Iterated] = s, call.cur = s[p],
         spine'[Iterated'] = s, call'.cur = Nth(s, p + 1)
  PROVE  Ahead' < Ahead
  <1> DEFINE n == Len(s)
  <1>1. n \in Nat /\ p \in 1..n  OBVIOUS
  <1>2. call.cur = Nth(s, p)  BY DEF Nth
  <1> HIDE DEF n
  <1>3. p \in 1..(n + 1) /\ p + 1 \in 1..(n + 1)  BY <1>1
  <1>4. AheadIn(s, call.cur) = n + 1 - p
    <2>1. p \in 1..(Len(s) + 1)  BY <1>3 DEF n
    <2> QED  BY <2>1, <1>2, AheadCount DEF n
  <1> DEFINE q == p + 1
  <1>5. q = p + 1 /\ q \in 1..(n + 1) /\ call'.cur = Nth(s, q)  BY <1>3
  <1> HIDE DEF q
  <1>6. AheadIn(s, call'.cur) = n + 1 - q
    <2>1. q \in 1..(Len(s) + 1)  BY <1>5 DEF n
    <2> QED  BY <2>1, <1>5, AheadCount DEF n
  <1>7. Ahead = n + 1 - p  BY <1>4 DEF Ahead, AheadIn
  <1>8. Ahead' = n + 1 - q  BY <1>6 DEF Ahead, AheadIn
  <1> QED  BY <1>1, <1>5, <1>7, <1>8

\* The list that list_union and its like go through is not the one that grows: if
\* it were, its elements would be found.
LEMMA OtherListGrows ==
  ASSUME IInv, EachMissing
  PROVE  /\ Iterated' = Iterated /\ spine'[Iterated] = spine[Iterated]
         /\ call'.at = "each" /\ call'.cur = next'[call.cur]
  <1> DEFINE I == Iterated
             r == call.result
             d == data[call.cur]
  <1>1. /\ call.at = "each" /\ call.cur # NULL /\ ~list_member(Searched, d)
        /\ AppendTo(r, d) /\ var' = var
        /\ call' = [call EXCEPT !.result = Grown(r), !.cur = next'[call.cur]]
    BY DEF EachMissing, Missing
  <1>2. /\ Visiting /\ call \in Calls /\ call.v \in Vars /\ call.w \in Vars
        /\ I # NULL /\ \E u \in Vars : I = var[u]
        /\ I = (IF call.fn # "difference" THEN var[call.w] ELSE var[call.v])
        /\ \E p \in 1..Len(spine[I]) : call.cur = spine[I][p]
    BY <1>1, VisitingFacts
  <1>3. /\ call'.at = "each" /\ call'.fn = call.fn /\ call'.v = call.v /\ call'.w = call.w
        /\ call'.cur = next'[call.cur]
    BY <1>1, <1>2 DEF Calls
  <1>4. I' = I  BY <1>1, <1>3 DEF Iterated
  <1>5. PICK u \in Vars : I = var[u]  BY <1>2
  <1>6. I \in Live /\ I \in Heads /\ I \in heap /\ head[I] = spine[I][1] /\ d \in Data \cup {NULL}
    <2>1. I \in Live /\ I \in Heads /\ I \in heap /\ head[I] = spine[I][1]
      BY <1>2, <1>5, ListFacts, VarFacts
    <2>2. call.cur \in Cells /\ data \in [Cells -> Data \cup {NULL}]
      BY <1>1, <1>2, CallFacts DEF IInv, Fields
    <2> QED  BY <2>1, <2>2
  <1>7. call.cur \in Visited(I)
    <2>1. PICK p \in 1..Len(spine[I]) : call.cur = spine[I][p]  BY <1>2
    <2> HIDE DEF I
    <2> QED  BY <1>2, <1>5, <1>6, <2>1, AllVisited
  <1>8. I # r
    <2>1. SUFFICES ASSUME I = r PROVE FALSE  OBVIOUS
    <2>2. r = var[u] /\ r # NULL  BY <2>1, <1>2, <1>5
    <2>3. ~Private  BY <2>2 DEF Private
    <2>4. call.fn = "concatUnique" /\ r = var[call.v]
      BY <1>2, <2>2, <2>3 DEF Visiting
    <2>5. Searched = r  BY <2>4 DEF Searched
    <2>6. list_member(r, d)  BY <1>7, <2>1 DEF list_member
    <2> QED  BY <1>1, <2>5, <2>6
  <1> HIDE DEF I, d
  <1>9. spine'[I] = spine[I]
    <2>1. CASE r = NULL
      <3>1. NewList(d, 1) /\ 1 \in Nat \ {0}  BY <1>1, <2>1 DEF AppendTo
      <3>2. /\ NewHead \in Heads \ heap
            /\ \A m \in Heads \ {NewHead} : spine'[m] = spine[m]
        BY <3>1, <1>6, NewListFacts
      <3> QED  BY <3>2, <1>6
    <2>2. CASE r # NULL
      <3>1. spine' = [spine EXCEPT ![r] = SubSeq(spine[r], 1, Len(spine[r])) \o <<NewCell>>
                                            \o SubSeq(spine[r], Len(spine[r]) + 1, Len(spine[r]))]
        BY <1>1, <2>2 DEF AppendTo, NewTailCell, AddCell
      <3>2. spine \in [Heads -> Seq(Cells) \cup {NULL}]  BY DEF IInv, Heap
      <3> QED  BY <3>1, <3>2, <1>6, <1>8
    <2> QED  BY <2>1, <2>2
  <1> QED  BY <1>3, <1>4, <1>9 DEF I

LEMMA StageFacts ==
  /\ call.at \in {"walk", "search"} => Stage = 1
  /\ call.at \in {"copy", "free"} => Stage = 2
  /\ call.at = "each" => Stage = 3
  BY DEF Stage

LEMMA StageFactsNext ==
  /\ call'.at \in {"walk", "search"} => Stage' = 1
  /\ call'.at \in {"copy", "free"} => Stage' = 2
  /\ call'.at = "each" => Stage' = 3
  BY DEF Stage

Advance ==
  \/ call'.at \in {"client", "exit"}
  \/ Stage' > Stage
  \/ Stage' = Stage /\ Ahead' < Ahead

LEMMA WalkAdvances ==
  ASSUME IInv, WalkOn
  PROVE  Advance
  <1>1. /\ call.at = "walk" /\ call.i < call.n /\ UNCHANGED <<heapVars, var>>
        /\ call' = [call EXCEPT !.cur = next[call.cur], !.i = call.i + 1]
    BY DEF WalkOn
  <1>2. /\ call \in Calls /\ call.v \in Vars /\ var[call.v] # NULL /\ Source \in Seq(Cells)
        /\ \A k \in 1..Len(Source) : next[Source[k]] = Nth(Source, k + 1)
        /\ call.i + 1 \in 1..Len(Source) /\ call.cur = Source[call.i + 1]
    BY <1>1, WalkingFacts
  <1>3. Distinct(Source)  BY <1>2, ListFacts DEF Source
  <1>4. call'.at = "walk" /\ call'.v = call.v /\ call'.fn = call.fn /\ call'.cur = next[call.cur]
    BY <1>1, <1>2 DEF Calls
  <1>5. spine' = spine /\ var' = var  BY <1>1 DEF heapVars
  <1>6. Iterated = var[call.v] /\ Iterated' = var[call.v]
    BY <1>1, <1>4, <1>5 DEF Iterated
  <1>7. Ahead' < Ahead
    <2> DEFINE p == call.i + 1
    <2>1. p \in 1..Len(Source) /\ call.cur = Source[p] /\ call'.cur = Nth(Source, p + 1)
      BY <1>2, <1>4
    <2>2. spine[Iterated] = Source /\ spine'[Iterated'] = Source  BY <1>5, <1>6 DEF Source
    <2> HIDE DEF p
    <2> QED  BY <1>2, <1>3, <2>1, <2>2, AheadFalls
  <1> QED  BY <1>1, <1>4, <1>7, StageFacts, StageFactsNext DEF Advance

LEMMA SearchAdvances ==
  ASSUME IInv, SearchOn
  PROVE  Advance
  <1>1. /\ call.at = "search" /\ call.cur # NULL /\ UNCHANGED <<heapVars, var>>
        /\ call' = [call EXCEPT !.prev = call.cur, !.cur = next[call.cur], !.i = call.i + 1]
    BY DEF SearchOn
  <1>2. /\ call \in Calls /\ call.v \in Vars /\ var[call.v] # NULL /\ Source \in Seq(Cells)
        /\ \A k \in 1..Len(Source) : next[Source[k]] = Nth(Source, k + 1)
        /\ call.i + 1 \in 1..Len(Source) /\ call.cur = Source[call.i + 1]
    BY <1>1, SearchingFacts
  <1>3. Distinct(Source)  BY <1>2, ListFacts DEF Source
  <1>4. call'.at = "search" /\ call'.v = call.v /\ call'.fn = call.fn /\ call'.cur = next[call.cur]
    BY <1>1, <1>2 DEF Calls
  <1>5. spine' = spine /\ var' = var  BY <1>1 DEF heapVars
  <1>6. Iterated = var[call.v] /\ Iterated' = var[call.v]
    BY <1>1, <1>4, <1>5 DEF Iterated
  <1>7. Ahead' < Ahead
    <2> DEFINE p == call.i + 1
    <2>1. p \in 1..Len(Source) /\ call.cur = Source[p] /\ call'.cur = Nth(Source, p + 1)
      BY <1>2, <1>4
    <2>2. spine[Iterated] = Source /\ spine'[Iterated'] = Source  BY <1>5, <1>6 DEF Source
    <2> HIDE DEF p
    <2> QED  BY <1>2, <1>3, <2>1, <2>2, AheadFalls
  <1> QED  BY <1>1, <1>4, <1>7, StageFacts, StageFactsNext DEF Advance

LEMMA CopyAdvances ==
  ASSUME IInv, CopyCell
  PROVE  Advance
  <1>1. /\ call.at = "copy" /\ call.cur # NULL /\ var' = var
        /\ call' = [call EXCEPT !.prev = NewCell, !.cur = next[call.cur]]
        /\ spine' = [spine EXCEPT ![call.result] = Append(spine[call.result], NewCell)]
    BY DEF CopyCell
  <1>2. /\ Copying /\ call \in Calls /\ call.v \in Vars /\ var[call.v] # NULL
        /\ Source \in Seq(Cells) /\ Len(Source) \in Nat
        /\ \A k \in 1..Len(Source) : next[Source[k]] = Nth(Source, k + 1)
        /\ var[call.v] # call.result
    BY <1>1, CopyingFacts
  <1>3. Distinct(Source) /\ var[call.v] \in Heads  BY <1>2, ListFacts DEF Source
  <1>4. call'.at = "copy" /\ call'.v = call.v /\ call'.fn = call.fn /\ call'.cur = next[call.cur]
    BY <1>1, <1>2 DEF Calls
  <1>5. spine \in [Heads -> Seq(Cells) \cup {NULL}]  BY DEF IInv, Heap
  <1>6. spine'[var[call.v]] = Source  BY <1>1, <1>2, <1>3, <1>5 DEF Source
  <1>7. Iterated = var[call.v] /\ Iterated' = var[call.v]
    BY <1>1, <1>4 DEF Iterated
  <1>8. PICK p \in 1..Len(Source) : call.cur = Source[p]
    <2>1. \E p \in 2..(Len(Source) + 1) : call.cur = Nth(Source, p)  BY <1>2 DEF Copying
    <2> QED  BY <1>1, <2>1 DEF Nth
  <1>9. Ahead' < Ahead
    <2>1. call'.cur = Nth(Source, p + 1)  BY <1>2, <1>4, <1>8
    <2>2. spine[Iterated] = Source /\ spine'[Iterated'] = Source  BY <1>6, <1>7 DEF Source
    <2> QED  BY <1>2, <1>3, <1>8, <2>1, <2>2, AheadFalls
  <1> QED  BY <1>1, <1>4, <1>9, StageFacts, StageFactsNext DEF Advance

LEMMA FoundAdvances ==
  ASSUME IInv, EachFound
  PROVE  Advance
  <1>1. /\ call.at = "each" /\ call.cur # NULL /\ UNCHANGED <<heapVars, var>>
        /\ call' = [call EXCEPT !.cur = next[call.cur]]
    BY DEF EachFound
  <1> DEFINE s == spine[Iterated]
  <1>2. /\ call \in Calls /\ Iterated # NULL /\ \E u \in Vars : Iterated = var[u]
        /\ s \in Seq(Cells) /\ \A k \in 1..Len(s) : next[s[k]] = Nth(s, k + 1)
        /\ \E p \in 1..Len(s) : call.cur = s[p]
    BY <1>1, VisitingFacts
  <1>3. Distinct(s)  BY <1>2, ListFacts
  <1>4. /\ call'.at = "each" /\ call'.v = call.v /\ call'.w = call.w /\ call'.fn = call.fn
        /\ call'.cur = next[call.cur]
    BY <1>1, <1>2 DEF Calls
  <1>5. spine' = spine /\ var' = var  BY <1>1 DEF heapVars
  <1>6. Iterated' = Iterated  BY <1>1, <1>4, <1>5 DEF Iterated
  <1>7. spine[Iterated] = s /\ spine'[Iterated'] = s  BY <1>5, <1>6
  <1> HIDE DEF s
  <1>8. PICK p \in 1..Len(s) : call.cur = s[p]  BY <1>2
  <1>9. call'.cur = Nth(s, p + 1)  BY <1>2, <1>4, <1>8
  <1>10. Ahead' < Ahead  BY <1>2, <1>3, <1>7, <1>8, <1>9, AheadFalls
  <1> QED  BY <1>1, <1>4, <1>10, StageFacts, StageFactsNext DEF Advance

LEMMA MissingAdvances ==
  ASSUME IInv, IInv', EachMissing
  PROVE  Advance
  <1>1. call.at = "each" /\ call.cur # NULL /\ var' = var
    BY DEF EachMissing, Missing
  <1> DEFINE s == spine[Iterated]
  <1>2. /\ Iterated # NULL /\ \E u \in Vars : Iterated = var[u]
        /\ s \in Seq(Cells) /\ \E p \in 1..Len(s) : call.cur = s[p]
    BY <1>1, VisitingFacts
  <1>3. Distinct(s)  BY <1>2, ListFacts
  <1>4. /\ Iterated' = Iterated /\ spine'[Iterated] = s
        /\ call'.at = "each" /\ call'.cur = next'[call.cur]
    BY OtherListGrows
  <1>5. Chained(s, next')
    <2> DEFINE I == Iterated
               L2 == Live'
               h2 == heap'
               sp2 == spine'
               nx2 == next'
    <2>1. Heap(L2, h2, sp2, nx2)  BY DEF IInv
    <2>2. I \in L2  BY <1>1, <1>2, LiveDefNext
    <2>3. sp2[I] = s  BY <1>4
    <2> HIDE DEF I, L2, h2, sp2, nx2, s
    <2>4. Chained(s, nx2)  BY <2>1, <2>2, <2>3, HeapFacts
    <2> QED  BY <2>4 DEF nx2
  <1>6. spine[Iterated] = s /\ spine'[Iterated'] = s  BY <1>4
  <1> HIDE DEF s
  <1>7. PICK p \in 1..Len(s) : call.cur = s[p]  BY <1>2
  <1>8. call'.cur = Nth(s, p + 1)  BY <1>4, <1>5, <1>7 DEF Chained
  <1>9. Ahead' < Ahead  BY <1>2, <1>3, <1>6, <1>7, <1>8, AheadFalls
  <1> QED  BY <1>1, <1>4, <1>9, StageFacts, StageFactsNext DEF Advance

\* A cell that is freed leaves the list; the others keep their distance.
LEMMA FreeAdvances ==
  ASSUME IInv, IInv', FreeCell
  PROVE  Advance
  <1>1. /\ call.at = "free" /\ call.cur # NULL
        /\ call' = [call EXCEPT !.cur = next[call.cur]]
        /\ spine' = [spine EXCEPT ![call.result] = Tail(spine[call.result])]
    BY DEF FreeCell
  <1>2. /\ call \in Calls /\ call.result \in Heads /\ call.result # NULL
        /\ Built \in Seq(Cells) /\ Len(Built) \in Nat /\ Len(Built) > 0 /\ call.cur = Built[1]
    BY <1>1, FreeingFacts
  <1>3. call'.at = "free" /\ call'.result = call.result  BY <1>1, <1>2 DEF Calls
  <1>4. Iterated = call.result /\ Iterated' = call.result  BY <1>1, <1>3 DEF Iterated
  <1> DEFINE s == Built
             t == Tail(s)
  <1>5. spine[Iterated] = s /\ spine'[Iterated'] = t
    <2>1. spine \in [Heads -> Seq(Cells) \cup {NULL}]  BY DEF IInv, Heap
    <2> QED  BY <2>1, <1>1, <1>2, <1>4 DEF Built
  <1>6. Distinct(s)  BY <1>2, ListFacts DEF Built
  <1>7. t \in Seq(Cells) /\ Len(t) = Len(s) - 1  BY <1>2, EmptySeq, HeadTailProperties
  <1>8. Distinct(t) /\ call'.cur = Nth(t, 1)
    <2>1. Progress' /\ Heap(Live, heap, spine, next)'  BY DEF IInv
    <2>2. Freeing'  BY <2>1, <1>3 DEF Progress
    <2>3. call'.cur = Nth(t, 1)
      <3>1. Built' = t  BY <1>3, <1>4, <1>5 DEF Built
      <3>2. call'.cur = Nth(Built', 1)  BY <2>2 DEF Freeing
      <3> QED  BY ONLY <3>1, <3>2
    <2> DEFINE r == call.result
               L2 == Live'
               h2 == heap'
               sp2 == spine'
               nx2 == next'
    <2>4. r \in L2  BY <1>2, <1>3, LiveDefNext
    <2>5. Heap(L2, h2, sp2, nx2) /\ sp2[r] = t  BY <2>1, <1>4, <1>5
    <2> HIDE DEF r, L2, h2, sp2, nx2, t
    <2>6. Distinct(t)  BY <2>4, <2>5, HeapFacts
    <2> QED  BY <2>3, <2>6
  <1> HIDE DEF s, t
  <1>9. Ahead = Len(s)
    <2>1. 1 \in 1..Len(s) /\ 1 \in 1..(Len(s) + 1) /\ Len(s) + 1 - 1 = Len(s)
      BY <1>2 DEF s
    <2>2. call.cur = Nth(s, 1) /\ s \in Seq(Cells)  BY <2>1, <1>2 DEF Nth, s
    <2>3. AheadIn(s, call.cur) = Len(s)  BY <2>1, <2>2, <1>6, AheadCount
    <2> QED  BY <2>3, <1>5 DEF Ahead, AheadIn
  <1>10. Ahead' = Len(t)
    <2>1. 1 \in 1..(Len(t) + 1) /\ Len(t) + 1 - 1 = Len(t)  BY <1>7, LenProperties
    <2>2. AheadIn(t, call'.cur) = Len(t)  BY <2>1, <1>7, <1>8, AheadCount
    <2> QED  BY <2>2, <1>5 DEF Ahead, AheadIn
  <1>11. Ahead' < Ahead
    <2>1. Len(s) \in Nat  BY <1>2 DEF s
    <2> QED  BY <2>1, <1>7, <1>9, <1>10
  <1> QED  BY <1>1, <1>3, <1>11, StageFacts, StageFactsNext DEF Advance

LEMMA LoopStepAdvances ==
  ASSUME IInv, IInv', LoopStep
  PROVE  Advance
  <1>1. CASE WalkOn  BY <1>1, WalkAdvances
  <1>2. CASE CopyCell  BY <1>2, CopyAdvances
  <1>3. CASE EachFound  BY <1>3, FoundAdvances
  <1>4. CASE EachMissing  BY <1>4, MissingAdvances
  <1>5. CASE SearchOn  BY <1>5, SearchAdvances
  <1>6. CASE FreeCell  BY <1>6, FreeAdvances
  <1>7. CASE NthReturns \/ Cut \/ EachEnds \/ SearchFails \/ FreeEnds
    <2>1. call' = Idle
      BY <1>7 DEF NthReturns, Cut, EachEnds, SearchFails, FreeEnds, Return
    <2> QED  BY <2>1, IdleFacts DEF Advance
  <1>8. CASE OutOfMemory
    <2>1. call' = [Idle EXCEPT !.at = "exit"]  BY <1>8 DEF OutOfMemory, Exit
    <2> QED  BY <2>1 DEF Idle, Advance
  <1>9. CASE SkipEnds
    <2>1. /\ call.at = "walk"
          /\ call' = [call EXCEPT !.at = "copy", !.prev = head[call.result],
                                  !.cur = next[call.cur]]
      BY <1>9 DEF SkipEnds, WalkEnds
    <2>2. call'.at = "copy"  BY <2>1 DEF IInv, Fields, Calls
    <2> QED  BY <2>1, <2>2, StageFacts, StageFactsNext DEF Advance
  <1>10. CASE CopyEnds
    <2>1. /\ call.at = "copy"
          /\ \/ call' = [call EXCEPT !.at = "each", !.prev = NULL,
                                     !.cur = list_head(var[call.w])]
             \/ call' = Idle
      BY <1>10 DEF CopyEnds, Return
    <2>2. call'.at = "each" \/ call' = Idle  BY <2>1 DEF IInv, Fields, Calls
    <2> QED  BY <2>1, <2>2, IdleFacts, StageFacts, StageFactsNext DEF Advance
  <1>11. CASE SearchFinds
    <2>1. call.at = "search" /\ list_delete_cell(call.v, call.cur, call.prev, call.i)
      BY <1>11 DEF SearchFinds, Found
    <2>2. \/ call' = Idle
          \/ call' = [Idle EXCEPT !.at = "free", !.result = var[call.v], !.cur = head[var[call.v]]]
      BY <2>1 DEF list_delete_cell, StartFree, Unlink, Return
    <2>3. call' = Idle \/ call'.at = "free"  BY <2>2 DEF Idle
    <2> QED  BY <2>1, <2>3, IdleFacts, StageFacts, StageFactsNext DEF Advance
  <1> QED
    BY <1>1, <1>2, <1>3, <1>4, <1>5, <1>6, <1>7, <1>8, <1>9, <1>10, <1>11 DEF LoopStep

\* Only the caller starts a function.
LEMMA CallsFromClient ==
  ASSUME Call
  PROVE  Calling
  BY DEF Call, ConcatSelf, list_delete_first, TruncateToNil, list_free, lappend, lcons,
         list_append_unique, list_delete, lappend_cell, list_truncate, list_nth, list_concat,
         list_concat_unique, list_copy, list_copy_tail, list_union, list_difference

\* Every loop of pg_list.c ends, on lists of any length, though lists are modified
\* under way, and also if a function is given one list twice: each round leaves
\* fewer cells ahead.
THEOREM LoopsEnd == Spec => LoopsAdvance
  <1>1. IInv /\ [Next]_vars => [~Calling => Advance]_vars
    <2>1. SUFFICES ASSUME IInv, Next, ~Calling PROVE Advance
      OBVIOUS
    <2>2. IInv'  BY <2>1, NextKeeps
    <2>3. LoopStep  BY <2>1, CallsFromClient DEF Next
    <2> QED  BY <2>1, <2>2, <2>3, LoopStepAdvances
  <1>2. Spec => [][~Calling => Advance]_vars  BY <1>1, Invariance, PTL DEF Spec
  <1> QED  BY <1>2 DEF LoopsAdvance, Advance
=============================================================================
