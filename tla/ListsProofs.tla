---------------------------- MODULE ListsProofs ----------------------------
(***************************************************************************)
(* The lists implement module Lists: when a call returns, each of the      *)
(* caller's lists holds what the function's comment says, for any number   *)
(* of variables, cells and elements.                                       *)
(*                                                                         *)
(* PgListProofs says which cells make up a list; here it is their data.    *)
(* The invariant added (Contract) says, between two steps of a loop, what  *)
(* the loop has done so far: the elements copied, the elements gathered    *)
(* from the second list, the elements already passed by.  Then each step   *)
(* is one action of Lists, or leaves the elements as they are.             *)
(***************************************************************************)
EXTENDS PgListProofs

LEMMA Spliced ==
  ASSUME NEW S, NEW s \in Seq(S), NEW k \in 0..Len(s), NEW c \in S
  PROVE  /\ Insert(s, k, c) \in Seq(S) /\ Len(Insert(s, k, c)) = Len(s) + 1
         /\ \A j \in 1..(Len(s) + 1) :
              Insert(s, k, c)[j] = IF j <= k THEN s[j]
                                   ELSE IF j = k + 1 THEN c ELSE s[j - 1]
  <1> DEFINE a == SubSeq(s, 1, k)
             b == <<c>>
             d == SubSeq(s, k + 1, Len(s))
             ab == a \o b
  <1>1. Len(s) \in Nat /\ \A j \in 1..Len(s) : s[j] \in S  BY LenProperties
  <1>2. a \in Seq(S) /\ Len(a) = k /\ \A j \in 1..k : a[j] = s[j]
    BY <1>1, SubSeqProperties
  <1>3. b \in Seq(S) /\ Len(b) = 1 /\ b[1] = c  OBVIOUS
  <1>4. /\ d \in Seq(S) /\ Len(d) = Len(s) - k
        /\ \A j \in 1..(Len(s) - k) : d[j] = s[k + j]
    <2>1. \A j \in (k + 1)..Len(s) : s[j] \in S  BY <1>1
    <2>2. k + 1 \in 1..(Len(s) + 1)  BY <1>1
    <2> QED  BY <1>1, <2>1, <2>2, SubSeqProperties
  <1> HIDE DEF a, b, d
  <1>5. /\ ab \in Seq(S) /\ Len(ab) = k + 1
        /\ \A j \in 1..(k + 1) : ab[j] = IF j <= k THEN a[j] ELSE b[j - k]
    <2>1. /\ a \o b \in Seq(S) /\ Len(a \o b) = Len(a) + Len(b)
          /\ \A j \in 1..(Len(a) + Len(b)) :
               (a \o b)[j] = IF j <= Len(a) THEN a[j] ELSE b[j - Len(a)]
      BY <1>2, <1>3, ConcatProperties
    <2> QED  BY <1>2, <1>3, <2>1
  <1> HIDE DEF ab
  <1>6. /\ ab \o d \in Seq(S) /\ Len(ab \o d) = Len(s) + 1
        /\ \A j \in 1..(Len(s) + 1) : (ab \o d)[j] = IF j <= k + 1 THEN ab[j] ELSE d[j - (k + 1)]
    BY <1>1, <1>4, <1>5, ConcatProperties
  <1>7. Insert(s, k, c) = ab \o d  BY DEF Insert, a, b, d, ab
  <1> DEFINE t == Insert(s, k, c)
  <1> HIDE DEF t
  <1>8. ASSUME NEW j \in 1..(Len(s) + 1)
        PROVE  (ab \o d)[j] = IF j <= k THEN s[j] ELSE IF j = k + 1 THEN c ELSE s[j - 1]
    <2>1. CASE j <= k  BY <2>1, <1>1, <1>2, <1>5, <1>6
    <2>2. CASE j = k + 1
      <3>1. j - k = 1  BY <2>2
      <3> QED  BY <2>2, <3>1, <1>1, <1>3, <1>5, <1>6
    <2>3. CASE j > k + 1
      <3>1. j - (k + 1) \in 1..(Len(s) - k) /\ k + (j - (k + 1)) = j - 1  BY <2>3, <1>1
      <3>2. d[j - (k + 1)] = s[j - 1]  BY <3>1, <1>4
      <3> QED  BY <2>3, <3>2, <1>1, <1>6
    <2>4. j \in Int /\ k \in Int  OBVIOUS
    <2>5. j <= k \/ j = k + 1 \/ j > k + 1  BY <2>4
    <2> QED  BY <2>1, <2>2, <2>3, <2>5
  <1> QED  BY <1>6, <1>7, <1>8

LEMMA Dropped ==
  ASSUME NEW S, NEW s \in Seq(S), NEW k \in 0..(Len(s) - 1)
  PROVE  /\ Delete(s, k) \in Seq(S) /\ Len(Delete(s, k)) = Len(s) - 1
         /\ \A j \in 1..(Len(s) - 1) :
              Delete(s, k)[j] = IF j <= k THEN s[j] ELSE s[j + 1]
  <1> DEFINE a == SubSeq(s, 1, k)
             d == SubSeq(s, k + 2, Len(s))
             t == Delete(s, k)
  <1>1. Len(s) \in Nat /\ k \in Int /\ \A j \in 1..Len(s) : s[j] \in S
    BY LenProperties
  <1>2. a \in Seq(S) /\ Len(a) = k /\ \A j \in 1..k : a[j] = s[j]
    BY <1>1, SubSeqProperties
  <1>3. /\ d \in Seq(S) /\ Len(d) = Len(s) - k - 1
        /\ \A j \in 1..(Len(s) - k - 1) : d[j] = s[k + 1 + j]
    <2>1. \A j \in (k + 2)..Len(s) : s[j] \in S  BY <1>1
    <2>2. k + 2 \in 1..(Len(s) + 1)  BY <1>1
    <2>3. /\ d \in Seq(S)
          /\ Len(d) = IF k + 2 <= Len(s) THEN Len(s) - (k + 2) + 1 ELSE 0
          /\ \A i \in 1..(Len(s) - (k + 2) + 1) : d[i] = s[(k + 2) + i - 1]
      BY <1>1, <2>1, <2>2, SubSeqProperties
    <2> HIDE DEF d
    <2> QED  BY <1>1, <2>3
  <1>4. t = a \o d  BY DEF Delete
  <1> HIDE DEF a, d, t
  <1>5. /\ t \in Seq(S) /\ Len(t) = Len(s) - 1
        /\ \A j \in 1..(Len(s) - 1) : t[j] = IF j <= k THEN a[j] ELSE d[j - k]
    <2>1. /\ a \o d \in Seq(S) /\ Len(a \o d) = Len(a) + Len(d)
          /\ \A j \in 1..(Len(a) + Len(d)) :
               (a \o d)[j] = IF j <= Len(a) THEN a[j] ELSE d[j - Len(a)]
      BY <1>2, <1>3, ConcatProperties
    <2>2. Len(a) + Len(d) = Len(s) - 1  BY <1>1, <1>2, <1>3
    <2> QED  BY <1>2, <1>4, <2>1, <2>2
  <1>6. ASSUME NEW j \in 1..(Len(s) - 1) PROVE t[j] = IF j <= k THEN s[j] ELSE s[j + 1]
    <2>1. CASE j <= k  BY <2>1, <1>1, <1>2, <1>5
    <2>2. CASE j > k
      <3>1. j - k \in 1..(Len(s) - k - 1) /\ k + 1 + (j - k) = j + 1  BY <2>2, <1>1
      <3>2. d[j - k] = s[j + 1]  BY <3>1, <1>3
      <3> QED  BY <2>2, <3>2, <1>1, <1>5
    <2> QED  BY <2>1, <2>2, <1>1
  <1> QED  BY <1>5, <1>6 DEF t

LEMMA AppendIsInsertion ==
  ASSUME NEW S, NEW s \in Seq(S), NEW c \in S
  PROVE  Append(s, c) = Insert(s, Len(s), c)
  <1>1. Len(s) \in Nat  BY LenProperties
  <1>2. SubSeq(s, 1, Len(s)) = s  BY SubSeqFull
  <1>3. SubSeq(s, Len(s) + 1, Len(s)) = <<>>  BY <1>1, SubSeqEmpty
  <1>4. s \o <<c>> = Append(s, c) /\ s \o <<c>> \in Seq(S)
    BY AppendIsConcat, AppendProperties
  <1>5. (s \o <<c>>) \o <<>> = s \o <<c>>  BY <1>4, ConcatEmptySeq
  <1> QED  BY <1>2, <1>3, <1>4, <1>5 DEF Insert

LEMMA TailIsDeletion ==
  ASSUME NEW S, NEW s \in Seq(S), Len(s) > 0
  PROVE  Tail(s) = Delete(s, 0)
  <1>1. Len(s) \in Nat /\ s # <<>>  BY EmptySeq
  <1>2. Tail(s) = SubSeq(s, 2, Len(s)) /\ Tail(s) \in Seq(S)
    BY <1>1, TailIsSubSeq, HeadTailProperties
  <1>3. SubSeq(s, 1, 0) = <<>>  BY SubSeqEmpty
  <1>4. <<>> \o Tail(s) = Tail(s)  BY <1>2, ConcatEmptySeq
  <1>5. 0 + 2 = 2  OBVIOUS
  <1> QED  BY <1>2, <1>3, <1>4, <1>5 DEF Delete

LEMMA HeadIsInsertion ==
  ASSUME NEW S, NEW s \in Seq(S), NEW d \in S
  PROVE  <<d>> \o s = Insert(s, 0, d)
  <1>1. SubSeq(s, 1, 0) = <<>>  BY SubSeqEmpty
  <1>2. SubSeq(s, 0 + 1, Len(s)) = s  BY SubSeqFull
  <1>3. <<d>> \in Seq(S)  OBVIOUS
  <1>4. <<>> \o <<d>> = <<d>>  BY <1>3, ConcatEmptySeq
  <1> QED  BY <1>1, <1>2, <1>4 DEF Insert

-----------------------------------------------------------------------------
\* The elements of a list: what the fields dt of its cells s hold.

Values == Data \cup {NULL}

Elements(s, dt) == [k \in 1..Len(s) |-> dt[s[k]]]

LEMMA ElementsFacts ==
  ASSUME NEW s \in Seq(Cells), NEW dt \in [Cells -> Values]
  PROVE  /\ Elements(s, dt) \in Seq(Values) /\ Len(Elements(s, dt)) = Len(s)
         /\ Len(s) \in Nat
         /\ \A k \in 1..Len(s) : Elements(s, dt)[k] = dt[s[k]]
  <1>1. Len(s) \in Nat /\ \A k \in 1..Len(s) : s[k] \in Cells  BY LenProperties
  <1>2. \A k \in 1..Len(s) : dt[s[k]] \in Values  BY <1>1
  <1>3. [k \in 1..Len(s) |-> dt[s[k]]] \in Seq(Values)  BY <1>1, <1>2, IsASeq
  <1>4. Elements(s, dt) \in Seq(Values)  BY <1>3 DEF Elements
  <1>5. DOMAIN Elements(s, dt) = 1..Len(s)  BY DEF Elements
  <1>6. Len(Elements(s, dt)) \in Nat /\ DOMAIN Elements(s, dt) = 1..Len(Elements(s, dt))
    BY <1>4, LenProperties
  <1>7. Len(Elements(s, dt)) = Len(s)
    <2>1. \A a, b \in Nat : 1..a = 1..b => a = b  OBVIOUS
    <2> QED  BY <1>1, <1>5, <1>6, <2>1
  <1> QED  BY <1>1, <1>4, <1>7 DEF Elements

LEMMA ElementsSame ==
  ASSUME NEW s \in Seq(Cells), NEW dt, NEW dt2, \A b \in Members(s) : dt2[b] = dt[b]
  PROVE  Elements(s, dt2) = Elements(s, dt)
  <1>1. \A k \in 1..Len(s) : s[k] \in Members(s)  BY MemberFacts
  <1> QED  BY <1>1 DEF Elements

LEMMA ElementsInsert ==
  ASSUME NEW s \in Seq(Cells), NEW k \in 0..Len(s), NEW c \in Cells,
         NEW dt \in [Cells -> Values], NEW dt2 \in [Cells -> Values],
         \A b \in Members(s) : dt2[b] = dt[b]
  PROVE  Elements(Insert(s, k, c), dt2) = Insert(Elements(s, dt), k, dt2[c])
  <1> DEFINE e == Elements(s, dt)
             t == Insert(s, k, c)
             f == Elements(t, dt2)
             g == Insert(e, k, dt2[c])
             n == Len(s)
  <1>1. /\ t \in Seq(Cells) /\ Len(t) = n + 1
        /\ \A j \in 1..(n + 1) :
             t[j] = IF j <= k THEN s[j] ELSE IF j = k + 1 THEN c ELSE s[j - 1]
    BY InsertElements
  <1>2. /\ e \in Seq(Values) /\ Len(e) = n /\ n \in Nat /\ \A j \in 1..n : e[j] = dt[s[j]]
    BY ElementsFacts
  <1>3. \A j \in 1..n : s[j] \in Members(s)  BY MemberFacts
  <1> HIDE DEF t, e, n
  <1>4. f \in Seq(Values) /\ Len(f) = n + 1 /\ \A j \in 1..(n + 1) : f[j] = dt2[t[j]]
    <2>1. /\ f \in Seq(Values) /\ Len(f) = Len(t)
          /\ \A j \in 1..Len(t) : f[j] = dt2[t[j]]
      BY <1>1, ElementsFacts
    <2> QED  BY <1>1, <2>1
  <1>5. /\ g \in Seq(Values) /\ Len(g) = n + 1
        /\ \A j \in 1..(n + 1) :
             g[j] = IF j <= k THEN e[j] ELSE IF j = k + 1 THEN dt2[c] ELSE e[j - 1]
    <2> DEFINE y == dt2[c]
    <2>1. k \in 0..Len(e) /\ y \in Values /\ e \in Seq(Values)  BY <1>2 DEF n
    <2> HIDE DEF y
    <2>2. /\ Insert(e, k, y) \in Seq(Values) /\ Len(Insert(e, k, y)) = Len(e) + 1
          /\ \A j \in 1..(Len(e) + 1) :
               Insert(e, k, y)[j] = IF j <= k THEN e[j] ELSE IF j = k + 1 THEN y ELSE e[j - 1]
      BY ONLY <2>1, Spliced
    <2>3. g = Insert(e, k, y)  BY DEF y
    <2> HIDE DEF g
    <2> QED  BY <1>2, <2>2, <2>3 DEF y
  <1> HIDE DEF f, g
  <1>6. ASSUME NEW j \in 1..(n + 1) PROVE f[j] = g[j]
    <2>1. CASE j <= k
      <3>1. j \in 1..n  BY <2>1, <1>2 DEF n
      <3>2. f[j] = dt2[s[j]] /\ g[j] = dt[s[j]]  BY <2>1, <3>1, <1>1, <1>2, <1>4, <1>5
      <3> QED  BY <3>1, <3>2, <1>3
    <2>2. CASE j = k + 1
      <3>1. ~ (j <= k)  BY <2>2
      <3> QED  BY <2>2, <3>1, <1>1, <1>4, <1>5
    <2>3. CASE ~ (j <= k) /\ j # k + 1
      <3>1. j - 1 \in 1..n  BY <2>3, <1>2 DEF n
      <3>2. f[j] = dt2[s[j - 1]] /\ g[j] = dt[s[j - 1]]
        BY <2>3, <3>1, <1>1, <1>2, <1>4, <1>5
      <3> QED  BY <3>1, <3>2, <1>3
    <2> QED  BY <2>1, <2>2, <2>3
  <1>7. f = g  BY <1>4, <1>5, <1>6, SeqEqual
  <1> QED  BY <1>7 DEF f, g, t, e

LEMMA ElementsDelete ==
  ASSUME NEW s \in Seq(Cells), NEW k \in 0..(Len(s) - 1),
         NEW dt \in [Cells -> Values], NEW dt2 \in [Cells -> Values],
         \A b \in Members(Delete(s, k)) : dt2[b] = dt[b]
  PROVE  Elements(Delete(s, k), dt2) = Delete(Elements(s, dt), k)
  <1> DEFINE e == Elements(s, dt)
             t == Delete(s, k)
             f == Elements(t, dt2)
             g == Delete(e, k)
             n == Len(s)
  <1>1. /\ t \in Seq(Cells) /\ Len(t) = n - 1
        /\ \A j \in 1..(n - 1) : t[j] = IF j <= k THEN s[j] ELSE s[j + 1]
    BY Dropped
  <1>2. /\ e \in Seq(Values) /\ Len(e) = n /\ n \in Nat /\ \A j \in 1..n : e[j] = dt[s[j]]
    BY ElementsFacts
  <1> HIDE DEF t, e, n
  <1>3. \A j \in 1..(n - 1) : t[j] \in Members(t)  BY <1>1, MemberFacts
  <1>4. f \in Seq(Values) /\ Len(f) = n - 1 /\ \A j \in 1..(n - 1) : f[j] = dt2[t[j]]
    <2>1. /\ f \in Seq(Values) /\ Len(f) = Len(t)
          /\ \A j \in 1..Len(t) : f[j] = dt2[t[j]]
      BY <1>1, ElementsFacts
    <2> QED  BY <1>1, <2>1
  <1>5. /\ g \in Seq(Values) /\ Len(g) = n - 1
        /\ \A j \in 1..(n - 1) : g[j] = IF j <= k THEN e[j] ELSE e[j + 1]
    <2>1. k \in 0..(Len(e) - 1)  BY <1>2 DEF n
    <2> QED  BY <1>2, <2>1, Dropped
  <1> HIDE DEF f, g
  <1>6. ASSUME NEW j \in 1..(n - 1) PROVE f[j] = g[j]
    <2>1. j \in 1..n /\ j + 1 \in 1..n  BY <1>2
    <2>2. dt2[t[j]] = dt[t[j]]  BY <1>3 DEF t
    <2>3. CASE j <= k  BY <2>1, <2>2, <2>3, <1>1, <1>2, <1>4, <1>5
    <2>4. CASE ~ (j <= k)  BY <2>1, <2>2, <2>4, <1>1, <1>2, <1>4, <1>5
    <2> QED  BY <2>3, <2>4
  <1>7. f = g  BY <1>4, <1>5, <1>6, SeqEqual
  <1> QED  BY <1>7 DEF f, g, t, e

LEMMA ElementsPrefix ==
  ASSUME NEW s \in Seq(Cells), NEW m \in 1..Len(s),
         NEW dt \in [Cells -> Values], NEW dt2 \in [Cells -> Values],
         \A b \in Members(SubSeq(s, 1, m)) : dt2[b] = dt[b]
  PROVE  Elements(SubSeq(s, 1, m), dt2) = SubSeq(Elements(s, dt), 1, m)
  <1> DEFINE e == Elements(s, dt)
             t == SubSeq(s, 1, m)
             f == Elements(t, dt2)
             g == SubSeq(e, 1, m)
             n == Len(s)
  <1>1. /\ e \in Seq(Values) /\ Len(e) = n /\ n \in Nat /\ \A j \in 1..n : e[j] = dt[s[j]]
    BY ElementsFacts
  <1>2. \A j \in 1..m : j \in 1..n /\ 1 + j - 1 = j  BY <1>1
  <1>3. /\ t \in Seq(Cells) /\ Len(t) = m /\ \A j \in 1..m : t[j] = s[j]
    <2>1. \A j \in 1..m : s[j] \in Cells  BY <1>2, LenProperties
    <2> QED  BY <2>1, SubSeqProperties
  <1> HIDE DEF t, e, n
  <1>4. /\ g \in Seq(Values) /\ Len(g) = m /\ \A j \in 1..m : g[j] = e[j]
    <2>1. \A j \in 1..m : e[j] \in Values  BY <1>1, <1>2, LenProperties
    <2> QED  BY <2>1, SubSeqProperties
  <1>5. \A j \in 1..m : t[j] \in Members(t)  BY <1>3, MemberFacts
  <1>6. f \in Seq(Values) /\ Len(f) = m /\ \A j \in 1..m : f[j] = dt2[t[j]]
    <2>1. t \in Seq(Cells)  BY <1>3
    <2>2. /\ f \in Seq(Values) /\ Len(f) = Len(t)
          /\ \A j \in 1..Len(t) : f[j] = dt2[t[j]]
      BY ONLY <2>1, dt2 \in [Cells -> Values], ElementsFacts DEF f
    <2> QED  BY <1>3, <2>2
  <1> HIDE DEF f, g
  <1>7. \A j \in 1..m : f[j] = g[j]
    <2>1. \A j \in 1..m : dt2[t[j]] = dt[t[j]]  BY <1>5 DEF t
    <2>2. ASSUME NEW j \in 1..m PROVE f[j] = g[j]
      <3>1. f[j] = dt[s[j]]  BY <2>1, <1>3, <1>6
      <3>2. g[j] = dt[s[j]]  BY <1>1, <1>2, <1>4
      <3> QED  BY <3>1, <3>2
    <2> QED  BY <2>2
  <1>8. f = g  BY <1>4, <1>6, <1>7, SeqEqual
  <1> QED  BY <1>8 DEF f, g, t, e

LEMMA ElementsConcat ==
  ASSUME NEW s \in Seq(Cells), NEW t \in Seq(Cells), NEW dt \in [Cells -> Values]
  PROVE  Elements(s \o t, dt) = Elements(s, dt) \o Elements(t, dt)
  <1> DEFINE d == Elements(s, dt)
             e == Elements(t, dt)
             f == Elements(s \o t, dt)
             g == d \o e
             m == Len(s)
             n == Len(t)
  <1>1. /\ d \in Seq(Values) /\ Len(d) = m /\ m \in Nat /\ \A j \in 1..m : d[j] = dt[s[j]]
        /\ e \in Seq(Values) /\ Len(e) = n /\ n \in Nat /\ \A j \in 1..n : e[j] = dt[t[j]]
    BY ElementsFacts
  <1>2. /\ s \o t \in Seq(Cells) /\ Len(s \o t) = m + n
        /\ \A j \in 1..(m + n) : (s \o t)[j] = IF j <= m THEN s[j] ELSE t[j - m]
    BY ConcatProperties
  <1>3. f \in Seq(Values) /\ Len(f) = m + n /\ \A j \in 1..(m + n) : f[j] = dt[(s \o t)[j]]
    <2>1. /\ f \in Seq(Values) /\ Len(f) = Len(s \o t)
          /\ \A j \in 1..Len(s \o t) : f[j] = dt[(s \o t)[j]]
      BY <1>2, ElementsFacts
    <2> QED  BY <1>2, <2>1
  <1> HIDE DEF d, e, m, n
  <1>4. /\ g \in Seq(Values) /\ Len(g) = m + n
        /\ \A j \in 1..(m + n) : g[j] = IF j <= m THEN d[j] ELSE e[j - m]
    <2>1. /\ d \o e \in Seq(Values) /\ Len(d \o e) = Len(d) + Len(e)
          /\ \A j \in 1..(Len(d) + Len(e)) :
               (d \o e)[j] = IF j <= Len(d) THEN d[j] ELSE e[j - Len(d)]
      BY <1>1, ConcatProperties
    <2> QED  BY <1>1, <2>1
  <1> HIDE DEF f, g
  <1>5. ASSUME NEW j \in 1..(m + n) PROVE f[j] = g[j]
    <2>1. CASE j <= m
      <3>1. j \in 1..m  BY <2>1, <1>1
      <3>2. f[j] = dt[s[j]]  BY <2>1, <1>2, <1>3
      <3>3. g[j] = dt[s[j]]  BY <2>1, <3>1, <1>1, <1>4
      <3> QED  BY <3>2, <3>3
    <2>2. CASE ~ (j <= m)
      <3>1. j - m \in 1..n  BY <2>2, <1>1
      <3>2. f[j] = dt[t[j - m]]  BY <2>2, <1>2, <1>3
      <3>3. g[j] = dt[t[j - m]]  BY <2>2, <3>1, <1>1, <1>4
      <3> QED  BY <3>2, <3>3
    <2> QED  BY <2>1, <2>2
  <1>6. f = g  BY <1>3, <1>4, <1>5, SeqEqual
  <1> QED  BY <1>6 DEF f, g, d, e


-----------------------------------------------------------------------------
\* What the loops have done so far, in terms of the elements.

\* What a loop of list_copy and its like has copied: the elements from call.n on
\* to the cell it is at.
Copied ==
  /\ call.fn # "copyTail" => call.n = 0
  /\ call.fn = "difference" => call.w \in Vars /\ var[call.w] = NULL
  /\ \E p \in 2..(Len(Source) + 1) :
       /\ call.cur = Nth(Source, p)
       /\ Contents(call.result) = SubSeq(Contents(var[call.v]), call.n + 1, p - 1)

\* The cells that a foreach goes through.
Over == IF Iterated = NULL THEN <<>> ELSE spine[Iterated]

\* The result of the first k rounds of a foreach.
Rounds == IF call.fn = "difference"
          THEN Abstract!Sifting(ListOf(call.v), ListOf(call.w))
          ELSE Abstract!Merging(ListOf(call.v), ListOf(call.w))

Gathered ==
  /\ ListOf(call.w) = Contents(var[call.w])
  /\ \E p \in 1..(Len(Over) + 1) :
       call.cur = Nth(Over, p) /\ Contents(call.result) = Rounds[p - 1]

Passed ==
  /\ call.fn = "delete"
  /\ \A k \in 1..call.i : Contents(var[call.v])[k] # call.d

Contract ==
  /\ call.at = "copy"   => Copied
  /\ call.at = "each"   => Gathered
  /\ call.at = "search" => Passed
  /\ call.at = "free"   => Asked = Abstract!Nothing

-----------------------------------------------------------------------------
\* The values of the variables.

ContentsOf(l, sp, dt) ==
  IF l = NULL THEN <<>> ELSE [k \in DOMAIN sp[l] |-> dt[sp[l][k]]]

LEMMA ListOfIs ==
  /\ \A u \in Vars :
       /\ ListOf(u) = IF call.fn = "concatUnique" /\ call.v = u THEN call.old
                      ELSE ContentsOf(var[u], spine, data)
       /\ ListOf(u)' = IF call'.fn = "concatUnique" /\ call'.v = u THEN call'.old
                       ELSE ContentsOf(var'[u], spine', data')
  /\ \A l : Contents(l) = ContentsOf(l, spine, data)
  BY DEF ListOf, Contents, ContentsOf

LEMMA ContentsNext ==
  /\ (Contents(call.result))' = ContentsOf(call'.result, spine', data')
  /\ (Contents(var[call.v]))' = ContentsOf(var'[call'.v], spine', data')
  /\ (Contents(var[call.w]))' = ContentsOf(var'[call'.w], spine', data')
  BY DEF Contents, ContentsOf

LEMMA ContentsFacts ==
  ASSUME IInv, NEW l, l = NULL \/ l = call.result \/ \E v \in Vars : l = var[v]
  PROVE  /\ ContentsOf(l, spine, data) \in Seq(Values)
         /\ l # NULL =>
              /\ ContentsOf(l, spine, data) = Elements(spine[l], data)
              /\ Len(ContentsOf(l, spine, data)) = Len(spine[l])
              /\ \A k \in 1..Len(spine[l]) : ContentsOf(l, spine, data)[k] = data[spine[l][k]]
  <1>1. CASE l = NULL  BY <1>1, EmptySeq DEF ContentsOf
  <1>2. CASE l # NULL
    <2>1. spine[l] \in Seq(Cells)  BY <1>2, ListFacts
    <2>2. data \in [Cells -> Values]  BY DEF IInv, Fields, Values
    <2>3. DOMAIN spine[l] = 1..Len(spine[l])  BY <2>1, LenProperties
    <2>4. ContentsOf(l, spine, data) = Elements(spine[l], data)
      BY <1>2, <2>3 DEF ContentsOf, Elements
    <2> DEFINE s == spine[l]
               e == Elements(s, data)
    <2>5. e \in Seq(Values) /\ Len(e) = Len(s) /\ \A k \in 1..Len(s) : e[k] = data[s[k]]
      BY <2>1, <2>2, ElementsFacts
    <2> HIDE DEF s, e
    <2> QED  BY <2>4, <2>5 DEF s, e
  <1> QED  BY <1>1, <1>2

LEMMA ContentsNextFacts ==
  ASSUME IInv', NEW l, l # NULL, l = call'.result \/ \E v \in Vars : l = var'[v]
  PROVE  /\ spine'[l] \in Seq(Cells) /\ data' \in [Cells -> Values]
         /\ ContentsOf(l, spine', data') = Elements(spine'[l], data')
  <1>1. l \in Live'  BY LiveDefNext
  <1>2. Heap(Live', heap', spine', next') /\ data' \in [Cells -> Values]
    BY DEF IInv, Fields, Values
  <1>3. spine'[l] \in Seq(Cells)  BY <1>1, <1>2, HeapFacts
  <1>4. DOMAIN spine'[l] = 1..Len(spine'[l])  BY <1>3, LenProperties
  <1> QED  BY <1>2, <1>3, <1>4 DEF ContentsOf, Elements

\* A list keeps its elements if neither its cells nor their fields change.
LEMMA ContentsSame ==
  ASSUME IInv, NEW l, l = NULL \/ l = call.result \/ \E v \in Vars : l = var[v],
         l # NULL => /\ spine'[l] = spine[l]
                     /\ \A b \in Members(spine[l]) : data'[b] = data[b]
  PROVE  ContentsOf(l, spine', data') = ContentsOf(l, spine, data)
  <1>1. CASE l = NULL  BY <1>1 DEF ContentsOf
  <1>2. CASE l # NULL
    <2>1. spine[l] \in Seq(Cells)  BY <1>2, ListFacts
    <2>2. DOMAIN spine[l] = 1..Len(spine[l])  BY <2>1, LenProperties
    <2>3. Elements(spine[l], data') = Elements(spine[l], data)
      BY <1>2, <2>1, ElementsSame
    <2> QED  BY <1>2, <2>2, <2>3 DEF ContentsOf, Elements
  <1> QED  BY <1>1, <1>2

-----------------------------------------------------------------------------
\* The steps of module Lists.

LEMMA AskedIs ==
  /\ Asked.fn = call.fn /\ Asked.v = call.v /\ Asked.w = call.w
  /\ Asked.x = call.x /\ Asked.n = call.n /\ Asked.d = call.d
  BY DEF Asked

LEMMA AskedIdle ==
  /\ call = Idle => Asked = Abstract!Nothing
  /\ call' = Idle => Asked' = Abstract!Nothing
  BY DEF Asked, Idle, Abstract!Nothing

LEMMA AskedExit ==
  /\ call' = [Idle EXCEPT !.at = "exit"] => Asked' = Abstract!Nothing
  BY DEF Asked, Idle, Abstract!Nothing

LEMMA AskedRequest ==
  ASSUME call' \in Calls, call'.fn \in Abstract!Loops, call'.v \in Vars
  PROVE  Asked' \in Abstract!Requests
  <1>1. /\ call'.w \in Vars \cup {NULL} /\ call'.x \in Vars \cup {NULL}
        /\ call'.n \in Nat /\ call'.d \in Data \cup {NULL}
    BY DEF Calls
  <1> QED  BY <1>1 DEF Asked, Abstract!Requests

LEMMA AskedSame ==
  ASSUME call'.fn = call.fn, call'.v = call.v, call'.w = call.w, call'.x = call.x,
         call'.n = call.n, call'.d = call.d
  PROVE  Asked' = Asked
  BY DEF Asked

LEMMA Becoming ==
  ASSUME NEW v \in Vars, NEW s,
         \A u \in Vars : ListOf(u)' = IF u = v THEN s ELSE ListOf(u)
  PROVE  Abstract!Becomes(v, s)
  BY DEF Abstract!Becomes

LEMMA Stutters ==
  ASSUME \A u \in Vars : ListOf(u)' = ListOf(u), Asked' = Asked
  PROVE  UNCHANGED Abstract!vars
  BY DEF Abstract!vars

-----------------------------------------------------------------------------
\* The recursive functions of module Lists.

\* f starts with b and goes on with g.
Iteration(f, D, n, b, g) ==
  f \in [0..n -> D] /\ f[0] = b /\ \A k \in 1..n : f[k] = g[<<f[k - 1], k>>]

\* A function on 0..n that starts with b and goes on with g exists: the least m for
\* which there is none on 0..m would have one on 0..(m - 1).
LEMMA Iterates ==
  ASSUME NEW D, NEW n \in Nat, NEW b \in D, NEW g \in [D \X (1..n) -> D]
  PROVE  \E f : Iteration(f, D, n, b, g)
  <1> DEFINE P(m) == \E f : Iteration(f, D, m, b, g)
             S == {m \in 0..n : ~P(m)}
  <1>1. SUFFICES ASSUME S # {} PROVE FALSE
    <2>1. n \in 0..n  OBVIOUS
    <2> QED  BY <2>1
  <1>2. S \subseteq Nat  OBVIOUS
  <1>3. PICK m \in S : \A k \in S : m <= k
    <2> HIDE DEF S
    <2> QED  BY <1>1, <1>2, Least
  <1>4. m \in 0..n /\ ~P(m)  OBVIOUS
  <1>5. m # 0
    <2>1. SUFFICES ASSUME m = 0 PROVE P(0)  BY <1>4
    <2> DEFINE e == [k \in 0..0 |-> b]
    <2>2. e \in [0..0 -> D] /\ e[0] = b  OBVIOUS
    <2>3. \A k \in 1..0 : FALSE  OBVIOUS
    <2> HIDE DEF e
    <2> QED  BY <2>2, <2>3 DEF Iteration
  <1> DEFINE i == m - 1
  <1>6. i \in 0..n /\ ~ (m <= i) /\ m = i + 1 /\ i \in Nat  BY <1>4, <1>5
  <1> HIDE DEF i
  <1>7. P(i)  BY <1>3, <1>6
  <1> HIDE DEF S
  <1>8. PICK f \in [0..i -> D] : f[0] = b /\ \A k \in 1..i : f[k] = g[<<f[k - 1], k>>]
    BY <1>7 DEF Iteration
  <1> DEFINE h == [k \in 0..m |-> IF k = m THEN g[<<f[i], m>>] ELSE f[k]]
  <1>9. g[<<f[i], m>>] \in D
    <2>1. f[i] \in D /\ m \in 1..n  BY <1>4, <1>5, <1>6, <1>8
    <2> QED  BY <2>1
  <1>10. h \in [0..m -> D]
    <2>1. \A k \in 0..m : k # m => k \in 0..i  BY <1>4, <1>6
    <2> QED  BY <2>1, <1>8, <1>9
  <1>11. h[0] = b  BY <1>4, <1>5, <1>8
  <1>12. ASSUME NEW k \in 1..m PROVE h[k] = g[<<h[k - 1], k>>]
    <2>1. CASE k = m
      <3>1. k - 1 = i /\ i \in 0..m /\ i # m  BY <2>1, <1>6
      <3>2. h[k - 1] = f[i] /\ h[k] = g[<<f[i], m>>]  BY <2>1, <3>1
      <3> QED  BY <2>1, <3>2
    <2>2. CASE k # m
      <3>1. k \in 1..i /\ k - 1 \in 0..m /\ k - 1 # m /\ k \in 0..m  BY <2>2, <1>4, <1>6
      <3>2. h[k - 1] = f[k - 1] /\ h[k] = f[k]  BY <2>2, <3>1
      <3> QED  BY <3>1, <3>2, <1>8
    <2> QED  BY <2>1, <2>2
  <1> HIDE DEF h
  <1>13. P(m)  BY <1>10, <1>11, <1>12 DEF Iteration
  <1> QED  BY <1>4, <1>13

LEMMA AddUniqueType ==
  ASSUME NEW D, NEW s \in Seq(D), NEW d \in D
  PROVE  Abstract!AddUnique(s, d) \in Seq(D)
  BY AppendProperties DEF Abstract!AddUnique

LEMMA MergingIs ==
  ASSUME NEW D, NEW s \in Seq(D), NEW t \in Seq(D)
  PROVE  /\ Abstract!Merging(s, t)[0] = s
         /\ \A k \in 1..Len(t) :
              Abstract!Merging(s, t)[k]
                = Abstract!AddUnique(Abstract!Merging(s, t)[k - 1], t[k])
         /\ \A k \in 0..Len(t) : Abstract!Merging(s, t)[k] \in Seq(D)
  <1> DEFINE n == Len(t)
             G(f) == f = [k \in 0..n |-> IF k = 0 THEN s ELSE Abstract!AddUnique(f[k - 1], t[k])]
             g == [q \in Seq(D) \X (1..n) |-> Abstract!AddUnique(q[1], t[q[2]])]
  <1>1. n \in Nat /\ \A k \in 1..n : t[k] \in D  BY LenProperties
  <1> HIDE DEF n
  <1>2. \A r \in Seq(D), k \in 1..n : Abstract!AddUnique(r, t[k]) \in Seq(D)
    BY <1>1, AddUniqueType
  <1>3. g \in [Seq(D) \X (1..n) -> Seq(D)]  BY <1>2
  <1>4. \A r \in Seq(D), k \in 1..n : g[<<r, k>>] = Abstract!AddUnique(r, t[k])  OBVIOUS
  <1> HIDE DEF g
  <1>5. PICK f \in [0..n -> Seq(D)] : f[0] = s /\ \A k \in 1..n : f[k] = g[<<f[k - 1], k>>]
    <2> DEFINE Q == Seq(D)
               b == s
    <2>1. n \in Nat /\ b \in Q /\ g \in [Q \X (1..n) -> Q]  BY <1>1, <1>3
    <2> HIDE DEF Q, b
    <2>2. \E f : Iteration(f, Q, n, b, g)  BY <2>1, Iterates
    <2> QED  BY <2>2 DEF Q, b, Iteration
  <1>6. ASSUME NEW k \in 0..n, k # 0 PROVE f[k] = Abstract!AddUnique(f[k - 1], t[k])
    <2>1. k \in 1..n /\ k - 1 \in 0..n  BY <1>1, <1>6
    <2>2. f[k - 1] \in Seq(D)  BY <2>1
    <2> QED  BY <2>1, <2>2, <1>4, <1>5
  <1>7. f = [k \in 0..n |-> IF k = 0 THEN s ELSE Abstract!AddUnique(f[k - 1], t[k])]
    <2>1. \A k \in 0..n : f[k] = IF k = 0 THEN s ELSE Abstract!AddUnique(f[k - 1], t[k])
      BY <1>5, <1>6
    <2> QED  BY <2>1
  <1> DEFINE m == Abstract!Merging(s, t)
  <1>8. m = CHOOSE h : G(h)  BY DEF Abstract!Merging, n
  <1>9. G(f)  BY <1>7
  <1> HIDE DEF G, m
  <1>10. G(m)  BY <1>8, <1>9
  <1>11. m = [k \in 0..n |-> IF k = 0 THEN s ELSE Abstract!AddUnique(m[k - 1], t[k])]
    BY <1>10 DEF G
  <1>12. m[0] = s  BY <1>1, <1>11
  <1>13. \A k \in 1..n : m[k] = Abstract!AddUnique(m[k - 1], t[k])
    <2>1. \A k \in 1..n : k \in 0..n /\ k # 0  BY <1>1
    <2> QED  BY <1>11, <2>1
  <1>14. \A k \in 0..n : m[k] \in Seq(D)
    <2> DEFINE S == {k \in 0..n : m[k] \notin Seq(D)}
    <2>1. SUFFICES ASSUME S # {} PROVE FALSE  OBVIOUS
    <2>2. S \subseteq Nat  BY <1>1
    <2>3. PICK j \in S : \A k \in S : j <= k
      <3> HIDE DEF S
      <3> QED  BY <2>1, <2>2, Least
    <2>4. j \in 0..n /\ m[j] \notin Seq(D) /\ j # 0  BY <1>12
    <2>5. j - 1 \in 0..n /\ j \in 1..n /\ ~ (j <= j - 1)  BY <2>4, <1>1
    <2>6. m[j - 1] \in Seq(D)  BY <2>3, <2>5
    <2> QED  BY <2>4, <2>5, <2>6, <1>2, <1>13
  <1> QED  BY <1>12, <1>13, <1>14 DEF m, n

LEMMA SiftingIs ==
  ASSUME NEW D, NEW s \in Seq(D), NEW t
  PROVE  /\ Abstract!Sifting(s, t)[0] = <<>>
         /\ \A k \in 1..Len(s) :
              Abstract!Sifting(s, t)[k]
                = IF Abstract!Contains(t, s[k]) THEN Abstract!Sifting(s, t)[k - 1]
                  ELSE Append(Abstract!Sifting(s, t)[k - 1], s[k])
         /\ \A k \in 0..Len(s) : Abstract!Sifting(s, t)[k] \in Seq(D)
  <1> DEFINE n == Len(s)
             Sift(r, k) == IF Abstract!Contains(t, s[k]) THEN r ELSE Append(r, s[k])
             G(f) == f = [k \in 0..n |->
                            IF k = 0 THEN <<>>
                            ELSE IF Abstract!Contains(t, s[k]) THEN f[k - 1]
                                 ELSE Append(f[k - 1], s[k])]
             g == [q \in Seq(D) \X (1..n) |-> Sift(q[1], q[2])]
  <1>1. n \in Nat /\ \A k \in 1..n : s[k] \in D  BY LenProperties
  <1> HIDE DEF n
  <1>2. \A r \in Seq(D), k \in 1..n : Sift(r, k) \in Seq(D)
    BY <1>1, AppendProperties
  <1> HIDE DEF Sift
  <1>3. g \in [Seq(D) \X (1..n) -> Seq(D)]  BY <1>2
  <1>4. \A r \in Seq(D), k \in 1..n : g[<<r, k>>] = Sift(r, k)  OBVIOUS
  <1> HIDE DEF g
  <1>5. PICK f \in [0..n -> Seq(D)] : f[0] = <<>> /\ \A k \in 1..n : f[k] = g[<<f[k - 1], k>>]
    <2> DEFINE Q == Seq(D)
               b == <<>>
    <2>1. n \in Nat /\ b \in Q /\ g \in [Q \X (1..n) -> Q]  BY <1>1, <1>3, EmptySeq
    <2> HIDE DEF Q, b
    <2>2. \E f : Iteration(f, Q, n, b, g)  BY <2>1, Iterates
    <2> QED  BY <2>2 DEF Q, b, Iteration
  <1>6. ASSUME NEW k \in 0..n, k # 0 PROVE f[k] = Sift(f[k - 1], k)
    <2>1. k \in 1..n /\ k - 1 \in 0..n  BY <1>1, <1>6
    <2>2. f[k - 1] \in Seq(D)  BY <2>1
    <2> QED  BY <2>1, <2>2, <1>4, <1>5
  <1>7. f = [k \in 0..n |-> IF k = 0 THEN <<>> ELSE Sift(f[k - 1], k)]
    <2>1. \A k \in 0..n : f[k] = IF k = 0 THEN <<>> ELSE Sift(f[k - 1], k)
      BY <1>5, <1>6
    <2> QED  BY <2>1
  <1> DEFINE m == Abstract!Sifting(s, t)
  <1>8. m = CHOOSE h : G(h)  BY DEF Abstract!Sifting, n
  <1>9. G(f)  BY <1>7 DEF Sift
  <1> HIDE DEF G, m
  <1>10. G(m)  BY <1>8, <1>9
  <1>11. m = [k \in 0..n |-> IF k = 0 THEN <<>> ELSE Sift(m[k - 1], k)]
    BY <1>10 DEF G, Sift
  <1>12. m[0] = <<>>  BY <1>1, <1>11
  <1>13. \A k \in 1..n : m[k] = Sift(m[k - 1], k)
    <2>1. \A k \in 1..n : k \in 0..n /\ k # 0  BY <1>1
    <2> QED  BY <1>11, <2>1
  <1>14. \A k \in 0..n : m[k] \in Seq(D)
    <2> DEFINE S == {k \in 0..n : m[k] \notin Seq(D)}
    <2>1. SUFFICES ASSUME S # {} PROVE FALSE  OBVIOUS
    <2>2. S \subseteq Nat  BY <1>1
    <2>3. PICK j \in S : \A k \in S : j <= k
      <3> HIDE DEF S
      <3> QED  BY <2>1, <2>2, Least
    <2>4. j \in 0..n /\ m[j] \notin Seq(D) /\ j # 0  BY <1>12, EmptySeq
    <2>5. j - 1 \in 0..n /\ j \in 1..n /\ ~ (j <= j - 1)  BY <2>4, <1>1
    <2>6. m[j - 1] \in Seq(D)  BY <2>3, <2>5
    <2> QED  BY <2>4, <2>5, <2>6, <1>2, <1>13
  <1> QED  BY <1>12, <1>13, <1>14 DEF m, n, Sift

\* Without the elements of an empty list, a list stays as it is.
LEMMA SiftingAll ==
  ASSUME NEW D, NEW s \in Seq(D)
  PROVE  Abstract!Minus(s, <<>>) = s
  <1> DEFINE m == Abstract!Sifting(s, <<>>)
             n == Len(s)
  <1>1. n \in Nat /\ \A k \in 1..n : s[k] \in D  BY LenProperties
  <1>2. ~Abstract!Contains(<<>>, NULL) /\ \A d : ~Abstract!Contains(<<>>, d)
    BY DEF Abstract!Contains
  <1>3. /\ m[0] = <<>> /\ \A k \in 1..n : m[k] = Append(m[k - 1], s[k])
        /\ \A k \in 0..n : m[k] \in Seq(D)
    BY <1>2, SiftingIs
  <1> HIDE DEF m, n
  <1> DEFINE P(k) == Len(m[k]) = k /\ \A j \in 1..k : m[k][j] = s[j]
             S == {k \in 0..n : ~P(k)}
  <1>4. S = {}
    <2>1. SUFFICES ASSUME S # {} PROVE FALSE  OBVIOUS
    <2>2. S \subseteq Nat  BY <1>1
    <2>3. PICK k \in S : \A j \in S : k <= j
      <3> HIDE DEF S
      <3> QED  BY <2>1, <2>2, Least
    <2>4. k \in 0..n /\ ~P(k)  OBVIOUS
    <2>5. P(0)  BY <1>3
    <2>6. k # 0  BY <2>4, <2>5
    <2> DEFINE i == k - 1
    <2>7. i \in 0..n /\ k \in 1..n /\ ~ (k <= i) /\ k = i + 1 /\ i \in Nat
      BY <2>4, <2>6, <1>1
    <2>8. m[k] = Append(m[i], s[k])  BY <1>3, <2>7
    <2> HIDE DEF i
    <2>9. P(i)  BY <2>3, <2>7
    <2>10. m[i] \in Seq(D) /\ s[k] \in D  BY <1>1, <1>3, <2>7
    <2>11. /\ Len(Append(m[i], s[k])) = Len(m[i]) + 1
           /\ \A j \in 1..Len(m[i]) : Append(m[i], s[k])[j] = m[i][j]
           /\ Append(m[i], s[k])[Len(m[i]) + 1] = s[k]
      BY <2>10, AppendProperties
    <2>12. \A j \in 1..k : j = k \/ j \in 1..i  BY <2>7
    <2> HIDE DEF S
    <2>13. P(k)  BY <2>7, <2>8, <2>9, <2>11, <2>12
    <2> QED  BY <2>4, <2>13
  <1>5. n \in 0..n  BY <1>1
  <1>6. P(n)  BY <1>4, <1>5
  <1>7. m[n] = s  BY <1>3, <1>5, <1>6, SeqEqual DEF n
  <1> QED  BY <1>7 DEF Abstract!Minus, m, n

-----------------------------------------------------------------------------
\* The rounds of a loop are stutters.

Kept(l) == l # NULL => /\ spine'[l] = spine[l]
                       /\ \A b \in Members(spine[l]) : data'[b] = data[b]

LEMMA KeptList ==
  ASSUME IInv, NEW u \in Vars, var'[u] = var[u], Kept(var[u]),
         call'.fn = call.fn, call'.v = call.v, call'.old = call.old
  PROVE  ListOf(u)' = ListOf(u)
  <1>1. ContentsOf(var[u], spine', data') = ContentsOf(var[u], spine, data)
    BY ContentsSame DEF Kept
  <1> QED  BY <1>1, ListOfIs

\* A step that changes neither lists nor variables, nor what the call is about.
LEMMA RoundStutters ==
  ASSUME UNCHANGED <<spine, data, var>>, call'.fn = call.fn, call'.v = call.v,
         call'.w = call.w, call'.x = call.x, call'.n = call.n, call'.d = call.d,
         call'.old = call.old
  PROVE  /\ UNCHANGED Abstract!vars /\ Asked' = Asked
         /\ \A u : ListOf(u)' = ListOf(u)
         /\ \A l : Contents(l) = ContentsOf(l, spine', data')
  <1>1. \A u : ListOf(u)' = ListOf(u)  BY DEF ListOf, Contents
  <1>2. \A l : Contents(l) = ContentsOf(l, spine', data')  BY DEF Contents, ContentsOf
  <1> QED  BY <1>1, <1>2, AskedSame, Stutters

LEMMA WalkOnStutters ==
  ASSUME IInv, WalkOn
  PROVE  UNCHANGED Abstract!vars /\ Contract'
  <1>1. UNCHANGED <<spine, data, var>>  BY DEF WalkOn, heapVars, cellVars
  <1>2. call' = [call EXCEPT !.cur = next[@], !.i = @ + 1] /\ call \in Calls
    BY DEF WalkOn, IInv, Fields
  <1>3. /\ call'.fn = call.fn /\ call'.v = call.v /\ call'.w = call.w /\ call'.x = call.x
        /\ call'.n = call.n /\ call'.d = call.d /\ call'.old = call.old /\ call'.at = call.at
    BY <1>2 DEF Calls
  <1>4. UNCHANGED Abstract!vars  BY <1>1, <1>3, RoundStutters
  <1>5. call'.at = "walk"  BY <1>3 DEF WalkOn
  <1> QED  BY <1>4, <1>5 DEF Contract

LEMMA SearchOnStutters ==
  ASSUME IInv, Contract, SearchOn
  PROVE  UNCHANGED Abstract!vars /\ Contract'
  <1>1. UNCHANGED <<spine, data, var>>  BY DEF SearchOn, heapVars, cellVars
  <1>2. call' = [call EXCEPT !.prev = call.cur, !.cur = next[@], !.i = @ + 1] /\ call \in Calls
    BY DEF SearchOn, IInv, Fields
  <1>3. /\ call'.fn = call.fn /\ call'.v = call.v /\ call'.w = call.w /\ call'.x = call.x
        /\ call'.n = call.n /\ call'.d = call.d /\ call'.old = call.old /\ call'.at = call.at
        /\ call'.i = call.i + 1
    BY <1>2 DEF Calls
  <1>4. UNCHANGED Abstract!vars /\ \A l : Contents(l) = ContentsOf(l, spine', data')
    BY <1>1, <1>3, RoundStutters
  <1>5. call.at = "search" /\ call.cur # NULL /\ data[call.cur] # call.d
    BY DEF SearchOn, Found
  <1>6. /\ call.v \in Vars /\ var[call.v] # NULL /\ call.i \in Nat
        /\ call.i + 1 \in 1..Len(Source) /\ call.cur = Source[call.i + 1]
    BY <1>5, SearchingFacts
  <1>7. Contents(var[call.v])[call.i + 1] = data[call.cur]
    BY <1>6, ContentsFacts, ListOfIs DEF Source
  <1>8. Contents(var[call.v])' = Contents(var[call.v])
    BY <1>1, <1>3, <1>4, ContentsNext
  <1>9. Passed  BY <1>5 DEF Contract
  <1>10. ASSUME NEW k \in 1..call'.i PROVE Contents(var[call.v])[k] # call.d
    <2>1. k = call.i + 1 \/ k \in 1..call.i  BY <1>3, <1>6
    <2> QED  BY <2>1, <1>5, <1>7, <1>9 DEF Passed
  <1>11. Passed'  BY <1>3, <1>8, <1>9, <1>10 DEF Passed
  <1> QED  BY <1>3, <1>4, <1>5, <1>11 DEF Contract

LEMMA FreeingStutters ==
  ASSUME IInv, Contract, FreeCell \/ FreeEnds
  PROVE  UNCHANGED Abstract!vars /\ Contract'
  <1> DEFINE l == call.result
  <1>1. call.at = "free" /\ Asked = Abstract!Nothing
    BY DEF FreeCell, FreeEnds, Contract
  <1>2. call.fn = "none"  BY <1>1, AskedIs DEF Abstract!Nothing
  <1>3. /\ Freeing /\ call \in Calls /\ l # NULL /\ l \in Heads
        /\ Built \in Seq(Cells) /\ \A v \in Vars : var[v] # l
        /\ call.cur # NULL => Len(Built) > 0 /\ call.cur = Built[1] /\ call.cur \in Cells
    BY <1>1, FreeingFacts
  <1>4. UNCHANGED var  BY DEF FreeCell, FreeEnds
  <1>5. Heap(Live, heap, spine, next) /\ l \in Live  BY <1>3, ListFacts DEF IInv
  <1>6. Fields /\ spine \in [Heads -> Seq(Cells) \cup {NULL}]  BY <1>5 DEF IInv, Heap
  <1>7. call.cur # NULL => call.cur \in Members(Built)
    BY <1>3, MemberFacts
  <1>8. ASSUME NEW u \in Vars, var[u] # NULL
        PROVE  /\ var[u] \in Heads /\ var[u] # l /\ call.cur \notin Members(spine[var[u]])
               /\ spine[var[u]] \in Seq(Cells) /\ Members(spine[var[u]]) \subseteq Cells
    <2>1. var[u] \in Live /\ var[u] # l /\ var[u] \in Heads  BY <1>3, <1>8, ListFacts
    <2>2. /\ spine[var[u]] \in Seq(Cells) /\ Members(spine[var[u]]) \subseteq Cells
          /\ NULL \notin Cells
      BY <1>8, ListFacts
    <2>3. call.cur \notin Members(spine[var[u]])
      <3>1. CASE call.cur = NULL  BY <3>1, <2>2
      <3>2. CASE call.cur # NULL
        <4>1. call.cur \in Members(spine[l])  BY <3>2, <1>7 DEF Built
        <4>2. \A a, m \in Live : \A b \in Members(spine[a]) : b \in Members(spine[m]) => a = m
          BY HeapFacts DEF IInv
        <4> QED  BY <4>1, <4>2, <1>5, <2>1
      <3> QED  BY <3>1, <3>2
    <2> QED  BY <2>1, <2>2, <2>3
  <1>9. ASSUME NEW u \in Vars PROVE Kept(var[u])
    <2>1. SUFFICES ASSUME var[u] # NULL
                   PROVE  /\ spine'[var[u]] = spine[var[u]]
                          /\ \A b \in Members(spine[var[u]]) : data'[b] = data[b]
      BY DEF Kept
    <2>2. CASE FreeCell
      <3>1. spine' = [spine EXCEPT ![l] = Tail(@)] /\ data' = Without(data, {call.cur})
        BY <2>2 DEF FreeCell
      <3>2. \A b \in Cells : b # call.cur => data'[b] = data[b]
        BY <3>1, <1>6 DEF Without, Fields
      <3> QED  BY <2>1, <3>1, <3>2, <1>6, <1>8
    <2>3. CASE FreeEnds
      <3>1. spine' = Without(spine, {l}) /\ data' = Without(data, {l})
        BY <2>3 DEF FreeEnds, Release
      <3>2. \A b \in Cells : data'[b] = data[b]
        BY <3>1, <1>3, <1>6, PgListAssumption DEF Without, Fields
      <3>3. spine'[var[u]] = spine[var[u]]
        BY <2>1, <3>1, <1>6, <1>8 DEF Without
      <3> QED  BY <2>1, <3>2, <3>3, <1>8
    <2> QED  BY <2>2, <2>3
  <1>10. Asked' = Asked /\ (call'.at = "free" \/ call'.at = "client") /\ call'.fn = "none"
    <2>1. CASE FreeCell
      <3>1. call' = [call EXCEPT !.cur = next[@]]  BY <2>1 DEF FreeCell
      <3>2. /\ call'.fn = call.fn /\ call'.v = call.v /\ call'.w = call.w /\ call'.x = call.x
            /\ call'.n = call.n /\ call'.d = call.d /\ call'.at = call.at
        BY <3>1, <1>3 DEF Calls
      <3> QED  BY <3>2, <1>1, <1>2, AskedSame
    <2>2. CASE FreeEnds
      <3>1. call' = Idle  BY <2>2 DEF FreeEnds, Return
      <3> QED  BY <3>1, <1>1, AskedIdle DEF Idle
    <2> QED  BY <2>1, <2>2
  <1>11. \A u \in Vars : ListOf(u)' = ListOf(u)
    BY <1>2, <1>4, <1>9, <1>10, ContentsSame, ListOfIs DEF Kept
  <1> QED  BY <1>1, <1>10, <1>11, Stutters DEF Contract

\* list_copy_tail has found the first cell it copies.
LEMMA SkipEndsStutters ==
  ASSUME IInv, IInv', SkipEnds
  PROVE  UNCHANGED Abstract!vars /\ Contract'
  <1> DEFINE C == Contents(var[call.v])
             c == data[call.cur]
             p == call.n + 2
             h == call.result
  <1>1. /\ call.at = "walk" /\ call.i = call.n /\ call.fn = "copyTail"
        /\ data' = [data EXCEPT ![head[h]] = c]
        /\ call' = [call EXCEPT !.at = "copy", !.prev = head[h], !.cur = next[@]]
        /\ UNCHANGED <<spine, var>>
    BY DEF SkipEnds, WalkEnds, headVars
  <1>2. /\ Walking /\ call \in Calls /\ call.v \in Vars /\ var[call.v] # NULL
        /\ Source \in Seq(Cells) /\ Len(Source) \in Nat
        /\ \A k \in 1..Len(Source) : Source[k] \in Cells /\ next[Source[k]] = Nth(Source, k + 1)
        /\ call.i \in Nat /\ call.n \in Nat /\ call.i + 1 \in 1..Len(Source)
        /\ call.cur = Source[call.i + 1] /\ call.cur \in Cells
    BY <1>1, WalkingFacts
  <1>3. /\ Private /\ Len(Built) = 1 /\ head[h] = Built[1]
    BY <1>1, <1>2 DEF Walking
  <1>4. /\ call'.fn = call.fn /\ call'.v = call.v /\ call'.w = call.w /\ call'.x = call.x
        /\ call'.n = call.n /\ call'.d = call.d /\ call'.old = call.old /\ call'.at = "copy"
        /\ call'.result = h /\ call'.cur = next[call.cur]
    BY <1>1, <1>2 DEF Calls
  <1>5. h # NULL /\ h \in Live /\ \A u \in Vars : var[u] # h
    BY <1>3, LiveDef DEF Private
  <1>6. Built \in Seq(Cells) /\ Built[1] \in Members(Built) /\ Built[1] \in Cells
    <2>1. Built \in Seq(Cells)  BY <1>5, ListFacts DEF Built
    <2> QED  BY <2>1, <1>3, MemberFacts
  <1>7. ASSUME NEW u \in Vars PROVE Kept(var[u])
    <2>1. SUFFICES ASSUME var[u] # NULL
                   PROVE  \A b \in Members(spine[var[u]]) : data'[b] = data[b]
      BY <1>1 DEF Kept
    <2>2. var[u] \in Live /\ Members(spine[var[u]]) \subseteq Cells  BY <2>1, ListFacts
    <2>3. \A a, m \in Live : \A b \in Members(spine[a]) : b \in Members(spine[m]) => a = m
      BY HeapFacts DEF IInv
    <2>4. Built[1] \notin Members(spine[var[u]])  BY <1>5, <1>6, <2>2, <2>3 DEF Built
    <2>5. data \in [Cells -> Data \cup {NULL}]  BY DEF IInv, Fields
    <2> QED  BY <2>2, <2>4, <2>5, <1>1, <1>3
  <1>8. \A u \in Vars : ListOf(u)' = ListOf(u)
    BY <1>1, <1>4, <1>7, KeptList
  <1>9. UNCHANGED Abstract!vars  BY <1>4, <1>8, AskedSame, Stutters
  <1>10. C \in Seq(Values) /\ Len(C) = Len(Source) /\ C[call.n + 1] = c
    <2>1. /\ C \in Seq(Values) /\ Len(C) = Len(Source)
          /\ \A k \in 1..Len(Source) : C[k] = data[Source[k]]
      BY <1>2, ContentsFacts, ListOfIs DEF Source
    <2> QED  BY <2>1, <1>1, <1>2
  <1>11. Contents(var[call.v])' = C
    <2>1. ContentsOf(var[call.v], spine', data') = ContentsOf(var[call.v], spine, data)
      BY <1>2, <1>7, ContentsSame DEF Kept
    <2> QED  BY <2>1, <1>1, <1>4, ContentsNext, ListOfIs
  <1>12. Contents(call.result)' = <<c>>
    <2>1. data'[Built[1]] = c
      <3>1. data \in [Cells -> Data \cup {NULL}]  BY DEF IInv, Fields
      <3> QED  BY <3>1, <1>1, <1>3, <1>6
    <2>2. DOMAIN Built = 1..1 /\ spine' = spine  BY <1>1, <1>3, <1>6, LenProperties
    <2>3. ContentsOf(h, spine', data') = [k \in 1..1 |-> data'[Built[k]]]
      BY <1>5, <2>2 DEF ContentsOf, Built
    <2>4. [k \in 1..1 |-> data'[Built[k]]] = <<c>>  BY <2>1
    <2> QED  BY <2>3, <2>4, <1>4, ContentsNext
  <1> HIDE DEF C, c, p
  <1>13. SubSeq(C, call.n + 1, p - 1) = <<c>>
    <2> DEFINE t == SubSeq(C, call.n + 1, call.n + 1)
    <2>1. call.n + 1 \in 1..(Len(C) + 1) /\ call.n + 1 \in Int  BY <1>1, <1>2, <1>10
    <2>2. \A k \in (call.n + 1)..(call.n + 1) : C[k] \in Values
      <3>1. \A k \in (call.n + 1)..(call.n + 1) : k \in 1..Len(C)  BY <1>1, <1>2, <1>10
      <3> QED  BY <3>1, <1>10, LenProperties
    <2>3. t \in Seq(Values) /\ Len(t) = 1 /\ t[1] = C[call.n + 1]
      <3> DEFINE a == call.n + 1
      <3>1. /\ SubSeq(C, a, a) \in Seq(Values)
            /\ Len(SubSeq(C, a, a)) = IF a <= a THEN a - a + 1 ELSE 0
            /\ \A i \in 1..(a - a + 1) : SubSeq(C, a, a)[i] = C[a + i - 1]
        <4> HIDE DEF a
        <4>1. /\ a \in 1..(Len(C) + 1) /\ a \in (a - 1)..Len(C) /\ C \in Seq(Values)
              /\ \A i \in a..a : C[i] \in Values
          BY <2>1, <2>2, <1>1, <1>2, <1>10 DEF a
        <4> QED  BY <4>1, SubSeqProperties
      <3>2. a \in Int /\ a - a + 1 = 1 /\ a + 1 - 1 = a  BY <2>1
      <3> HIDE DEF a
      <3>3. SubSeq(C, a, a)[1] = C[a]  BY <3>1, <3>2
      <3> QED  BY <3>1, <3>2, <3>3 DEF a
    <2>4. t = <<c>>
      <3> HIDE DEF t
      <3>1. c \in Values /\ <<c>> \in Seq(Values) /\ Len(<<c>>) = 1 /\ <<c>>[1] = c
        BY <2>2, <2>1, <1>10
      <3>2. \A k \in 1..1 : t[k] = <<c>>[k]  BY <2>3, <3>1, <1>10
      <3> QED  BY <2>3, <3>1, <3>2, SeqEqual
    <2>5. p - 1 = call.n + 1  BY <1>2 DEF p
    <2> QED  BY <2>4, <2>5
  <1>14. p \in 2..(Len(Source) + 1) /\ next[call.cur] = Nth(Source, p)
    <2>1. p = (call.n + 1) + 1 /\ call.n + 1 \in 1..Len(Source)  BY <1>1, <1>2 DEF p
    <2>2. next[call.cur] = Nth(Source, (call.n + 1) + 1)  BY <1>1, <1>2, <2>1
    <2> QED  BY <1>2, <2>1, <2>2
  <1>15. Source' = Source  BY <1>1, <1>4 DEF Source
  <1>16. Copied'
    <2>1. call'.cur = Nth(Source', p)  BY <1>4, <1>14, <1>15
    <2>2. Contents(call.result)' = SubSeq(Contents(var[call.v])', call'.n + 1, p - 1)
      BY <1>4, <1>11, <1>12, <1>13
    <2>3. p \in 2..(Len(Source') + 1)  BY <1>14, <1>15
    <2> QED  BY <2>1, <2>2, <2>3, <1>1, <1>4 DEF Copied
  <1> QED  BY <1>4, <1>9, <1>16 DEF Contract

-----------------------------------------------------------------------------
\* A list grows by a new cell.

LEMMA NewDatum ==
  ASSUME IInv, NEW d, NewCell \in Cells \ heap, data' = [data EXCEPT ![NewCell] = d]
  PROVE  data'[NewCell] = d /\ \A b \in heap : data'[b] = data[b]
  <1>1. data \in [Cells -> Data \cup {NULL}]  BY DEF IInv, Fields
  <1>2. \A b : b # NewCell => data'[b] = data[b]  BY <1>1
  <1> QED  BY <1>1, <1>2

LEMMA OthersKept ==
  ASSUME IInv, NEW d, NewCell \in Cells \ heap, data' = [data EXCEPT ![NewCell] = d],
         NEW m, m = NULL \/ m = call.result \/ \E v \in Vars : m = var[v],
         m # NULL => spine'[m] = spine[m]
  PROVE  Kept(m)
  <1>1. \A b \in heap : data'[b] = data[b]  BY NewDatum
  <1>2. m # NULL => Members(spine[m]) \subseteq heap  BY ListFacts
  <1> QED  BY <1>1, <1>2 DEF Kept

LEMMA GrownContents ==
  ASSUME IInv, IInv', NEW d, NewCell \in Cells \ heap, data' = [data EXCEPT ![NewCell] = d],
         NEW l, l # NULL, l = call.result \/ \E v \in Vars : l = var[v],
         l = call'.result \/ \E v \in Vars : l = var'[v],
         NEW k \in 0..Len(spine[l]), spine'[l] = Insert(spine[l], k, NewCell)
  PROVE  ContentsOf(l, spine', data') = Insert(ContentsOf(l, spine, data), k, d)
  <1> DEFINE s == spine[l]
             t == spine'[l]
  <1>1. s \in Seq(Cells) /\ \A b \in Members(s) : data'[b] = data[b]
    BY ListFacts, NewDatum
  <1>2. data \in [Cells -> Values] /\ data' \in [Cells -> Values]
    BY ContentsNextFacts DEF IInv, Fields, Values
  <1>3. ContentsOf(l, spine, data) = Elements(s, data)  BY ContentsFacts
  <1>4. ContentsOf(l, spine', data') = Elements(t, data')  BY ContentsNextFacts
  <1>5. data'[NewCell] = d  BY NewDatum
  <1> DEFINE e == data
             f == data'
             c == NewCell
  <1>6. /\ s \in Seq(Cells) /\ k \in 0..Len(s) /\ c \in Cells
        /\ e \in [Cells -> Values] /\ f \in [Cells -> Values]
    BY <1>1, <1>2
  <1>9. \A b \in Members(s) : f[b] = e[b]  BY <1>1
  <1> HIDE DEF e, f, c, s
  <1>7. Elements(Insert(s, k, c), f) = Insert(Elements(s, e), k, f[c])
    BY ONLY <1>6, <1>9, ElementsInsert
  <1>8. t = Insert(s, k, c)  BY DEF s, c
  <1> HIDE DEF t
  <1> QED  BY <1>3, <1>4, <1>5, <1>7, <1>8 DEF e, f, c

\* ... behind its last one.
LEMMA AppendedContents ==
  ASSUME IInv, IInv', NEW d, NewCell \in Cells \ heap, data' = [data EXCEPT ![NewCell] = d],
         d \in Values, NEW l, l # NULL, l = call.result \/ \E v \in Vars : l = var[v],
         l = call'.result \/ \E v \in Vars : l = var'[v],
         spine'[l] = Insert(spine[l], Len(spine[l]), NewCell)
  PROVE  ContentsOf(l, spine', data') = Append(ContentsOf(l, spine, data), d)
  <1> DEFINE C == ContentsOf(l, spine, data)
             n == Len(spine[l])
  <1>1. n \in Nat /\ C \in Seq(Values) /\ Len(C) = n  BY ListFacts, ContentsFacts
  <1>2. n \in 0..n  BY <1>1
  <1>3. ContentsOf(l, spine', data') = Insert(C, n, d)  BY <1>2, GrownContents
  <1> HIDE DEF C, n
  <1>4. Append(C, d) = Insert(C, n, d)
    BY <1>1, AppendIsInsertion
  <1> QED  BY <1>3, <1>4 DEF C

\* A list with one cell.
LEMMA NewContents ==
  ASSUME NEW l, l # NULL, NEW c, spine'[l] = <<c>>
  PROVE  ContentsOf(l, spine', data') = <<data'[c]>>
  <1>1. DOMAIN spine'[l] = 1..1 /\ spine'[l][1] = c  OBVIOUS
  <1>2. ContentsOf(l, spine', data') = [k \in 1..1 |-> data'[spine'[l][k]]]
    BY <1>1 DEF ContentsOf
  <1> QED  BY <1>1, <1>2

LEMMA LongerPart ==
  ASSUME NEW D, NEW s \in Seq(D), NEW m \in Nat, NEW p \in 1..Len(s), m < p
  PROVE  SubSeq(s, m + 1, p) = Append(SubSeq(s, m + 1, p - 1), s[p])
  <1> DEFINE a == SubSeq(s, m + 1, p)
             b == SubSeq(s, m + 1, p - 1)
             c == Append(b, s[p])
             n == p - m - 1
  <1>1. /\ Len(s) \in Nat /\ \A k \in 1..Len(s) : s[k] \in D
        /\ p \in Nat /\ n \in Nat /\ m + 1 \in Int /\ p - 1 \in Int
    BY LenProperties
  <1>2. \A k \in (m + 1)..p : s[k] \in D  BY <1>1
  <1>3. a \in Seq(D) /\ Len(a) = n + 1 /\ \A k \in 1..(n + 1) : a[k] = s[m + k]
    <2>1. /\ a \in Seq(D) /\ Len(a) = (IF m + 1 <= p THEN p - (m + 1) + 1 ELSE 0)
          /\ \A k \in 1..(p - (m + 1) + 1) : a[k] = s[(m + 1) + k - 1]
      BY <1>1, <1>2, SubSeqProperties
    <2> HIDE DEF a
    <2> QED  BY <2>1, <1>1
  <1>4. b \in Seq(D) /\ Len(b) = n /\ \A k \in 1..n : b[k] = s[m + k]
    <2>1. \A k \in (m + 1)..(p - 1) : s[k] \in D  BY <1>1
    <2>2. /\ b \in Seq(D) /\ Len(b) = (IF m + 1 <= p - 1 THEN (p - 1) - (m + 1) + 1 ELSE 0)
          /\ \A k \in 1..((p - 1) - (m + 1) + 1) : b[k] = s[(m + 1) + k - 1]
      BY <1>1, <2>1, SubSeqProperties
    <2> HIDE DEF b
    <2> QED  BY <2>2, <1>1
  <1> HIDE DEF a, b
  <1>5. /\ c \in Seq(D) /\ Len(c) = n + 1 /\ c[n + 1] = s[p]
        /\ \A k \in 1..n : c[k] = b[k]
    <2>1. s[p] \in D  BY <1>1
    <2> QED  BY <1>4, <2>1, AppendProperties
  <1> HIDE DEF c
  <1>6. \A k \in 1..(n + 1) : a[k] = c[k]
    <2>1. \A k \in 1..(n + 1) : k \in 1..n \/ (k = n + 1 /\ m + k = p)  BY <1>1
    <2> QED  BY <2>1, <1>3, <1>4, <1>5
  <1>7. a = c  BY <1>3, <1>5, <1>6, SeqEqual
  <1> QED  BY <1>7 DEF a, c, b

LEMMA CopyCellStutters ==
  ASSUME IInv, IInv', Contract, CopyCell
  PROVE  UNCHANGED Abstract!vars /\ Contract'
  <1> DEFINE r == call.result
             C == Contents(var[call.v])
             R == Contents(r)
             c == data[call.cur]
  <1>1. /\ call.at = "copy" /\ call.cur # NULL /\ ~Exhausted(r)
        /\ data' = [data EXCEPT ![NewCell] = c]
        /\ spine' = [spine EXCEPT ![r] = Append(spine[r], NewCell)]
        /\ call' = [call EXCEPT !.prev = NewCell, !.cur = next[call.cur]]
        /\ UNCHANGED var
    BY DEF CopyCell
  <1>2. NewCell \in Cells \ heap  BY <1>1, FreshFacts
  <1>3. /\ call \in Calls /\ call.v \in Vars /\ var[call.v] # NULL
        /\ Source \in Seq(Cells) /\ Len(Source) \in Nat
        /\ \A k \in 1..Len(Source) : Source[k] \in Cells /\ next[Source[k]] = Nth(Source, k + 1)
        /\ r # NULL /\ r \in Heads /\ \A u \in Vars : var[u] # r
        /\ Built \in Seq(Cells) /\ Len(Built) \in Nat /\ Len(Built) > 0
    BY <1>1, CopyingFacts
  <1>4. /\ call'.fn = call.fn /\ call'.v = call.v /\ call'.w = call.w /\ call'.x = call.x
        /\ call'.n = call.n /\ call'.d = call.d /\ call'.old = call.old /\ call'.at = "copy"
        /\ call'.result = r /\ call'.cur = next[call.cur]
    BY <1>1, <1>3 DEF Calls
  <1>5. Copied  BY <1>1 DEF Contract
  <1>6. PICK p \in 2..(Len(Source) + 1) :
          call.cur = Nth(Source, p) /\ R = SubSeq(C, call.n + 1, p - 1)
    BY <1>5 DEF Copied
  <1>7. p \in 1..Len(Source) /\ call.cur = Source[p] /\ next[call.cur] = Nth(Source, p + 1)
    <2>1. p \in 1..Len(Source) /\ call.cur = Source[p]  BY <1>1, <1>6 DEF Nth
    <2> QED  BY <2>1, <1>3
  <1>8. /\ C \in Seq(Values) /\ Len(C) = Len(Source)
        /\ \A k \in 1..Len(Source) : C[k] = data[Source[k]]
    BY <1>3, ContentsFacts, ListOfIs DEF Source
  <1>9. C[p] = c /\ c \in Values
    <2>1. C[p] = c  BY <1>7, <1>8
    <2> QED  BY <2>1, <1>7, <1>8, LenProperties
  <1>10. spine \in [Heads -> Seq(Cells) \cup {NULL}] /\ var \in [Vars -> Heads \cup {NULL}]
    BY DEF IInv, Heap, Fields
  <1>11. ASSUME NEW u \in Vars PROVE Kept(var[u])
    <2>1. var[u] # NULL => spine'[var[u]] = spine[var[u]]  BY <1>1, <1>3, <1>10
    <2> QED  BY <2>1, <1>1, <1>2, OthersKept
  <1>12. \A u \in Vars : ListOf(u)' = ListOf(u)  BY <1>1, <1>4, <1>11, KeptList
  <1>13. UNCHANGED Abstract!vars  BY <1>4, <1>12, AskedSame, Stutters
  <1>14. Contents(var[call.v])' = C
    <2>1. ContentsOf(var[call.v], spine', data') = ContentsOf(var[call.v], spine, data)
      BY <1>3, <1>11, ContentsSame DEF Kept
    <2> QED  BY <2>1, <1>1, <1>4, ContentsNext, ListOfIs
  <1>15. Contents(call.result)' = Append(R, c)
    <2>1. spine'[r] = Insert(spine[r], Len(spine[r]), NewCell)
      BY <1>1, <1>2, <1>3, <1>10, AppendIsInsert DEF Built
    <2>2. ContentsOf(r, spine', data') = Append(ContentsOf(r, spine, data), c)
      BY <2>1, <1>1, <1>2, <1>3, <1>4, <1>9, AppendedContents
    <2> QED  BY <2>2, <1>4, ContentsNext, ListOfIs
  <1>16. call.n \in Nat /\ call.n < p
    <2>1. call.n \in Nat  BY <1>3, CallFacts
    <2>2. Len(R) > 0  BY <1>3, ContentsFacts, ListOfIs DEF Built
    <2>3. SUFFICES ASSUME p - 1 < call.n + 1 PROVE FALSE  BY <2>1, <1>7
    <2>4. R = <<>>  BY <2>1, <2>3, <1>6, <1>7, SubSeqEmpty
    <2> QED  BY <2>2, <2>4
  <1> HIDE DEF C, R, c
  <1>17. Append(R, c) = SubSeq(C, call.n + 1, p)
    <2>1. p \in 1..Len(C)  BY <1>7, <1>8
    <2> QED  BY <2>1, <1>6, <1>8, <1>9, <1>16, LongerPart
  <1>18. Source' = Source  BY <1>1, <1>3, <1>4, <1>10 DEF Source
  <1>19. Copied'
    <2> DEFINE q == p + 1
    <2>1. q \in 2..(Len(Source') + 1) /\ q - 1 = p  BY <1>7, <1>3, <1>18
    <2>2. call'.cur = Nth(Source', q)  BY <1>4, <1>7, <1>18
    <2>3. Contents(call.result)' = SubSeq(Contents(var[call.v])', call'.n + 1, q - 1)
      BY <2>1, <1>4, <1>14, <1>15, <1>17
    <2> HIDE DEF q
    <2> QED  BY <2>1, <2>2, <2>3, <1>1, <1>4, <1>5 DEF Copied
  <1> QED  BY <1>4, <1>13, <1>19 DEF Contract

-----------------------------------------------------------------------------
\* A call returns.

LEMMA AnswerIs ==
  ASSUME call.fn # "none", call' = Idle,
         Abstract!Effect(call.fn, call.v, call.w, call.x, call.n, call.d)
  PROVE  Abstract!Answer /\ Contract'
  <1>1. Asked # Abstract!Nothing  BY AskedIs DEF Abstract!Nothing
  <1>2. Asked' = Abstract!Nothing  BY AskedIdle
  <1>3. Abstract!Effect(Asked.fn, Asked.v, Asked.w, Asked.x, Asked.n, Asked.d)
    BY AskedIs
  <1>4. Contract'  BY DEF Idle, Contract
  <1> QED  BY <1>1, <1>2, <1>3, <1>4 DEF Abstract!Answer

\* When the list of v becomes s, and no other one changes.
LEMMA EffectIs ==
  ASSUME NEW v \in Vars, NEW s, \A u \in Vars : ListOf(u)' = IF u = v THEN s ELSE ListOf(u)
  PROVE  /\ \A w, x, n, d : v \in Vars /\ s = SubSeq(ListOf(v), 1, n + 1) =>
              Abstract!Effect("truncate", v, w, x, n, d)
         /\ \A w, n, d : \A a \in Vars : s = SubSeq(ListOf(a), n + 1, Len(ListOf(a))) =>
              Abstract!Effect("copyTail", a, w, v, n, d)
         /\ \A w, n, d : \A a \in Vars : s = ListOf(a) => Abstract!Effect("copy", a, w, v, n, d)
         /\ \A n, d : \A a, b \in Vars : s = Abstract!Merged(ListOf(a), ListOf(b)) =>
              Abstract!Effect("union", a, b, v, n, d)
         /\ \A n, d : \A a, b \in Vars : s = Abstract!Minus(ListOf(a), ListOf(b)) =>
              Abstract!Effect("difference", a, b, v, n, d)
         /\ \A x, n, d : \A b \in Vars : s = Abstract!Merged(ListOf(v), ListOf(b)) =>
              Abstract!Effect("concatUnique", v, b, x, n, d)
         /\ \A w, x, n, d : s = Abstract!RemoveFirst(ListOf(v), d) =>
              Abstract!Effect("delete", v, w, x, n, d)
  <1>1. Abstract!Becomes(v, s)  BY Becoming
  <1> QED  BY <1>1 DEF Abstract!Effect

\* The cells a foreach goes through, in the next state.
LEMMA OverNext ==
  ASSUME call'.at = "each"
  PROVE  /\ Over' = LET l == IF call'.fn # "difference" THEN var'[call'.w] ELSE var'[call'.v]
                    IN  IF l = NULL THEN <<>> ELSE spine'[l]
         /\ Rounds' = IF call'.fn = "difference"
                      THEN Abstract!Sifting(ListOf(call.v)', ListOf(call.w)')
                      ELSE Abstract!Merging(ListOf(call.v)', ListOf(call.w)')
  BY DEF Over, Iterated, Rounds

LEMMA CopyCompleted ==
  ASSUME IInv, Contract, call.at = "copy", call.cur = NULL
  PROVE  /\ Contents(call.result) = SubSeq(ListOf(call.v), call.n + 1, Len(ListOf(call.v)))
         /\ call.n = 0 => Contents(call.result) = ListOf(call.v)
         /\ ListOf(call.v) \in Seq(Values)
         /\ call.fn = "difference" => call.w \in Vars /\ ListOf(call.w) = <<>>
         /\ call.fn # "copyTail" => call.n = 0
  <1> DEFINE C == Contents(var[call.v])
             R == Contents(call.result)
  <1>1. /\ Copying /\ call.v \in Vars /\ var[call.v] # NULL
        /\ Len(Source) \in Nat /\ NULL \notin Cells
        /\ \A k \in 1..Len(Source) : Source[k] \in Cells
    BY CopyingFacts
  <1>2. call.fn # "concatUnique"  BY <1>1 DEF Copying
  <1>3. Copied  BY DEF Contract
  <1>4. PICK p \in 2..(Len(Source) + 1) :
          call.cur = Nth(Source, p) /\ R = SubSeq(C, call.n + 1, p - 1)
    BY <1>3 DEF Copied
  <1>5. p = Len(Source) + 1
    <2>1. p \notin 1..Len(Source)  BY <1>1, <1>4 DEF Nth
    <2> QED  BY <2>1, <1>1
  <1>6. ListOf(call.v) = C  BY <1>2 DEF ListOf
  <1>7. C \in Seq(Values) /\ Len(C) = Len(Source)
    BY <1>1, ContentsFacts, ListOfIs DEF Source
  <1>8. call.fn = "difference" => call.w \in Vars /\ ListOf(call.w) = <<>>
    BY <1>2, <1>3 DEF Copied, ListOf, Contents
  <1>9. call.fn # "copyTail" => call.n = 0  BY <1>3 DEF Copied
  <1> HIDE DEF C, R
  <1>10. R = SubSeq(C, call.n + 1, Len(C))
    <2>1. p - 1 = Len(C)  BY <1>1, <1>5, <1>7
    <2> QED  BY <2>1, <1>4
  <1>11. call.n = 0 => R = C
    <2>1. SubSeq(C, 1, Len(C)) = C  BY <1>7, SubSeqFull
    <2>2. 0 + 1 = 1  OBVIOUS
    <2> QED  BY <2>1, <2>2, <1>10
  <1> QED  BY <1>6, <1>7, <1>8, <1>9, <1>10, <1>11 DEF R

\* list_union goes on with a copy of list1.
LEMMA UnionGoesOn ==
  ASSUME IInv, Contract, CopyEnds, call.fn = "union"
  PROVE  UNCHANGED Abstract!vars /\ Contract'
  <1>1. /\ call.at = "copy" /\ call.cur = NULL /\ UNCHANGED <<data, head, spine, var>>
        /\ call' = [call EXCEPT !.at = "each", !.prev = NULL, !.cur = list_head(var[call.w])]
    BY DEF CopyEnds
  <1>2. Copying /\ call \in Calls /\ call.v \in Vars
    BY <1>1, CopyingFacts
  <1>3. call.w \in Vars  BY <1>2 DEF Copying
  <1>4. /\ call'.fn = call.fn /\ call'.v = call.v /\ call'.w = call.w /\ call'.x = call.x
        /\ call'.n = call.n /\ call'.d = call.d /\ call'.old = call.old /\ call'.at = "each"
        /\ call'.result = call.result /\ call'.cur = list_head(var[call.w])
    BY <1>1, <1>2 DEF Calls
  <1>5. /\ UNCHANGED Abstract!vars /\ \A u : ListOf(u)' = ListOf(u)
        /\ \A l : Contents(l) = ContentsOf(l, spine', data')
    BY <1>1, <1>4, RoundStutters
  <1>6. /\ call.n = 0 /\ Contents(call.result) = ListOf(call.v)
        /\ ListOf(call.v) \in Seq(Values)
    BY <1>1, CopyCompleted
  <1>7. ListOf(call.w) = Contents(var[call.w])  BY DEF ListOf
  <1>8. ListOf(call.w) \in Seq(Values)  BY <1>3, <1>7, ContentsFacts, ListOfIs
  <1>9. ListOf(call.w)' = Contents(var[call.w])'
    BY <1>1, <1>4, <1>5, <1>7, ContentsNext DEF ListOf
  <1>10. Contents(call.result)' = Rounds'[1 - 1]
    <2>1. Contents(call.result)' = ListOf(call.v)  BY <1>4, <1>5, <1>6, ContentsNext
    <2>2. Rounds' = Abstract!Merging(ListOf(call.v), ListOf(call.w))
      <3>1. ListOf(call.v)' = ListOf(call.v) /\ ListOf(call.w)' = ListOf(call.w)
        BY <1>1, <1>4 DEF ListOf, Contents
      <3> QED  BY <3>1, <1>4, OverNext
    <2>3. Abstract!Merging(ListOf(call.v), ListOf(call.w))[0] = ListOf(call.v)
      BY <1>6, <1>8, MergingIs
    <2> QED  BY <2>1, <2>2, <2>3
  <1>11. 1 \in 1..(Len(Over') + 1) /\ call'.cur = Nth(Over', 1)
    <2>1. Over' = IF var[call.w] = NULL THEN <<>> ELSE spine[var[call.w]]
      BY <1>1, <1>4, OverNext
    <2>2. CASE var[call.w] = NULL
      <3>1. Over' = <<>> /\ call'.cur = NULL  BY <2>1, <2>2, <1>4 DEF list_head
      <3> QED  BY <3>1 DEF Nth
    <2>3. CASE var[call.w] # NULL
      <3>1. /\ Len(spine[var[call.w]]) > 0 /\ Len(spine[var[call.w]]) \in Nat
            /\ head[var[call.w]] = spine[var[call.w]][1]
        BY <2>3, <1>3, VarFacts, ListFacts
      <3> QED  BY <3>1, <2>1, <2>3, <1>4 DEF Nth, list_head
    <2> QED  BY <2>2, <2>3
  <1>12. Gathered'  BY <1>9, <1>10, <1>11 DEF Gathered
  <1> QED  BY <1>4, <1>5, <1>12 DEF Contract

LEMMA CopyReturns ==
  ASSUME IInv, Contract, CopyEnds, call.fn # "union"
  PROVE  Abstract!Answer /\ Contract'
  <1> DEFINE x == call.x
             R == Contents(call.result)
  <1>1. /\ call.at = "copy" /\ call.cur = NULL /\ UNCHANGED <<data, spine>>
        /\ Assign(x, call.result) /\ call' = Idle
    BY DEF CopyEnds, Return
  <1>2. Copying /\ call.v \in Vars /\ x \in Vars
    BY <1>1, CopyingFacts
  <1>3. call.fn \in {"copyTail", "copy", "difference"}  BY <1>2 DEF Copying
  <1>4. /\ R = SubSeq(ListOf(call.v), call.n + 1, Len(ListOf(call.v)))
        /\ call.n = 0 => R = ListOf(call.v)
        /\ ListOf(call.v) \in Seq(Values)
        /\ call.fn = "difference" => call.w \in Vars /\ ListOf(call.w) = <<>>
        /\ call.fn # "copyTail" => call.n = 0
    BY <1>1, CopyCompleted
  <1>5. ASSUME NEW u \in Vars PROVE ListOf(u)' = IF u = x THEN R ELSE ListOf(u)
    <2>1. var \in [Vars -> Heads \cup {NULL}]  BY DEF IInv, Fields
    <2>2. var'[u] = IF u = x THEN call.result ELSE var[u]  BY <2>1, <1>1, <1>2 DEF Assign
    <2>3. call'.fn # "concatUnique" /\ call.fn # "concatUnique"  BY <1>1, <1>3 DEF Idle
    <2>4. ListOf(u)' = ContentsOf(var'[u], spine, data) /\ ListOf(u) = ContentsOf(var[u], spine, data)
      BY <2>3, <1>1, ListOfIs
    <2> QED  BY <2>2, <2>4, ListOfIs
  <1> HIDE DEF R, x
  <1>6. Abstract!Effect(call.fn, call.v, call.w, x, call.n, call.d)
    <2>1. CASE call.fn = "copyTail"  BY <2>1, <1>2, <1>4, <1>5, EffectIs
    <2>2. CASE call.fn = "copy"  BY <2>2, <1>2, <1>4, <1>5, EffectIs
    <2>3. CASE call.fn = "difference"
      <3>1. R = Abstract!Minus(ListOf(call.v), ListOf(call.w))
        BY <2>3, <1>4, SiftingAll
      <3> QED  BY <2>3, <3>1, <1>2, <1>4, <1>5, EffectIs
    <2> QED  BY <2>1, <2>2, <2>3, <1>3
  <1>7. call.fn # "none"  BY <1>3
  <1> QED  BY <1>1, <1>6, <1>7, AnswerIs DEF x

-----------------------------------------------------------------------------
\* The loops over the cells of one list that search another one.

\* foreach finds what is in the list, and nothing else.
LEMMA VisitedIs ==
  ASSUME IInv, NEW l, l = NULL \/ l = call.result \/ \E v \in Vars : l = var[v],
         l # NULL => head[l] = spine[l][1] /\ Len(spine[l]) > 0, NEW d
  PROVE  list_member(l, d) <=> Abstract!Contains(Contents(l), d)
  <1> DEFINE C == Contents(l)
             s == spine[l]
  <1>1. CASE l = NULL
    <2>1. ASSUME NEW c \in Visited(l) PROVE FALSE
      <3> DEFINE S == {}
      <3>1. {list_head(l)} \cup {next[b] : b \in S} \subseteq S \cup {NULL} /\ S \in SUBSET Cells
        BY <1>1 DEF list_head
      <3>2. c \in S  BY <3>1 DEF Visited
      <3> QED  BY <3>2
    <2>2. C = <<>>  BY <1>1 DEF Contents
    <2>3. ~ Abstract!Contains(<<>>, d)  BY DEF Abstract!Contains
    <2> QED  BY <2>1, <2>2, <2>3 DEF list_member
  <1>2. CASE l # NULL
    <2>1. /\ s \in Seq(Cells) /\ Members(s) \subseteq Cells /\ Len(s) \in Nat /\ NULL \notin Cells
          /\ \A k \in 1..Len(s) : s[k] \in Cells /\ next[s[k]] = Nth(s, k + 1)
      BY <1>2, ListFacts
    <2>2. /\ C \in Seq(Values) /\ Len(C) = Len(s) /\ \A k \in 1..Len(s) : C[k] = data[s[k]]
      BY <1>2, ContentsFacts, ListOfIs
    <2>3. \A k \in 1..Len(s) : s[k] \in Visited(l)  BY <1>2, AllVisited
    <2>4. ASSUME NEW c \in Visited(l) PROVE \E k \in 1..Len(s) : c = s[k]
      <3> DEFINE S == Members(s)
      <3>1. S \subseteq Cells /\ \A b \in S : \E k \in 1..Len(s) : b = s[k]
        BY <2>1, MemberFacts
      <3>2. \A k \in 1..Len(s) : s[k] \in S  BY <2>1, MemberFacts
      <3>3. list_head(l) \in S
        <4>1. 1 \in 1..Len(s)  BY <1>2, <2>1
        <4> QED  BY <4>1, <1>2, <3>2 DEF list_head
      <3>4. ASSUME NEW b \in S PROVE next[b] \in S \cup {NULL}
        <4>1. PICK k \in 1..Len(s) : b = s[k]  BY <3>1
        <4>2. next[b] = Nth(s, k + 1)  BY <4>1, <2>1
        <4> QED  BY <4>2, <3>2 DEF Nth
      <3> HIDE DEF S
      <3>5. {list_head(l)} \cup {next[b] : b \in S} \subseteq S \cup {NULL} /\ S \in SUBSET Cells
        BY <3>1, <3>3, <3>4
      <3>6. c \in S  BY <3>5 DEF Visited
      <3> QED  BY <3>1, <3>6
    <2>5. list_member(l, d) <=> \E k \in 1..Len(s) : data[s[k]] = d
      BY <2>3, <2>4 DEF list_member
    <2>6. Abstract!Contains(C, d) <=> \E k \in 1..Len(s) : C[k] = d
      BY <2>2 DEF Abstract!Contains
    <2> QED  BY <2>2, <2>5, <2>6
  <1> QED  BY <1>1, <1>2

\* Where a foreach is, and what it has gathered.
LEMMA GatheredFacts ==
  ASSUME IInv, Contract, call.at = "each"
  PROVE  /\ call \in Calls /\ call.v \in Vars /\ call.w \in Vars /\ call.x \in Vars
         /\ call.fn \in {"union", "difference", "concatUnique"}
         /\ ListOf(call.w) = Contents(var[call.w])
         /\ ListOf(call.v) \in Seq(Values) /\ ListOf(call.w) \in Seq(Values)
         /\ Contents(call.result) \in Seq(Values)
         /\ Iterated = (IF call.fn # "difference" THEN var[call.w] ELSE var[call.v])
         /\ Over \in Seq(Cells) /\ Len(Over) \in Nat
         /\ Contents(Iterated) \in Seq(Values) /\ Len(Contents(Iterated)) = Len(Over)
         /\ Contents(Iterated) = ListOf(IF call.fn # "difference" THEN call.w ELSE call.v)
         /\ \A k \in 1..Len(Over) : /\ Over[k] \in Cells /\ Contents(Iterated)[k] = data[Over[k]]
                                    /\ next[Over[k]] = Nth(Over, k + 1)
         /\ \E p \in 1..(Len(Over) + 1) :
              call.cur = Nth(Over, p) /\ Contents(call.result) = Rounds[p - 1]
  <1> DEFINE I == Iterated
             C == Contents(I)
             u == IF call.fn # "difference" THEN call.w ELSE call.v
  <1>1. /\ Visiting /\ call \in Calls /\ call.v \in Vars /\ call.w \in Vars /\ call.x \in Vars
    BY VisitingFacts
  <1>2. call.fn \in {"union", "difference", "concatUnique"}  BY <1>1 DEF Visiting
  <1>3. Gathered  BY DEF Contract
  <1>4. ListOf(call.w) = Contents(var[call.w])  BY <1>3 DEF Gathered
  <1>5. I = var[u] /\ u \in Vars  BY <1>1 DEF Iterated
  <1>6. ListOf(u) = C
    <2>1. CASE call.fn = "difference"  BY <2>1, <1>5 DEF ListOf
    <2>2. CASE call.fn # "difference"  BY <2>2, <1>4, <1>5
    <2> QED  BY <2>1, <2>2
  <1>7. ListOf(call.v) \in Seq(Values) /\ ListOf(call.w) \in Seq(Values)
    <2>1. call.old \in Seq(Values)  BY <1>1, CallFacts DEF Values
    <2>2. ContentsOf(var[call.v], spine, data) \in Seq(Values)
          /\ ContentsOf(var[call.w], spine, data) \in Seq(Values)
      BY <1>1, ContentsFacts
    <2> QED  BY <2>1, <2>2, <1>1, ListOfIs
  <1>8. Contents(call.result) \in Seq(Values) /\ C \in Seq(Values)
    BY <1>5, ContentsFacts, ListOfIs
  <1>9. /\ Over \in Seq(Cells) /\ Len(Over) \in Nat /\ Len(C) = Len(Over)
        /\ \A k \in 1..Len(Over) : /\ Over[k] \in Cells /\ C[k] = data[Over[k]]
                                   /\ next[Over[k]] = Nth(Over, k + 1)
    <2>1. CASE I = NULL
      <3>1. Over = <<>> /\ C = <<>>  BY <2>1 DEF Over, Contents
      <3> QED  BY <3>1, EmptySeq
    <2>2. CASE I # NULL
      <3>1. Over = spine[I]  BY <2>2 DEF Over
      <3>2. /\ spine[I] \in Seq(Cells) /\ Len(spine[I]) \in Nat
            /\ \A k \in 1..Len(spine[I]) : /\ spine[I][k] \in Cells
                                           /\ next[spine[I][k]] = Nth(spine[I], k + 1)
        BY <2>2, <1>5, ListFacts
      <3>3. Len(C) = Len(spine[I]) /\ \A k \in 1..Len(spine[I]) : C[k] = data[spine[I][k]]
        BY <2>2, <1>5, ContentsFacts, ListOfIs
      <3> QED  BY <3>1, <3>2, <3>3
    <2> QED  BY <2>1, <2>2
  <1>10. I = (IF call.fn # "difference" THEN var[call.w] ELSE var[call.v])  BY <1>5
  <1> HIDE DEF C, I
  <1>11. \E p \in 1..(Len(Over) + 1) :
          call.cur = Nth(Over, p) /\ Contents(call.result) = Rounds[p - 1]
    BY <1>3 DEF Gathered
  <1> QED  BY <1>1, <1>2, <1>4, <1>6, <1>7, <1>8, <1>9, <1>10, <1>11 DEF C, I

\* One more round of the abstract loop.
LEMMA NextRound ==
  ASSUME IInv, Contract, call.at = "each", NEW p \in 1..Len(Over),
         Contents(call.result) = Rounds[p - 1]
  PROVE  Rounds[p] = LET c == data[Over[p]] IN
                     IF Abstract!Contains(Contents(Searched), c) THEN Contents(call.result)
                     ELSE Append(Contents(call.result), c)
  <1> DEFINE c == data[Over[p]]
             R == Contents(call.result)
  <1>1. /\ call.fn \in {"union", "difference", "concatUnique"} /\ call.w \in Vars
        /\ ListOf(call.w) = Contents(var[call.w])
        /\ ListOf(call.v) \in Seq(Values) /\ ListOf(call.w) \in Seq(Values)
        /\ Len(Contents(Iterated)) = Len(Over) /\ Contents(Iterated)[p] = c
        /\ Contents(Iterated) = ListOf(IF call.fn # "difference" THEN call.w ELSE call.v)
    BY GatheredFacts
  <1> HIDE DEF c, R
  <1>2. CASE call.fn = "difference"
    <2> DEFINE s == ListOf(call.v)
               t == ListOf(call.w)
    <2>1. s \in Seq(Values) /\ p \in 1..Len(s) /\ s[p] = c  BY <1>1, <1>2
    <2> HIDE DEF s, t
    <2>2. Abstract!Sifting(s, t)[p]
            = IF Abstract!Contains(t, s[p]) THEN Abstract!Sifting(s, t)[p - 1]
              ELSE Append(Abstract!Sifting(s, t)[p - 1], s[p])
      BY <2>1, SiftingIs
    <2>3. Rounds = Abstract!Sifting(s, t)  BY <1>2 DEF Rounds, s, t
    <2>4. Contents(Searched) = t  BY <1>1, <1>2 DEF Searched, t
    <2> QED  BY <2>1, <2>2, <2>3, <2>4 DEF c, R
  <1>3. CASE call.fn # "difference"
    <2> DEFINE s == ListOf(call.v)
               t == ListOf(call.w)
    <2>1. s \in Seq(Values) /\ t \in Seq(Values) /\ p \in 1..Len(t) /\ t[p] = c
      BY <1>1, <1>3
    <2> HIDE DEF s, t
    <2>2. Abstract!Merging(s, t)[p] = Abstract!AddUnique(Abstract!Merging(s, t)[p - 1], t[p])
      BY <2>1, MergingIs
    <2>3. Rounds = Abstract!Merging(s, t)  BY <1>3 DEF Rounds, s, t
    <2>4. Searched = call.result  BY <1>3 DEF Searched
    <2> QED  BY <2>1, <2>2, <2>3, <2>4 DEF c, R, Abstract!AddUnique
  <1> QED  BY <1>2, <1>3

LEMMA SearchedReady ==
  ASSUME IInv, call.at = "each"
  PROVE  /\ Searched = NULL \/ Searched = call.result \/ \E v \in Vars : Searched = var[v]
         /\ Searched # NULL => head[Searched] = spine[Searched][1] /\ Len(spine[Searched]) > 0
  <1>1. Visiting /\ call.w \in Vars  BY VisitingFacts
  <1>2. call.result # NULL => head[call.result] = Built[1] /\ Len(Built) > 0
    BY <1>1 DEF Visiting, Header
  <1>3. var[call.w] # NULL =>
          head[var[call.w]] = spine[var[call.w]][1] /\ Len(spine[var[call.w]]) > 0
    BY <1>1, VarFacts
  <1> QED  BY <1>1, <1>2, <1>3 DEF Searched, Built

LEMMA EachFoundStutters ==
  ASSUME IInv, Contract, EachFound
  PROVE  UNCHANGED Abstract!vars /\ Contract'
  <1> DEFINE c == data[call.cur]
  <1>1. /\ call.at = "each" /\ call.cur # NULL /\ list_member(Searched, c)
        /\ call' = [call EXCEPT !.cur = next[call.cur]] /\ UNCHANGED <<data, spine, var>>
    BY DEF EachFound, heapVars, cellVars
  <1>2. /\ call \in Calls /\ ListOf(call.w) = Contents(var[call.w])
        /\ Iterated = (IF call.fn # "difference" THEN var[call.w] ELSE var[call.v])
        /\ Len(Over) \in Nat /\ \A k \in 1..Len(Over) : next[Over[k]] = Nth(Over, k + 1)
    BY <1>1, GatheredFacts
  <1>3. PICK p \in 1..(Len(Over) + 1) :
          call.cur = Nth(Over, p) /\ Contents(call.result) = Rounds[p - 1]
    BY <1>1, GatheredFacts
  <1>4. p \in 1..Len(Over) /\ call.cur = Over[p]  BY <1>1, <1>3 DEF Nth
  <1>5. /\ call'.fn = call.fn /\ call'.v = call.v /\ call'.w = call.w /\ call'.x = call.x
        /\ call'.n = call.n /\ call'.d = call.d /\ call'.old = call.old /\ call'.at = "each"
        /\ call'.result = call.result /\ call'.cur = next[call.cur]
    BY <1>1, <1>2 DEF Calls
  <1>6. UNCHANGED Abstract!vars /\ \A l : Contents(l) = ContentsOf(l, spine', data')
    BY <1>1, <1>5, RoundStutters
  <1>7. /\ ListOf(call.v)' = ListOf(call.v) /\ ListOf(call.w)' = ListOf(call.w)
        /\ Contents(var[call.w])' = Contents(var[call.w])
        /\ Contents(call.result)' = Contents(call.result)
    BY <1>1, <1>5 DEF ListOf, Contents
  <1>8. Over' = Over /\ Rounds' = Rounds
    <2>1. Over' = Over  BY <1>1, <1>2, <1>5, OverNext DEF Over
    <2>2. Rounds' = Rounds  BY <1>5, <1>7, OverNext DEF Rounds
    <2> QED  BY <2>1, <2>2
  <1>9. Rounds[p] = Contents(call.result)
    <2>1. Abstract!Contains(Contents(Searched), c)
      BY <1>1, SearchedReady, VisitedIs
    <2> QED  BY <2>1, <1>1, <1>3, <1>4, NextRound
  <1>10. Gathered'
    <2> DEFINE q == p + 1
    <2>1. q \in 1..(Len(Over') + 1) /\ q - 1 = p  BY <1>2, <1>4, <1>8
    <2>2. call'.cur = Nth(Over', q)  BY <1>2, <1>4, <1>5, <1>8
    <2>3. Contents(call.result)' = Rounds'[q - 1]  BY <2>1, <1>7, <1>8, <1>9
    <2>4. ListOf(call.w)' = Contents(var[call.w])'  BY <1>2, <1>7
    <2> HIDE DEF q
    <2> QED  BY <2>1, <2>2, <2>3, <2>4 DEF Gathered
  <1> QED  BY <1>5, <1>6, <1>10 DEF Contract

\* What is appended to the result of a loop.
LEMMA ResultGrows ==
  ASSUME IInv, IInv', EachMissing
  PROVE  LET c == data[call.cur] IN
         /\ data' = [data EXCEPT ![NewCell] = c] /\ NewCell \in Cells \ heap
         /\ \A u \in Vars : var[u] # NULL /\ var[u] # call.result => spine'[var[u]] = spine[var[u]]
         /\ Contents(call.result)' = Append(Contents(call.result), c)
  <1> DEFINE r == call.result
             c == data[call.cur]
  <1>1. /\ call.at = "each" /\ call.cur # NULL /\ AppendTo(r, c)
        /\ call' = [call EXCEPT !.result = Grown(r), !.cur = next'[call.cur]]
    BY DEF EachMissing, Missing
  <1>2. Visiting /\ call \in Calls  BY <1>1, VisitingFacts
  <1>3. call'.result = Grown(r)  BY <1>1, <1>2 DEF Calls
  <1>4. data \in [Cells -> Values] /\ call.cur \in Cells
    BY <1>1, <1>2, CallFacts DEF IInv, Fields, Values
  <1>5. c \in Values  BY <1>4
  <1>6. CASE r = NULL
    <2>1. NewList(c, 1)  BY <1>1, <1>6 DEF AppendTo
    <2>2. /\ NewHead # NULL /\ spine'[NewHead] = <<NewCell>> /\ NewCell \in Cells \ heap
          /\ \A u \in Vars : var[u] # NewHead
          /\ \A m \in Heads \ {NewHead} : spine'[m] = spine[m]
      <3> HIDE DEF c
      <3>1. c \in Data \cup {NULL} /\ 1 \in Nat \ {0}  BY <1>5 DEF Values
      <3> QED  BY <2>1, <3>1, NewListFacts
    <2>3. data' = [data EXCEPT ![NewCell] = c]  BY <2>1 DEF NewList
    <2>4. \A u \in Vars : var[u] # NULL => spine'[var[u]] = spine[var[u]]
      BY <2>2 DEF IInv, Fields
    <2>5. Contents(call.result)' = <<c>>
      <3>1. data'[NewCell] = c  BY <2>2, <2>3, NewDatum
      <3>2. ContentsOf(NewHead, spine', data') = <<data'[NewCell]>>  BY <2>2, NewContents
      <3>3. call'.result = NewHead  BY <1>3, <1>6 DEF Grown
      <3> QED  BY <3>1, <3>2, <3>3, ContentsNext
    <2>6. Contents(r) = <<>>  BY <1>6 DEF Contents
    <2>7. Append(<<>>, c) = <<c>>  BY <1>5
    <2> QED  BY <2>2, <2>3, <2>4, <2>5, <2>6, <2>7
  <1>7. CASE r # NULL
    <2>1. NewTailCell(r, c) /\ ~Exhausted(r)
      BY <1>1, <1>7 DEF AppendTo, NewTailCell, AddCell
    <2>2. Header(spine[r], r, length, head, tail)  BY <1>2, <1>7 DEF Visiting, Built
    <2>3. Grows(r) /\ spine'[r] = Insert(spine[r], Len(spine[r]), NewCell)
      <3> HIDE DEF c
      <3>1. c \in Data \cup {NULL}  BY <1>5 DEF Values
      <3> QED  BY <2>1, <2>2, <3>1, <1>7, NewTailCellGrows
    <2>4. data' = [data EXCEPT ![NewCell] = c]  BY <2>1 DEF NewTailCell, AddCell
    <2>5. NewCell \in Cells \ heap  BY <2>1, FreshFacts
    <2>6. \A u \in Vars : var[u] # NULL /\ var[u] # r => spine'[var[u]] = spine[var[u]]
      BY <2>3 DEF Grows, IInv, Fields
    <2>7. call'.result = r  BY <1>3, <1>7 DEF Grown
    <2>8. ContentsOf(r, spine', data') = Append(ContentsOf(r, spine, data), c)
      BY <2>3, <2>4, <2>5, <2>7, <1>5, <1>7, AppendedContents
    <2> QED  BY <2>4, <2>5, <2>6, <2>7, <2>8, ContentsNext, ListOfIs
  <1> QED  BY <1>6, <1>7

LEMMA EachMissingStutters ==
  ASSUME IInv, IInv', Contract, EachMissing
  PROVE  UNCHANGED Abstract!vars /\ Contract'
  <1> DEFINE r == call.result
             c == data[call.cur]
             I == Iterated
  <1>1. /\ call.at = "each" /\ call.cur # NULL /\ ~list_member(Searched, c)
        /\ call' = [call EXCEPT !.result = Grown(r), !.cur = next'[call.cur]]
        /\ UNCHANGED var
    BY DEF EachMissing, Missing
  <1>2. /\ call \in Calls /\ call.v \in Vars /\ call.w \in Vars
        /\ call.fn \in {"union", "difference", "concatUnique"}
        /\ ListOf(call.w) = Contents(var[call.w])
        /\ I = (IF call.fn # "difference" THEN var[call.w] ELSE var[call.v])
        /\ Len(Over) \in Nat /\ Len(Contents(I)) = Len(Over)
        /\ \A k \in 1..Len(Over) : Contents(I)[k] = data[Over[k]]
    BY <1>1, GatheredFacts
  <1>3. PICK p \in 1..(Len(Over) + 1) :
          call.cur = Nth(Over, p) /\ Contents(call.result) = Rounds[p - 1]
    BY <1>1, GatheredFacts
  <1>4. p \in 1..Len(Over) /\ call.cur = Over[p]  BY <1>1, <1>3 DEF Nth
  <1>5. /\ call'.fn = call.fn /\ call'.v = call.v /\ call'.w = call.w /\ call'.x = call.x
        /\ call'.n = call.n /\ call'.d = call.d /\ call'.old = call.old /\ call'.at = "each"
        /\ call'.result = Grown(r) /\ call'.cur = next'[call.cur]
    BY <1>1, <1>2 DEF Calls
  <1>6. /\ data' = [data EXCEPT ![NewCell] = c] /\ NewCell \in Cells \ heap
        /\ \A u \in Vars : var[u] # NULL /\ var[u] # r => spine'[var[u]] = spine[var[u]]
        /\ Contents(call.result)' = Append(Contents(call.result), c)
    BY ResultGrows
  <1>7. Visiting  BY <1>1, VisitingFacts
  <1>8. ASSUME NEW u \in Vars PROVE ListOf(u)' = ListOf(u)
    <2>1. CASE var[u] # NULL /\ var[u] = r
      <3>1. call.fn = "concatUnique" /\ r = var[call.v]  BY <2>1, <1>7 DEF Visiting, Private
      <3>2. u = call.v  BY <2>1, <3>1, <1>2, VarFacts
      <3> QED  BY <3>1, <3>2, <1>5, ListOfIs
    <2>2. CASE ~ (var[u] # NULL /\ var[u] = r)
      <3>1. Kept(var[u])  BY <2>2, <1>6, OthersKept
      <3> QED  BY <3>1, <1>1, <1>5, KeptList
    <2> QED  BY <2>1, <2>2
  <1>9. UNCHANGED Abstract!vars  BY <1>5, <1>8, AskedSame, Stutters
  <1>10. ~ Abstract!Contains(Contents(Searched), c)
    BY <1>1, SearchedReady, VisitedIs
  <1>11. ~ (call.fn = "concatUnique" /\ call.v = call.w)
    <2>1. SUFFICES ASSUME call.fn = "concatUnique", call.v = call.w PROVE FALSE  OBVIOUS
    <2>2. I = var[call.v] /\ Searched = r  BY <2>1, <1>2 DEF Searched
    <2>3. I # NULL  BY <1>1, VisitingFacts
    <2>4. r = I  BY <2>1, <2>2, <2>3, <1>7 DEF Visiting
    <2>5. Contents(I)[p] = c /\ p \in 1..Len(Contents(I))  BY <1>2, <1>4
    <2>6. Abstract!Contains(Contents(I), c)  BY <2>5 DEF Abstract!Contains
    <2> QED  BY <2>2, <2>4, <2>6, <1>10
  <1>12. ListOf(call.w)' = Contents(var[call.w])'
    BY <1>5, <1>11 DEF ListOf
  <1>13. Over' = Over /\ Over = spine[I] /\ I # NULL /\ I = Iterated' /\ spine'[I] = Over
    <2>1. Iterated' = I /\ spine'[I] = spine[I]  BY OtherListGrows
    <2>2. I # NULL  BY <1>1, VisitingFacts
    <2> QED  BY <2>1, <2>2 DEF Over
  <1>14. Rounds' = Rounds
    <2>1. ListOf(call.v)' = ListOf(call.v) /\ ListOf(call.w)' = ListOf(call.w)
      <3>1. \A u : call'.v = u \/ call'.w = u => (ListOf(u))' = ListOf(u)
        BY <1>2, <1>5, <1>8
      <3> QED  BY <3>1, <1>2, <1>5, <1>8 DEF ListOf
    <2> QED  BY <2>1, <1>5, OverNext DEF Rounds
  <1>15. next'[call.cur] = Nth(Over, p + 1)
    <2>1. I \in Live'
      <3>1. \E u \in Vars : I = var[u]  BY <1>1, VisitingFacts
      <3> QED  BY <3>1, <1>1, <1>13, LiveDefNext
    <2>2. Heap(Live', heap', spine', next')  BY DEF IInv
    <2>3. Chained(spine'[I], next')  BY <2>1, <2>2, HeapFacts
    <2> QED  BY <2>3, <1>4, <1>13 DEF Chained
  <1>16. Rounds[p] = Append(Contents(call.result), c)
    BY <1>1, <1>3, <1>4, <1>10, NextRound
  <1>17. Gathered'
    <2> DEFINE q == p + 1
    <2>1. q \in 1..(Len(Over') + 1) /\ q - 1 = p  BY <1>2, <1>4, <1>13
    <2>2. call'.cur = Nth(Over', q)  BY <1>5, <1>13, <1>15
    <2>3. Contents(call.result)' = Rounds'[q - 1]  BY <2>1, <1>6, <1>14, <1>16
    <2> HIDE DEF q
    <2> QED  BY <2>1, <2>2, <2>3, <1>12 DEF Gathered
  <1> QED  BY <1>5, <1>9, <1>17 DEF Contract

LEMMA EachReturns ==
  ASSUME IInv, Contract, EachEnds
  PROVE  Abstract!Answer /\ Contract'
  <1> DEFINE x == call.x
             R == Contents(call.result)
  <1>1. /\ call.at = "each" /\ call.cur = NULL /\ UNCHANGED <<data, spine>>
        /\ Assign(x, call.result) /\ call' = Idle
    BY DEF EachEnds, Return, heapVars, cellVars
  <1>2. /\ call.v \in Vars /\ call.w \in Vars /\ x \in Vars
        /\ call.fn \in {"union", "difference", "concatUnique"}
        /\ Len(Over) \in Nat /\ \A k \in 1..Len(Over) : Over[k] \in Cells
        /\ Len(Over) = Len(ListOf(IF call.fn # "difference" THEN call.w ELSE call.v))
    BY <1>1, GatheredFacts
  <1>3. PICK p \in 1..(Len(Over) + 1) : call.cur = Nth(Over, p) /\ R = Rounds[p - 1]
    BY <1>1, GatheredFacts
  <1>4. p - 1 = Len(Over)
    <2>1. p \notin 1..Len(Over)  BY <1>1, <1>2, <1>3, PgListAssumption DEF Nth
    <2> QED  BY <2>1, <1>2
  <1>5. call.fn = "concatUnique" => x = call.v
    <2>1. Visiting  BY <1>1, VisitingFacts
    <2> QED  BY <2>1 DEF Visiting
  <1>6. ASSUME NEW u \in Vars PROVE ListOf(u)' = IF u = x THEN R ELSE ListOf(u)
    <2>1. var \in [Vars -> Heads \cup {NULL}]  BY DEF IInv, Fields
    <2>2. var'[u] = IF u = x THEN call.result ELSE var[u]  BY <2>1, <1>1, <1>2 DEF Assign
    <2>3. call'.fn # "concatUnique"  BY <1>1 DEF Idle
    <2>4. ListOf(u)' = ContentsOf(var'[u], spine, data)  BY <2>3, <1>1, ListOfIs
    <2>5. u # x => ListOf(u) = ContentsOf(var[u], spine, data)  BY <1>5, ListOfIs
    <2> QED  BY <2>2, <2>4, <2>5, ListOfIs
  <1> HIDE DEF R, x
  <1>7. Abstract!Effect(call.fn, call.v, call.w, x, call.n, call.d)
    <2>1. R = Rounds[Len(Over)]  BY <1>3, <1>4
    <2>2. CASE call.fn = "union"
      <3>1. R = Abstract!Merged(ListOf(call.v), ListOf(call.w))
        BY <2>1, <2>2, <1>2 DEF Rounds, Abstract!Merged
      <3> QED  BY <2>2, <3>1, <1>2, <1>6, EffectIs
    <2>3. CASE call.fn = "difference"
      <3>1. R = Abstract!Minus(ListOf(call.v), ListOf(call.w))
        BY <2>1, <2>3, <1>2 DEF Rounds, Abstract!Minus
      <3> QED  BY <2>3, <3>1, <1>2, <1>6, EffectIs
    <2>4. CASE call.fn = "concatUnique"
      <3>1. R = Abstract!Merged(ListOf(call.v), ListOf(call.w))
        BY <2>1, <2>4, <1>2 DEF Rounds, Abstract!Merged
      <3>2. x = call.v  BY <2>4, <1>5
      <3> QED  BY <2>4, <3>1, <3>2, <1>2, <1>6, EffectIs
    <2> QED  BY <2>2, <2>3, <2>4, <1>2
  <1>8. call.fn # "none"  BY <1>2
  <1> QED  BY <1>1, <1>7, <1>8, AnswerIs DEF x

-----------------------------------------------------------------------------
\* A cell is deleted.

LEMMA RemoveFirstIs ==
  ASSUME NEW D, NEW s \in Seq(D), NEW d
  PROVE  /\ \A k \in 0..(Len(s) - 1) :
              s[k + 1] = d /\ (\A j \in 1..k : s[j] # d) => Abstract!RemoveFirst(s, d) = Delete(s, k)
         /\ (\A j \in 1..Len(s) : s[j] # d) => Abstract!RemoveFirst(s, d) = s
  <1>1. Len(s) \in Nat  BY LenProperties
  <1>2. ASSUME NEW k \in 0..(Len(s) - 1), s[k + 1] = d, \A j \in 1..k : s[j] # d
        PROVE  Abstract!RemoveFirst(s, d) = Delete(s, k)
    <2> DEFINE S == {i \in 1..Len(s) : s[i] = d}
               m == CHOOSE x \in S : \A y \in S : x <= y
    <2>1. k + 1 \in S  BY <1>1, <1>2
    <2>2. \A y \in S : k + 1 <= y
      <3>1. ASSUME NEW y \in S, y < k + 1 PROVE FALSE
        <4>1. y \in 1..k  BY <3>1, <1>1
        <4> QED  BY <4>1, <1>2
      <3> QED  BY <3>1, <1>1
    <2>3. \A x \in S : (\A y \in S : x <= y) => x = k + 1
      <3>1. \A x \in S : x \in Int  OBVIOUS
      <3>2. k + 1 \in Int  BY <1>1
      <3> HIDE DEF S
      <3> QED  BY <2>1, <2>2, <3>1, <3>2
    <2>4. m = k + 1
      <3> HIDE DEF S
      <3> QED  BY <2>1, <2>2, <2>3
    <2>5. Abstract!RemoveFirst(s, d) = Abstract!RemoveAt(s, m)
      BY <2>1 DEF Abstract!RemoveFirst, Abstract!SelectInSeq, Abstract!Min
    <2> HIDE DEF m
    <2>6. m - 1 = k /\ m + 1 = k + 2  BY <2>4, <1>1
    <2> QED  BY <2>5, <2>6 DEF Abstract!RemoveAt, Delete
  <1>3. (\A j \in 1..Len(s) : s[j] # d) => Abstract!RemoveFirst(s, d) = s
    BY DEF Abstract!RemoveFirst
  <1> QED  BY <1>2, <1>3

LEMMA ShrunkContents ==
  ASSUME IInv, IInv', UNCHANGED var, NEW v \in Vars, var[v] # NULL,
         NEW k \in 0..(Len(spine[var[v]]) - 1), NEW c, c = spine[var[v]][k + 1],
         data' = Without(data, {c}), spine'[var[v]] = Delete(spine[var[v]], k)
  PROVE  ContentsOf(var[v], spine', data') = Delete(ContentsOf(var[v], spine, data), k)
  <1> DEFINE l == var[v]
             s == spine[l]
             t == spine'[l]
             e == data
             f == data'
  <1>1. s \in Seq(Cells) /\ Distinct(s)  BY ListFacts
  <1>2. e \in [Cells -> Values] /\ f \in [Cells -> Values] /\ ContentsOf(l, spine', f) = Elements(t, f)
    BY ContentsNextFacts DEF IInv, Fields, Values
  <1>3. ContentsOf(l, spine, e) = Elements(s, e)  BY ContentsFacts
  <1>4. t = Delete(s, k)  OBVIOUS
  <1> DEFINE n == Len(s)
  <1>5. k \in 0..(n - 1) /\ n \in Nat  BY <1>1, LenProperties
  <1>6. \A b \in Members(Delete(s, k)) : f[b] = e[b]
    <2>1. Members(Delete(s, k)) = Members(s) \ {c}
      <3>1. k \in 0..(Len(s) - 1) /\ s[k + 1] = c  BY <1>5
      <3> HIDE DEF s, l
      <3> QED  BY <1>1, <3>1, DeleteMembers
    <2>2. \A b \in Cells : b # c => f[b] = e[b]  BY <1>2 DEF Without
    <2>3. Members(s) \subseteq Cells  BY <1>1, MemberFacts
    <2> QED  BY <2>1, <2>2, <2>3
  <1> HIDE DEF e, f, s, t, l
  <1>7. Elements(Delete(s, k), f) = Delete(Elements(s, e), k)
    <2>1. /\ s \in Seq(Cells) /\ k \in 0..(Len(s) - 1)
          /\ e \in [Cells -> Values] /\ f \in [Cells -> Values]
      BY <1>1, <1>2, <1>5
    <2> QED  BY ONLY <2>1, <1>6, ElementsDelete
  <1> QED  BY <1>2, <1>3, <1>4, <1>7 DEF e, f, s, t, l

\* What list_delete_cell does to the lists.
LEMMA DeletionIs ==
  ASSUME IInv, IInv', call.fn # "concatUnique", NEW v \in Vars, var[v] # NULL,
         NEW k \in 0..(Len(spine[var[v]]) - 1), NEW c, c = spine[var[v]][k + 1], NEW prev,
         list_delete_cell(v, c, prev, k)
  PROVE  /\ \A u \in Vars : ListOf(u)' = IF u = v THEN Delete(ListOf(v), k) ELSE ListOf(u)
         /\ Asked' = Abstract!Nothing /\ Contract'
         /\ Len(ListOf(v)) = Len(spine[var[v]]) /\ ListOf(v) \in Seq(Values)
         /\ \A j \in 1..Len(ListOf(v)) : ListOf(v)[j] = data[spine[var[v]][j]]
  <1> DEFINE l == var[v]
             s == spine[l]
             C == ContentsOf(l, spine, data)
  <1>1. /\ C \in Seq(Values) /\ Len(C) = Len(s) /\ \A j \in 1..Len(s) : C[j] = data[s[j]]
        /\ ListOf(v) = C
    BY ContentsFacts, ListOfIs
  <1>2. length[l] = Len(s) /\ Len(s) \in Nat /\ l \in Heads /\ l \in Live /\ s \in Seq(Cells)
    BY VarFacts, ListFacts
  <1>3. /\ data \in [Cells -> Data \cup {NULL}] /\ var \in [Vars -> Heads \cup {NULL}]
        /\ spine \in [Heads -> Seq(Cells) \cup {NULL}] /\ Heap(Live, heap, spine, next)
    BY DEF IInv, Fields, Heap
  <1>4. CASE length[l] = 1
    <2>1. StartFree(v)  BY <1>4 DEF list_delete_cell
    <2>2. /\ var' = [var EXCEPT ![v] = NULL] /\ UNCHANGED <<data, spine>>
          /\ call' = [Idle EXCEPT !.at = "free", !.result = l, !.cur = head[l]]
      BY <2>1 DEF StartFree, Assign, heapVars, cellVars
    <2>3. call'.fn = "none" /\ call'.at = "free" /\ Asked' = Abstract!Nothing
      <3>1. /\ call'.fn = "none" /\ call'.v = NULL /\ call'.w = NULL /\ call'.x = NULL
            /\ call'.n = 0 /\ call'.d = NULL /\ call'.at = "free"
        BY <2>2 DEF Idle
      <3> QED  BY <3>1 DEF Asked, Abstract!Nothing
    <2>4. Delete(C, k) = <<>>
      <3>1. k \in 0..(Len(C) - 1) /\ Len(C) = 1  BY <1>1, <1>2, <1>4
      <3> HIDE DEF C
      <3>2. Delete(C, k) \in Seq(Values) /\ Len(Delete(C, k)) = Len(C) - 1
        BY <1>1, <3>1, Dropped
      <3>3. Len(Delete(C, k)) = 0  BY <3>1, <3>2
      <3> QED  BY <3>2, <3>3, EmptySeq
    <2>5. ASSUME NEW u \in Vars
          PROVE  ListOf(u)' = IF u = v THEN Delete(ListOf(v), k) ELSE ListOf(u)
      <3>1. ListOf(u)' = ContentsOf(var'[u], spine, data) /\ ListOf(u) = ContentsOf(var[u], spine, data)
        BY <2>2, <2>3, ListOfIs
      <3>2. CASE u = v
        <4>1. var'[u] = NULL  BY <3>2, <2>2, <1>3
        <4> HIDE DEF C
        <4> QED  BY <3>1, <3>2, <4>1, <2>4, <1>1 DEF ContentsOf
      <3>3. CASE u # v  BY <3>1, <3>3, <2>2, <1>3
      <3> QED  BY <3>2, <3>3
    <2> QED  BY <1>1, <2>3, <2>5 DEF Contract
  <1>5. CASE length[l] # 1
    <2>1. Unlink(v, c, prev, k)  BY <1>5 DEF list_delete_cell
    <2>2. /\ data' = Without(data, {c}) /\ spine' = [spine EXCEPT ![l] = Delete(s, k)]
          /\ call' = Idle /\ UNCHANGED var
      BY <2>1 DEF Unlink, Return, Delete
    <2>3. spine'[l] = Delete(s, k)  BY <2>2, <1>2, <1>3
    <2>4. ContentsOf(l, spine', data') = Delete(C, k)
      BY <2>2, <2>3, ShrunkContents
    <2>5. call'.fn = "none" /\ call'.at = "client" /\ Asked' = Abstract!Nothing
      BY <2>2, AskedIdle DEF Idle
    <2>6. c \in Members(s)
      <3>1. k + 1 \in 1..Len(s)  BY <1>2
      <3> QED  BY <3>1, <1>2, MemberFacts
    <2>7. ASSUME NEW u \in Vars, u # v PROVE ListOf(u)' = ListOf(u)
      <3>1. Kept(var[u])
        <4>1. SUFFICES ASSUME var[u] # NULL
                       PROVE  /\ spine'[var[u]] = spine[var[u]]
                              /\ \A b \in Members(spine[var[u]]) : data'[b] = data[b]
          BY DEF Kept
        <4>2. var[u] # l /\ var[u] \in Live /\ var[u] \in Heads /\ Members(spine[var[u]]) \subseteq Cells
          BY <2>7, <4>1, VarFacts, ListFacts
        <4>3. \A a, m \in Live : \A b \in Members(spine[a]) : b \in Members(spine[m]) => a = m
          BY HeapFacts DEF IInv
        <4>4. c \notin Members(spine[var[u]])  BY <4>2, <4>3, <2>6, <1>2
        <4>5. \A b \in Cells : b # c => data'[b] = data[b]  BY <2>2, <1>3 DEF Without
        <4> QED  BY <4>2, <4>4, <4>5, <2>2, <1>3
      <3>2. ContentsOf(var[u], spine', data') = ContentsOf(var[u], spine, data)
        BY <3>1, ContentsSame DEF Kept
      <3> QED  BY <3>2, <2>2, <2>5, ListOfIs
    <2>8. ListOf(v)' = Delete(ListOf(v), k)  BY <2>2, <2>4, <2>5, <1>1, ListOfIs
    <2> QED  BY <1>1, <2>5, <2>7, <2>8 DEF Contract
  <1> QED  BY <1>4, <1>5

LEMMA AnswerGiven ==
  ASSUME call.fn # "none", Asked' = Abstract!Nothing,
         Abstract!Effect(call.fn, call.v, call.w, call.x, call.n, call.d)
  PROVE  Abstract!Answer
  <1>1. Asked # Abstract!Nothing  BY AskedIs DEF Abstract!Nothing
  <1>2. Abstract!Effect(Asked.fn, Asked.v, Asked.w, Asked.x, Asked.n, Asked.d)
    BY AskedIs
  <1> QED  BY <1>1, <1>2 DEF Abstract!Answer

LEMMA SearchFindsAnswers ==
  ASSUME IInv, IInv', Contract, SearchFinds
  PROVE  Abstract!Answer /\ Contract'
  <1> DEFINE v == call.v
             k == call.i
             C == ListOf(v)
  <1>1. /\ call.at = "search" /\ call.cur # NULL /\ data[call.cur] = call.d
        /\ list_delete_cell(v, call.cur, call.prev, k)
    BY DEF SearchFinds, Found
  <1>2. /\ v \in Vars /\ var[v] # NULL /\ k \in Nat /\ k + 1 \in 1..Len(Source)
        /\ call.cur = Source[k + 1] /\ Len(Source) \in Nat
    BY <1>1, SearchingFacts
  <1>3. call.fn = "delete" /\ \A j \in 1..k : Contents(var[v])[j] # call.d
    BY <1>1 DEF Contract, Passed
  <1>4. k \in 0..(Len(spine[var[v]]) - 1) /\ call.cur = spine[var[v]][k + 1]
    BY <1>2 DEF Source
  <1>5. /\ \A u \in Vars : ListOf(u)' = IF u = v THEN Delete(C, k) ELSE ListOf(u)
        /\ Asked' = Abstract!Nothing /\ Contract'
        /\ Len(C) = Len(spine[var[v]]) /\ C \in Seq(Values)
        /\ \A j \in 1..Len(C) : C[j] = data[spine[var[v]][j]]
    <2>1. call.fn # "concatUnique"  BY <1>3
    <2> QED  BY <2>1, <1>1, <1>2, <1>4, DeletionIs
  <1>6. C = Contents(var[v])  BY <1>3 DEF ListOf
  <1>7. C[k + 1] = call.d
    <2>1. k + 1 \in 1..Len(C)  BY <1>2, <1>5 DEF Source
    <2> QED  BY <2>1, <1>1, <1>4, <1>5
  <1> HIDE DEF C, v, k
  <1>8. Delete(C, k) = Abstract!RemoveFirst(C, call.d)
    <2>1. k \in 0..(Len(C) - 1)  BY <1>4, <1>5
    <2> QED  BY <2>1, <1>3, <1>5, <1>6, <1>7, RemoveFirstIs
  <1>9. Abstract!Effect("delete", v, call.w, call.x, call.n, call.d)
    BY <1>2, <1>5, <1>8, EffectIs DEF C
  <1> QED  BY <1>3, <1>5, <1>9, AnswerGiven DEF v

LEMMA SearchFailsAnswers ==
  ASSUME IInv, Contract, SearchFails
  PROVE  Abstract!Answer /\ Contract'
  <1> DEFINE v == call.v
             C == ListOf(v)
  <1>1. call.at = "search" /\ call.cur = NULL /\ call' = Idle /\ UNCHANGED <<data, spine, var>>
    BY DEF SearchFails, Return, heapVars, cellVars
  <1>2. /\ Searching /\ v \in Vars /\ var[v] # NULL /\ call.i \in Nat /\ Len(Source) \in Nat
        /\ NULL \notin Cells /\ \A k \in 1..Len(Source) : Source[k] \in Cells
    BY <1>1, SearchingFacts
  <1>3. call.fn = "delete" /\ \A j \in 1..call.i : Contents(var[v])[j] # call.d
    BY <1>1 DEF Contract, Passed
  <1>4. call.i = Len(Source)
    <2>1. call.i <= Len(Source) /\ call.cur = Nth(Source, call.i + 1)  BY <1>2 DEF Searching
    <2>2. call.i + 1 \notin 1..Len(Source)  BY <2>1, <1>1, <1>2 DEF Nth
    <2> QED  BY <2>1, <2>2, <1>2
  <1>5. C = Contents(var[v])  BY <1>3 DEF ListOf
  <1>6. C \in Seq(Values) /\ Len(C) = Len(Source)
    BY <1>2, <1>5, ContentsFacts, ListOfIs DEF Source
  <1>7. Abstract!RemoveFirst(C, call.d) = C
    BY <1>3, <1>4, <1>5, <1>6, RemoveFirstIs
  <1>8. \A u \in Vars : ListOf(u)' = IF u = v THEN C ELSE ListOf(u)
    <2>1. call.fn # "concatUnique" /\ call'.fn # "concatUnique"  BY <1>1, <1>3 DEF Idle
    <2> QED  BY <2>1, <1>1, ListOfIs
  <1> HIDE DEF C, v
  <1>9. Abstract!Effect("delete", v, call.w, call.x, call.n, call.d)
    BY <1>2, <1>7, <1>8, EffectIs DEF C
  <1>10. call.fn # "none"  BY <1>3
  <1> QED  BY <1>1, <1>3, <1>9, <1>10, AnswerIs DEF v

-----------------------------------------------------------------------------
\* list_nth and list_truncate return.

LEMMA NthAnswers ==
  ASSUME IInv, NthReturns
  PROVE  Abstract!Answer /\ Contract'
  <1>1. call.fn = "nth" /\ call' = Idle /\ UNCHANGED <<data, spine, var>>
    BY DEF NthReturns, WalkEnds, Return, heapVars, cellVars
  <1>2. \A u \in Vars : ListOf(u)' = ListOf(u)
    <2>1. call.fn # "concatUnique" /\ call'.fn # "concatUnique"  BY <1>1 DEF Idle
    <2> QED  BY <2>1, <1>1, ListOfIs
  <1>3. Abstract!Effect("nth", call.v, call.w, call.x, call.n, call.d)
    BY <1>2 DEF Abstract!Effect
  <1> QED  BY <1>1, <1>3, AnswerIs

LEMMA CutAnswers ==
  ASSUME IInv, IInv', Cut
  PROVE  Abstract!Answer /\ Contract'
  <1> DEFINE v == call.v
             l == var[v]
             s == spine[l]
             m == call.n + 1
             rest == {s[k] : k \in (m + 1)..Len(s)}
             C == ListOf(v)
             e == data
             f == data'
             t == spine'[l]
  <1>1. /\ call.at = "walk" /\ call.fn = "truncate" /\ call.i = call.n
        /\ spine' = [spine EXCEPT ![l] = SubSeq(s, 1, m)]
        /\ data' = Without(data, {s[k] : k \in (call.n + 2)..Len(s)})
        /\ call' = Idle /\ UNCHANGED var
    BY DEF Cut, WalkEnds, Return
  <1>2. /\ v \in Vars /\ l # NULL /\ call.n \in Nat /\ m \in 1..Len(s) /\ s \in Seq(Cells)
        /\ Len(s) \in Nat
    BY <1>1, WalkingFacts DEF Source
  <1>3. data' = Without(data, rest)
    <2>1. m + 1 = call.n + 2  BY <1>2
    <2> QED  BY <2>1, <1>1
  <1>4. /\ data \in [Cells -> Values] /\ var \in [Vars -> Heads \cup {NULL}]
        /\ spine \in [Heads -> Seq(Cells) \cup {NULL}]
    BY DEF IInv, Fields, Heap, Values
  <1>5. l \in Live /\ l \in Heads /\ Distinct(s) /\ Members(s) \subseteq Cells
    BY <1>2, ListFacts
  <1>6. \A b \in Cells : b \notin rest => data'[b] = data[b]
    BY <1>3, <1>4 DEF Without
  <1>7. rest \subseteq Members(s)
    <2>1. \A k \in (m + 1)..Len(s) : k \in 1..Len(s)  BY <1>2
    <2>2. \A k \in 1..Len(s) : s[k] \in Members(s)  BY <1>2, MemberFacts
    <2> HIDE DEF s, m
    <2> QED  BY <2>1, <2>2
  <1>8. call.fn # "concatUnique" /\ call'.fn # "concatUnique"  BY <1>1 DEF Idle
  <1>9. /\ C = ContentsOf(l, spine, data) /\ ContentsOf(l, spine, data) = Elements(s, e)
        /\ ContentsOf(l, spine', data') = Elements(t, f) /\ f \in [Cells -> Values]
    BY <1>1, <1>2, <1>8, ContentsFacts, ContentsNextFacts, ListOfIs
  <1>10. t = SubSeq(s, 1, m)  BY <1>1, <1>4, <1>5
  <1>11. \A b \in Members(SubSeq(s, 1, m)) : f[b] = e[b]
    <2>1. ASSUME NEW b \in Members(SubSeq(s, 1, m)) PROVE b \in Members(s) /\ b \notin rest
      <3> DEFINE q == SubSeq(s, 1, m)
      <3>1. \A j \in 1..m : j \in 1..Len(s) /\ 1 + j - 1 = j  BY <1>2
      <3>2. q \in Seq(Cells) /\ Len(q) = m /\ \A j \in 1..m : q[j] = s[j]
        <4>1. \A j \in 1..m : s[j] \in Cells  BY <3>1, <1>2, LenProperties
        <4> QED  BY <4>1, <3>1, <1>2, SubSeqProperties
      <3> HIDE DEF q
      <3>3. PICK j \in 1..m : b = s[j]
        <4>1. b \in Members(q)  BY <2>1 DEF q
        <4> QED  BY <4>1, <3>2, MemberFacts
      <3>4. \A i, k \in 1..Len(s) : s[i] = s[k] => i = k
        BY <1>2, <1>5, LenProperties DEF Distinct
      <3>5. ASSUME NEW k \in (m + 1)..Len(s), b = s[k] PROVE FALSE
        <4>1. k \in 1..Len(s) /\ j \in 1..Len(s) /\ k # j  BY <3>1, <1>2
        <4> QED  BY <4>1, <3>3, <3>4, <3>5
      <3> QED  BY <3>1, <3>3, <3>5, <1>2, MemberFacts
    <2> QED  BY <2>1, <1>5, <1>6
  <1> HIDE DEF e, f
  <1>12. Elements(SubSeq(s, 1, m), f) = SubSeq(Elements(s, e), 1, m)
    <2>1. e \in [Cells -> Values]  BY <1>4 DEF e
    <2> HIDE DEF s, m
    <2> QED  BY <2>1, <1>2, <1>9, <1>11, ElementsPrefix
  <1>13. ASSUME NEW u \in Vars, u = v PROVE ListOf(u)' = SubSeq(C, 1, m)
    <2>1. ListOf(u)' = ContentsOf(l, spine', data')  BY <1>1, <1>8, <1>13, ListOfIs
    <2> QED  BY <2>1, <1>9, <1>10, <1>12
  <1>14. ASSUME NEW u \in Vars, u # v PROVE ListOf(u)' = ListOf(u)
    <2>1. Kept(var[u])
      <3>1. SUFFICES ASSUME var[u] # NULL
                     PROVE  /\ spine'[var[u]] = spine[var[u]]
                            /\ \A b \in Members(spine[var[u]]) : data'[b] = data[b]
        BY DEF Kept
      <3>2. var[u] # l /\ var[u] \in Live /\ var[u] \in Heads /\ Members(spine[var[u]]) \subseteq Cells
        BY <1>2, <1>14, <3>1, VarFacts, ListFacts
      <3>3. \A a, b \in Live : \A c \in Members(spine[a]) : c \in Members(spine[b]) => a = b
        BY HeapFacts DEF IInv
      <3>4. \A b \in Members(spine[var[u]]) : b \notin rest  BY <3>2, <3>3, <1>5, <1>7
      <3>5. spine'[var[u]] = spine[var[u]]  BY <3>2, <1>1, <1>4
      <3> QED  BY <3>2, <3>4, <3>5, <1>6
    <2>2. ContentsOf(var[u], spine', data') = ContentsOf(var[u], spine, data)
      BY <2>1, ContentsSame DEF Kept
    <2> QED  BY <2>2, <1>1, <1>8, ListOfIs
  <1>15. \A u \in Vars : ListOf(u)' = IF u = v THEN SubSeq(C, 1, m) ELSE ListOf(u)
    BY <1>13, <1>14
  <1> HIDE DEF C, m, l, s
  <1>16. Abstract!Effect("truncate", v, call.w, call.x, call.n, call.d)
    BY <1>2, <1>15, EffectIs DEF C, m
  <1> QED  BY <1>1, <1>16, AnswerIs

-----------------------------------------------------------------------------
\* A call starts.

LEMMA Asking ==
  ASSUME IInv, Calling, call' \in Calls, call'.fn \in Abstract!Loops, call'.v \in Vars,
         \A u \in Vars : ListOf(u)' = ListOf(u)
  PROVE  Abstract!Ask
  <1>1. Asked = Abstract!Nothing  BY CallingFacts, AskedIdle
  <1>2. Asked' \in Abstract!Requests  BY AskedRequest
  <1> QED  BY <1>1, <1>2 DEF Abstract!Ask

LEMMA ClientLists ==
  ASSUME IInv, Calling
  PROVE  call = Idle /\ \A u \in Vars : ListOf(u) = ContentsOf(var[u], spine, data)
  <1>1. call = Idle  BY CallingFacts
  <1>2. call.fn # "concatUnique"  BY <1>1 DEF Idle
  <1> QED  BY <1>1, <1>2, ListOfIs

\* What a step leaves of a list that is not the one it is about.
LEMMA KeptPlain ==
  ASSUME IInv, Calling, call'.fn # "concatUnique", NEW u \in Vars, var'[u] = var[u], Kept(var[u])
  PROVE  ListOf(u)' = ListOf(u)
  <1>1. ContentsOf(var[u], spine', data') = ContentsOf(var[u], spine, data)
    BY ContentsSame DEF Kept
  <1> QED  BY <1>1, ClientLists, ListOfIs

LEMMA IndexAsks ==
  ASSUME IInv, IInv', NEW v \in Vars, NEW n \in 0..list_length(var[v]),
         list_nth(v, n) \/ list_truncate(v, n)
  PROVE  Abstract!Ask /\ Contract'
  <1>1. Calling /\ UNCHANGED <<data, spine, var>>
    BY DEF list_nth, list_truncate, heapVars, cellVars
  <1>2. call' \in Calls  BY DEF IInv, Fields
  <1>3. call'.fn \in {"nth", "truncate"} /\ call'.at = "walk" /\ call'.v = v
    <2>1. CASE list_nth(v, n)  BY <2>1 DEF list_nth, Walk, Idle
    <2>2. CASE list_truncate(v, n)  BY <2>2 DEF list_truncate, Walk, Idle
    <2> QED  BY <2>1, <2>2
  <1>4. \A u \in Vars : ListOf(u)' = ListOf(u)
    BY <1>1, <1>3, ClientLists, ListOfIs
  <1>5. Abstract!Ask  BY <1>1, <1>2, <1>3, <1>4, Asking DEF Abstract!Loops
  <1> QED  BY <1>3, <1>5 DEF Contract

LEMMA DeleteAsks ==
  ASSUME IInv, IInv', NEW v \in Vars, NEW d \in Data, list_delete(v, d)
  PROVE  Abstract!Ask /\ Contract'
  <1>1. /\ Calling /\ UNCHANGED <<data, spine, var>>
        /\ call' = [Idle EXCEPT !.at = "search", !.fn = "delete", !.v = v, !.d = d,
                                !.cur = head[var[v]]]
    BY DEF list_delete, heapVars, cellVars
  <1>2. call' \in Calls  BY DEF IInv, Fields
  <1>3. call'.fn = "delete" /\ call'.at = "search" /\ call'.v = v /\ call'.i = 0
    BY <1>1 DEF Idle
  <1>4. \A u \in Vars : ListOf(u)' = ListOf(u)
    BY <1>1, <1>3, ClientLists, ListOfIs
  <1>5. Abstract!Ask  BY <1>1, <1>2, <1>3, <1>4, Asking DEF Abstract!Loops
  <1>6. Passed'
    <2>1. \A k \in 1..call'.i : FALSE  BY <1>3
    <2> QED  BY <2>1, <1>3 DEF Passed
  <1> QED  BY <1>3, <1>5, <1>6 DEF Contract

LEMMA NewListKeeps ==
  ASSUME IInv, Calling, NEW d \in Values, NEW n \in Nat \ {0}, NewList(d, n),
         call'.fn # "concatUnique"
  PROVE  /\ \A u \in Vars : var'[u] = var[u] => ListOf(u)' = ListOf(u)
         /\ ContentsOf(NewHead, spine', data') = <<d>>
  <1>1. d \in Data \cup {NULL}  BY DEF Values
  <1>2. /\ NewHead \in Heads \ heap /\ NewCell \in Cells \ heap
        /\ NewHead # NULL /\ \A u \in Vars : var[u] # NewHead
        /\ spine'[NewHead] = <<NewCell>>
        /\ \A m \in Heads \ {NewHead} : spine'[m] = spine[m]
    BY <1>1, NewListFacts
  <1>3. data' = [data EXCEPT ![NewCell] = d]  BY DEF NewList
  <1>4. data'[NewCell] = d  BY <1>2, <1>3, NewDatum
  <1>5. \A u \in Vars : Kept(var[u])
    <2>1. \A u \in Vars : var[u] # NULL => spine'[var[u]] = spine[var[u]]
      BY <1>2 DEF IInv, Fields
    <2> QED  BY <2>1, <1>2, <1>3, OthersKept
  <1>6. \A u \in Vars : var'[u] = var[u] => ListOf(u)' = ListOf(u)  BY <1>5, KeptPlain
  <1>7. ContentsOf(NewHead, spine', data') = <<data'[NewCell]>>  BY <1>2, NewContents
  <1> QED  BY <1>4, <1>6, <1>7

LEMMA CopyTailAsks ==
  ASSUME IInv, IInv', NEW v \in Vars, NEW x \in Vars, NEW n \in Nat, list_copy_tail(v, n, x)
  PROVE  Abstract!Ask /\ Contract'
  <1>1. /\ Calling /\ NewList(NULL, length[var[v]] - n) /\ UNCHANGED var
        /\ n < list_length(var[v])
        /\ call' = [Walk("copyTail", v, n) EXCEPT !.x = x, !.result = NewHead]
    BY DEF list_copy_tail
  <1>2. call' \in Calls  BY DEF IInv, Fields
  <1>3. call'.fn = "copyTail" /\ call'.at = "walk" /\ call'.v = v
    BY <1>1 DEF Walk, Idle
  <1>4. length[var[v]] - n \in Nat \ {0}
    <2>1. var[v] # NULL  BY <1>1 DEF list_length
    <2>2. length[var[v]] \in Nat  BY <2>1, VarFacts, ListFacts
    <2> QED  BY <2>1, <2>2, <1>1 DEF list_length
  <1>5. \A u \in Vars : ListOf(u)' = ListOf(u)
    <2>1. NULL \in Values  BY DEF Values
    <2>2. call'.fn # "concatUnique"  BY <1>3
    <2> QED  BY <2>1, <2>2, <1>1, <1>4, NewListKeeps
  <1>6. Abstract!Ask  BY <1>1, <1>2, <1>3, <1>5, Asking DEF Abstract!Loops
  <1> QED  BY <1>3, <1>6 DEF Contract

LEMMA FirstOf ==
  ASSUME NEW D, NEW s \in Seq(D), Len(s) > 0
  PROVE  SubSeq(s, 0 + 1, 2 - 1) = <<s[1]>>
  <1>1. 1 \in 1..Len(s) /\ Len(s) \in Nat /\ \A k \in 1..Len(s) : s[k] \in D
    BY LenProperties
  <1>2. \A k \in 1..1 : s[k] \in D  BY <1>1
  <1> DEFINE t == SubSeq(s, 1, 1)
             a == <<s[1]>>
  <1>3. t \in Seq(D) /\ Len(t) = 1 /\ t[1] = s[1]
    <2>1. /\ t \in Seq(D) /\ Len(t) = (IF 1 <= 1 THEN 1 - 1 + 1 ELSE 0)
          /\ \A i \in 1..(1 - 1 + 1) : t[i] = s[1 + i - 1]
      BY <1>2, SubSeqProperties
    <2> HIDE DEF t
    <2>2. t[1] = s[1 + 1 - 1]  BY <2>1
    <2> QED  BY <2>1, <2>2
  <1>4. a \in Seq(D) /\ Len(a) = 1 /\ a[1] = s[1]  BY <1>1
  <1> HIDE DEF t, a
  <1>5. \A k \in 1..1 : t[k] = a[k]  BY <1>3, <1>4
  <1>6. t = a  BY <1>3, <1>4, <1>5, SeqEqual
  <1> QED  BY <1>6 DEF t, a

LEMMA CopyAsks ==
  ASSUME IInv, IInv', Calling, NEW v \in Vars, NEW w \in Vars \cup {NULL}, NEW x \in Vars,
         var[v] # NULL, NEW f \in {"copy", "union", "difference"},
         f = "difference" => w \in Vars /\ var[w] = NULL, StartCopy(f, v, w, x)
  PROVE  Abstract!Ask /\ Contract'
  <1> DEFINE s == spine[var[v]]
             C == ContentsOf(var[v], spine, data)
  <1>1. /\ NewList(data[head[var[v]]], length[var[v]]) /\ UNCHANGED var
        /\ call' = [Idle EXCEPT !.at = "copy", !.fn = f, !.v = v, !.w = w, !.x = x,
                                !.result = NewHead, !.prev = NewCell, !.cur = next[head[var[v]]]]
    BY DEF StartCopy
  <1>2. call' \in Calls  BY DEF IInv, Fields
  <1>3. /\ call'.fn = f /\ call'.at = "copy" /\ call'.v = v /\ call'.w = w /\ call'.x = x
        /\ call'.result = NewHead /\ call'.cur = next[head[var[v]]] /\ call'.n = 0
    BY <1>1 DEF Idle
  <1>4. /\ s \in Seq(Cells) /\ Len(s) \in Nat /\ Len(s) > 0 /\ head[var[v]] = s[1]
        /\ length[var[v]] = Len(s) /\ \A k \in 1..Len(s) : next[s[k]] = Nth(s, k + 1)
    BY VarFacts, ListFacts
  <1>5. C \in Seq(Values) /\ Len(C) = Len(s) /\ \A k \in 1..Len(s) : C[k] = data[s[k]]
    BY ContentsFacts
  <1>6. 1 \in 1..Len(s)  BY <1>4
  <1>7. C[1] = data[head[var[v]]] /\ C[1] \in Values
    <2>1. C[1] = data[s[1]]  BY <1>5, <1>6
    <2> QED  BY <2>1, <1>4, <1>5, <1>6, LenProperties
  <1>8. /\ \A u \in Vars : ListOf(u)' = ListOf(u)
        /\ ContentsOf(NewHead, spine', data') = <<C[1]>>
    <2> DEFINE d == data[head[var[v]]]
               n == length[var[v]]
    <2>1. d \in Values /\ n \in Nat \ {0} /\ NewList(d, n) /\ call'.fn # "concatUnique"
      BY <1>1, <1>3, <1>4, <1>7
    <2> HIDE DEF d, n
    <2> QED  BY <2>1, <1>1, <1>7, NewListKeeps DEF d
  <1>9. Abstract!Ask  BY <1>2, <1>3, <1>8, Asking DEF Abstract!Loops
  <1>10. Contents(var[call.v])' = C
    <2>1. ListOf(v)' = C  BY <1>8, ClientLists
    <2>2. ListOf(v)' = ContentsOf(var'[v], spine', data')  BY <1>3, ListOfIs
    <2> QED  BY <2>1, <2>2, <1>3, ContentsNext
  <1>11. Contents(call.result)' = SubSeq(C, 0 + 1, 2 - 1)
    <2>1. Contents(call.result)' = <<C[1]>>  BY <1>3, <1>8, ContentsNext
    <2> HIDE DEF C
    <2> QED  BY <2>1, <1>4, <1>5, FirstOf
  <1>12. Source' = s
    <2>1. var[v] \in Heads /\ \A m \in Heads \ {NewHead} : spine'[m] = spine[m]
      <3>1. data[head[var[v]]] \in Data \cup {NULL} /\ length[var[v]] \in Nat \ {0}
        BY <1>4, <1>7 DEF Values
      <3> QED  BY <3>1, <1>1, NewListFacts, ListFacts
    <2>2. var[v] # NewHead
      <3>1. data[head[var[v]]] \in Data \cup {NULL} /\ length[var[v]] \in Nat \ {0}
        BY <1>4, <1>7 DEF Values
      <3> QED  BY <3>1, <1>1, NewListFacts
    <2> QED  BY <2>1, <2>2, <1>1, <1>3 DEF Source
  <1>13. Copied'
    <2>1. 2 \in 2..(Len(Source') + 1) /\ call'.cur = Nth(Source', 2)
      <3>1. 1 + 1 = 2  OBVIOUS
      <3>2. next[s[1]] = Nth(s, 2)  BY <3>1, <1>4, <1>6
      <3> HIDE DEF s
      <3> QED  BY <3>2, <1>3, <1>4, <1>12
    <2>2. Contents(call.result)' = SubSeq(Contents(var[call.v])', call'.n + 1, 2 - 1)
      BY <1>3, <1>10, <1>11
    <2>3. /\ call'.fn # "copyTail" => call'.n = 0
          /\ call'.fn = "difference" => call'.w \in Vars /\ var'[call'.w] = NULL
      BY <1>1, <1>3
    <2> QED  BY <2>1, <2>2, <2>3 DEF Copied
  <1> QED  BY <1>3, <1>9, <1>13 DEF Contract

LEMMA EachAsks ==
  ASSUME IInv, IInv', Calling, NEW v \in Vars, NEW w \in Vars, NEW x \in Vars,
         NEW f, NEW r, NEW over, Each(f, v, w, x, r, over),
         \/ f = "union" /\ r = NULL /\ over = var[w] /\ var[v] = NULL
         \/ f = "difference" /\ r = NULL /\ over = var[v]
         \/ f = "concatUnique" /\ r = var[v] /\ over = var[w]
  PROVE  Abstract!Ask /\ Contract'
  <1>1. /\ UNCHANGED <<data, head, spine, var>>
        /\ call' = [Idle EXCEPT !.at = "each", !.fn = f, !.v = v, !.w = w, !.x = x,
                                !.result = r, !.cur = list_head(over),
                                !.old = IF f = "concatUnique" THEN Contents(r) ELSE <<>>]
    BY DEF Each, heapVars, cellVars, headVars
  <1>2. call' \in Calls  BY DEF IInv, Fields
  <1>3. /\ call'.fn = f /\ call'.at = "each" /\ call'.v = v /\ call'.w = w
        /\ call'.result = r /\ call'.cur = list_head(over)
        /\ call'.old = IF f = "concatUnique" THEN Contents(r) ELSE <<>>
    BY <1>1 DEF Idle
  <1>4. ASSUME NEW u \in Vars
        PROVE  /\ ListOf(u)' = ContentsOf(var[u], spine, data)
               /\ ListOf(u) = ContentsOf(var[u], spine, data)
    <2>1. ListOf(u) = ContentsOf(var[u], spine, data)  BY ClientLists
    <2>2. CASE f = "concatUnique" /\ v = u
      <3>1. ListOf(u)' = Contents(var[u])  BY <2>2, <1>3, ListOfIs
      <3> QED  BY <2>1, <3>1, ListOfIs
    <2>3. CASE ~ (f = "concatUnique" /\ v = u)
      <3>1. ListOf(u)' = ContentsOf(var'[u], spine', data')  BY <2>3, <1>3, ListOfIs
      <3> QED  BY <2>1, <3>1, <1>1
    <2> QED  BY <2>2, <2>3
  <1>5. Abstract!Ask
    <2>1. f \in Abstract!Loops  BY DEF Abstract!Loops
    <2> QED  BY <2>1, <1>2, <1>3, <1>4, Asking
  <1> DEFINE A == ContentsOf(var[v], spine, data)
             B == ContentsOf(var[w], spine, data)
  <1>6. A \in Seq(Values) /\ B \in Seq(Values)  BY ContentsFacts
  <1>7. ListOf(call.w)' = Contents(var[call.w])'
    <2>1. ListOf(w)' = B  BY <1>4
    <2>2. Contents(var[call.w])' = B  BY <1>1, <1>3, ContentsNext
    <2>3. ListOf(call.w)' = ListOf(w)'  BY <1>3 DEF ListOf
    <2> QED  BY <2>1, <2>2, <2>3
  <1>8. Contents(call.result)' = Rounds'[1 - 1]
    <2>1. Contents(call.result)' = ContentsOf(r, spine, data)  BY <1>1, <1>3, ContentsNext
    <2>2. Rounds' = IF f = "difference" THEN Abstract!Sifting(A, B) ELSE Abstract!Merging(A, B)
      <3>1. ListOf(call.v)' = ListOf(v)' /\ ListOf(call.w)' = ListOf(w)'
        BY <1>3 DEF ListOf
      <3>2. ListOf(v)' = A /\ ListOf(w)' = B  BY <1>4
      <3> QED  BY <3>1, <3>2, <1>3, OverNext
    <2> HIDE DEF A, B
    <2>3. Abstract!Sifting(A, B)[0] = <<>> /\ Abstract!Merging(A, B)[0] = A
      BY <1>6, SiftingIs, MergingIs
    <2>4. r = NULL => ContentsOf(r, spine, data) = <<>>  BY DEF ContentsOf
    <2>5. var[v] = NULL => A = <<>>  BY DEF A, ContentsOf
    <2>6. CASE f = "union" /\ r = NULL /\ var[v] = NULL
      BY <2>1, <2>2, <2>3, <2>4, <2>5, <2>6
    <2>7. CASE f = "difference" /\ r = NULL
      BY <2>1, <2>2, <2>3, <2>4, <2>7
    <2>8. CASE f = "concatUnique" /\ r = var[v]
      BY <2>1, <2>2, <2>3, <2>8 DEF A
    <2> QED  BY <2>6, <2>7, <2>8
  <1>9. 1 \in 1..(Len(Over') + 1) /\ call'.cur = Nth(Over', 1)
    <2>1. Over' = IF over = NULL THEN <<>> ELSE spine[over]
      BY <1>1, <1>3, OverNext
    <2>2. CASE over = NULL
      <3>1. Over' = <<>> /\ call'.cur = NULL  BY <2>1, <2>2, <1>3 DEF list_head
      <3> QED  BY <3>1 DEF Nth
    <2>3. CASE over # NULL
      <3>1. Len(spine[over]) > 0 /\ Len(spine[over]) \in Nat /\ head[over] = spine[over][1]
        <4>1. over = var[v] \/ over = var[w]  OBVIOUS
        <4> QED  BY <4>1, <2>3, VarFacts, ListFacts
      <3> QED  BY <3>1, <2>1, <2>3, <1>3 DEF Nth, list_head
    <2> QED  BY <2>2, <2>3
  <1>10. Gathered'  BY <1>7, <1>8, <1>9 DEF Gathered
  <1> QED  BY <1>3, <1>5, <1>10 DEF Contract

LEMMA SetOperationAsks ==
  ASSUME IInv, IInv', NEW v \in Vars, NEW w \in Vars, NEW x \in Vars,
         list_union(v, w, x) \/ list_difference(v, w, x)
  PROVE  Abstract!Ask /\ Contract'
  <1>1. Calling  BY DEF list_union, list_difference
  <1>2. CASE list_union(v, w, x)
    <2>1. CASE var[v] # NULL /\ StartCopy("union", v, w, x)
      BY <2>1, <1>1, CopyAsks
    <2>2. CASE var[v] = NULL /\ Each("union", v, w, x, NULL, var[w])
      BY <2>2, <1>1, EachAsks
    <2> QED  BY <2>1, <2>2, <1>2 DEF list_union
  <1>3. CASE list_difference(v, w, x)
    <2>1. CASE var[v] # NULL /\ var[w] = NULL /\ StartCopy("difference", v, w, x)
      BY <2>1, <1>1, CopyAsks
    <2>2. CASE Each("difference", v, w, x, NULL, var[v])
      BY <2>2, <1>1, EachAsks
    <2> QED  BY <2>1, <2>2, <1>3 DEF list_difference
  <1> QED  BY <1>2, <1>3

-----------------------------------------------------------------------------
\* A call without a loop.

LEMMA OnceIs ==
  ASSUME IInv, Calling, NEW v \in Vars, NEW s, Asked' = Abstract!Nothing,
         \A u \in Vars : ListOf(u)' = IF u = v THEN s ELSE ListOf(u),
         \/ \E d \in Data : s = Append(ListOf(v), d) \/ s = <<d>> \o ListOf(v)
         \/ \E d \in Data, k \in 1..Len(ListOf(v)) : s = Insert(ListOf(v), k, d)
         \/ ListOf(v) # <<>> /\ s = Tail(ListOf(v))
         \/ s = <<>>
  PROVE  Abstract!Next
  <1> DEFINE C == ListOf(v)
  <1>1. Asked = Abstract!Nothing  BY CallingFacts, AskedIdle
  <1>2. Abstract!Becomes(v, s)  BY Becoming
  <1>3. DOMAIN C = 1..Len(C)
    <2>1. C \in Seq(Values)  BY ClientLists, ContentsFacts
    <2> HIDE DEF C
    <2> QED  BY <2>1, LenProperties
  <1>4. Abstract!AtOnce
    <2>1. ASSUME NEW d \in Data, s = Append(C, d) PROVE Abstract!AtOnce
      <3>1. Abstract!Lappend(v, d)  BY <2>1, <1>2 DEF Abstract!Lappend
      <3> QED  BY <3>1 DEF Abstract!AtOnce
    <2>2. ASSUME NEW d \in Data, s = <<d>> \o C PROVE Abstract!AtOnce
      <3>1. Abstract!Lcons(v, d)  BY <2>2, <1>2 DEF Abstract!Lcons, Abstract!Cons
      <3> QED  BY <3>1 DEF Abstract!AtOnce
    <2>3. ASSUME NEW d \in Data, NEW k \in 1..Len(C), s = Insert(C, k, d) PROVE Abstract!AtOnce
      <3>1. (k + 1) - 1 = k  BY <1>3
      <3>2. Abstract!InsertAt(C, k + 1, d) = s  BY <2>3, <3>1 DEF Abstract!InsertAt, Insert
      <3>3. Abstract!LappendCell(v, k, d)  BY <3>2, <1>2 DEF Abstract!LappendCell
      <3>4. k \in DOMAIN C  BY <1>3
      <3> QED  BY <3>3, <3>4 DEF Abstract!AtOnce
    <2>4. ASSUME C # <<>>, s = Tail(C) PROVE Abstract!AtOnce
      <3>1. Abstract!DeleteFirst(v)  BY <2>4, <1>2 DEF Abstract!DeleteFirst
      <3> QED  BY <3>1 DEF Abstract!AtOnce
    <2>5. ASSUME s = <<>> PROVE Abstract!AtOnce
      <3>1. Abstract!Clear(v)  BY <2>5, <1>2 DEF Abstract!Clear
      <3> QED  BY <3>1 DEF Abstract!AtOnce
    <2> QED  BY <2>1, <2>2, <2>3, <2>4, <2>5
  <1> QED  BY <1>1, <1>4 DEF Abstract!Next

LEMMA NewListOnce ==
  ASSUME IInv, IInv', Calling, NEW v \in Vars, NEW d \in Data, var[v] = NULL,
         NewList(d, 1), Assign(v, NewHead), UNCHANGED call
  PROVE  Abstract!Next
  <1>1. call = Idle /\ \A u \in Vars : ListOf(u) = ContentsOf(var[u], spine, data)
    BY ClientLists
  <1>2. call'.fn # "concatUnique" /\ Asked' = Abstract!Nothing
    BY <1>1, AskedIdle DEF Idle
  <1>3. /\ \A u \in Vars : var'[u] = var[u] => ListOf(u)' = ListOf(u)
        /\ ContentsOf(NewHead, spine', data') = <<d>>
    <2>1. d \in Values /\ 1 \in Nat \ {0}  BY DEF Values
    <2> QED  BY <2>1, <1>2, NewListKeeps
  <1>4. var' = [var EXCEPT ![v] = NewHead] /\ var \in [Vars -> Heads \cup {NULL}]
    BY DEF Assign, IInv, Fields
  <1>5. ListOf(v)' = <<d>>  BY <1>2, <1>3, <1>4, ListOfIs
  <1>6. \A u \in Vars : ListOf(u)' = IF u = v THEN <<d>> ELSE ListOf(u)
    BY <1>3, <1>4, <1>5
  <1>7. <<d>> = Append(ListOf(v), d)
    <2>1. ListOf(v) = <<>>  BY <1>1 DEF ContentsOf
    <2> QED  BY <2>1
  <1> QED  BY <1>2, <1>6, <1>7, OnceIs

LEMMA AddCellOnce ==
  ASSUME IInv, IInv', Calling, NEW v \in Vars, NEW d \in Data, var[v] # NULL,
         NEW k \in 0..Len(spine[var[v]]), AddCell(var[v], k, d), UNCHANGED <<var, call>>
  PROVE  Abstract!Next
  <1> DEFINE l == var[v]
             C == ContentsOf(l, spine, data)
  <1>1. call = Idle /\ \A u \in Vars : ListOf(u) = ContentsOf(var[u], spine, data)
    BY ClientLists
  <1>2. call'.fn # "concatUnique" /\ Asked' = Abstract!Nothing
    BY <1>1, AskedIdle DEF Idle
  <1>3. /\ ~Exhausted(l) /\ data' = [data EXCEPT ![NewCell] = d]
        /\ spine' = [spine EXCEPT ![l] = Insert(spine[l], k, NewCell)]
    BY DEF AddCell, Insert
  <1>4. NewCell \in Cells \ heap  BY <1>3, FreshFacts
  <1>5. spine \in [Heads -> Seq(Cells) \cup {NULL}] /\ var \in [Vars -> Heads \cup {NULL}]
    BY DEF IInv, Heap, Fields
  <1>6. l \in Heads /\ \A u \in Vars : u # v => var[u] # l  BY ListFacts, VarFacts
  <1>7. C \in Seq(Values) /\ Len(C) = Len(spine[l])  BY ContentsFacts
  <1>8. ContentsOf(l, spine', data') = Insert(C, k, d)
    <2>1. spine'[l] = Insert(spine[l], k, NewCell)  BY <1>3, <1>5, <1>6
    <2> QED  BY <2>1, <1>3, <1>4, GrownContents
  <1>9. ListOf(v)' = Insert(C, k, d)  BY <1>2, <1>8, ListOfIs
  <1>10. ASSUME NEW u \in Vars, u # v PROVE ListOf(u)' = ListOf(u)
    <2>1. var[u] # NULL => spine'[var[u]] = spine[var[u]]  BY <1>3, <1>5, <1>6, <1>10
    <2>2. Kept(var[u])  BY <2>1, <1>3, <1>4, OthersKept
    <2> QED  BY <2>2, <1>2, KeptPlain
  <1>11. \A u \in Vars : ListOf(u)' = IF u = v THEN Insert(C, k, d) ELSE ListOf(u)
    BY <1>9, <1>10
  <1>12. ListOf(v) = C  BY <1>1
  <1> HIDE DEF C
  <1>13. \/ Insert(C, k, d) = <<d>> \o C
         \/ k \in 1..Len(C)
    <2>1. CASE k = 0
      <3>1. d \in Values  BY DEF Values
      <3> QED  BY <2>1, <3>1, <1>7, HeadIsInsertion
    <2>2. CASE k # 0  BY <2>2, <1>7
    <2> QED  BY <2>1, <2>2
  <1> QED  BY <1>2, <1>11, <1>12, <1>13, OnceIs

LEMMA LappendOnce ==
  ASSUME IInv, IInv', NEW v \in Vars, NEW d \in Data, lappend(v, d) \/ lcons(v, d)
  PROVE  Abstract!Next
  <1>1. Calling /\ Assign(v, Grown(var[v])) /\ UNCHANGED call  BY DEF lappend, lcons
  <1>2. CASE var[v] = NULL
    <2>1. NewList(d, 1) /\ Assign(v, NewHead)
      BY <1>1, <1>2 DEF lappend, lcons, AppendTo, Grown
    <2> QED  BY <2>1, <1>1, <1>2, NewListOnce
  <1>3. CASE var[v] # NULL
    <2>1. var' = var
      <3>1. var' = [var EXCEPT ![v] = var[v]]  BY <1>1, <1>3 DEF Assign, Grown
      <3>2. var \in [Vars -> Heads \cup {NULL}]  BY DEF IInv, Fields
      <3> QED  BY <3>1, <3>2
    <2>2. Len(spine[var[v]]) \in Nat  BY <1>3, ListFacts
    <2>3. CASE lappend(v, d)
      <3>1. AddCell(var[v], Len(spine[var[v]]), d)
        BY <2>3, <1>3 DEF lappend, AppendTo, NewTailCell
      <3>2. Len(spine[var[v]]) \in 0..Len(spine[var[v]])  BY <2>2
      <3> QED  BY <3>1, <3>2, <2>1, <1>1, <1>3, AddCellOnce
    <2>4. CASE lcons(v, d)
      <3>1. AddCell(var[v], 0, d)  BY <2>4, <1>3 DEF lcons, NewHeadCell
      <3>2. 0 \in 0..Len(spine[var[v]])  BY <2>2
      <3> QED  BY <3>1, <3>2, <2>1, <1>1, <1>3, AddCellOnce
    <2> QED  BY <2>3, <2>4
  <1> QED  BY <1>2, <1>3

LEMMA LappendCellOnce ==
  ASSUME IInv, IInv', NEW v \in Vars, NEW d \in Data, NEW k \in 1..list_length(var[v]),
         lappend_cell(v, k, d)
  PROVE  Abstract!Next
  <1>1. /\ Calling /\ var[v] # NULL /\ AddCell(var[v], k, d) /\ UNCHANGED <<var, call>>
    BY DEF lappend_cell, AddNewCell
  <1>2. k \in 0..Len(spine[var[v]])
    <2>1. length[var[v]] = Len(spine[var[v]]) /\ Len(spine[var[v]]) \in Nat
      BY <1>1, VarFacts, ListFacts
    <2> QED  BY <2>1, <1>1 DEF list_length
  <1> QED  BY <1>1, <1>2, AddCellOnce

LEMMA DeleteFirstOnce ==
  ASSUME IInv, IInv', NEW v \in Vars, list_delete_first(v)
  PROVE  Abstract!Next /\ Contract'
  <1> DEFINE C == ListOf(v)
             c == head[var[v]]
  <1>1. Calling /\ var[v] # NULL /\ list_delete_cell(v, c, NULL, 0)
    BY DEF list_delete_first
  <1>2. call.fn # "concatUnique"  BY <1>1, ClientLists DEF Idle
  <1>3. /\ c = spine[var[v]][0 + 1] /\ Len(spine[var[v]]) \in Nat /\ Len(spine[var[v]]) > 0
    BY <1>1, VarFacts, ListFacts
  <1>4. 0 \in 0..(Len(spine[var[v]]) - 1)  BY <1>3
  <1>5. /\ \A u \in Vars : ListOf(u)' = IF u = v THEN Delete(C, 0) ELSE ListOf(u)
        /\ Asked' = Abstract!Nothing /\ Contract'
        /\ Len(C) = Len(spine[var[v]]) /\ C \in Seq(Values)
    BY <1>1, <1>2, <1>3, <1>4, DeletionIs
  <1> HIDE DEF C
  <1>6. C # <<>> /\ Delete(C, 0) = Tail(C)
    <2>1. Len(C) > 0  BY <1>3, <1>5
    <2>2. C # <<>>  BY <2>1, EmptySeq
    <2> QED  BY <2>1, <2>2, <1>5, TailIsDeletion
  <1> QED  BY <1>1, <1>5, <1>6, OnceIs DEF C

LEMMA ClearOnce ==
  ASSUME IInv, IInv', NEW v \in Vars, list_free(v) \/ TruncateToNil(v)
  PROVE  Abstract!Next /\ Contract'
  <1> DEFINE l == var[v]
             B == {l} \cup CellsOf(l)
  <1>1. Calling /\ l # NULL /\ var' = [var EXCEPT ![v] = NULL]
    BY DEF list_free, TruncateToNil, StartFree, Assign
  <1>2. call = Idle /\ \A u \in Vars : ListOf(u) = ContentsOf(var[u], spine, data)
    BY <1>1, ClientLists
  <1>3. /\ call'.fn = "none" /\ call'.at \in {"free", "client"} /\ Asked' = Abstract!Nothing
    <2>1. CASE list_free(v)
      <3>1. call' = [Idle EXCEPT !.at = "free", !.result = var[v], !.cur = head[var[v]]]
        BY <2>1 DEF list_free, StartFree
      <3>2. /\ call'.fn = "none" /\ call'.v = NULL /\ call'.w = NULL /\ call'.x = NULL
            /\ call'.n = 0 /\ call'.d = NULL /\ call'.at = "free"
        BY <3>1 DEF Idle
      <3> QED  BY <3>2 DEF Asked, Abstract!Nothing
    <2>2. CASE TruncateToNil(v)
      <3>1. call' = Idle  BY <2>2, <1>2 DEF TruncateToNil
      <3> QED  BY <3>1, AskedIdle DEF Idle
    <2> QED  BY <2>1, <2>2
  <1>4. /\ data \in [Cells -> Data \cup {NULL}] /\ var \in [Vars -> Heads \cup {NULL}]
        /\ spine \in [Heads -> Seq(Cells) \cup {NULL}]
    BY DEF IInv, Fields, Heap
  <1>5. /\ l \in Live /\ l \in Heads /\ Members(spine[l]) \subseteq Cells
        /\ CellsOf(l) = Members(spine[l])
    BY <1>1, ListFacts DEF CellsOf, Members
  <1>6. ASSUME NEW u \in Vars, u # v PROVE ListOf(u)' = ListOf(u)
    <2>1. Kept(var[u])
      <3>1. SUFFICES ASSUME var[u] # NULL
                     PROVE  /\ spine'[var[u]] = spine[var[u]]
                            /\ \A b \in Members(spine[var[u]]) : data'[b] = data[b]
        BY DEF Kept
      <3>2. CASE list_free(v)
        BY <3>2 DEF list_free, StartFree, heapVars, cellVars
      <3>3. CASE TruncateToNil(v)
        <4>1. spine' = Without(spine, B) /\ data' = Without(data, B)
          BY <3>3 DEF TruncateToNil, Release
        <4>2. /\ var[u] # l /\ var[u] \in Live /\ var[u] \in Heads
              /\ Members(spine[var[u]]) \subseteq Cells
          BY <1>1, <1>6, <3>1, VarFacts, ListFacts
        <4>3. \A a, m \in Live : \A b \in Members(spine[a]) : b \in Members(spine[m]) => a = m
          BY HeapFacts DEF IInv
        <4>4. var[u] \notin B  BY <4>2, <1>5, PgListAssumption
        <4>5. \A b \in Members(spine[var[u]]) : b \notin B /\ b \in Cells
          BY <4>2, <4>3, <1>5, PgListAssumption
        <4> HIDE DEF B
        <4> QED  BY <4>1, <4>2, <4>4, <4>5, <1>4 DEF Without
      <3> QED  BY <3>2, <3>3
    <2>2. call'.fn # "concatUnique" /\ var'[u] = var[u]  BY <1>1, <1>3, <1>4, <1>6
    <2> QED  BY <2>1, <2>2, <1>1, KeptPlain
  <1>7. ListOf(v)' = <<>>
    <2>1. var'[v] = NULL  BY <1>1, <1>4
    <2> QED  BY <2>1, <1>3, ListOfIs DEF ContentsOf
  <1>8. \A u \in Vars : ListOf(u)' = IF u = v THEN <<>> ELSE ListOf(u)  BY <1>6, <1>7
  <1>9. Abstract!Next  BY <1>1, <1>3, <1>8, OnceIs
  <1> QED  BY <1>3, <1>9 DEF Contract

LEMMA ConcatOnce ==
  ASSUME IInv, IInv', NEW v \in Vars, NEW w \in Vars, list_concat(v, w)
  PROVE  Abstract!Next
  <1> DEFINE l1 == var[v]
             l2 == var[w]
             s == spine[l1]
             t == spine[l2]
             A == ContentsOf(l1, spine, data)
             B == ContentsOf(l2, spine, data)
  <1>1. /\ Calling /\ v # w /\ l2 # NULL /\ call' = call
        /\ var' = [var EXCEPT ![v] = IF l1 = NULL THEN l2 ELSE l1, ![w] = NULL]
    BY DEF list_concat
  <1>2. call = Idle /\ \A u \in Vars : ListOf(u) = ContentsOf(var[u], spine, data)
    BY <1>1, ClientLists
  <1>3. /\ call'.fn # "concatUnique" /\ Asked = Abstract!Nothing /\ Asked' = Abstract!Nothing
    BY <1>1, <1>2, AskedIdle DEF Idle
  <1>4. \A u \in Vars : ListOf(u)' = ContentsOf(var'[u], spine', data')  BY <1>3, ListOfIs
  <1>5. var \in [Vars -> Heads \cup {NULL}] /\ spine \in [Heads -> Seq(Cells) \cup {NULL}]
    BY DEF IInv, Fields, Heap
  <1>6. /\ var'[w] = NULL /\ var'[v] = IF l1 = NULL THEN l2 ELSE l1
        /\ \A u \in Vars : u # v /\ u # w => var'[u] = var[u]
    BY <1>1, <1>5
  <1>7. A \in Seq(Values) /\ B \in Seq(Values)  BY ContentsFacts
  <1>8. /\ ContentsOf(var'[v], spine', data') = A \o B
        /\ \A u \in Vars : u # v /\ u # w => Kept(var[u])
    <2>1. CASE l1 = NULL /\ UNCHANGED heapVars
      <3>1. UNCHANGED <<spine, data>>  BY <2>1 DEF heapVars, cellVars
      <3>2. A = <<>>  BY <2>1 DEF ContentsOf
      <3>3. <<>> \o B = B
        <4> HIDE DEF B
        <4> QED  BY <1>7, ConcatEmptySeq
      <3>4. \A u \in Vars : Kept(var[u])  BY <3>1 DEF Kept
      <3> QED  BY <2>1, <3>1, <3>2, <3>3, <3>4, <1>6
    <2>2. CASE /\ l1 # NULL /\ data' = data
               /\ spine' = Without([spine EXCEPT ![l1] = s \o t], {l2})
      <3>1. /\ l1 \in Heads /\ l2 \in Heads /\ l1 # l2 /\ s \in Seq(Cells) /\ t \in Seq(Cells)
        BY <1>1, <2>2, ListFacts, VarFacts
      <3>2. \A u \in Vars : u # v /\ u # w /\ var[u] # NULL =>
              var[u] \in Heads /\ var[u] # l1 /\ var[u] # l2
        BY <1>1, <2>2, ListFacts, VarFacts
      <3> DEFINE sp == [spine EXCEPT ![l1] = s \o t]
      <3>3. s \o t \in Seq(Cells)  BY <3>1, ConcatProperties
      <3>4. \A m \in Heads : m # l2 => spine'[m] = IF m = l1 THEN s \o t ELSE spine[m]
        BY <2>2, <3>1, <1>5 DEF Without
      <3>5. \A u \in Vars : u # v /\ u # w => Kept(var[u])
        BY <2>2, <3>2, <3>4 DEF Kept
      <3>6. data \in [Cells -> Values]  BY DEF IInv, Fields, Values
      <3>7. Elements(s \o t, data) = Elements(s, data) \o Elements(t, data)
        <4> HIDE DEF s, t
        <4> QED  BY <3>1, <3>6, ElementsConcat
      <3>8. A = Elements(s, data) /\ B = Elements(t, data)
        BY <1>1, <2>2, ContentsFacts
      <3>9. ContentsOf(l1, spine', data') = Elements(s \o t, data)
        <4>1. spine'[l1] = s \o t  BY <3>1, <3>4
        <4>2. l1 = var'[v]  BY <1>6, <2>2
        <4>3. ContentsOf(l1, spine', data') = Elements(spine'[l1], data')
          BY <2>2, <4>2, ContentsNextFacts
        <4> QED  BY <4>1, <4>3, <2>2
      <3> HIDE DEF A, B, s, t
      <3> QED  BY <2>2, <3>5, <3>7, <3>8, <3>9, <1>6
    <2> QED  BY <2>1, <2>2 DEF list_concat
  <1>9. ASSUME NEW u \in Vars, u # v, u # w PROVE ListOf(u)' = ListOf(u)
    BY <1>1, <1>3, <1>6, <1>8, <1>9, KeptPlain
  <1>10. ListOf(w)' = <<>>  BY <1>4, <1>6 DEF ContentsOf
  <1>11. ListOf(v)' = ListOf(v) \o ListOf(w)
    <2>1. ListOf(v)' = A \o B  BY <1>4, <1>8
    <2> QED  BY <2>1, <1>2
  <1>12. Abstract!Concat(v, w)
    <2> DEFINE L == [u \in Vars |-> ListOf(u)]
               M == [u \in Vars |-> ListOf(u)']
    <2>1. \A u \in Vars : M[u] = IF u = w THEN <<>>
                                 ELSE IF u = v THEN L[v] \o L[w] ELSE L[u]
      BY <1>9, <1>10, <1>11
    <2>2. M = [L EXCEPT ![v] = L[v] \o L[w], ![w] = <<>>]  BY <2>1, <1>1
    <2> QED  BY <2>2, <1>1 DEF Abstract!Concat
  <1>13. Abstract!AtOnce  BY <1>12 DEF Abstract!AtOnce
  <1> QED  BY <1>3, <1>13 DEF Abstract!Next

-----------------------------------------------------------------------------
\* The process ends.

LEMMA ExitEnds ==
  ASSUME Exit
  PROVE  Abstract!End /\ Contract'
  <1>1. var' = [u \in Vars |-> NULL] /\ call' = [Idle EXCEPT !.at = "exit"]  BY DEF Exit
  <1>2. call'.fn = "none" /\ call'.at = "exit"  BY <1>1 DEF Idle
  <1>3. Asked' = Abstract!Nothing  BY <1>1, AskedExit
  <1>4. \A u \in Vars : ListOf(u)' = <<>>  BY <1>1, <1>2, ListOfIs DEF ContentsOf
  <1>5. Abstract!End  BY <1>3, <1>4 DEF Abstract!End
  <1> QED  BY <1>2, <1>5 DEF Contract

-----------------------------------------------------------------------------
\* Every step.

LEMMA ContractInit == Init => Abstract!Init /\ Contract
  <1> SUFFICES ASSUME Init PROVE Abstract!Init /\ Contract  OBVIOUS
  <1>1. call = Idle /\ var = [v \in Vars |-> NULL]  BY DEF Init
  <1>2. call.fn = "none" /\ call.at = "client"  BY <1>1 DEF Idle
  <1>3. \A u \in Vars : ListOf(u) = <<>>  BY <1>1, <1>2, ListOfIs DEF ContentsOf
  <1>4. Asked = Abstract!Nothing  BY <1>1, AskedIdle
  <1>5. Abstract!Init  BY <1>3, <1>4 DEF Abstract!Init
  <1> QED  BY <1>2, <1>5 DEF Contract

LEMMA CallRefines ==
  ASSUME IInv, IInv', Call
  PROVE  Abstract!Next /\ Contract'
  <1>1. Calling  BY CallsFromClient
  <1>2. UNCHANGED call => Contract'
    <2>1. call.at = "client"  BY <1>1 DEF Calling
    <2> QED  BY <2>1 DEF Contract
  <1>3. ASSUME NEW v \in Vars, NEW w \in Vars, NEW x \in Vars,
               list_copy(v, x) \/ list_union(v, w, x) \/ list_difference(v, w, x)
                 \/ list_concat_unique(v, w)
        PROVE  Abstract!Ask /\ Contract'
    <2>1. CASE list_copy(v, x)
      <3>1. var[v] # NULL /\ StartCopy("copy", v, NULL, x)  BY <2>1 DEF list_copy
      <3>2. NULL \in Vars \cup {NULL}  OBVIOUS
      <3> QED  BY <3>1, <3>2, <1>1, CopyAsks
    <2>2. CASE list_union(v, w, x) \/ list_difference(v, w, x)  BY <2>2, SetOperationAsks
    <2>3. CASE list_concat_unique(v, w)
      <3>1. Each("concatUnique", v, w, v, var[v], var[w])  BY <2>3 DEF list_concat_unique
      <3> QED  BY <3>1, <1>1, EachAsks
    <2> QED  BY <1>3, <2>1, <2>2, <2>3
  <1>4. ASSUME NEW v \in Vars, NEW n \in 0..list_length(var[v]), NEW x \in Vars,
               list_truncate(v, n) \/ list_nth(v, n) \/ list_copy_tail(v, n, x)
        PROVE  Abstract!Ask /\ Contract'
    <2>1. n \in Nat
      <3>1. ASSUME NEW m \in Int, NEW k \in 0..m PROVE k \in Nat  OBVIOUS
      <3>2. list_length(var[v]) \in Int
        <4>1. var[v] # NULL => length[var[v]] \in Int  BY VarFacts, ListFacts
        <4> QED  BY <4>1 DEF list_length
      <3> QED  BY <3>1, <3>2
    <2> QED  BY <1>4, <2>1, IndexAsks, CopyTailAsks
  <1>5. ASSUME NEW v \in Vars,
               ConcatSelf(v) \/ list_delete_first(v) \/ TruncateToNil(v) \/ list_free(v)
        PROVE  Abstract!Next /\ Contract'
    <2>1. CASE ConcatSelf(v)  BY <2>1, ExitEnds DEF ConcatSelf, Abstract!Next
    <2> QED  BY <1>5, <2>1, DeleteFirstOnce, ClearOnce
  <1>6. ASSUME NEW v \in Vars, NEW d \in Data,
               lappend(v, d) \/ lcons(v, d) \/ list_append_unique(v, d)
                 \/ \E k \in 1..list_length(var[v]) : lappend_cell(v, k, d)
        PROVE  Abstract!Next /\ Contract'
    <2>1. CASE lappend(v, d) \/ lcons(v, d) \/ list_append_unique(v, d)
      <3>1. lappend(v, d) \/ lcons(v, d)  BY <2>1 DEF list_append_unique
      <3>2. UNCHANGED call  BY <3>1 DEF lappend, lcons
      <3> QED  BY <3>1, <3>2, <1>2, LappendOnce
    <2>2. CASE \E k \in 1..list_length(var[v]) : lappend_cell(v, k, d)
      BY <2>2, <1>2, LappendCellOnce DEF lappend_cell
    <2> QED  BY <1>6, <2>1, <2>2
  <1>7. ASSUME NEW v \in Vars, NEW w \in Vars, list_concat(v, w)
        PROVE  Abstract!Next /\ Contract'
    BY <1>2, <1>7, ConcatOnce DEF list_concat
  <1>8. CASE OutOfMemory  BY <1>8, ExitEnds DEF OutOfMemory, Abstract!Next
  <1>9. Abstract!Ask => Abstract!Next  BY DEF Abstract!Next
  <1> QED  BY <1>3, <1>4, <1>5, <1>6, <1>7, <1>8, <1>9, DeleteAsks DEF Call

LEMMA LoopStepRefines ==
  ASSUME IInv, IInv', Contract, LoopStep
  PROVE  (Abstract!Next \/ UNCHANGED Abstract!vars) /\ Contract'
  <1>1. Abstract!Answer => Abstract!Next  BY DEF Abstract!Next
  <1>2. CASE NthReturns \/ Cut \/ EachEnds \/ SearchFinds \/ SearchFails
    BY <1>1, <1>2, NthAnswers, CutAnswers, EachReturns, SearchFindsAnswers, SearchFailsAnswers
  <1>3. CASE WalkOn \/ SkipEnds \/ CopyCell \/ EachFound \/ EachMissing \/ SearchOn
               \/ FreeCell \/ FreeEnds
    BY <1>3, WalkOnStutters, SkipEndsStutters, CopyCellStutters, EachFoundStutters,
       EachMissingStutters, SearchOnStutters, FreeingStutters
  <1>4. CASE CopyEnds  BY <1>1, <1>4, UnionGoesOn, CopyReturns
  <1>5. CASE OutOfMemory  BY <1>5, ExitEnds DEF OutOfMemory, Abstract!Next
  <1> QED  BY <1>2, <1>3, <1>4, <1>5 DEF LoopStep

\* Each function of pg_list.c does to the sequences of elements what its comment
\* says, on lists of any length and for any number of lists: every step of module
\* PgList is one of module Lists, or changes nothing that the callers see.
THEOREM ContractKept == Spec => Refines
  <1>1. IInv /\ IInv' /\ Contract /\ [Next]_vars => [Abstract!Next]_(Abstract!vars) /\ Contract'
    <2> SUFFICES ASSUME IInv, IInv', Contract, [Next]_vars
                 PROVE  [Abstract!Next]_(Abstract!vars) /\ Contract'
      OBVIOUS
    <2>1. CASE Call  BY <2>1, CallRefines
    <2>2. CASE LoopStep  BY <2>2, LoopStepRefines
    <2>3. CASE UNCHANGED vars
      <3>1. UNCHANGED <<heap, data, next, length, head, tail, spine, var, call>>
        BY <2>3 DEF vars, heapVars, cellVars, headVars
      <3>2. UNCHANGED Abstract!vars
        BY <3>1 DEF Abstract!vars, ListOf, Contents, Asked
      <3>3. Copied => Copied'  BY <3>1 DEF Copied, Source, Contents
      <3>4. Gathered => Gathered'
        <4>1. Over' = Over  BY <3>1 DEF Over, Iterated
        <4>2. Rounds' = Rounds  BY <3>1 DEF Rounds, ListOf, Contents
        <4>3. /\ ListOf(call.w)' = ListOf(call.w) /\ Contents(var[call.w])' = Contents(var[call.w])
              /\ Contents(call.result)' = Contents(call.result)
          BY <3>1 DEF ListOf, Contents
        <4> QED  BY <3>1, <4>1, <4>2, <4>3 DEF Gathered
      <3>5. Passed => Passed'  BY <3>1 DEF Passed, Contents
      <3>6. Asked' = Asked  BY <3>1 DEF Asked
      <3>7. Contract'  BY <3>1, <3>3, <3>4, <3>5, <3>6 DEF Contract
      <3> QED  BY <3>2, <3>7
    <2> QED  BY <2>1, <2>2, <2>3 DEF Next
  <1>2. IInv /\ [Next]_vars => IInv'  BY NextKeeps
  <1>3. Init => IInv  BY InitInv
  <1> QED  BY <1>1, <1>2, <1>3, ContractInit, PTL DEF Spec, Refines, Abstract!Spec
=============================================================================
