----------------------------- MODULE HttpProofs -----------------------------
(***************************************************************************)
(* Proofs about the functions of http.c, for texts and limits of any size, *)
(* and for names of files of any words.  The scans of string.h are defined *)
(* by what they find; the first lemmas say that they find it, and that     *)
(* nothing else is what they find.                                         *)
(***************************************************************************)
EXTENDS MCHttp, SequenceTheorems, WellFoundedInduction, TLAPS

\* What texts and paths are made of.
Chars    == {"G", "H", "x", "P", "1", "0", SP, CR}
Elements == Words \cup {Dot, Slash}

-----------------------------------------------------------------------------
\* Least and greatest elements.

LEMMA Least ==
  ASSUME NEW S, S \subseteq Nat, S # {}
  PROVE  \E x \in S : \A y \in S : x <= y
  <1> DEFINE R == {p \in Nat \X Nat : p[1] < p[2]}
  <1>1. IsWellFoundedOn(R, Nat)  BY NatLessThanWellFounded DEF OpToRel
  <1> HIDE DEF R
  <1>2. PICK x \in S : \A y \in S : ~ (<<y, x>> \in R)  BY <1>1, WFMin
  <1>3. \A y \in S : ~ (y < x)  BY <1>2 DEF R
  <1> QED  BY <1>3

LEMMA Greatest ==
  ASSUME NEW n \in Nat, NEW S, S \subseteq 1..n, S # {}
  PROVE  \E x \in S : \A y \in S : y <= x
  <1> DEFINE T == {n - y : y \in S}
  <1>1. T \subseteq Nat /\ T # {}
    <2>1. \A y \in S : n - y \in Nat  OBVIOUS
    <2> QED  BY <2>1
  <1>2. PICK x \in T : \A y \in T : x <= y
    <2> HIDE DEF T
    <2> QED  BY <1>1, Least
  <1>3. PICK m \in S : x = n - m  BY <1>2
  <1>4. \A y \in S : n - y \in T /\ y \in Int  OBVIOUS
  <1>5. \A y \in S : y <= m  BY <1>2, <1>3, <1>4
  <1> QED  BY <1>5

-----------------------------------------------------------------------------
\* strchr, strpbrk and strspn.

Found(s, from, ch, i) ==
  /\ i \in from..(Len(s) + 1)
  /\ \A j \in from..(i - 1) : s[j] # ch
  /\ i <= Len(s) => s[i] = ch

LEMMA FirstFromFacts ==
  ASSUME NEW S, NEW s \in Seq(S), NEW from \in 1..(Len(s) + 1), NEW ch
  PROVE  Found(s, from, ch, FirstFrom(s, from, ch))
  <1> DEFINE T == {k \in from..(Len(s) + 1) : k <= Len(s) => s[k] = ch}
  <1>1. T \subseteq Nat /\ Len(s) + 1 \in T  OBVIOUS
  <1>2. PICK i \in T : \A k \in T : i <= k
    <2> HIDE DEF T
    <2> QED  BY <1>1, Least
  <1>3. i \in from..(Len(s) + 1) /\ (i <= Len(s) => s[i] = ch)  OBVIOUS
  <1>4. ASSUME NEW j \in from..(i - 1) PROVE s[j] # ch
    <2>1. j \notin T  BY <1>2, <1>3
    <2> QED  BY <1>3, <2>1
  <1>5. \E k \in from..(Len(s) + 1) :
          /\ \A j \in from..(k - 1) : s[j] # ch
          /\ k <= Len(s) => s[k] = ch
    BY <1>3, <1>4
  <1> QED  BY <1>5 DEF FirstFrom, Found

LEMMA FirstFromUnique ==
  ASSUME NEW S, NEW s \in Seq(S), NEW from \in 1..(Len(s) + 1), NEW ch,
         NEW i, Found(s, from, ch, i)
  PROVE  FirstFrom(s, from, ch) = i
  <1>1. Found(s, from, ch, FirstFrom(s, from, ch))  BY FirstFromFacts
  <1> QED  BY <1>1 DEF Found

LEMMA HasFirst ==
  ASSUME NEW S, NEW s \in Seq(S), NEW ch
  PROVE  Has(s, ch) <=> FirstFrom(s, 1, ch) <= Len(s)
  <1>1. Found(s, 1, ch, FirstFrom(s, 1, ch))  BY FirstFromFacts
  <1> QED  BY <1>1 DEF Found, Has

Spans(s, from, ch, n) ==
  /\ n \in 0..(Len(s) + 1 - from)
  /\ \A i \in from..(from + n - 1) : s[i] = ch
  /\ from + n <= Len(s) => s[from + n] # ch

LEMMA SpanFacts ==
  ASSUME NEW S, NEW s \in Seq(S), NEW from \in 1..(Len(s) + 1), NEW ch
  PROVE  Spans(s, from, ch, Span(s, from, ch))
  <1> DEFINE T == {k \in 0..(Len(s) + 1 - from) : from + k <= Len(s) => s[from + k] # ch}
  <1>1. T \subseteq Nat /\ Len(s) + 1 - from \in T  OBVIOUS
  <1>2. PICK n \in T : \A k \in T : n <= k
    <2> HIDE DEF T
    <2> QED  BY <1>1, Least
  <1>3. n \in 0..(Len(s) + 1 - from) /\ (from + n <= Len(s) => s[from + n] # ch)
    OBVIOUS
  <1>4. ASSUME NEW i \in from..(from + n - 1) PROVE s[i] = ch
    <2>1. i - from \notin T  BY <1>2, <1>3
    <2>2. i - from \in 0..(Len(s) + 1 - from) /\ from + (i - from) = i  BY <1>3
    <2> QED  BY <2>1, <2>2
  <1>5. \E k \in 0..(Len(s) + 1 - from) :
          /\ \A i \in from..(from + k - 1) : s[i] = ch
          /\ from + k <= Len(s) => s[from + k] # ch
    BY <1>3, <1>4
  <1> QED  BY <1>5 DEF Span, Spans

LEMMA SpanUnique ==
  ASSUME NEW S, NEW s \in Seq(S), NEW from \in 1..(Len(s) + 1), NEW ch,
         NEW n, Spans(s, from, ch, n)
  PROVE  Span(s, from, ch) = n
  <1> DEFINE m == Span(s, from, ch)
  <1>1. Spans(s, from, ch, m)  BY SpanFacts
  <1> HIDE DEF m
  <1>2. m \in Nat /\ n \in Nat  BY <1>1 DEF Spans
  <1>3. ~ (m < n)
    <2>1. m < n => from + m \in from..(from + n - 1) /\ from + m <= Len(s)
      BY <1>1, <1>2 DEF Spans
    <2> QED  BY <1>1, <2>1 DEF Spans
  <1>4. ~ (n < m)
    <2>1. n < m => from + n \in from..(from + m - 1) /\ from + n <= Len(s)
      BY <1>1, <1>2 DEF Spans
    <2> QED  BY <1>1, <2>1 DEF Spans
  <1>5. m = n  BY <1>2, <1>3, <1>4
  <1> QED  BY <1>5 DEF m

-----------------------------------------------------------------------------
\* Parts of a text.

LEMMA SubSeqSame ==
  ASSUME NEW S, NEW s \in Seq(S), NEW t \in Seq(S), NEW a \in Nat \ {0}, NEW b \in Int,
         b <= Len(s), b <= Len(t), \A i \in a..b : s[i] = t[i]
  PROVE  SubSeq(s, a, b) = SubSeq(t, a, b)
  <1>1. \A i \in a..b : s[i] \in S /\ t[i] \in S  BY LenProperties
  <1>2. /\ SubSeq(s, a, b) \in Seq(S) /\ SubSeq(t, a, b) \in Seq(S)
        /\ Len(SubSeq(s, a, b)) = Len(SubSeq(t, a, b))
        /\ Len(SubSeq(s, a, b)) = IF a <= b THEN b - a + 1 ELSE 0
        /\ \A i \in 1..(b - a + 1) : SubSeq(s, a, b)[i] = s[a + i - 1]
        /\ \A i \in 1..(b - a + 1) : SubSeq(t, a, b)[i] = t[a + i - 1]
    BY <1>1, SubSeqProperties
  <1>3. \A i \in 1..(b - a + 1) : a + i - 1 \in a..b  OBVIOUS
  <1>4. \A i \in 1..Len(SubSeq(s, a, b)) : SubSeq(s, a, b)[i] = SubSeq(t, a, b)[i]
    BY <1>2, <1>3
  <1> QED  BY <1>2, <1>4, SeqEqual

LEMMA BeforeFacts ==
  ASSUME NEW S, NEW s \in Seq(S), NEW e \in 1..(Len(s) + 1)
  PROVE  /\ Before(s, e) \in Seq(S) /\ Len(Before(s, e)) = e - 1
         /\ \A i \in 1..(e - 1) : Before(s, e)[i] = s[i]
  <1>1. \A i \in 1..(e - 1) : s[i] \in S  BY LenProperties
  <1> QED  BY <1>1, SubSeqProperties DEF Before

LEMMA SubSeqBefore ==
  ASSUME NEW S, NEW s \in Seq(S), NEW e \in 1..(Len(s) + 1),
         NEW a \in Nat \ {0}, NEW b \in Int, b < e
  PROVE  SubSeq(Before(s, e), a, b) = SubSeq(s, a, b)
  BY BeforeFacts, SubSeqSame

-----------------------------------------------------------------------------
\* The verdict, in terms of the positions that the parser finds.

Judged(s, line_end, method_end, skip_spaces, uri_end) ==
  LET protocol == ProtocolStart(uri_end, skip_spaces) IN
  IF line_end > Len(s) \/ method_end > line_end THEN "PARSE_HTTP_INVALID_SYNTAX"
  ELSE IF MethodOf(Before(s, method_end)) = "none" THEN "PARSE_HTTP_INVALID_METHOD"
  ELSE IF BeyondLine(uri_end, line_end) THEN "PARSE_HTTP_INVALID_SYNTAX"
  ELSE IF TooLong(uri_end - (method_end + skip_spaces)) THEN "PARSE_HTTP_URI_TOO_LONG"
  ELSE IF SubSeq(s, protocol, line_end - 1) \notin Versions
       THEN "PARSE_HTTP_INVALID_VERSION"
  ELSE "PARSE_HTTP_OK"

LEMMA Verdict ==
  ASSUME NEW S, NEW s \in Seq(S), NEW le, NEW me, NEW sk, NEW ue,
         Found(s, 1, CR, le), Found(s, 1, SP, me), Spans(s, me, SP, sk),
         Found(s, me + sk, SP, ue)
  PROVE  parse_http_req(s) = Judged(s, le, me, sk, ue)
  <1>1. le = FirstFrom(s, 1, CR) /\ me = FirstFrom(s, 1, SP)
    BY FirstFromUnique
  <1>2. me \in 1..(Len(s) + 1)  BY DEF Found
  <1>3. sk = Span(s, me, SP)  BY <1>2, SpanUnique
  <1>4. me + sk \in 1..(Len(s) + 1)  BY <1>2 DEF Spans
  <1>5. ue = FirstFrom(s, me + sk, SP)  BY <1>4, FirstFromUnique
  <1>6. ~Has(s, CR) <=> le > Len(s)  BY <1>1, HasFirst DEF Found
  <1> QED  BY <1>1, <1>3, <1>5, <1>6 DEF parse_http_req, Judged

\* There are such positions.
LEMMA Positions ==
  ASSUME NEW S, NEW s \in Seq(S)
  PROVE  \E le, me, sk, ue :
           /\ Found(s, 1, CR, le) /\ Found(s, 1, SP, me) /\ Spans(s, me, SP, sk)
           /\ Found(s, me + sk, SP, ue)
  <1>1. PICK le : Found(s, 1, CR, le)  BY FirstFromFacts
  <1>2. PICK me : Found(s, 1, SP, me)  BY FirstFromFacts
  <1>3. PICK sk : me \in 1..(Len(s) + 1) /\ Spans(s, me, SP, sk)
    <2>1. me \in 1..(Len(s) + 1)  BY <1>2 DEF Found
    <2> QED  BY <2>1, SpanFacts
  <1>4. me + sk \in 1..(Len(s) + 1)  BY <1>3 DEF Spans
  <1>5. PICK ue : Found(s, me + sk, SP, ue)  BY <1>4, FirstFromFacts
  <1> QED  BY <1>1, <1>2, <1>3, <1>5

-----------------------------------------------------------------------------
LEMMA LineFacts ==
  ASSUME NEW S, str \in Seq(S), NEW le, Found(str, 1, CR, le)
  PROVE  /\ le \in 1..(Len(str) + 1) /\ Line = Before(str, le)
         /\ Line \in Seq(S) /\ Len(Line) = le - 1
         /\ \A i \in 1..(le - 1) : Line[i] = str[i]
  <1>1. le \in 1..(Len(str) + 1)  BY DEF Found
  <1>2. Line = Before(str, le)  BY FirstFromUnique DEF Line
  <1> QED  BY <1>1, <1>2, BeforeFacts

LEMMA WordsJudged ==
  ASSUME NEW S, str \in Seq(S)
  PROVE  ThreeWordsJudged
  <1> SUFFICES ASSUME Has(str, CR), NEW i \in Spaces, NEW j \in Spaces,
                      Spaces = {i, j}, i + 1 < j
               PROVE  parse_http_req(str) =
                        Deserves(SubSeq(Line, 1, i - 1), SubSeq(Line, i + 1, j - 1),
                                 SubSeq(Line, j + 1, Len(Line)))
    BY DEF ThreeWordsJudged
  <1>1. PICK le : Found(str, 1, CR, le)  BY FirstFromFacts
  <1>2. le \in 1..Len(str)  BY <1>1, HasFirst, FirstFromUnique DEF Found
  <1>3. /\ Line = Before(str, le) /\ Line \in Seq(S) /\ Len(Line) = le - 1
        /\ \A k \in 1..(le - 1) : Line[k] = str[k]
    BY <1>1, LineFacts
  <1>4. /\ i \in 1..(le - 1) /\ j \in 1..(le - 1)
        /\ \A k \in 1..(le - 1) : str[k] = SP <=> k \in {i, j}
    <2>1. DOMAIN Line = 1..(le - 1)  BY <1>3, LenProperties
    <2> QED  BY <1>3, <2>1 DEF Spaces
  <1>5. Found(str, 1, SP, i)  BY <1>2, <1>4 DEF Found
  <1>6. Spans(str, i, SP, 1)  BY <1>2, <1>4 DEF Spans
  <1>7. Found(str, i + 1, SP, j)  BY <1>2, <1>4 DEF Found
  <1>8. parse_http_req(str) = Judged(str, le, i, 1, j)
    BY <1>1, <1>5, <1>6, <1>7, Verdict
  <1>9. SubSeq(Line, 1, i - 1) = Before(str, i)
    BY <1>2, <1>3, <1>4, SubSeqBefore DEF Before
  <1>10. Len(SubSeq(Line, i + 1, j - 1)) = j - (i + 1)
    <2>1. \A k \in (i + 1)..(j - 1) : Line[k] \in S  BY <1>3, <1>4, LenProperties
    <2>2. i + 1 \in Int /\ j - 1 \in Int  BY <1>4
    <2> QED  BY <1>4, <2>1, <2>2, SubSeqProperties
  <1>11. SubSeq(Line, j + 1, Len(Line)) = SubSeq(str, j + 1, le - 1)
    BY <1>2, <1>3, <1>4, SubSeqBefore
  <1>12. ~(le > Len(str)) /\ ~(i > le) /\ ~(j > le)  BY <1>2, <1>4
  <1> QED
    BY <1>8, <1>9, <1>10, <1>11, <1>12
    DEF Judged, Deserves, ProtocolStart, BeyondLine, TooLong

LEMMA ShapeAccepted ==
  ASSUME NEW S, str \in Seq(S)
  PROVE  AcceptedShape
  <1> SUFFICES ASSUME parse_http_req(str) = "PARSE_HTTP_OK"
               PROVE  \E m \in 1..Len(Line) : \E u \in 1..UriLimit :
                        /\ Len(Line) = 1 + m + u + m + 2
                        /\ MethodOf(<<Line[1]>>) # "none"
                        /\ \A i \in 2..(1 + m) : Line[i] = SP
                        /\ \A i \in (2 + m)..(1 + m + u) : Line[i] # SP
                        /\ Line[2 + m + u] = SP
                        /\ SubSeq(Line, Len(Line) - 1, Len(Line)) \in Versions
    BY DEF AcceptedShape
  <1>1. PICK le, me, m, ue :
          /\ Found(str, 1, CR, le) /\ Found(str, 1, SP, me) /\ Spans(str, me, SP, m)
          /\ Found(str, me + m, SP, ue)
    BY Positions
  <1>2. Judged(str, le, me, m, ue) = "PARSE_HTTP_OK"  BY <1>1, Verdict
  <1>3. /\ ~(le > Len(str)) /\ ~(me > le) /\ ~(ue > le) /\ ~(ue - (me + m) > UriLimit)
        /\ MethodOf(Before(str, me)) # "none"
        /\ SubSeq(str, ue + m, le - 1) \in Versions
    BY <1>2 DEF Judged, BeyondLine, TooLong, ProtocolStart
  <1>4. /\ le \in 1..Len(str) /\ me \in 1..Len(str) /\ str[le] = CR /\ str[me] = SP
        /\ me <= le
    BY <1>1, <1>3 DEF Found
  <1>5. /\ m \in Nat /\ ue \in (me + m)..Len(str) /\ str[ue] = SP /\ ue <= le
        /\ \A i \in me..(me + m - 1) : str[i] = SP
        /\ \A i \in (me + m)..(ue - 1) : str[i] # SP
        /\ (me + m <= Len(str) => str[me + m] # SP)
    BY <1>1, <1>3, <1>4 DEF Found, Spans
  <1>6. /\ Line = Before(str, le) /\ Line \in Seq(S) /\ Len(Line) = le - 1
        /\ \A i \in 1..(le - 1) : Line[i] = str[i]
    BY <1>1, LineFacts
  <1>7. CR # SP  BY Zenon DEF CR, SP
  <1>8. me < le /\ ue < le /\ m >= 1 /\ ue > me + m
    <2>1. me # le /\ ue # le  BY <1>4, <1>5, <1>7
    <2>2. m # 0 /\ ue # me + m  BY <1>4, <1>5
    <2> QED  BY <1>4, <1>5, <2>1, <2>2
  <1>9. me = 2 /\ MethodOf(<<Line[1]>>) # "none"
    <2>1. Before(str, me) \in {<<"G">>, <<"H">>}  BY <1>3 DEF MethodOf
    <2>2. /\ Len(Before(str, me)) = me - 1
          /\ \A i \in 1..(me - 1) : Before(str, me)[i] = str[i]
      BY <1>4, BeforeFacts
    <2>3. me = 2
      <3>1. Len(Before(str, me)) = 1
        <4>1. Len(<<"G">>) = 1 /\ Len(<<"H">>) = 1  OBVIOUS
        <4> QED  BY <2>1, <4>1
      <3>2. me \in Nat  BY <1>4
      <3>3. me - 1 = 1
        <4>1. Len(Before(str, me)) = me - 1  BY <2>2
        <4> QED  BY <3>1, <4>1
      <3> QED  BY <3>2, <3>3
    <2>4. Line[1] = Before(str, me)[1]  BY <1>6, <1>8, <1>4, <2>2, <2>3
    <2>5. <<Line[1]>> = Before(str, me)  BY <2>1, <2>4
    <2> QED  BY <1>3, <2>3, <2>5
  <1>10. le = ue + m + 2
    <2>1. Len(SubSeq(str, ue + m, le - 1)) = 2
      <3>1. Len(<<"P", "1">>) = 2 /\ Len(<<"P", "0">>) = 2  OBVIOUS
      <3> QED  BY <1>3, <3>1 DEF Versions
    <2>2. \A i \in (ue + m)..(le - 1) : str[i] \in S  BY <1>4, <1>5, LenProperties
    <2>3. ue + m \in Int /\ le - 1 \in Int  BY <1>4, <1>5
    <2>4. Len(SubSeq(str, ue + m, le - 1))
            = IF ue + m <= le - 1 THEN le - 1 - (ue + m) + 1 ELSE 0
      BY <2>2, <2>3, SubSeqProperties
    <2> QED  BY <2>1, <2>3, <2>4, <1>4, <1>5
  <1>11. SubSeq(Line, Len(Line) - 1, Len(Line)) = SubSeq(str, ue + m, le - 1)
    <2>1. Len(Line) - 1 = ue + m /\ ue + m \in Nat \ {0}
      BY <1>4, <1>5, <1>6, <1>8, <1>10
    <2>2. Len(Line) = le - 1 /\ le - 1 \in Int /\ le - 1 < le /\ le \in 1..(Len(str) + 1)
      BY <1>4, <1>6
    <2>3. SubSeq(Before(str, le), ue + m, le - 1) = SubSeq(str, ue + m, le - 1)
      BY <2>1, <2>2, SubSeqBefore
    <2> QED  BY <1>6, <2>1, <2>2, <2>3
  <1> DEFINE u == ue - (2 + m)
  <1>12. u \in 1..UriLimit
    <2>1. u >= 1 /\ u <= UriLimit /\ u \in Int
      BY <1>3, <1>4, <1>5, <1>8, <1>9, HttpParseAssumption
    <2> QED  BY <2>1, HttpParseAssumption
  <1>13. m \in 1..Len(Line) /\ Len(Line) = 1 + m + u + m + 2 /\ 2 + m + u = ue
    <2>1. m \in Nat /\ ue \in Nat /\ Len(Line) = ue + m + 1  BY SMTT(20), <1>4, <1>5, <1>6, <1>10
    <2> QED  BY <1>8, <1>9, <2>1
  <1>14. Line[2 + m + u] = SP  BY <1>4, <1>5, <1>6, <1>8, <1>13
  <1>15. \A i \in 2..(1 + m) : Line[i] = SP  BY <1>4, <1>5, <1>6, <1>8, <1>9
  <1>16. \A i \in (2 + m)..(1 + m + u) : Line[i] # SP
    BY <1>4, <1>5, <1>6, <1>8, <1>9, <1>13
  <1> HIDE DEF u
  <1> QED  BY <1>3, <1>9, <1>11, <1>12, <1>13, <1>14, <1>15, <1>16

-----------------------------------------------------------------------------
\* A scan that ends in the first line ends there whatever follows the line.

LEMMA FoundInLine ==
  ASSUME NEW S, NEW s \in Seq(S), NEW t \in Seq(S), NEW e \in 1..Len(s), e <= Len(t),
         \A k \in 1..e : s[k] = t[k],
         NEW from \in 1..e, NEW ch, NEW i, NEW j, Found(s, from, ch, i), Found(t, from, ch, j),
         i <= e
  PROVE  i = j
  <1>1. i \in from..e /\ s[i] = ch /\ t[i] = ch /\ \A k \in from..(i - 1) : t[k] # ch
    BY DEF Found
  <1>2. Found(t, from, ch, i)  BY <1>1 DEF Found
  <1> QED  BY <1>2, FirstFromUnique

LEMMA VerdictInLine ==
  ASSUME NEW S, NEW s \in Seq(S), NEW t \in Seq(S), Has(s, CR), Len(s) <= Len(t),
         \A k \in 1..Len(s) : s[k] = t[k]
  PROVE  parse_http_req(t) = parse_http_req(s)
  <1>1. PICK le, me, sk, ue :
          /\ Found(s, 1, CR, le) /\ Found(s, 1, SP, me) /\ Spans(s, me, SP, sk)
          /\ Found(s, me + sk, SP, ue)
    BY Positions
  <1>2. PICK le2, me2, sk2, ue2 :
          /\ Found(t, 1, CR, le2) /\ Found(t, 1, SP, me2) /\ Spans(t, me2, SP, sk2)
          /\ Found(t, me2 + sk2, SP, ue2)
    BY Positions
  <1>3. /\ parse_http_req(s) = Judged(s, le, me, sk, ue)
        /\ parse_http_req(t) = Judged(t, le2, me2, sk2, ue2)
    BY <1>1, <1>2, Verdict
  <1>4. le \in 1..Len(s) /\ s[le] = CR
    <2>1. FirstFrom(s, 1, CR) = le  BY <1>1, FirstFromUnique
    <2>2. le <= Len(s)  BY <2>1, HasFirst
    <2> QED  BY <1>1, <2>2 DEF Found
  <1>5. le2 = le  BY <1>1, <1>2, <1>4, FoundInLine
  <1>6. CR # SP  BY Zenon DEF CR, SP
  <1>7. \A k \in 1..le : s[k] = t[k]  BY <1>4
  <1>8. me \in Int /\ me2 \in Int  BY <1>1, <1>2 DEF Found
  <1>9. CASE me > le
    <2>1. me2 > le
      <3>1. me2 <= le => me2 = me
        BY <1>1, <1>2, <1>4, <1>7, FoundInLine
      <3> QED  BY <1>8, <1>9, <1>4, <3>1
    <2> QED  BY <1>3, <1>5, <1>9, <2>1, <1>4 DEF Judged
  <1>10. CASE ~(me > le)
    <2>1. me \in 1..le /\ me2 = me
      BY <1>1, <1>2, <1>4, <1>7, <1>8, <1>10, FoundInLine DEF Found
    <2>2. me < le
      <3>1. s[me] = SP  BY <1>1, <1>4, <2>1 DEF Found
      <3> QED  BY <1>4, <1>6, <2>1, <3>1
    <2>3. sk \in 0..(le - me)
      <3>1. sk \in Nat /\ \A k \in me..(me + sk - 1) : s[k] = SP  BY <1>1, <2>1 DEF Spans
      <3>2. ~(me + sk > le)  BY <1>4, <1>6, <2>1, <2>2, <3>1
      <3> QED  BY <1>4, <2>1, <3>1, <3>2
    <2>4. sk2 = sk
      <3>1. /\ \A k \in me..(me + sk - 1) : t[k] = SP
            /\ t[me + sk] # SP
        <4>1. /\ \A k \in me..(me + sk - 1) : s[k] = SP
              /\ me + sk <= Len(s) => s[me + sk] # SP
          BY <1>1 DEF Spans
        <4>2. me + sk \in 1..le /\ me..(me + sk - 1) \subseteq 1..le
          BY <1>4, <2>1, <2>3
        <4> QED  BY <1>4, <1>7, <4>1, <4>2
      <3>2. sk \in 0..(Len(t) + 1 - me)  BY <1>4, <2>1, <2>3
      <3>3. Spans(t, me, SP, sk)  BY <3>1, <3>2 DEF Spans
      <3>4. me \in 1..(Len(t) + 1)  BY <1>4, <2>1
      <3> QED  BY <1>2, <2>1, <3>3, <3>4, SpanUnique
    <2>5. me + sk \in 1..le /\ ue \in Int /\ ue2 \in Int
      BY <1>1, <1>2, <1>4, <2>1, <2>3, <2>4 DEF Found
    <2>6. Before(t, me) = Before(s, me)
      <3>1. me - 1 \in Int /\ 1 \in Nat \ {0} /\ me - 1 <= Len(s) /\ me - 1 <= Len(t)
            /\ \A k \in 1..(me - 1) : t[k] = s[k]
        BY <1>4, <2>1, <1>7
      <3> QED  BY <3>1, SubSeqSame DEF Before
    <2>7. CASE ue > le
      <3>1. ue2 > le
        <4>1. ue2 <= le => ue2 = ue
          BY <1>1, <1>2, <1>4, <1>7, <2>1, <2>4, <2>5, FoundInLine
        <4> QED  BY <2>5, <2>7, <1>4, <4>1
      <3> QED
        BY <1>3, <1>4, <1>5, <2>1, <2>4, <2>6, <2>7, <3>1 DEF Judged, BeyondLine
    <2>8. CASE ~(ue > le)
      <3>1. ue2 = ue
        BY <1>1, <1>2, <1>4, <1>7, <2>1, <2>4, <2>5, <2>8, FoundInLine
      <3>2. SubSeq(t, ProtocolStart(ue, sk), le - 1) = SubSeq(s, ProtocolStart(ue, sk), le - 1)
        <4>1. ue \in Nat \ {0}  BY <1>1, <2>5 DEF Found
        <4>2. ue + sk \in Nat \ {0} /\ le - 1 \in Int /\ le - 1 <= Len(s) /\ le - 1 <= Len(t)
              /\ \A k \in (ue + sk)..(le - 1) : t[k] = s[k]
          BY <1>4, <1>7, <2>3, <4>1
        <4> QED  BY <4>2, SubSeqSame DEF ProtocolStart
      <3>3. ~(le > Len(s)) /\ ~(le > Len(t))  BY <1>4
      <3>4. Judged(t, le, me, sk, ue) = Judged(s, le, me, sk, ue)
        BY <2>6, <3>2, <3>3 DEF Judged
      <3> QED  BY <1>3, <1>5, <2>1, <2>4, <3>1, <3>4
    <2> QED  BY <2>7, <2>8
  <1> QED  BY <1>9, <1>10

-----------------------------------------------------------------------------
\* The last dot of a path.

LEMMA LastDotFacts ==
  ASSUME NEW S, NEW s \in Seq(S), Dots(s) # {}
  PROVE  LastDot(s) \in Dots(s) /\ \A j \in Dots(s) : j <= LastDot(s)
  <1>1. Dots(s) \subseteq 1..Len(s) /\ Len(s) \in Nat  BY LenProperties DEF Dots
  <1>2. \E k \in Dots(s) : \A j \in Dots(s) : j <= k  BY <1>1, Greatest
  <1> QED  BY <1>2 DEF LastDot

LEMMA LastDotUnique ==
  ASSUME NEW S, NEW s \in Seq(S), NEW k \in Dots(s), \A j \in Dots(s) : j <= k
  PROVE  LastDot(s) = k
  <1>1. LastDot(s) \in Dots(s) /\ k <= LastDot(s)  BY LastDotFacts
  <1>2. Dots(s) \subseteq Int  BY LenProperties DEF Dots
  <1> QED  BY <1>1, <1>2

LEMMA ExtensionFacts ==
  ASSUME NEW S, NEW s \in Seq(S), NEW k \in 1..Len(s)
  PROVE  /\ SubSeq(s, k + 1, Len(s)) \in Seq(S)
         /\ Len(SubSeq(s, k + 1, Len(s))) = Len(s) - k
         /\ \A i \in 1..(Len(s) - k) : SubSeq(s, k + 1, Len(s))[i] = s[k + i]
  <1> DEFINE a == k + 1
             n == Len(s)
  <1>1. n \in Nat /\ a \in Nat /\ a = k + 1 /\ k \in 1..n  OBVIOUS
  <1>2. \A i \in a..n : s[i] \in S  BY <1>1, LenProperties
  <1> HIDE DEF a, n
  <1>3. /\ SubSeq(s, a, n) \in Seq(S)
        /\ Len(SubSeq(s, a, n)) = IF a <= n THEN n - a + 1 ELSE 0
        /\ \A i \in 1..(n - a + 1) : SubSeq(s, a, n)[i] = s[a + i - 1]
    BY <1>1, <1>2, SubSeqProperties
  <1>4. Len(SubSeq(s, a, n)) = n - k  BY <1>1, <1>3
  <1>5. \A i \in 1..(n - k) : i \in 1..(n - a + 1) /\ a + i - 1 = k + i  BY <1>1
  <1>6. \A i \in 1..(n - k) : SubSeq(s, a, n)[i] = s[k + i]  BY <1>3, <1>5
  <1> QED  BY <1>3, <1>4, <1>6 DEF a, n

\* A type is found only behind a dot that is the last character but one.
LEMMA TypeBehindDot ==
  ASSUME NEW S, NEW s \in Seq(S),
         http_conten_type_from_filename(s) # "HTTP_CT_BIN"
  PROVE  Len(s) > 1 /\ s[Len(s) - 1] = Dot
  <1>1. Dots(s) # {} /\ Len(SubSeq(s, LastDot(s) + 1, Len(s))) = 1
    BY DEF http_conten_type_from_filename, http_conten_type_from_ext
  <1>2. LastDot(s) \in 1..Len(s) /\ s[LastDot(s)] = Dot
    BY <1>1, LastDotFacts, LenProperties DEF Dots
  <1>3. Len(s) - LastDot(s) = 1  BY <1>1, <1>2, ExtensionFacts
  <1> QED  BY <1>2, <1>3

LEMMA TypeOfExtension ==
  ASSUME NEW S, NEW s \in Seq(S), Len(s) > 1, s[Len(s) - 1] = Dot,
         s[Len(s)] \in DOMAIN Known
  PROVE  http_conten_type_from_filename(s) = Known[s[Len(s)]]
  <1> DEFINE n == Len(s)
  <1>1. n \in Nat /\ n - 1 \in Dots(s)  BY LenProperties DEF Dots
  <1>2. s[n] # Dot
    <2>1. Dot \notin DOMAIN Known
      <3>1. /\ Dot # "bin" /\ Dot # "bmp" /\ Dot # "css" /\ Dot # "csv" /\ Dot # "gif"
            /\ Dot # "html" /\ Dot # "htm" /\ Dot # "jpeg" /\ Dot # "jpg" /\ Dot # "js"
            /\ Dot # "mjs" /\ Dot # "json" /\ Dot # "mp3" /\ Dot # "mp4" /\ Dot # "otf"
            /\ Dot # "png" /\ Dot # "pdf" /\ Dot # "svg" /\ Dot # "ttf" /\ Dot # "txt"
        BY Zenon DEF Dot
      <3> QED  BY <3>1 DEF Known
    <2> QED  BY <2>1
  <1>3. \A j \in Dots(s) : j <= n - 1
    <2>1. \A j \in Dots(s) : j \in 1..n /\ j # n  BY <1>2, LenProperties DEF Dots
    <2> QED  BY <1>1, <2>1
  <1>4. LastDot(s) = n - 1  BY <1>1, <1>3, LastDotUnique
  <1>5. /\ Len(SubSeq(s, n, n)) = 1
        /\ SubSeq(s, n, n)[1] = s[n]
    BY <1>1, ExtensionFacts, LenProperties
  <1>6. SubSeq(s, LastDot(s) + 1, Len(s)) = SubSeq(s, n, n)  BY <1>1, <1>4
  <1> QED
    BY <1>1, <1>5, <1>6 DEF http_conten_type_from_filename, http_conten_type_from_ext

\* What stands before a separator has no influence.
LEMMA DirectoryIgnored ==
  ASSUME NEW S, NEW d \in Seq(S), NEW b \in Seq(S), d # <<>>, b # <<>>, d[Len(d)] = Slash
  PROVE  http_conten_type_from_filename(d \o b) = http_conten_type_from_filename(b)
  <1> DEFINE p == d \o b
             m == Len(d)
             n == Len(b)
  <1>1. /\ p \in Seq(S) /\ Len(p) = m + n /\ m \in Nat \ {0} /\ n \in Nat \ {0}
        /\ \A i \in 1..m : p[i] = d[i]
        /\ \A i \in 1..n : p[m + i] = b[i]
    <2>1. /\ p \in Seq(S) /\ Len(p) = m + n
          /\ \A i \in 1..(m + n) : p[i] = IF i <= m THEN d[i] ELSE b[i - m]
      BY ConcatProperties
    <2>2. m \in Nat \ {0} /\ n \in Nat \ {0}  BY EmptySeq
    <2>3. \A i \in 1..m : p[i] = d[i]  BY <2>1, <2>2
    <2>4. \A i \in 1..n : m + i \in 1..(m + n) /\ ~(m + i <= m) /\ (m + i) - m = i
      BY <2>2
    <2>5. \A i \in 1..n : p[m + i] = b[i]  BY <2>1, <2>4
    <2> QED  BY <2>1, <2>2, <2>3, <2>5
  <1>2. Slash # Dot  BY Zenon DEF Slash, Dot
  <1>3. Dots(p) \subseteq 1..(m + n) /\ Dots(b) \subseteq 1..n /\ m \notin Dots(p)
    <2>1. DOMAIN p = 1..(m + n) /\ DOMAIN b = 1..n  BY <1>1, LenProperties
    <2>2. p[m] = Slash  BY <1>1
    <2> QED  BY <2>1, <2>2, <1>2 DEF Dots
  <1>4. \A i \in 1..n : m + i \in Dots(p) <=> i \in Dots(b)
    <2>1. DOMAIN p = 1..(m + n) /\ DOMAIN b = 1..n  BY <1>1, LenProperties
    <2>2. \A i \in 1..n : m + i \in 1..(m + n)  BY <1>1
    <2> QED  BY <1>1, <2>1, <2>2 DEF Dots
  <1> HIDE DEF p, m, n
  <1>5. CASE Dots(b) = {}
    <2>1. http_conten_type_from_filename(b) = "HTTP_CT_BIN"
      BY <1>5 DEF http_conten_type_from_filename
    <2>2. CASE Dots(p) = {}
      BY <2>1, <2>2 DEF http_conten_type_from_filename, p
    <2>3. CASE Dots(p) # {}
      <3> DEFINE k == LastDot(p)
      <3>1. k \in Dots(p)  BY <1>1, <2>3, LastDotFacts
      <3>2. k \in 1..(m - 1)
        <4>1. k \in 1..(m + n) /\ k # m  BY <1>3, <3>1
        <4>2. ASSUME k > m PROVE FALSE
          <5>1. k - m \in 1..n /\ m + (k - m) = k  BY <1>1, <4>1, <4>2
          <5>2. k - m \in Dots(b)  BY <1>4, <3>1, <5>1
          <5> QED  BY <1>5, <5>2
        <4> QED  BY <1>1, <4>1, <4>2
      <3>3. Len(SubSeq(p, k + 1, Len(p))) = m + n - k
        <4>1. k \in 1..Len(p)  BY <1>1, <3>2
        <4> QED  BY <1>1, <4>1, ExtensionFacts
      <3>4. Len(SubSeq(p, k + 1, Len(p))) # 1
        BY <1>1, <3>2, <3>3
      <3>5. http_conten_type_from_filename(p) = "HTTP_CT_BIN"
        BY <3>4 DEF http_conten_type_from_filename, http_conten_type_from_ext
      <3> QED  BY <2>1, <3>5 DEF p
    <2> QED  BY <2>2, <2>3
  <1>6. CASE Dots(b) # {}
    <2> DEFINE k == LastDot(b)
    <2>1. k \in Dots(b) /\ k \in 1..n /\ \A j \in Dots(b) : j <= k
      BY <1>3, <1>6, LastDotFacts
    <2>2. m + k \in Dots(p)  BY <1>4, <2>1
    <2>3. ASSUME NEW j \in Dots(p) PROVE j <= m + k
      <3>1. j \in 1..(m + n)  BY <1>3
      <3>2. CASE j <= m  BY <1>1, <2>1, <3>1, <3>2
      <3>3. CASE j > m
        <4>1. j - m \in 1..n /\ m + (j - m) = j  BY <1>1, <3>1, <3>3
        <4>2. j - m \in Dots(b)  BY <1>4, <2>3, <4>1
        <4>3. j - m <= k  BY <2>1, <4>2
        <4> QED  BY <1>1, <2>1, <3>1, <4>3
      <3> QED  BY <1>1, <3>1, <3>2, <3>3
    <2> HIDE DEF k
    <2>4. LastDot(p) = m + k  BY <1>1, <2>2, <2>3, LastDotUnique
    <2> DEFINE q == m + k
    <2>5. q \in 1..Len(p) /\ k \in 1..Len(b) /\ Len(p) - q = Len(b) - k
          /\ \A i \in 1..(Len(b) - k) : q + i = m + (k + i) /\ k + i \in 1..n
      BY <1>1, <2>1 DEF n
    <2> HIDE DEF q
    <2>6. /\ SubSeq(p, q + 1, Len(p)) \in Seq(S)
          /\ Len(SubSeq(p, q + 1, Len(p))) = Len(p) - q
          /\ \A i \in 1..(Len(p) - q) : SubSeq(p, q + 1, Len(p))[i] = p[q + i]
      BY <1>1, <2>5, ExtensionFacts
    <2>7. /\ SubSeq(b, k + 1, Len(b)) \in Seq(S)
          /\ Len(SubSeq(b, k + 1, Len(b))) = Len(b) - k
          /\ \A i \in 1..(Len(b) - k) : SubSeq(b, k + 1, Len(b))[i] = b[k + i]
      BY <2>5, ExtensionFacts
    <2>8. SubSeq(p, q + 1, Len(p)) = SubSeq(b, k + 1, Len(b))
      <3> DEFINE x == SubSeq(p, q + 1, Len(p))
                 y == SubSeq(b, k + 1, Len(b))
      <3>1. x \in Seq(S) /\ y \in Seq(S) /\ Len(x) = Len(y)  BY <2>5, <2>6, <2>7
      <3>2. \A i \in 1..(Len(b) - k) : x[i] = y[i]
        <4>1. \A i \in 1..(Len(b) - k) : p[q + i] = b[k + i]  BY <1>1, <2>5
        <4> QED  BY <2>5, <2>6, <2>7, <4>1
      <3>3. Len(x) = Len(b) - k  BY <2>5, <2>6
      <3> HIDE DEF x, y
      <3>4. \A i \in 1..Len(x) : x[i] = y[i]  BY <3>2, <3>3
      <3>5. x = y  BY <3>1, <3>4, SeqEqual
      <3> QED  BY <3>5 DEF x, y
    <2>9. SubSeq(p, LastDot(p) + 1, Len(p)) = SubSeq(b, LastDot(b) + 1, Len(b))
      BY <2>4, <2>8 DEF q, k
    <2>10. http_conten_type_from_filename(p) = http_conten_type_from_filename(b)
      BY <1>6, <2>2, <2>9 DEF http_conten_type_from_filename
    <2> QED  BY <2>10 DEF p
  <1> QED  BY <1>5, <1>6

LEMMA NameFacts ==
  ASSUME NEW b \in Names
  PROVE  b \in Seq(Elements) /\ b # <<>>
  <1>1. PICK n \in 1..MaxWords : b \in [1..n -> Words \cup {Dot}]  BY DEF Names
  <1>2. n \in Nat /\ b \in [1..n -> Elements]  BY <1>1, ContentTypeAssumption DEF Elements
  <1>3. b \in Seq(Elements) /\ Len(b) = n  BY <1>2, SeqDef
  <1> QED  BY <1>3, <1>2, <1>1, ContentTypeAssumption, EmptySeq

LEMMA DirFacts ==
  ASSUME NEW d \in Names
  PROVE  LET dir == <<Slash>> \o d \o <<Slash>> IN
         dir \in Seq(Elements) /\ dir # <<>> /\ dir[Len(dir)] = Slash
  <1>1. d \in Seq(Elements) /\ <<Slash>> \in Seq(Elements) /\ Len(<<Slash>>) = 1
        /\ <<Slash>>[1] = Slash
    BY NameFacts DEF Elements
  <1> DEFINE e == <<Slash>> \o d
  <1>2. e \in Seq(Elements) /\ Len(e) \in Nat  BY <1>1, ConcatProperties, LenProperties
  <1> HIDE DEF e
  <1>3. /\ e \o <<Slash>> \in Seq(Elements) /\ Len(e \o <<Slash>>) = Len(e) + 1
        /\ (e \o <<Slash>>)[Len(e) + 1] = Slash
    BY <1>1, <1>2, ConcatProperties
  <1> QED  BY <1>2, <1>3, EmptySeq DEF e

LEMMA NamesDecide ==
  ASSUME path \in Paths \cup {NoPath}
  PROVE  NameDecides
  <1> SUFFICES ASSUME path \in Paths PROVE NameDecides  BY DEF NameDecides
  <1> DEFINE b == path.base
             d == path.dir
             type == http_conten_type_from_filename(d \o b)
  <1>1. b \in Seq(Elements) /\ b # <<>>  BY NameFacts DEF Paths
  <1>2. d \in Seq(Elements) /\ d # <<>> /\ d[Len(d)] = Slash  BY DirFacts DEF Paths
  <1> HIDE DEF b, d
  <1>3. type = http_conten_type_from_filename(b)  BY <1>1, <1>2, DirectoryIgnored
  <1>4. Len(b) > 1 /\ b[Len(b) - 1] = Dot /\ b[Len(b)] \in DOMAIN Known =>
          type = Known[b[Len(b)]]
    BY <1>1, <1>3, TypeOfExtension
  <1>5. type # "HTTP_CT_BIN" => Len(b) > 1 /\ b[Len(b) - 1] = Dot
    BY <1>1, <1>3, TypeBehindDot
  <1> QED  BY <1>3, <1>4, <1>5 DEF NameDecides, b, d

-----------------------------------------------------------------------------
\* The arguments the functions are called with.

Arguments == str \in Seq(Chars) /\ path \in Paths \cup {NoPath}

LEMMA PieceFacts ==
  ASSUME NEW p \in Pieces
  PROVE  p \in Seq(Chars)
  <1> DEFINE C == Chars
  <1>1. {"G", "H", "x", "P", "1", "0", SP, CR} \subseteq C  BY DEF Chars
  <1> HIDE DEF C
  <1>2. \A a, b \in C : <<a>> \in Seq(C) /\ <<a, b>> \in Seq(C)  OBVIOUS
  <1>3. p \in Seq(C)  BY <1>1, <1>2 DEF Pieces
  <1> QED  BY <1>3 DEF C

LEMMA Growing ==
  ASSUME Arguments, NEW p \in Pieces, str' = str \o p
  PROVE  /\ str' \in Seq(Chars) /\ Len(str) <= Len(str')
         /\ \A k \in 1..Len(str) : str[k] = str'[k]
  <1>1. str \in Seq(Chars) /\ p \in Seq(Chars)  BY PieceFacts DEF Arguments
  <1>2. /\ str \o p \in Seq(Chars) /\ Len(str \o p) = Len(str) + Len(p)
        /\ \A i \in 1..(Len(str) + Len(p)) :
             (str \o p)[i] = IF i <= Len(str) THEN str[i] ELSE p[i - Len(str)]
    BY <1>1, ConcatProperties
  <1>3. Len(str) \in Nat /\ Len(p) \in Nat  BY <1>1, LenProperties
  <1>4. \A k \in 1..Len(str) : k \in 1..(Len(str) + Len(p)) /\ k <= Len(str)  BY <1>3
  <1> QED  BY <1>2, <1>3, <1>4

LEMMA InitArguments == HttpInit => Arguments
  BY EmptySeq DEF HttpInit, Init, Arguments

LEMMA NextArguments == Arguments /\ [HttpNext]_<<vars, path>> => Arguments'
  <1> SUFFICES ASSUME Arguments, [HttpNext]_<<vars, path>> PROVE Arguments'
    OBVIOUS
  <1>1. CASE HttpNext
    <2>1. PICK p \in Pieces : str' = str \o p  BY <1>1 DEF HttpNext, Arrive
    <2> QED  BY <1>1, <2>1, Growing DEF HttpNext, Arguments
  <1>2. CASE UNCHANGED <<vars, path>>  BY <1>2 DEF vars, Arguments
  <1> QED  BY <1>1, <1>2

\* parse_http_req judges a complete line of three words word by word (http.c:13-65),
\* whatever words they are, and however long.
THEOREM WordsCorrect == HttpSpec => []ThreeWordsJudged
  <1>1. Arguments => ThreeWordsJudged  BY WordsJudged DEF Arguments
  <1> QED  BY <1>1, InitArguments, NextArguments, PTL DEF HttpSpec

\* What parse_http_req accepts has the shape that its pointer arithmetic, the spaces
\* counted once for two places (http.c:49) included, lets through, and no other.
THEOREM ShapeCorrect == HttpSpec => []AcceptedShape
  <1>1. Arguments => AcceptedShape  BY ShapeAccepted DEF Arguments
  <1> QED  BY <1>1, InitArguments, NextArguments, PTL DEF HttpSpec

\* What the read of handler.c has returned behind the first line has no influence on
\* the verdict, though strpbrk and strspn may run on into it.
THEOREM HeadersIgnored == HttpSpec => HeadersDoNotMatter
  <1>1. Arguments /\ [HttpNext]_<<vars, path>> =>
          [Has(str, CR) => parse_http_req(str') = parse_http_req(str)]_vars
    <2> SUFFICES ASSUME Arguments, HttpNext, Has(str, CR)
                 PROVE  parse_http_req(str') = parse_http_req(str)
      BY DEF vars
    <2>1. PICK p \in Pieces : str' = str \o p  BY DEF HttpNext, Arrive
    <2>2. /\ str \in Seq(Chars) /\ str' \in Seq(Chars) /\ Len(str) <= Len(str')
          /\ \A k \in 1..Len(str) : str[k] = str'[k]
      BY <2>1, Growing DEF Arguments
    <2> QED  BY <2>2, VerdictInLine
  <1> QED  BY <1>1, InitArguments, NextArguments, PTL DEF HttpSpec, HeadersDoNotMatter

\* http_conten_type_from_filename gets the whole path (http.c:125) and decides by the
\* name of the file alone, for every name of a file and of its directory.
THEOREM NameCorrect == HttpSpec => []NameDecides
  <1>1. Arguments => NameDecides  BY NamesDecide DEF Arguments
  <1> QED  BY <1>1, InitArguments, NextArguments, PTL DEF HttpSpec
=============================================================================
