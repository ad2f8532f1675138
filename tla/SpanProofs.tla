----------------------------- MODULE SpanProofs ------------------------------
(***************************************************************************)
(* Proofs about SpanMap for any segments, any number of them and any       *)
(* positions.                                                              *)
(*                                                                         *)
(* In the virtual text the segments are in order and apart, which makes a  *)
(* binary search land on the only segment that can cover a position.  In the *)
(* original they overlap: there the argument is the tree.  Its nodes divide *)
(* the leaves among them, none says less than the greatest end under it, and *)
(* what it skips therefore holds nothing that is asked for.                *)
(*                                                                         *)
(* The lookups in the original are recursive functions.  That they exist,  *)
(* and what they are, follows from the induction below: upwards for lists, *)
(* from the leaves for what a node says, from the root for its leaves.     *)
(***************************************************************************)
EXTENDS SpanMap, CheckerProofs, FiniteSetTheorems

-----------------------------------------------------------------------------
(* Induction and recursive functions *)

\* Induction up to N.
LEMMA ClimbTo ==
    ASSUME NEW N \in Nat, NEW T, 0 \in T, \A n \in 0 .. N - 1 : n \in T => n + 1 \in T
    PROVE  0 .. N \subseteq T
<1> DEFINE R == {n \in Nat : n <= N => n \in T}
<1>1. 0 \in R
  OBVIOUS
<1>2. ASSUME NEW n \in Nat, n \in R PROVE n + 1 \in R
  BY <1>2
<1>3. Nat \subseteq R
  <2> HIDE DEF R
  <2> QED BY <1>1, <1>2, Climb
<1> QED BY <1>3

\* A function of the naturals up to N may be defined by its first value and by
\* what each step makes of the value before.
Follows(f, N, a, onward) ==
    /\ f[0] = a
    /\ \A n \in 1 .. N : f[n] = onward[n][f[n - 1]]

\* Such a function exists, and it is what the recursive definition denotes.
LEMMA Recursion ==
    ASSUME NEW S, NEW N \in Nat, NEW a \in S,
           NEW onward, \A n \in 1 .. N : \A s \in S : onward[n][s] \in S
    PROVE  \E f \in [0 .. N -> S] : Follows(f, N, a, onward)
<1> DEFINE Built(f, n) == f \in [0 .. n -> S] /\ Follows(f, n, a, onward)
           T == {n \in 0 .. N : \E f : Built(f, n)}
<1>1. 0 \in T
  <2>1. Built([n \in 0 .. 0 |-> a], 0)
    BY DEF Follows
  <2> HIDE DEF Built
  <2> QED BY <2>1
<1>2. ASSUME NEW n \in 0 .. N - 1, n \in T PROVE n + 1 \in T
  <2>1. PICK f : Built(f, n)
    <3> HIDE DEF Built
    <3> QED BY <1>2
  <2> DEFINE g == [k \in 0 .. n + 1 |-> IF k <= n THEN f[k] ELSE onward[n + 1][f[n]]]
  <2>2. onward[n + 1][f[n]] \in S
    BY <2>1
  <2>3. g \in [0 .. n + 1 -> S]
    BY <2>1, <2>2
  <2>4. Follows(g, n + 1, a, onward)
    BY <2>1 DEF Follows
  <2>5. Built(g, n + 1)
    BY <2>3, <2>4
  <2> HIDE DEF Built
  <2> QED BY <2>5
<1>3. 0 .. N \subseteq T
  <2> HIDE DEF T
  <2> QED BY <1>1, <1>2, ClimbTo
<1> QED
  <2>1. \E f : Built(f, N)
    <3> HIDE DEF Built
    <3> QED BY <1>3
  <2> QED BY <2>1

-----------------------------------------------------------------------------
(* Lists and what is put into them *)

\* One element more, after the first m.
OneMore(after, list, m, s) ==
    /\ Len(after) = Len(list) + 1
    /\ \A i \in 1 .. m : after[i] = list[i]
    /\ after[m + 1] = s
    /\ \A i \in m + 2 .. Len(list) + 1 : after[i] = list[i - 1]

\* Inserting.
LEMMA Inserted ==
    ASSUME NEW S, NEW list \in Seq(S), NEW s \in S, NEW m \in 0 .. Len(list)
    PROVE  InsertAt(list, m + 1, s) \in Seq(S) /\ OneMore(InsertAt(list, m + 1, s), list, m, s)
<1> DEFINE N == Len(list)
           a == SubSeq(list, 1, m)
           b == <<s>>
           c == SubSeq(list, m + 1, N)
<1>1. N \in Nat /\ \A i \in 1 .. N : list[i] \in S
  BY LenProperties, ElementOfSeq
<1>2. InsertAt(list, m + 1, s) = (a \o b) \o c
  <2>1. (m + 1) - 1 = m
    BY <1>1
  <2> QED BY <2>1 DEF InsertAt
<1>3. a \in Seq(S) /\ Len(a) = m /\ \A i \in 1 .. m : a[i] = list[i]
  <2>1. 1 \in Int /\ m \in Int /\ \A i \in 1 .. m : list[i] \in S
    BY <1>1
  <2>2. /\ a \in Seq(S) /\ Len(a) = IF 1 <= m THEN m - 1 + 1 ELSE 0
        /\ \A i \in 1 .. m - 1 + 1 : a[i] = list[1 + i - 1]
    BY <2>1, SubSeqProperties
  <2> HIDE DEF a
  <2>3. ASSUME NEW i \in 1 .. m PROVE a[i] = list[i]
    <3>1. i \in 1 .. m - 1 + 1 /\ 1 + i - 1 = i
      BY <1>1
    <3> QED BY <2>2, <3>1
  <2> QED BY <1>1, <2>2, <2>3
<1>4. c \in Seq(S) /\ Len(c) = N - m /\ \A i \in 1 .. N - m : c[i] = list[m + i]
  <2> DEFINE low == m + 1
  <2>1. low \in Int /\ N \in Int /\ \A i \in low .. N : list[i] \in S
    BY <1>1
  <2> HIDE DEF N
  <2>2. /\ c \in Seq(S) /\ Len(c) = IF low <= N THEN N - low + 1 ELSE 0
        /\ \A i \in 1 .. N - low + 1 : c[i] = list[low + i - 1]
    <3> HIDE DEF low
    <3> QED BY <2>1, SubSeqProperties DEF low
  <2> HIDE DEF c
  <2>3. ASSUME NEW i \in 1 .. N - m PROVE c[i] = list[m + i]
    <3>1. i \in 1 .. N - low + 1 /\ low + i - 1 = m + i
      BY <1>1 DEF N
    <3> QED BY <2>2, <3>1
  <2>4. Len(c) = N - m
    BY <1>1, <2>2 DEF N
  <2> QED BY <2>2, <2>3, <2>4
<1>5. b \in Seq(S) /\ Len(b) = 1 /\ b[1] = s
  OBVIOUS
<1> HIDE DEF a, b, c, N
<1>6. /\ a \o b \in Seq(S) /\ Len(a \o b) = m + 1
      /\ \A i \in 1 .. m + 1 : (a \o b)[i] = IF i <= m THEN a[i] ELSE b[i - m]
  <2>1. a \in Seq(S) /\ b \in Seq(S)
    BY <1>3, <1>5
  <2>2. /\ a \o b \in Seq(S) /\ Len(a \o b) = Len(a) + Len(b)
        /\ \A i \in 1 .. Len(a) + Len(b) : (a \o b)[i] = IF i <= Len(a) THEN a[i] ELSE b[i - Len(a)]
    BY <2>1, ConcatProperties
  <2>3. Len(a) = m /\ Len(b) = 1
    BY <1>3, <1>5
  <2> QED BY <2>2, <2>3
<1> DEFINE d == a \o b
           after == d \o c
<1>7. d \in Seq(S) /\ Len(d) = m + 1 /\ (\A i \in 1 .. m : d[i] = list[i]) /\ d[m + 1] = s
  <2>1. \A i \in 1 .. m : d[i] = list[i]
    BY <1>1, <1>3, <1>6
  <2>2. m + 1 \in 1 .. m + 1 /\ ~(m + 1 <= m) /\ (m + 1) - m = 1
    BY <1>1
  <2>3. d[m + 1] = s
    BY <1>5, <1>6, <2>2
  <2> QED BY <1>6, <2>1, <2>3
<1> HIDE DEF d
<1>8. /\ after \in Seq(S) /\ Len(after) = (m + 1) + (N - m)
      /\ \A i \in 1 .. (m + 1) + (N - m) : after[i] = IF i <= m + 1 THEN d[i] ELSE c[i - (m + 1)]
  <2>1. d \in Seq(S) /\ c \in Seq(S)
    BY <1>4, <1>7
  <2>2. /\ d \o c \in Seq(S) /\ Len(d \o c) = Len(d) + Len(c)
        /\ \A i \in 1 .. Len(d) + Len(c) : (d \o c)[i] = IF i <= Len(d) THEN d[i] ELSE c[i - Len(d)]
    BY <2>1, ConcatProperties
  <2>3. Len(d) = m + 1 /\ Len(c) = N - m
    BY <1>4, <1>7
  <2> QED BY <2>2, <2>3
<1> HIDE DEF after
<1>9. Len(after) = N + 1
  BY <1>1, <1>8 DEF N
<1>10. ASSUME NEW i \in 1 .. m PROVE after[i] = list[i]
  <2>1. i \in 1 .. (m + 1) + (N - m) /\ i <= m + 1
    BY <1>1 DEF N
  <2> QED BY <1>7, <1>8, <2>1
<1>11. after[m + 1] = s
  <2>1. m + 1 \in 1 .. (m + 1) + (N - m)
    BY <1>1 DEF N
  <2> QED BY <1>7, <1>8, <2>1
<1>12. ASSUME NEW i \in m + 2 .. N + 1 PROVE after[i] = list[i - 1]
  <2>1. /\ i \in 1 .. (m + 1) + (N - m) /\ ~(i <= m + 1) /\ i - (m + 1) \in 1 .. N - m
        /\ m + (i - (m + 1)) = i - 1
    BY <1>1 DEF N
  <2>2. after[i] = c[i - (m + 1)]
    BY <1>8, <2>1
  <2>3. c[i - (m + 1)] = list[m + (i - (m + 1))]
    BY <1>4, <2>1
  <2> QED BY <2>1, <2>2, <2>3
<1> QED BY <1>2, <1>8, <1>9, <1>10, <1>11, <1>12 DEF after, d, N, OneMore

\* The least number up to N that is N or marked: a binary search of a sorted list.
LEMMA LeastMarked ==
    ASSUME NEW N \in Nat, NEW Marked
    PROVE  LET m == Min({n \in 0 .. N : n = N \/ n \in Marked})
           IN  /\ m \in 0 .. N /\ (m = N \/ m \in Marked)
               /\ \A n \in 0 .. m - 1 : n \notin Marked
<1> DEFINE T == {n \in 0 .. N : n = N \/ n \in Marked}
<1>1. T \subseteq Nat /\ N \in T
  OBVIOUS
<1> HIDE DEF T
<1>2. Min(T) \in T /\ \A k \in T : Min(T) <= k
  BY <1>1, Least DEF Min
<1> QED BY <1>2 DEF T

-----------------------------------------------------------------------------
(* The segments of a span map *)

\* The segments are well formed and in the order of the virtual text, where none
\* overlaps another.
InVirtualOrder ==
    /\ segments \in Seq(Segments)
    /\ \A i, j \in 1 .. Len(segments) :
           i < j => segments[i].virtualEnd <= segments[j].virtualStart

\* What is known of a segment.
LEMMA SegmentTyped ==
    ASSUME NEW s \in Segments
    PROVE  /\ s.virtualStart \in Nat /\ s.virtualEnd \in Nat /\ s.virtualStart < s.virtualEnd
           /\ s.originalStart \in Nat /\ s.originalEnd \in Nat /\ s.originalStart <= s.originalEnd
           /\ s.verbatim \in BOOLEAN
           /\ s.verbatim => s.virtualEnd - s.virtualStart = s.originalEnd - s.originalStart
  BY SegmentAssumption DEF WellFormed

\* The segments in their order, by their places.
LEMMA SegmentsPlaced ==
    ASSUME InVirtualOrder
    PROVE  /\ Len(segments) \in Nat
           /\ \A i \in 1 .. Len(segments) : segments[i] \in Segments
           /\ \A i, j \in 1 .. Len(segments) :
                  i < j => /\ segments[i].virtualEnd <= segments[j].virtualStart
                           /\ segments[i].virtualStart < segments[j].virtualStart
                           /\ segments[i].virtualEnd < segments[j].virtualEnd
           /\ \A i, j \in 1 .. Len(segments) : segments[i] = segments[j] => i = j
           /\ \A s : s \in All <=> \E i \in 1 .. Len(segments) : s = segments[i]
<1>1. Len(segments) \in Nat /\ \A i \in 1 .. Len(segments) : segments[i] \in Segments
  BY LenProperties, ElementOfSeq DEF InVirtualOrder
<1>2. ASSUME NEW i \in 1 .. Len(segments), NEW j \in 1 .. Len(segments), i < j
      PROVE  /\ segments[i].virtualEnd <= segments[j].virtualStart
             /\ segments[i].virtualStart < segments[j].virtualStart
             /\ segments[i].virtualEnd < segments[j].virtualEnd
  <2>1. segments[i].virtualEnd <= segments[j].virtualStart
    BY <1>2 DEF InVirtualOrder
  <2>2. /\ segments[i].virtualStart \in Nat /\ segments[i].virtualEnd \in Nat
        /\ segments[j].virtualStart \in Nat /\ segments[j].virtualEnd \in Nat
        /\ segments[i].virtualStart < segments[i].virtualEnd
        /\ segments[j].virtualStart < segments[j].virtualEnd
    BY <1>1, SegmentTyped
  <2> QED BY <2>1, <2>2
<1>3. ASSUME NEW i \in 1 .. Len(segments), NEW j \in 1 .. Len(segments), segments[i] = segments[j]
      PROVE  i = j
  <2>1. segments[i].virtualStart \in Nat
    BY <1>1, SegmentTyped
  <2>2. ~(i < j) /\ ~(j < i)
    BY <1>2, <1>3, <2>1
  <2> QED BY <1>1, <2>2
<1>4. DOMAIN segments = 1 .. Len(segments)
  BY LenProperties DEF InVirtualOrder
<1> QED BY <1>1, <1>2, <1>3, <1>4 DEF All, ToSet

\* The binary search of the virtual text.
LEMMA StartsBefore ==
    ASSUME InVirtualOrder, NEW p \in Nat
    PROVE  /\ StartingBefore(p) \in 0 .. Len(segments)
           /\ \A i \in 1 .. StartingBefore(p) : segments[i].virtualStart < p
           /\ \A i \in StartingBefore(p) + 1 .. Len(segments) : segments[i].virtualStart >= p
<1> DEFINE N == Len(segments)
           Marked == {n \in 0 .. N : segments[n + 1].virtualStart >= p}
           m == StartingBefore(p)
<1>1. N \in Nat
  BY SegmentsPlaced
<1>2. m = Min({n \in 0 .. N : n = N \/ n \in Marked})
  <2>1. {n \in 0 .. N : n = N \/ segments[n + 1].virtualStart >= p} = {n \in 0 .. N : n = N \/ n \in Marked}
    OBVIOUS
  <2> QED BY <2>1 DEF StartingBefore
<1>3. /\ m \in 0 .. N /\ (m = N \/ m \in Marked)
      /\ \A n \in 0 .. m - 1 : n \notin Marked
  <2> HIDE DEF Marked, N, m
  <2> QED BY <1>1, <1>2, LeastMarked
<1>4. \A i \in 1 .. N : segments[i].virtualStart \in Nat
  BY SegmentsPlaced, SegmentTyped
<1> HIDE DEF m, N
<1>5. ASSUME NEW i \in 1 .. m PROVE segments[i].virtualStart < p
  <2>1. i - 1 \in 0 .. m - 1 /\ i - 1 \in 0 .. N /\ (i - 1) + 1 = i /\ i \in 1 .. N
    BY <1>1, <1>3
  <2>2. i - 1 \notin Marked
    BY <1>3, <2>1
  <2>3. ~(segments[(i - 1) + 1].virtualStart >= p)
    BY <2>1, <2>2
  <2> QED BY <1>4, <2>1, <2>3
<1>6. ASSUME NEW i \in m + 1 .. N PROVE segments[i].virtualStart >= p
  <2>1. m \in Marked /\ m + 1 \in 1 .. N /\ i \in 1 .. N
    BY <1>1, <1>3
  <2>2. segments[m + 1].virtualStart >= p
    BY <2>1
  <2>3. m + 1 = i \/ m + 1 < i
    BY <1>1, <1>3
  <2>4. m + 1 < i => segments[m + 1].virtualStart < segments[i].virtualStart
    BY <2>1, SegmentsPlaced DEF N
  <2> QED BY <1>4, <2>1, <2>2, <2>3, <2>4
<1> QED BY <1>3, <1>5, <1>6 DEF m, N

\* A segment more keeps the order.
LEMMA SegmentsStep == InVirtualOrder /\ [SpanNext]_segments => InVirtualOrder'
<1> SUFFICES ASSUME InVirtualOrder, [SpanNext]_segments PROVE InVirtualOrder'
  OBVIOUS
<1>1. CASE UNCHANGED segments
  BY <1>1 DEF InVirtualOrder
<1>2. ASSUME NEW s \in Segments, NewSpanMap(s) PROVE InVirtualOrder'
  <2> DEFINE N == Len(segments)
             m == StartingBefore(s.virtualStart)
             after == InsertAt(segments, m + 1, s)
  <2>1. segments' = after /\ \A t \in All : Apart(s, t)
    BY <1>2 DEF NewSpanMap, All
  <2>2. /\ N \in Nat /\ segments \in Seq(Segments)
        /\ \A i \in 1 .. N : segments[i] \in Segments /\ segments[i] \in All
        /\ \A i, j \in 1 .. N : i < j => segments[i].virtualEnd <= segments[j].virtualStart
    BY SegmentsPlaced DEF InVirtualOrder
  <2>3. /\ s.virtualStart \in Nat /\ s.virtualEnd \in Nat /\ s.virtualStart < s.virtualEnd
        /\ \A i \in 1 .. N : /\ segments[i].virtualStart \in Nat /\ segments[i].virtualEnd \in Nat
                              /\ segments[i].virtualStart < segments[i].virtualEnd
    BY <2>2, SegmentTyped
  <2>4. /\ m \in 0 .. N
        /\ \A i \in 1 .. m : segments[i].virtualStart < s.virtualStart
        /\ \A i \in m + 1 .. N : segments[i].virtualStart >= s.virtualStart
    BY <2>3, StartsBefore
  <2> HIDE DEF m, N
  <2>5. /\ after \in Seq(Segments) /\ Len(after) = N + 1
        /\ \A i \in 1 .. m : after[i] = segments[i]
        /\ after[m + 1] = s
        /\ \A i \in m + 2 .. N + 1 : after[i] = segments[i - 1]
    <3>1. segments \in Seq(Segments)
      BY <2>2
    <3>2. m \in 0 .. Len(segments)
      BY <2>4 DEF N
    <3>3. after \in Seq(Segments) /\ OneMore(after, segments, m, s)
      BY <3>1, <3>2, Inserted
    <3> HIDE DEF after
    <3> QED BY <3>3 DEF N, OneMore
  <2> HIDE DEF after
  <2>6. ASSUME NEW i \in 1 .. m PROVE i \in 1 .. N /\ segments[i].virtualEnd <= s.virtualStart
    <3>1. i \in 1 .. N
      BY <2>2, <2>4
    <3>2. Apart(s, segments[i]) /\ segments[i].virtualStart < s.virtualStart
      BY <2>1, <2>2, <2>4, <3>1
    <3> QED BY <2>3, <3>1, <3>2 DEF Apart
  <2>7. ASSUME NEW i \in m + 1 .. N PROVE i \in 1 .. N /\ s.virtualEnd <= segments[i].virtualStart
    <3>1. i \in 1 .. N
      BY <2>2, <2>4
    <3>2. Apart(s, segments[i]) /\ segments[i].virtualStart >= s.virtualStart
      BY <2>1, <2>2, <2>4, <3>1
    <3> QED BY <2>3, <3>1, <3>2 DEF Apart
  <2>8. ASSUME NEW i \in 1 .. N + 1, NEW j \in 1 .. N + 1, i < j
        PROVE  after[i].virtualEnd <= after[j].virtualStart
    <3>1. CASE j <= m
      <4>1. i \in 1 .. m /\ j \in 1 .. m
        BY <2>2, <2>4, <2>8, <3>1
      <4> QED BY <2>2, <2>5, <2>6, <2>8, <4>1
    <3>2. CASE j = m + 1
      <4>1. i \in 1 .. m
        BY <2>2, <2>4, <2>8, <3>2
      <4> QED BY <2>5, <2>6, <3>2, <4>1
    <3>3. CASE j > m + 1
      <4>1. j \in m + 2 .. N + 1 /\ j - 1 \in m + 1 .. N
        BY <2>2, <2>4, <3>3
      <4>2. after[j] = segments[j - 1] /\ j - 1 \in 1 .. N
        BY <2>5, <2>7, <4>1
      <4>3. CASE i <= m
        <5>1. i \in 1 .. m /\ i < j - 1
          BY <2>2, <2>4, <3>3, <4>3
        <5> QED BY <2>2, <2>5, <2>6, <4>2, <5>1
      <4>4. CASE i = m + 1
        BY <2>5, <2>7, <4>1, <4>2, <4>4
      <4>5. CASE i > m + 1
        <5>1. i \in m + 2 .. N + 1 /\ i - 1 \in m + 1 .. N /\ i - 1 < j - 1
          BY <2>2, <2>4, <2>8, <4>5
        <5>2. after[i] = segments[i - 1] /\ i - 1 \in 1 .. N
          BY <2>5, <2>7, <5>1
        <5> QED BY <2>2, <4>2, <5>1, <5>2
      <4> QED BY <2>2, <2>4, <4>3, <4>4, <4>5
    <3> QED BY <2>2, <2>4, <3>1, <3>2, <3>3
  <2> QED BY <2>1, <2>5, <2>8 DEF InVirtualOrder
<1> QED BY <1>1, <1>2 DEF SpanNext

\* In every behaviour.
LEMMA SegmentsOrdered == SpanSpec => []InVirtualOrder
<1>1. SpanInit => InVirtualOrder
  BY EmptySeq DEF SpanInit, InVirtualOrder
<1> QED BY <1>1, SegmentsStep, PTL DEF SpanSpec

-----------------------------------------------------------------------------
(* Lookups in the virtual text *)

\* The segment found is the last one that starts at the position or before it, and
\* the position is inside if that segment covers it.
LEMMA IndexAt ==
    ASSUME InVirtualOrder, NEW p \in Nat
    PROVE  LET at == SegmentIndexAt(p)
           IN  /\ at.index \in 0 .. Len(segments) /\ at.inside \in BOOLEAN
               /\ at = [index |-> at.index, inside |-> at.inside]
               /\ \A i \in 1 .. at.index : segments[i].virtualStart <= p
               /\ \A i \in at.index + 1 .. Len(segments) : segments[i].virtualStart > p
               /\ at.inside <=> at.index > 0 /\ CoversUpTo(segments[at.index], p)
<1> DEFINE N == Len(segments)
           m == StartingBefore(p)
           at == SegmentIndexAt(p)
<1>1. /\ N \in Nat
      /\ \A i \in 1 .. N : /\ segments[i].virtualStart \in Nat /\ segments[i].virtualEnd \in Nat
                            /\ segments[i].virtualStart < segments[i].virtualEnd
      /\ \A i, j \in 1 .. N : i < j => segments[i].virtualStart < segments[j].virtualStart
      /\ \A i, j \in 1 .. N : segments[i] = segments[j] => i = j
  BY SegmentsPlaced, SegmentTyped
<1>2. /\ m \in 0 .. N
      /\ \A i \in 1 .. m : segments[i].virtualStart < p
      /\ \A i \in m + 1 .. N : segments[i].virtualStart >= p
  BY StartsBefore
<1>3. at = IF m < N /\ segments[m + 1].virtualStart = p
           THEN [index |-> m + 1, inside |-> TRUE]
           ELSE [index |-> m, inside |-> m > 0 /\ (p < segments[m].virtualEnd \/ (m = N /\ p = segments[m].virtualEnd))]
  BY DEF SegmentIndexAt
<1> HIDE DEF m, at
<1>4. CASE m < N /\ segments[m + 1].virtualStart = p
  <2>1. at = [index |-> m + 1, inside |-> TRUE]
    BY <1>3, <1>4
  <2>2. m + 1 \in 1 .. N
    BY <1>1, <1>2, <1>4
  <2>3. CoversUpTo(segments[m + 1], p)
    BY <1>1, <1>4, <2>2 DEF CoversUpTo, Covers
  <2>4. \A i \in 1 .. m + 1 : segments[i].virtualStart <= p
    <3> SUFFICES ASSUME NEW i \in 1 .. m + 1 PROVE segments[i].virtualStart <= p
      OBVIOUS
    <3>1. i \in 1 .. m \/ i = m + 1
      BY <1>2
    <3> QED BY <1>1, <1>2, <1>4, <2>2, <3>1
  <2>5. \A i \in (m + 1) + 1 .. N : segments[i].virtualStart > p
    <3> SUFFICES ASSUME NEW i \in (m + 1) + 1 .. N PROVE segments[i].virtualStart > p
      OBVIOUS
    <3>1. i \in 1 .. N /\ m + 1 < i
      BY <1>1, <1>2
    <3> QED BY <1>1, <1>4, <2>2, <3>1
  <2> QED BY <1>1, <1>2, <2>1, <2>2, <2>3, <2>4, <2>5 DEF at
<1>5. CASE ~(m < N /\ segments[m + 1].virtualStart = p)
  <2> DEFINE inside == m > 0 /\ (p < segments[m].virtualEnd \/ (m = N /\ p = segments[m].virtualEnd))
  <2>1. at = [index |-> m, inside |-> inside]
    BY <1>3, <1>5
  <2>2. \A i \in 1 .. m : segments[i].virtualStart <= p
    <3> SUFFICES ASSUME NEW i \in 1 .. m PROVE segments[i].virtualStart <= p
      OBVIOUS
    <3>1. i \in 1 .. N /\ segments[i].virtualStart < p
      BY <1>1, <1>2
    <3> QED BY <1>1, <3>1
  <2>3. \A i \in m + 1 .. N : segments[i].virtualStart > p
    <3> SUFFICES ASSUME NEW i \in m + 1 .. N PROVE segments[i].virtualStart > p
      OBVIOUS
    <3>1. i \in 1 .. N /\ m + 1 \in 1 .. N /\ m < N /\ (i = m + 1 \/ m + 1 < i)
      BY <1>1, <1>2
    <3>2. segments[m + 1].virtualStart > p
      BY <1>1, <1>2, <1>5, <3>1
    <3> QED BY <1>1, <3>1, <3>2
  <2>4. inside <=> m > 0 /\ CoversUpTo(segments[m], p)
    <3>1. CASE m = 0
      BY <3>1
    <3>2. CASE m # 0
      <4>1. m \in 1 .. N /\ m > 0 /\ N \in 1 .. N
        BY <1>1, <1>2, <3>2
      <4>2. segments[m].virtualStart <= p
        BY <2>2, <4>1
      <4>3. segments[m] = Last(segments) <=> m = N
        BY <1>1, <4>1 DEF Last
      <4> QED BY <4>1, <4>2, <4>3 DEF CoversUpTo, Covers
    <3> QED BY <3>1, <3>2
  <2> HIDE DEF inside
  <2>5. inside \in BOOLEAN
    BY DEF inside
  <2> QED BY <1>2, <2>1, <2>2, <2>3, <2>4, <2>5 DEF at
<1> QED BY <1>4, <1>5

\* A position is inside one segment at most, which the search finds.
LEMMA Covering ==
    ASSUME InVirtualOrder, NEW p \in Nat
    PROVE  /\ SegmentIndexAt(p).inside <=> \E i \in 1 .. Len(segments) : CoversUpTo(segments[i], p)
           /\ SegmentIndexAt(p).inside =>
                  /\ SegmentIndexAt(p).index \in 1 .. Len(segments)
                  /\ CoversUpTo(segments[SegmentIndexAt(p).index], p)
           /\ \A i \in 1 .. Len(segments) :
                  CoversUpTo(segments[i], p) => SegmentIndexAt(p) = [index |-> i, inside |-> TRUE]
<1> DEFINE N == Len(segments)
           at == SegmentIndexAt(p)
<1>1. /\ N \in Nat
      /\ \A i \in 1 .. N : /\ segments[i].virtualStart \in Nat /\ segments[i].virtualEnd \in Nat
                            /\ segments[i].virtualStart < segments[i].virtualEnd
      /\ \A i, j \in 1 .. N : i < j => segments[i].virtualEnd <= segments[j].virtualStart
      /\ \A i, j \in 1 .. N : segments[i] = segments[j] => i = j
  BY SegmentsPlaced, SegmentTyped
<1>2. /\ at.index \in 0 .. N /\ at.inside \in BOOLEAN
      /\ at = [index |-> at.index, inside |-> at.inside]
      /\ \A i \in 1 .. at.index : segments[i].virtualStart <= p
      /\ \A i \in at.index + 1 .. N : segments[i].virtualStart > p
      /\ at.inside <=> at.index > 0 /\ CoversUpTo(segments[at.index], p)
  BY IndexAt
<1> HIDE DEF at
<1>3. at.inside => at.index \in 1 .. N /\ CoversUpTo(segments[at.index], p)
  BY <1>1, <1>2
<1>4. ASSUME NEW i \in 1 .. N, CoversUpTo(segments[i], p) PROVE at = [index |-> i, inside |-> TRUE]
  <2>1. segments[i].virtualStart <= p /\ (p < segments[i].virtualEnd \/ (i = N /\ p = segments[i].virtualEnd))
    <3>1. N \in 1 .. N
      BY <1>1
    <3>2. segments[i] = Last(segments) <=> i = N
      BY <1>1, <3>1 DEF Last
    <3> QED BY <1>1, <1>4, <3>2 DEF CoversUpTo, Covers
  <2>2. ~(i > at.index)
    <3> SUFFICES ASSUME i > at.index PROVE FALSE
      OBVIOUS
    <3>1. i \in at.index + 1 .. N
      BY <1>1, <1>2
    <3> QED BY <1>1, <1>2, <2>1, <3>1
  <2>3. ~(i < at.index)
    <3> SUFFICES ASSUME i < at.index PROVE FALSE
      OBVIOUS
    <3>1. at.index \in 1 .. N /\ at.index \in 1 .. at.index
      BY <1>1, <1>2
    <3>2. segments[i].virtualEnd <= segments[at.index].virtualStart /\ segments[at.index].virtualStart <= p
      BY <1>1, <1>2, <3>1
    <3>3. i # N
      BY <1>2
    <3> QED BY <1>1, <2>1, <3>1, <3>2, <3>3
  <2>4. at.index = i
    BY <1>1, <1>2, <2>2, <2>3
  <2>5. at.inside
    BY <1>1, <1>2, <1>4, <2>4
  <2> QED BY <1>2, <2>4, <2>5
<1>5. at.inside <=> \E i \in 1 .. N : CoversUpTo(segments[i], p)
  <2>1. ASSUME NEW i \in 1 .. N, CoversUpTo(segments[i], p) PROVE at.inside
    BY <1>4, <2>1
  <2> QED BY <1>3, <2>1
<1> QED BY <1>3, <1>4, <1>5 DEF at

\* What covers a position, as Fidelity sees it.
LEMMA CoveringOne ==
    ASSUME InVirtualOrder, NEW p \in Nat
    PROVE  LET covering == {s \in All : CoversUpTo(s, p)}
               at == SegmentIndexAt(p)
           IN  /\ at.inside => covering = {segments[at.index]} /\ segments[at.index] \in All
               /\ ~at.inside => covering = {}
<1> DEFINE covering == {s \in All : CoversUpTo(s, p)}
           at == SegmentIndexAt(p)
<1>1. \A s : s \in All <=> \E i \in 1 .. Len(segments) : s = segments[i]
  BY SegmentsPlaced
<1>2. /\ at.inside <=> \E i \in 1 .. Len(segments) : CoversUpTo(segments[i], p)
      /\ at.inside => at.index \in 1 .. Len(segments) /\ CoversUpTo(segments[at.index], p)
      /\ \A i \in 1 .. Len(segments) : CoversUpTo(segments[i], p) => at = [index |-> i, inside |-> TRUE]
  BY Covering
<1> HIDE DEF at
<1>3. CASE at.inside
  <2>1. segments[at.index] \in covering
    BY <1>1, <1>2, <1>3
  <2>2. ASSUME NEW s \in covering PROVE s = segments[at.index]
    <3>1. PICK i \in 1 .. Len(segments) : s = segments[i]
      BY <1>1
    <3>2. at = [index |-> i, inside |-> TRUE]
      BY <1>2, <3>1
    <3> QED BY <3>1, <3>2
  <2> QED BY <1>3, <2>1, <2>2 DEF at
<1>4. CASE ~at.inside
  <2>1. covering = {}
    BY <1>1, <1>2, <1>4
  <2> QED BY <1>4, <2>1 DEF at
<1> QED BY <1>3, <1>4

\* A point is mapped as well as the segment that covers it allows.
LEMMA PointFidelity ==
    ASSUME InVirtualOrder, NEW p \in Nat
    PROVE  MapPoint(p).fidelity = Fidelity(p, p + 1)
<1> DEFINE covering(q) == {s \in All : CoversUpTo(s, q)}
           at == SegmentIndexAt(p)
           s == segments[at.index]
<1>1. (at.inside => covering(p) = {s} /\ s \in All) /\ (~at.inside => covering(p) = {})
  BY CoveringOne
<1>2. p .. (p + 1) - 1 = {p}
  OBVIOUS
<1>3. MapPoint(p).fidelity = IF ~at.inside THEN "none" ELSE IF s.verbatim THEN "exact" ELSE "atom"
  BY DEF MapPoint, Mapped
<1>4. Fidelity(p, p + 1) =
          IF covering(p) = {} THEN "none"
          ELSE IF \E t \in All : t \in covering(p)
               THEN IF \E t \in covering(p) : t.verbatim THEN "exact" ELSE "atom"
          ELSE "approximate"
  <2>1. /\ (\A q \in {p} : covering(q) = {}) <=> covering(p) = {}
        /\ (\E t \in All : \A q \in {p} : t \in covering(q)) <=> \E t \in All : t \in covering(p)
    OBVIOUS
  <2> HIDE DEF covering
  <2> QED BY <1>2, <2>1 DEF Fidelity, covering
<1> HIDE DEF covering, at
<1> QED BY <1>1, <1>3, <1>4

\* Two positions, and what is between them.
LEMMA TwoPositions ==
    ASSUME InVirtualOrder, NEW from \in Nat, NEW upTo \in Nat, from <= upTo
    PROVE  LET first == SegmentIndexAt(from)
               last == SegmentIndexAt(upTo)
           IN  /\ first = last /\ first.inside =>
                       \A p \in from .. upTo : CoversUpTo(segments[first.index], p)
               /\ first = last /\ ~first.inside =>
                       \A p \in from .. upTo : ~SegmentIndexAt(p).inside
               /\ first # last => \E p \in from .. upTo : SegmentIndexAt(p).inside
<1> DEFINE first == SegmentIndexAt(from)
           last == SegmentIndexAt(upTo)
           N == Len(segments)
<1>1. /\ N \in Nat
      /\ \A i \in 1 .. N : /\ segments[i].virtualStart \in Nat /\ segments[i].virtualEnd \in Nat
                            /\ segments[i].virtualStart < segments[i].virtualEnd
      /\ \A i, j \in 1 .. N : i < j => segments[i].virtualEnd <= segments[j].virtualStart
  BY SegmentsPlaced, SegmentTyped
<1>2. /\ first.index \in 0 .. N /\ first.inside \in BOOLEAN
      /\ first = [index |-> first.index, inside |-> first.inside]
      /\ \A i \in 1 .. first.index : segments[i].virtualStart <= from
      /\ \A i \in first.index + 1 .. N : segments[i].virtualStart > from
      /\ first.inside <=> first.index > 0 /\ CoversUpTo(segments[first.index], from)
  BY IndexAt
<1>3. /\ last.index \in 0 .. N /\ last.inside \in BOOLEAN
      /\ last = [index |-> last.index, inside |-> last.inside]
      /\ \A i \in 1 .. last.index : segments[i].virtualStart <= upTo
      /\ \A i \in last.index + 1 .. N : segments[i].virtualStart > upTo
      /\ last.inside <=> last.index > 0 /\ CoversUpTo(segments[last.index], upTo)
  BY IndexAt
<1> HIDE DEF first, last, N
<1>4. ASSUME first = last, first.inside, NEW p \in from .. upTo PROVE CoversUpTo(segments[first.index], p)
  <2>1. /\ first.index \in 1 .. N
        /\ CoversUpTo(segments[first.index], from) /\ CoversUpTo(segments[first.index], upTo)
    BY <1>1, <1>2, <1>3, <1>4
  <2>2. /\ segments[first.index].virtualStart \in Nat /\ segments[first.index].virtualEnd \in Nat
        /\ segments[first.index].virtualStart <= from /\ from <= p /\ p <= upTo
    BY <1>1, <2>1 DEF CoversUpTo, Covers
  <2> QED BY <2>1, <2>2 DEF CoversUpTo, Covers
<1>5. ASSUME first = last, ~first.inside, NEW p \in from .. upTo PROVE ~SegmentIndexAt(p).inside
  <2>1. SUFFICES ASSUME NEW i \in 1 .. N, CoversUpTo(segments[i], p) PROVE FALSE
    <3>1. p \in Nat
      OBVIOUS
    <3> QED BY <3>1, Covering DEF N
  <2>2. /\ segments[i].virtualStart <= p /\ p <= segments[i].virtualEnd
        /\ p < segments[i].virtualEnd \/ segments[i] = Last(segments)
    BY <1>1, <2>1 DEF CoversUpTo, Covers
  <2>3. i <= first.index
    <3> SUFFICES ASSUME i > first.index PROVE FALSE
      BY <1>2
    <3>1. i \in last.index + 1 .. N
      BY <1>1, <1>2, <1>5
    <3> QED BY <1>1, <1>3, <2>2, <3>1
  <2>4. first.index \in 1 .. N /\ segments[first.index].virtualStart <= from
    BY <1>1, <1>2, <2>3
  <2>5. CASE i = first.index
    <3>1. CoversUpTo(segments[first.index], from)
      <4>1. segments[i].virtualStart <= from /\ from <= p
        BY <2>4, <2>5
      <4> QED BY <1>1, <2>2, <2>5, <2>1, <4>1 DEF CoversUpTo, Covers
    <3> QED BY <1>2, <1>5, <2>4, <3>1
  <2>6. CASE i < first.index
    <3>1. segments[i].virtualEnd <= segments[first.index].virtualStart
      BY <1>1, <2>4, <2>6
    <3>2. p = segments[i].virtualEnd /\ p = from /\ segments[i] = Last(segments)
      BY <1>1, <2>2, <2>4, <3>1
    <3>3. i = N
      <4>1. N \in 1 .. N
        BY <1>1
      <4> QED BY <3>2, <4>1, SegmentsPlaced DEF Last, N
    <3> QED BY <1>1, <1>2, <2>6, <3>3
  <2> QED BY <1>1, <1>2, <2>3, <2>5, <2>6
<1>6. ASSUME first # last PROVE \E p \in from .. upTo : SegmentIndexAt(p).inside
  <2>1. CASE first.inside
    BY <2>1 DEF first
  <2>2. CASE last.inside
    BY <2>2 DEF last
  <2>3. CASE ~first.inside /\ ~last.inside
    <3>1. first.index # last.index
      BY <1>2, <1>3, <1>6, <2>3
    <3>2. ~(last.index < first.index)
      <4> SUFFICES ASSUME last.index < first.index PROVE FALSE
        OBVIOUS
      <4>1. first.index \in 1 .. first.index /\ first.index \in last.index + 1 .. N /\ first.index \in 1 .. N
        BY <1>1, <1>2, <1>3
      <4>2. segments[first.index].virtualStart <= from /\ segments[first.index].virtualStart > upTo
        BY <1>2, <1>3, <4>1
      <4> QED BY <1>1, <4>1, <4>2
    <3>3. last.index \in 1 .. last.index /\ last.index \in first.index + 1 .. N /\ last.index \in 1 .. N
      BY <1>1, <1>2, <1>3, <3>1, <3>2
    <3> DEFINE p == segments[last.index].virtualStart
    <3>4. p \in from .. upTo /\ p \in Nat
      BY <1>1, <1>2, <1>3, <3>3
    <3>5. CoversUpTo(segments[last.index], p)
      BY <1>1, <3>3 DEF CoversUpTo, Covers
    <3> HIDE DEF p
    <3>6. SegmentIndexAt(p).inside
      BY <3>3, <3>4, <3>5, Covering DEF N
    <3> QED BY <3>4, <3>6
  <2> QED BY <1>2, <1>3, <2>1, <2>2, <2>3
<1> QED BY <1>4, <1>5, <1>6 DEF first, last

\* A range is mapped as well as the segments that cover it allow.
LEMMA RangeFidelity ==
    ASSUME InVirtualOrder, NEW from \in Nat, NEW to \in Nat, from < to
    PROVE  MapRange(from, to).fidelity = Fidelity(from, to)
<1> DEFINE covering(q) == {s \in All : CoversUpTo(s, q)}
           units == from .. to - 1
           first == SegmentIndexAt(from)
           last == SegmentIndexAt(to - 1)
           s == segments[first.index]
<1>1. to - 1 \in Nat /\ from <= to - 1 /\ from \in units /\ to - 1 \in units /\ \A p \in units : p \in Nat
  OBVIOUS
<1>2. /\ first = last /\ first.inside => \A p \in units : CoversUpTo(s, p)
      /\ first = last /\ ~first.inside => \A p \in units : ~SegmentIndexAt(p).inside
      /\ first # last => \E p \in units : SegmentIndexAt(p).inside
  BY <1>1, TwoPositions
<1>3. \A p \in units :
          /\ SegmentIndexAt(p).inside => /\ covering(p) = {segments[SegmentIndexAt(p).index]}
                                        /\ segments[SegmentIndexAt(p).index] \in All
          /\ ~SegmentIndexAt(p).inside => covering(p) = {}
  BY <1>1, CoveringOne
<1>4. MapRange(from, to).fidelity =
          IF first = last /\ ~first.inside THEN "none"
          ELSE IF first = last /\ ~s.verbatim THEN "atom"
          ELSE IF first = last THEN "exact" ELSE "approximate"
  BY DEF MapRange, Mapped
<1>5. Fidelity(from, to) =
          IF \A p \in units : covering(p) = {} THEN "none"
          ELSE IF \E t \in All : \A p \in units : t \in covering(p)
               THEN IF \E t \in covering(from) : t.verbatim THEN "exact" ELSE "atom"
          ELSE "approximate"
  BY DEF Fidelity
<1> DEFINE inside(p) == SegmentIndexAt(p).inside
<1>6. CASE first = last /\ ~first.inside
  <2>1. \A p \in units : covering(p) = {}
    BY <1>2, <1>3, <1>6
  <2> HIDE DEF covering, units, first, last
  <2> QED BY <1>4, <1>5, <1>6, <2>1
<1>7. CASE first = last /\ first.inside
  <2>1. covering(from) = {s} /\ s \in All
    BY <1>1, <1>3, <1>7
  <2>2. \A p \in units : s \in covering(p)
    BY <1>2, <1>7, <2>1
  <2> HIDE DEF covering, units, first, last
  <2>3. ~(\A p \in units : covering(p) = {}) /\ \E t \in All : \A p \in units : t \in covering(p)
    BY <1>1, <2>1, <2>2
  <2>4. (\E t \in covering(from) : t.verbatim) <=> s.verbatim
    BY <2>1
  <2> QED BY <1>4, <1>5, <1>7, <2>3, <2>4
<1>8. CASE first # last
  <2>1. ~(\A p \in units : covering(p) = {})
    <3>1. PICK p \in units : SegmentIndexAt(p).inside
      BY <1>2, <1>8
    <3>2. covering(p) = {segments[SegmentIndexAt(p).index]}
      BY <1>3, <3>1
    <3> QED BY <3>2
  <2>2. ASSUME NEW t \in All, \A p \in units : t \in covering(p) PROVE FALSE
    <3>1. CoversUpTo(t, from) /\ CoversUpTo(t, to - 1)
      BY <1>1, <2>2
    <3>2. PICK i \in 1 .. Len(segments) : t = segments[i]
      BY SegmentsPlaced
    <3>3. first = [index |-> i, inside |-> TRUE]
      BY <3>1, <3>2, Covering
    <3>4. last = [index |-> i, inside |-> TRUE]
      BY <1>1, <3>1, <3>2, Covering
    <3> QED BY <1>8, <3>3, <3>4
  <2> HIDE DEF covering, units, first, last
  <2> QED BY <1>4, <1>5, <1>8, <2>1, <2>2
<1> QED BY <1>6, <1>7, <1>8

\* A feature is served where every unit of the range is.
LEMMA FeatureServed ==
    ASSUME InVirtualOrder, NEW from \in Nat, NEW to \in Nat, from < to, NEW f
    PROVE  SupportsFeature(from, to, f) <=>
               \A p \in from .. to - 1 : \E s \in All : Covers(s, p) /\ f \in s.features
<1> DEFINE N == Len(segments)
           at == SegmentIndexAt(from)
           k == at.index
           through(i) == IF i = k THEN from ELSE segments[i - 1].virtualEnd
           Served(p) == \E i \in 1 .. N : Covers(segments[i], p) /\ f \in segments[i].features
<1>1. /\ N \in Nat
      /\ \A i \in 1 .. N : /\ segments[i].virtualStart \in Nat /\ segments[i].virtualEnd \in Nat
                            /\ segments[i].virtualStart < segments[i].virtualEnd
      /\ \A i, j \in 1 .. N : i < j => segments[i].virtualEnd <= segments[j].virtualStart
  BY SegmentsPlaced, SegmentTyped
<1>2. (\A p \in from .. to - 1 : \E s \in All : Covers(s, p) /\ f \in s.features)
          <=> \A p \in from .. to - 1 : Served(p)
  <2>1. \A s : s \in All <=> \E i \in 1 .. N : s = segments[i]
    BY SegmentsPlaced
  <2> QED BY <2>1
<1>3. SupportsFeature(from, to, f) <=>
          at.inside /\ \E last \in k .. N :
              /\ segments[last].virtualEnd >= to
              /\ \A i \in k .. last : Continues(segments[i], through(i), f)
  BY DEF SupportsFeature
<1>4. /\ at.inside => k \in 1 .. N /\ CoversUpTo(segments[k], from)
      /\ \A i \in 1 .. N : CoversUpTo(segments[i], from) => at = [index |-> i, inside |-> TRUE]
  BY Covering
<1>5. k \in 0 .. N
  BY IndexAt
<1> HIDE DEF N, at, Served
<1>6. ASSUME at.inside, NEW last \in k .. N, segments[last].virtualEnd >= to,
             \A i \in k .. last : Continues(segments[i], through(i), f),
             NEW p \in from .. to - 1
      PROVE  Served(p)
  <2> DEFINE T == {i \in k .. last : segments[i].virtualEnd > p}
  <2>1. k \in 1 .. N /\ last \in 1 .. N /\ last \in T
    BY <1>1, <1>4, <1>6
  <2>2. PICK h \in T : \A i \in T : h <= i
    <3>1. T \subseteq Nat /\ T # {}
      BY <1>1, <2>1
    <3> HIDE DEF T
    <3> QED BY <3>1, Least
  <2>3. h \in k .. last /\ h \in 1 .. N /\ segments[h].virtualEnd > p
    BY <1>1, <2>1
  <2>4. Continues(segments[h], through(h), f)
    BY <1>6, <2>3
  <2>5. through(h) <= p
    <3>1. CASE h = k
      BY <3>1
    <3>2. CASE h # k
      <4>1. h - 1 \in k .. last /\ h - 1 \in 1 .. N /\ h - 1 < h
        BY <1>1, <2>1, <2>3, <3>2
      <4>2. h - 1 \notin T
        BY <2>2, <2>3, <4>1
      <4>3. ~(segments[h - 1].virtualEnd > p)
        BY <4>1, <4>2
      <4> QED BY <1>1, <3>2, <4>1, <4>3
    <3> QED BY <3>1, <3>2
  <2>6. segments[h].virtualStart <= through(h) /\ f \in segments[h].features
    BY <2>4 DEF Continues
  <2>7. through(h) \in Nat
    <3>1. CASE h = k
      BY <3>1
    <3>2. CASE h # k
      <4>1. h - 1 \in 1 .. N
        BY <1>1, <2>1, <2>3, <3>2
      <4> QED BY <1>1, <3>2, <4>1
    <3> QED BY <3>1, <3>2
  <2>8. Covers(segments[h], p)
    <3> HIDE DEF through
    <3> QED BY <1>1, <2>3, <2>5, <2>6, <2>7 DEF Covers
  <2> QED BY <2>3, <2>6, <2>8 DEF Served
<1>7. ASSUME \A p \in from .. to - 1 : Served(p)
      PROVE  at.inside /\ \E last \in k .. N :
                 /\ segments[last].virtualEnd >= to
                 /\ \A i \in k .. last : Continues(segments[i], through(i), f)
  <2>1. PICK h \in 1 .. N : Covers(segments[h], from) /\ f \in segments[h].features
    <3>1. from \in from .. to - 1
      OBVIOUS
    <3> QED BY <1>7, <3>1 DEF Served
  <2>2. at = [index |-> h, inside |-> TRUE]
    BY <1>4, <2>1 DEF CoversUpTo
  <2>3. k = h /\ at.inside
    BY <2>2
  <2>4. PICK last \in 1 .. N : Covers(segments[last], to - 1) /\ f \in segments[last].features
    <3>1. to - 1 \in from .. to - 1
      OBVIOUS
    <3> QED BY <1>7, <3>1 DEF Served
  <2>5. /\ segments[k].virtualStart <= from /\ from < segments[k].virtualEnd
        /\ segments[last].virtualStart <= to - 1 /\ to - 1 < segments[last].virtualEnd
    BY <2>1, <2>3, <2>4 DEF Covers
  <2> HIDE DEF k
  <2>6. last \in k .. N /\ segments[last].virtualEnd >= to
    <3>1. ~(last < k)
      BY <1>1, <2>1, <2>3, <2>4, <2>5
    <3> QED BY <1>1, <2>1, <2>3, <2>4, <2>5, <3>1
  <2>7. ASSUME NEW i \in k .. last PROVE Continues(segments[i], through(i), f)
    <3>1. i \in 1 .. N /\ k \in 1 .. N
      BY <1>1, <2>1, <2>3, <2>4
    <3>2. CASE i = k
      BY <2>1, <2>3, <2>5, <3>2 DEF Continues
    <3>3. CASE i # k
      <4> DEFINE p == segments[i - 1].virtualEnd
      <4>1. /\ i - 1 \in 1 .. N /\ i - 1 >= k /\ i - 1 < i /\ through(i) = p /\ p \in Nat
            /\ p <= segments[i].virtualStart
        BY <1>1, <3>1, <3>3
      <4>2. from < p
        <5>1. CASE i - 1 = k
          BY <2>5, <5>1
        <5>2. CASE i - 1 # k
          <6>1. segments[k].virtualEnd <= segments[i - 1].virtualStart
            BY <1>1, <3>1, <4>1, <5>2
          <6> QED BY <1>1, <2>5, <3>1, <4>1, <6>1
        <5> QED BY <5>1, <5>2
      <4>3. p <= to - 1
        <5>1. segments[i].virtualStart <= segments[last].virtualStart
          BY <1>1, <2>4, <3>1
        <5> QED BY <1>1, <2>4, <2>5, <3>1, <4>1, <5>1
      <4>4. p \in from .. to - 1
        BY <4>1, <4>2, <4>3
      <4>5. PICK j \in 1 .. N : Covers(segments[j], p) /\ f \in segments[j].features
        BY <1>7, <4>4 DEF Served
      <4>6. segments[j].virtualStart <= p /\ p < segments[j].virtualEnd
        BY <4>5 DEF Covers
      <4> HIDE DEF through
      <4>7. ~(j > i)
        BY <1>1, <3>1, <4>1, <4>5, <4>6
      <4>8. ~(j < i - 1)
        <5> SUFFICES ASSUME j < i - 1 PROVE FALSE
          OBVIOUS
        <5>1. segments[j].virtualEnd <= segments[i - 1].virtualStart
          BY <1>1, <4>1, <4>5
        <5> QED BY <1>1, <4>1, <4>5, <4>6, <5>1
      <4>9. j # i - 1
        BY <4>1, <4>6
      <4>10. j = i
        BY <3>1, <4>7, <4>8, <4>9
      <4> QED BY <4>1, <4>5, <4>6, <4>10 DEF Continues
    <3> QED BY <3>2, <3>3
  <2> QED BY <2>3, <2>6, <2>7 DEF k
<1> QED BY <1>2, <1>3, <1>6, <1>7

-----------------------------------------------------------------------------
(* The segments in the order of the original *)

\* No segment comes before one that should precede it.
Sorted(list) == \A i, j \in 1 .. Len(list) : i < j => Earlier(list[i], list[j])

\* Both lists have the same elements, but for one.
ElementsWith(after, list, s) ==
    \A t : (\E i \in 1 .. Len(after) : after[i] = t) <=> t = s \/ \E i \in 1 .. Len(list) : list[i] = t

\* The order is one, and segments that start apart in the virtual text are in it.
LEMMA EarlierOrders ==
    ASSUME NEW s \in Segments, NEW t \in Segments, NEW u \in Segments
    PROVE  /\ ~Earlier(s, s)
           /\ Earlier(s, t) /\ Earlier(t, u) => Earlier(s, u)
           /\ s.virtualStart # t.virtualStart => Earlier(s, t) \/ Earlier(t, s)
<1>1. /\ s.virtualStart \in Nat /\ t.virtualStart \in Nat /\ u.virtualStart \in Nat
      /\ s.originalStart \in Nat /\ t.originalStart \in Nat /\ u.originalStart \in Nat
      /\ s.originalEnd \in Nat /\ t.originalEnd \in Nat /\ u.originalEnd \in Nat
  BY SegmentTyped
<1> QED BY <1>1 DEF Earlier, SameOriginal

\* Where a segment goes.
LEMMA PlaceEarlier ==
    ASSUME NEW list \in Seq(Segments), NEW s \in Segments
    PROVE  \E m \in 0 .. Len(list) :
               /\ InsertEarlier(list, s) \in Seq(Segments)
               /\ OneMore(InsertEarlier(list, s), list, m, s)
               /\ m < Len(list) => Earlier(s, list[m + 1])
               /\ \A i \in 1 .. m : ~Earlier(s, list[i])
<1> DEFINE N == Len(list)
           Marked == {n \in 0 .. N : Earlier(s, list[n + 1])}
           m == Min({n \in 0 .. N : n = N \/ n \in Marked})
<1>1. N \in Nat
  BY LenProperties
<1>2. m \in 0 .. N /\ (m = N \/ m \in Marked) /\ \A n \in 0 .. m - 1 : n \notin Marked
  <2> HIDE DEF Marked, N
  <2> QED BY <1>1, LeastMarked
<1>3. InsertEarlier(list, s) = InsertAt(list, m + 1, s)
  <2>1. {n \in 0 .. N : n = N \/ Earlier(s, list[n + 1])} = {n \in 0 .. N : n = N \/ n \in Marked}
    OBVIOUS
  <2>2. InsertEarlier(list, s) = InsertAt(list, 1 + m, s)
    BY <2>1 DEF InsertEarlier
  <2> HIDE DEF m
  <2>3. 1 + m = m + 1
    BY <1>1, <1>2
  <2> QED BY <2>2, <2>3
<1> HIDE DEF m
<1>4. InsertAt(list, m + 1, s) \in Seq(Segments) /\ OneMore(InsertAt(list, m + 1, s), list, m, s)
  BY <1>2, Inserted
<1>5. m < N => Earlier(s, list[m + 1])
  BY <1>1, <1>2
<1>6. ASSUME NEW i \in 1 .. m PROVE ~Earlier(s, list[i])
  <2>1. i - 1 \in 0 .. m - 1 /\ i - 1 \in 0 .. N /\ (i - 1) + 1 = i
    BY <1>1, <1>2
  <2>2. i - 1 \notin Marked
    BY <1>2, <2>1
  <2> QED BY <2>1, <2>2
<1> QED BY <1>2, <1>3, <1>4, <1>5, <1>6

\* Inserting keeps the order.
LEMMA EarlierInserted ==
    ASSUME NEW list \in Seq(Segments), NEW s \in Segments, Sorted(list),
           \A i \in 1 .. Len(list) : list[i].virtualStart # s.virtualStart
    PROVE  Sorted(InsertEarlier(list, s)) /\ ElementsWith(InsertEarlier(list, s), list, s)
<1> DEFINE N == Len(list)
           after == InsertEarlier(list, s)
<1>1. N \in Nat /\ \A i \in 1 .. N : list[i] \in Segments
  BY LenProperties, ElementOfSeq
<1>2. PICK m \in 0 .. N :
          /\ OneMore(after, list, m, s)
          /\ m < N => Earlier(s, list[m + 1])
          /\ \A i \in 1 .. m : ~Earlier(s, list[i])
  BY PlaceEarlier
<1>3. /\ Len(after) = N + 1
      /\ \A i \in 1 .. m : after[i] = list[i]
      /\ after[m + 1] = s
      /\ \A i \in m + 2 .. N + 1 : after[i] = list[i - 1]
  BY <1>2 DEF OneMore
<1>4. \A i, j \in 1 .. N : i < j => Earlier(list[i], list[j])
  BY DEF Sorted
<1> HIDE DEF N, after
<1>5. ASSUME NEW i \in 1 .. m PROVE i \in 1 .. N /\ Earlier(list[i], s)
  <2>1. i \in 1 .. N
    BY <1>1, <1>2
  <2>2. list[i].virtualStart # s.virtualStart /\ ~Earlier(s, list[i])
    BY <1>2, <2>1 DEF N
  <2> QED BY <1>1, <2>1, <2>2, EarlierOrders
<1>6. ASSUME NEW i \in m + 1 .. N PROVE i \in 1 .. N /\ Earlier(s, list[i])
  <2>1. i \in 1 .. N /\ m + 1 \in 1 .. N /\ m < N /\ (i = m + 1 \/ m + 1 < i)
    BY <1>1, <1>2
  <2>2. Earlier(s, list[m + 1])
    BY <1>2, <2>1
  <2>3. m + 1 < i => Earlier(list[m + 1], list[i])
    BY <1>4, <2>1
  <2> QED BY <1>1, <2>1, <2>2, <2>3, EarlierOrders
<1>7. ASSUME NEW i \in 1 .. N + 1, NEW j \in 1 .. N + 1, i < j PROVE Earlier(after[i], after[j])
  <2>1. CASE j <= m
    <3>1. i \in 1 .. m /\ j \in 1 .. m
      BY <1>1, <1>2, <1>7, <2>1
    <3>2. i \in 1 .. N /\ j \in 1 .. N
      BY <1>5, <3>1
    <3> QED BY <1>3, <1>4, <1>7, <3>1, <3>2
  <2>2. CASE j = m + 1
    <3>1. i \in 1 .. m
      BY <1>1, <1>2, <1>7, <2>2
    <3> QED BY <1>3, <1>5, <2>2, <3>1
  <2>3. CASE j > m + 1
    <3>1. j \in m + 2 .. N + 1 /\ j - 1 \in m + 1 .. N
      BY <1>1, <1>2, <2>3
    <3>2. after[j] = list[j - 1] /\ j - 1 \in 1 .. N /\ Earlier(s, list[j - 1])
      BY <1>3, <1>6, <3>1
    <3>3. CASE i <= m
      <4>1. i \in 1 .. m /\ i < j - 1
        BY <1>1, <1>2, <2>3, <3>3
      <4>2. i \in 1 .. N /\ after[i] = list[i]
        BY <1>3, <1>5, <4>1
      <4> QED BY <1>4, <3>2, <4>1, <4>2
    <3>4. CASE i = m + 1
      BY <1>3, <3>2, <3>4
    <3>5. CASE i > m + 1
      <4>1. i \in m + 2 .. N + 1 /\ i - 1 \in m + 1 .. N /\ i - 1 < j - 1
        BY <1>1, <1>2, <1>7, <3>5
      <4>2. after[i] = list[i - 1] /\ i - 1 \in 1 .. N
        BY <1>3, <1>6, <4>1
      <4> QED BY <1>4, <3>2, <4>1, <4>2
    <3> QED BY <1>1, <1>2, <3>3, <3>4, <3>5
  <2> QED BY <1>1, <1>2, <2>1, <2>2, <2>3
<1>8. Sorted(after)
  BY <1>3, <1>7 DEF Sorted
<1>9. ASSUME NEW i \in 1 .. N + 1 PROVE after[i] = s \/ \E j \in 1 .. N : list[j] = after[i]
  <2>1. CASE i <= m
    <3>1. i \in 1 .. m /\ i \in 1 .. N
      BY <1>1, <1>2, <2>1
    <3> QED BY <1>3, <3>1
  <2>2. CASE i = m + 1
    BY <1>3, <2>2
  <2>3. CASE i > m + 1
    <3>1. i \in m + 2 .. N + 1 /\ i - 1 \in 1 .. N
      BY <1>1, <1>2, <2>3
    <3> QED BY <1>3, <3>1
  <2> QED BY <1>1, <1>2, <2>1, <2>2, <2>3
<1>10. ASSUME NEW j \in 1 .. N PROVE \E i \in 1 .. N + 1 : after[i] = list[j]
  <2>1. CASE j <= m
    <3>1. j \in 1 .. m /\ j \in 1 .. N + 1
      BY <1>1, <1>2, <2>1
    <3> QED BY <1>3, <3>1
  <2>2. CASE j > m
    <3>1. j + 1 \in m + 2 .. N + 1 /\ j + 1 \in 1 .. N + 1 /\ (j + 1) - 1 = j
      BY <1>1, <1>2, <2>2
    <3>2. after[j + 1] = list[(j + 1) - 1]
      BY <1>3, <3>1
    <3> QED BY <3>1, <3>2
  <2> QED BY <1>1, <1>2, <2>1, <2>2
<1>11. m + 1 \in 1 .. N + 1
  BY <1>1, <1>2
<1>12. ElementsWith(after, list, s)
  <2>1. \A t : (\E i \in 1 .. N + 1 : after[i] = t) <=> t = s \/ \E i \in 1 .. N : list[i] = t
    BY <1>3, <1>9, <1>10, <1>11
  <2> QED BY <1>3, <2>1 DEF ElementsWith, N
<1> QED BY <1>8, <1>12 DEF after

\* The recursive function of InOriginalOrder.
SortedTo ==
    CHOOSE sorted : sorted = [n \in 0 .. Len(segments) |->
        IF n = 0 THEN <<>> ELSE InsertEarlier(sorted[n - 1], segments[n])]

\* InOriginalOrder by that function.
LEMMA OriginalOrderByParts == InOriginalOrder = SortedTo[Len(segments)]
  BY Zenon DEF InOriginalOrder, SortedTo

\* The segments are sorted, and none is lost.
LEMMA OriginalOrder ==
    ASSUME InVirtualOrder
    PROVE  /\ InOriginalOrder \in Seq(Segments) /\ Sorted(InOriginalOrder)
           /\ \A t : t \in All <=> \E i \in 1 .. Len(InOriginalOrder) : InOriginalOrder[i] = t
<1> DEFINE N == Len(segments)
           S == Seq(Segments)
           onward == [n \in 1 .. N |-> [l \in S |-> InsertEarlier(l, segments[n])]]
           v == SortedTo
<1>1. /\ N \in Nat /\ <<>> \in S
      /\ \A i \in 1 .. N : segments[i] \in Segments /\ segments[i].virtualStart \in Nat
      /\ \A i, j \in 1 .. N : i < j => segments[i].virtualStart < segments[j].virtualStart
      /\ \A t : t \in All <=> \E i \in 1 .. N : t = segments[i]
  BY SegmentsPlaced, SegmentTyped, EmptySeq
<1>2. ASSUME NEW n \in 1 .. N, NEW l \in S
      PROVE  onward[n][l] = InsertEarlier(l, segments[n]) /\ onward[n][l] \in S
  <2>1. onward[n][l] = InsertEarlier(l, segments[n])
    OBVIOUS
  <2>2. segments[n] \in Segments
    BY <1>1
  <2> HIDE DEF onward
  <2> QED BY <2>1, <2>2, PlaceEarlier
<1> HIDE DEF onward, N
<1>3. PICK f \in [0 .. N -> S] : Follows(f, N, <<>>, onward)
  <2>1. N \in Nat
    BY <1>1
  <2>2. <<>> \in S
    BY <1>1
  <2> HIDE DEF S
  <2>3. \A n \in 1 .. N : \A l \in S : onward[n][l] \in S
    BY <1>2
  <2> QED BY <2>1, <2>2, <2>3, Recursion
<1> HIDE DEF S
<1>4. ASSUME NEW n \in 0 .. N
      PROVE  f[n] = IF n = 0 THEN <<>> ELSE InsertEarlier(f[n - 1], segments[n])
  <2>1. CASE n = 0
    BY <1>3, <2>1 DEF Follows
  <2>2. CASE n # 0
    <3>1. n \in 1 .. N /\ n - 1 \in 0 .. N
      BY <2>2, <1>1
    <3>2. f[n - 1] \in S /\ f[n] = onward[n][f[n - 1]]
      BY <1>3, <3>1 DEF Follows
    <3> QED BY <1>2, <2>2, <3>1, <3>2
  <2> QED BY <2>1, <2>2
<1>5. f = [n \in 0 .. N |-> IF n = 0 THEN <<>> ELSE InsertEarlier(f[n - 1], segments[n])]
  BY <1>4
<1>6. v = [n \in 0 .. N |-> IF n = 0 THEN <<>> ELSE InsertEarlier(v[n - 1], segments[n])]
  BY <1>5, Zenon DEF SortedTo, N
<1> HIDE DEF v
<1>7. v[0] = <<>> /\ \A n \in 1 .. N : v[n] = InsertEarlier(v[n - 1], segments[n])
  BY <1>1, <1>6
<1> DEFINE Good(n) == /\ v[n] \in S /\ Sorted(v[n])
                      /\ \A t : (\E i \in 1 .. Len(v[n]) : v[n][i] = t) <=> \E i \in 1 .. n : segments[i] = t
           T == {n \in 0 .. N : Good(n)}
<1>8. 0 \in T
  <2>1. v[0] \in S /\ Len(v[0]) = 0
    BY <1>1, <1>7
  <2> QED BY <1>1, <2>1 DEF Sorted
<1>9. ASSUME NEW n \in 0 .. N - 1, n \in T PROVE n + 1 \in T
  <2> DEFINE s == segments[n + 1]
             list == v[n]
             after == v[n + 1]
  <2>1. n + 1 \in 1 .. N /\ (n + 1) - 1 = n /\ Good(n)
    BY <1>1, <1>9
  <2>2. after = InsertEarlier(list, s) /\ s \in Segments
    BY <1>1, <1>7, <2>1
  <2>3. list \in Seq(Segments)
    BY <2>1 DEF S
  <2>4. ASSUME NEW i \in 1 .. Len(list) PROVE list[i].virtualStart # s.virtualStart
    <3>1. PICK j \in 1 .. n : segments[j] = list[i]
      BY <2>1
    <3>2. j \in 1 .. N /\ j < n + 1
      BY <1>1, <2>1
    <3> QED BY <1>1, <2>1, <3>1, <3>2
  <2>5. Sorted(list)
    BY <2>1
  <2> HIDE DEF after, list, s
  <2>6. Sorted(after) /\ ElementsWith(after, list, s)
    BY <2>2, <2>3, <2>4, <2>5, EarlierInserted
  <2>7. after \in S
    BY <2>2, <2>3, PlaceEarlier DEF S
  <2>8. \A t : (\E i \in 1 .. Len(after) : after[i] = t) <=> \E i \in 1 .. n + 1 : segments[i] = t
    <3>1. \A t : (\E i \in 1 .. Len(list) : list[i] = t) <=> \E i \in 1 .. n : segments[i] = t
      BY <2>1 DEF list
    <3>2. \A t : (\E i \in 1 .. n + 1 : segments[i] = t) <=> t = segments[n + 1] \/ \E i \in 1 .. n : segments[i] = t
      <4>1. \A i : i \in 1 .. n + 1 <=> i = n + 1 \/ i \in 1 .. n
        BY <1>1
      <4> QED BY <4>1
    <3> QED BY <2>6, <3>1, <3>2 DEF ElementsWith, s
  <2>9. n + 1 \in 0 .. N
    BY <2>1
  <2> QED BY <2>6, <2>7, <2>8, <2>9 DEF after
<1>10. N \in T
  <2>1. 0 .. N \subseteq T
    <3> HIDE DEF T
    <3> QED BY <1>1, <1>8, <1>9, ClimbTo
  <2>2. N \in 0 .. N
    BY <1>1
  <2> HIDE DEF T
  <2> QED BY <2>1, <2>2
<1>11. InOriginalOrder = v[N]
  BY OriginalOrderByParts DEF v, N
<1>12. \A t : t \in All <=> \E i \in 1 .. N : segments[i] = t
  BY <1>1
<1> QED BY <1>10, <1>11, <1>12 DEF S

-----------------------------------------------------------------------------
(* Trees of nodes 1 to M, the children of a node being twice it and one more *)

\* The values of the nodes, from those of the nodes that Stop at and up.
TreeValues(f, M, Stop, leaf, join) ==
    \A node \in 1 .. M :
        f[node] = IF node \in Stop THEN leaf[node] ELSE join[f[2 * node]][f[2 * node + 1]]

\* What is true of a node if it is true of its children is true of all.
LEMMA TreeInduction ==
    ASSUME NEW M \in Nat, NEW Stop, NEW T,
           \A node \in 1 .. M : node \notin Stop => 2 * node + 1 <= M,
           \A node \in 1 .. M : node \in Stop \/ (2 * node \in T /\ 2 * node + 1 \in T) => node \in T
    PROVE  1 .. M \subseteq T
<1> DEFINE R == {k \in 0 .. M : \A node \in M - k + 1 .. M : node \in T}
<1>1. 0 \in R
  OBVIOUS
<1>2. ASSUME NEW k \in 0 .. M - 1, k \in R PROVE k + 1 \in R
  <2>1. M - k \in 1 .. M /\ k + 1 \in 0 .. M /\ \A node \in M - k + 1 .. M : node \in T
    BY <1>2
  <2>2. M - k \in T
    <3>1. CASE M - k \in Stop
      BY <2>1, <3>1
    <3>2. CASE M - k \notin Stop
      <4> DEFINE node == M - k
      <4>1. 2 * node + 1 <= M /\ node \in 1 .. M
        BY <2>1, <3>2
      <4>2. 2 * node \in M - k + 1 .. M /\ 2 * node + 1 \in M - k + 1 .. M
        BY <4>1
      <4> QED BY <2>1, <4>2
    <3> QED BY <3>1, <3>2
  <2>3. \A node \in M - (k + 1) + 1 .. M : node = M - k \/ node \in M - k + 1 .. M
    BY <2>1
  <2> QED BY <2>1, <2>2, <2>3
<1>3. M \in R
  <2>1. 0 .. M \subseteq R
    <3> HIDE DEF R
    <3> QED BY <1>1, <1>2, ClimbTo
  <2> QED BY <2>1
<1> QED BY <1>3

\* There are such values.
LEMMA TreeRecursion ==
    ASSUME NEW S, NEW M \in Nat, NEW Stop, NEW leaf, NEW join, NEW a \in S,
           \A node \in 1 .. M : node \notin Stop => 2 * node + 1 <= M,
           \A node \in 1 .. M : node \in Stop => leaf[node] \in S,
           \A s, t \in S : join[s][t] \in S
    PROVE  \E f \in [1 .. M -> S] : TreeValues(f, M, Stop, leaf, join)
<1> DEFINE Value(f, node) == IF node \in Stop THEN leaf[node] ELSE join[f[2 * node]][f[2 * node + 1]]
           Built(f, k) == f \in [1 .. M -> S] /\ \A node \in M - k + 1 .. M : f[node] = Value(f, node)
           R == {k \in 0 .. M : \E f : Built(f, k)}
<1>1. 0 \in R
  <2>1. Built([node \in 1 .. M |-> a], 0)
    OBVIOUS
  <2> HIDE DEF Built
  <2> QED BY <2>1
<1>2. ASSUME NEW k \in 0 .. M - 1, k \in R PROVE k + 1 \in R
  <2>1. PICK f : Built(f, k)
    <3> HIDE DEF Built
    <3> QED BY <1>2
  <2> DEFINE new == M - k
             g == [f EXCEPT ![new] = Value(f, new)]
  <2>2. new \in 1 .. M
    OBVIOUS
  <2>3. Value(f, new) \in S
    <3>1. CASE new \in Stop
      BY <2>2, <3>1
    <3>2. CASE new \notin Stop
      <4>1. 2 * new \in 1 .. M /\ 2 * new + 1 \in 1 .. M
        BY <2>2, <3>2
      <4>2. f[2 * new] \in S /\ f[2 * new + 1] \in S
        BY <2>1, <4>1
      <4> QED BY <3>2, <4>2
    <3> QED BY <3>1, <3>2
  <2>4. g \in [1 .. M -> S] /\ g[new] = Value(f, new) /\ \A node \in 1 .. M : node # new => g[node] = f[node]
    <3>1. f \in [1 .. M -> S]
      BY <2>1
    <3> HIDE DEF Value, new
    <3> QED BY <2>2, <2>3, <3>1
  <2>5. ASSUME NEW node \in M - (k + 1) + 1 .. M PROVE g[node] = Value(g, node)
    <3>1. node \in 1 .. M /\ (node = new \/ node \in M - k + 1 .. M)
      OBVIOUS
    <3>2. g[node] = Value(f, node)
      <4>1. CASE node = new
        BY <2>4, <4>1
      <4>2. CASE node # new
        <5>1. f[node] = Value(f, node)
          BY <2>1, <3>1, <4>2
        <5> HIDE DEF Value, g, new
        <5> QED BY <2>4, <3>1, <4>2, <5>1
      <4> QED BY <4>1, <4>2
    <3>3. Value(f, node) = Value(g, node)
      <4>1. CASE node \in Stop
        BY <4>1
      <4>2. CASE node \notin Stop
        <5>1. /\ 2 * node \in 1 .. M /\ 2 * node + 1 \in 1 .. M
              /\ 2 * node # new /\ 2 * node + 1 # new
          BY <3>1, <4>2
        <5>2. g[2 * node] = f[2 * node] /\ g[2 * node + 1] = f[2 * node + 1]
          <6> HIDE DEF g, Value, new
          <6> QED BY <2>4, <5>1
        <5> HIDE DEF g
        <5> QED BY <4>2, <5>2
      <4> QED BY <4>1, <4>2
    <3> QED BY <3>2, <3>3
  <2>6. Built(g, k + 1)
    <3> HIDE DEF g, Value
    <3> QED BY <2>4, <2>5
  <2> HIDE DEF Built
  <2> QED BY <2>6
<1>3. M \in R
  <2>1. 0 .. M \subseteq R
    <3> HIDE DEF R
    <3> QED BY <1>1, <1>2, ClimbTo
  <2> HIDE DEF R
  <2> QED BY <2>1
<1>4. PICK f : Built(f, M)
  <2> HIDE DEF Built
  <2> QED BY <1>3
<1>5. \A node \in 1 .. M : f[node] = Value(f, node)
  <2>1. \A node \in 1 .. M : node \in M - M + 1 .. M
    OBVIOUS
  <2> HIDE DEF Value
  <2> QED BY <1>4, <2>1
<1> QED BY <1>4, <1>5 DEF TreeValues

\* The values of the nodes, from those of the nodes they are children of.
Descends(f, M, a, onward) ==
    \A node \in 1 .. M : f[node] = IF node = 1 THEN a ELSE onward[node][f[node \div 2]]

\* There are such values too.
LEMMA Descent ==
    ASSUME NEW S, NEW M \in Nat, NEW a \in S, NEW onward,
           \A node \in 2 .. M : \A s \in S : onward[node][s] \in S
    PROVE  \E f \in [1 .. M -> S] : Descends(f, M, a, onward)
<1> DEFINE Value(f, node) == IF node = 1 THEN a ELSE onward[node][f[node \div 2]]
           Built(f, k) == f \in [1 .. M -> S] /\ \A node \in 1 .. k : f[node] = Value(f, node)
           R == {k \in 0 .. M : \E f : Built(f, k)}
<1>1. 0 \in R
  <2>1. Built([node \in 1 .. M |-> a], 0)
    OBVIOUS
  <2> HIDE DEF Built
  <2> QED BY <2>1
<1>2. ASSUME NEW k \in 0 .. M - 1, k \in R PROVE k + 1 \in R
  <2>1. PICK f : Built(f, k)
    <3> HIDE DEF Built
    <3> QED BY <1>2
  <2> DEFINE new == k + 1
             g == [f EXCEPT ![new] = Value(f, new)]
  <2>2. new \in 1 .. M /\ new \in 0 .. M
    OBVIOUS
  <2>3. \A node \in 2 .. M : node \div 2 \in 1 .. M /\ node \div 2 < node
    OBVIOUS
  <2>4. Value(f, new) \in S
    <3>1. CASE new = 1
      BY <3>1
    <3>2. CASE new # 1
      <4>1. new \in 2 .. M
        BY <2>2, <3>2
      <4>2. f[new \div 2] \in S
        BY <2>1, <2>3, <4>1
      <4> QED BY <3>2, <4>1, <4>2
    <3> QED BY <3>1, <3>2
  <2>5. g \in [1 .. M -> S] /\ g[new] = Value(f, new) /\ \A node \in 1 .. M : node # new => g[node] = f[node]
    <3>1. f \in [1 .. M -> S]
      BY <2>1
    <3> HIDE DEF Value, new
    <3> QED BY <2>2, <2>4, <3>1
  <2>6. ASSUME NEW node \in 1 .. k + 1 PROVE g[node] = Value(g, node)
    <3>1. node \in 1 .. M /\ (node = new \/ node \in 1 .. k)
      OBVIOUS
    <3>2. g[node] = Value(f, node)
      <4>1. CASE node = new
        BY <2>5, <4>1
      <4>2. CASE node # new
        <5>1. f[node] = Value(f, node)
          BY <2>1, <3>1, <4>2
        <5> HIDE DEF Value, g, new
        <5> QED BY <2>5, <3>1, <4>2, <5>1
      <4> QED BY <4>1, <4>2
    <3>3. Value(f, node) = Value(g, node)
      <4>1. CASE node = 1
        BY <4>1
      <4>2. CASE node # 1
        <5>1. node \in 2 .. M
          BY <3>1, <4>2
        <5>2. node \div 2 \in 1 .. M /\ node \div 2 # new
          BY <2>3, <5>1
        <5>3. g[node \div 2] = f[node \div 2]
          <6> HIDE DEF g, Value, new
          <6> QED BY <2>5, <5>2
        <5> HIDE DEF g
        <5> QED BY <4>2, <5>3
      <4> QED BY <4>1, <4>2
    <3> QED BY <3>2, <3>3
  <2>7. Built(g, k + 1)
    <3> HIDE DEF g, Value
    <3> QED BY <2>5, <2>6
  <2> HIDE DEF Built
  <2> QED BY <2>2, <2>7
<1>3. M \in R
  <2>1. 0 .. M \subseteq R
    <3> HIDE DEF R
    <3> QED BY <1>1, <1>2, ClimbTo
  <2> HIDE DEF R
  <2> QED BY <2>1
<1>4. PICK f : Built(f, M)
  <2> HIDE DEF Built
  <2> QED BY <1>3
<1> QED BY <1>4 DEF Descends

-----------------------------------------------------------------------------
(* The leaves of the tree *)

\* Sizes that can be halved down to 1.
Halves(H) == \A h \in H : h \in Nat \ {0} /\ (h = 1 \/ \E w \in H : h = 2 * w)

\* The recursive function of LeafCount.
Doubled(n) ==
    CHOOSE leaves : leaves = [k \in 0 .. n |->
        IF k = 0 THEN 1 ELSE IF leaves[k - 1] < n THEN 2 * leaves[k - 1] ELSE leaves[k - 1]]

\* LeafCount by that function.
LEMMA LeavesByParts == ASSUME NEW n PROVE LeafCount(n) = Doubled(n)[n]
  BY Zenon DEF LeafCount, Doubled

\* There are leaves enough, and they can be halved down to one.
LEMMA LeavesEnough ==
    ASSUME NEW n \in Nat
    PROVE  /\ LeafCount(n) \in Nat \ {0} /\ n <= LeafCount(n)
           /\ \E H : Halves(H) /\ LeafCount(n) \in H
<1> DEFINE S == Nat \ {0}
           More(l) == IF l < n THEN 2 * l ELSE l
           onward == [k \in 1 .. n |-> [l \in S |-> More(l)]]
           v == Doubled(n)
<1>1. \A l \in S : More(l) \in S /\ \A k \in 1 .. n : onward[k][l] = More(l)
  OBVIOUS
<1>2. PICK f \in [0 .. n -> S] : Follows(f, n, 1, onward)
  <2>1. 1 \in S
    OBVIOUS
  <2> HIDE DEF S, onward, More
  <2>2. \A k \in 1 .. n : \A l \in S : onward[k][l] \in S
    BY <1>1
  <2> QED BY <2>1, <2>2, Recursion
<1> HIDE DEF onward
<1>3. ASSUME NEW k \in 0 .. n
      PROVE  f[k] = IF k = 0 THEN 1 ELSE IF f[k - 1] < n THEN 2 * f[k - 1] ELSE f[k - 1]
  <2>1. CASE k = 0
    BY <1>2, <2>1 DEF Follows
  <2>2. CASE k # 0
    <3>1. k \in 1 .. n /\ k - 1 \in 0 .. n
      BY <2>2
    <3>2. f[k - 1] \in S /\ f[k] = onward[k][f[k - 1]]
      BY <1>2, <3>1 DEF Follows
    <3>3. f[k] = More(f[k - 1])
      BY <1>1, <3>1, <3>2
    <3> QED BY <2>2, <3>3
  <2> QED BY <2>1, <2>2
<1>4. f = [k \in 0 .. n |-> IF k = 0 THEN 1 ELSE IF f[k - 1] < n THEN 2 * f[k - 1] ELSE f[k - 1]]
  BY <1>3
<1>5. v = [k \in 0 .. n |-> IF k = 0 THEN 1 ELSE IF v[k - 1] < n THEN 2 * v[k - 1] ELSE v[k - 1]]
  BY <1>4, Zenon DEF Doubled
<1> HIDE DEF v
<1>6. v[0] = 1 /\ \A k \in 1 .. n : v[k] = More(v[k - 1])
  BY <1>5
<1> DEFINE H == {v[k] : k \in 0 .. n}
           T == {k \in 0 .. n :
                    /\ v[k] \in S /\ (v[k] >= n \/ v[k] > k)
                    /\ (v[k] = 1 \/ \E w \in H : v[k] = 2 * w)}
<1>7. 0 \in T
  BY <1>6
<1>8. ASSUME NEW k \in 0 .. n - 1, k \in T PROVE k + 1 \in T
  <2>1. k + 1 \in 1 .. n /\ (k + 1) - 1 = k /\ k \in 0 .. n /\ k + 1 \in 0 .. n
    OBVIOUS
  <2>2. v[k + 1] = More(v[k])
    BY <1>6, <2>1
  <2>3. v[k] \in S /\ (v[k] >= n \/ v[k] > k) /\ (v[k] = 1 \/ \E w \in H : v[k] = 2 * w)
    BY <1>8
  <2>4. v[k] \in H
    BY <2>1
  <2> HIDE DEF H
  <2>5. CASE v[k] < n
    <3>1. v[k + 1] = 2 * v[k]
      BY <2>2, <2>5
    <3>2. v[k + 1] \in S /\ v[k + 1] > k + 1
      BY <2>3, <2>5, <3>1
    <3> QED BY <2>1, <2>4, <3>1, <3>2
  <2>6. CASE ~(v[k] < n)
    <3>1. v[k + 1] = v[k]
      BY <2>2, <2>6
    <3> QED BY <2>1, <2>3, <2>6, <3>1
  <2> QED BY <2>5, <2>6
<1>9. 0 .. n \subseteq T
  <2> HIDE DEF T
  <2> QED BY <1>7, <1>8, ClimbTo
<1>10. v[n] \in S /\ v[n] >= n /\ v[n] \in H
  BY <1>9
<1>11. Halves(H)
  <2> SUFFICES ASSUME NEW h \in H PROVE h \in Nat \ {0} /\ (h = 1 \/ \E w \in H : h = 2 * w)
    BY DEF Halves
  <2>1. PICK k \in 0 .. n : h = v[k]
    OBVIOUS
  <2>2. v[k] \in S /\ (v[k] = 1 \/ \E w \in H : v[k] = 2 * w)
    <3> HIDE DEF H
    <3> QED BY <1>9
  <2> HIDE DEF H
  <2> QED BY <2>1, <2>2
<1>12. LeafCount(n) = v[n]
  BY LeavesByParts DEF v
<1> HIDE DEF H
<1> QED BY <1>10, <1>11, <1>12

\* The leaves under a node: as many as a size that can be halved, and the node is
\* where the nodes of that size put them.
Spanned(L, H, node, r) ==
    /\ r = [first |-> r.first, past |-> r.past] /\ r.first \in Nat /\ r.past \in 0 .. L
    /\ \E h \in H : r.past = r.first + h /\ node * h = L + r.first

\* The middle of a node above the leaves.
MiddleOf(r) == r.first + (r.past - r.first) \div 2

\* The halves of what is under a node are under its children.
LEMMA SpannedHalves ==
    ASSUME NEW L \in Nat \ {0}, NEW H, Halves(H), NEW node \in Nat \ {0}, NEW r, Spanned(L, H, node, r)
    PROVE  /\ r.first < r.past
           /\ node >= L => r.past = r.first + 1 /\ r.first = node - L
           /\ node < L =>
                  /\ r.past # r.first + 1 /\ MiddleOf(r) \in Nat
                  /\ r.first < MiddleOf(r) /\ MiddleOf(r) < r.past
                  /\ Spanned(L, H, 2 * node, [r EXCEPT !.past = MiddleOf(r)])
                  /\ Spanned(L, H, 2 * node + 1, [r EXCEPT !.first = MiddleOf(r)])
<1>1. /\ r = [first |-> r.first, past |-> r.past] /\ r.first \in Nat /\ r.past \in 0 .. L
  BY DEF Spanned
<1>2. PICK h \in H : r.past = r.first + h /\ node * h = L + r.first
  BY DEF Spanned
<1>3. h \in Nat \ {0} /\ (h = 1 \/ \E w \in H : h = 2 * w)
  BY DEF Halves
<1>4. CASE h = 1
  <2>1. node = L + r.first
    BY <1>2, <1>4
  <2> QED BY <1>1, <1>2, <1>4, <2>1
<1>5. CASE h # 1
  <2>1. PICK w \in H : h = 2 * w
    BY <1>3, <1>5
  <2>2. w \in Nat \ {0}
    BY DEF Halves
  <2> DEFINE middle == r.first + w
  <2>3. MiddleOf(r) = middle
    <3>1. r.past - r.first = 2 * w
      BY <1>1, <1>2, <2>1, <2>2
    <3>2. (2 * w) \div 2 = w
      BY <2>2
    <3> QED BY <3>1, <3>2 DEF MiddleOf
  <2>4. r.first < middle /\ middle < r.past /\ middle \in Nat /\ r.past = middle + w /\ middle \in 0 .. L
    BY <1>1, <1>2, <2>1, <2>2
  <2>5. 2 * (node * w) = L + r.first /\ node * w \in Nat
    <3>1. node * (2 * w) = 2 * (node * w)
      BY <2>2
    <3> QED BY <1>2, <2>1, <2>2, <3>1
  <2>6. node < L
    <3>1. 2 * node <= L + r.first
      <4>1. node <= node * w
        BY <2>2
      <4> QED BY <1>1, <2>2, <2>5, <4>1
    <3>2. r.first + 2 <= L
      BY <1>1, <1>2, <2>1, <2>2
    <3> QED BY <1>1, <3>1, <3>2
  <2>7. Spanned(L, H, 2 * node, [r EXCEPT !.past = middle])
    <3> DEFINE q == [r EXCEPT !.past = middle]
    <3>1. q = [first |-> r.first, past |-> middle]
      BY <1>1
    <3>2. (2 * node) * w = L + r.first
      BY <2>2, <2>5
    <3> HIDE DEF q
    <3>3. q.first = r.first /\ q.past = middle /\ q.past = q.first + w
      BY <3>1
    <3> QED BY <1>1, <2>4, <3>1, <3>2, <3>3 DEF Spanned, q
  <2>8. Spanned(L, H, 2 * node + 1, [r EXCEPT !.first = middle])
    <3> DEFINE q == [r EXCEPT !.first = middle]
    <3>1. q = [first |-> middle, past |-> r.past]
      BY <1>1
    <3>2. (2 * node + 1) * w = L + middle
      BY <1>1, <2>2, <2>5
    <3> HIDE DEF q
    <3>3. q.first = middle /\ q.past = r.past /\ q.past = q.first + w
      BY <2>4, <3>1
    <3> QED BY <1>1, <2>4, <3>1, <3>2, <3>3 DEF Spanned, q
  <2>9. r.past # r.first + 1
    BY <1>1, <1>2, <2>1, <2>2
  <2> HIDE DEF middle
  <2> QED BY <1>1, <2>3, <2>4, <2>6, <2>7, <2>8, <2>9
<1> QED BY <1>4, <1>5

-----------------------------------------------------------------------------
(* The leaves under the nodes *)

\* All leaves are under the root, and half of the leaves under a node under each
\* of its children.
TreeRanges(range, L, H) ==
    /\ range[1] = [first |-> 0, past |-> L]
    /\ \A node \in 1 .. 2 * L - 1 : Spanned(L, H, node, range[node])
    /\ \A node \in 1 .. L - 1 :
           /\ range[2 * node] = [range[node] EXCEPT !.past = MiddleOf(range[node])]
           /\ range[2 * node + 1] = [range[node] EXCEPT !.first = MiddleOf(range[node])]

\* The half of a range that goes to a node.
HalfFor(node, r) ==
    IF node % 2 = 0 THEN [r EXCEPT !.past = MiddleOf(r)] ELSE [r EXCEPT !.first = MiddleOf(r)]

\* The recursive function of LeafRanges.
RangesOf(L) ==
    CHOOSE range : range = [node \in 1 .. 2 * L - 1 |->
        IF node = 1 THEN [first |-> 0, past |-> L] ELSE HalfFor(node, range[node \div 2])]

\* LeafRanges by that function.
LEMMA RangesByParts == ASSUME NEW L PROVE LeafRanges(L) = RangesOf(L)
  BY Zenon DEF LeafRanges, RangesOf, HalfFor, MiddleOf

\* LeafRanges gives every node its leaves.
LEMMA RangesHalve ==
    ASSUME NEW L \in Nat \ {0}, NEW H, Halves(H), L \in H
    PROVE  TreeRanges(LeafRanges(L), L, H)
<1> DEFINE M == 2 * L - 1
           S == [first : Int, past : Int]
           whole == [first |-> 0, past |-> L]
           onward == [node \in 2 .. M |-> [r \in S |-> HalfFor(node, r)]]
           v == RangesOf(L)
<1>1. whole \in S /\ M \in Nat /\ M >= 1
  OBVIOUS
<1>2. ASSUME NEW r \in S, NEW node \in 2 .. M PROVE HalfFor(node, r) \in S /\ onward[node][r] = HalfFor(node, r)
  <2>1. MiddleOf(r) \in Int
    BY DEF MiddleOf
  <2>2. HalfFor(node, r) \in S
    BY <2>1 DEF HalfFor
  <2> QED BY <2>2
<1> HIDE DEF M, whole, onward
<1>3. PICK f \in [1 .. M -> S] : Descends(f, M, whole, onward)
  <2>1. M \in Nat
    BY <1>1
  <2>2. whole \in S
    BY <1>1
  <2> HIDE DEF S
  <2>3. \A node \in 2 .. M : \A r \in S : onward[node][r] \in S
    BY <1>2
  <2> QED BY <2>1, <2>2, <2>3, Descent
<1> HIDE DEF S
<1>4. ASSUME NEW node \in 1 .. M
      PROVE  f[node] = IF node = 1 THEN whole ELSE HalfFor(node, f[node \div 2])
  <2>1. CASE node = 1
    BY <1>3, <2>1 DEF Descends
  <2>2. CASE node # 1
    <3>1. node \in 2 .. M /\ node \div 2 \in 1 .. M
      BY <1>1, <2>2
    <3>2. f[node \div 2] \in S
      BY <3>1
    <3>3. f[node] = onward[node][f[node \div 2]]
      BY <1>3, <2>2 DEF Descends
    <3> QED BY <1>2, <2>2, <3>1, <3>2, <3>3
  <2> QED BY <2>1, <2>2
<1>5. f = [node \in 1 .. M |-> IF node = 1 THEN whole ELSE HalfFor(node, f[node \div 2])]
  <2> HIDE DEF S
  <2> QED BY <1>4
<1>6. v = [node \in 1 .. M |-> IF node = 1 THEN whole ELSE HalfFor(node, v[node \div 2])]
  BY <1>5, Zenon DEF RangesOf, M, whole
<1> HIDE DEF v
<1>7. v[1] = whole
  BY <1>1, <1>6
<1>8. ASSUME NEW node \in 1 .. L - 1
      PROVE  /\ v[2 * node] = [v[node] EXCEPT !.past = MiddleOf(v[node])]
             /\ v[2 * node + 1] = [v[node] EXCEPT !.first = MiddleOf(v[node])]
  <2>1. /\ 2 * node \in 1 .. M /\ 2 * node # 1 /\ (2 * node) \div 2 = node /\ (2 * node) % 2 = 0
        /\ 2 * node + 1 \in 1 .. M /\ 2 * node + 1 # 1 /\ (2 * node + 1) \div 2 = node
        /\ (2 * node + 1) % 2 # 0
    BY DEF M
  <2>2. v[2 * node] = HalfFor(2 * node, v[node]) /\ v[2 * node + 1] = HalfFor(2 * node + 1, v[node])
    BY <1>6, <2>1
  <2> QED BY <2>1, <2>2 DEF HalfFor
<1> DEFINE T == {k \in 0 .. M : \A node \in 1 .. k : Spanned(L, H, node, v[node])}
<1>9. 0 \in T
  BY <1>1
<1>10. ASSUME NEW k \in 0 .. M - 1, k \in T PROVE k + 1 \in T
  <2>1. k + 1 \in 0 .. M /\ k + 1 \in 1 .. M
    BY <1>1
  <2>2. Spanned(L, H, k + 1, v[k + 1])
    <3>1. CASE k = 0
      <4>1. v[1].first = 0 /\ v[1].past = L /\ v[1] = [first |-> v[1].first, past |-> v[1].past]
        BY <1>7 DEF whole
      <4>2. v[1].past = v[1].first + L /\ 1 * L = L + v[1].first /\ v[1].past \in 0 .. L
        BY <4>1
      <4>3. Spanned(L, H, 1, v[1])
        BY <4>1, <4>2 DEF Spanned
      <4> QED BY <3>1, <4>3
    <3>2. CASE k # 0
      <4> DEFINE q == (k + 1) \div 2
      <4>1. q \in 1 .. L - 1 /\ q \in 1 .. k /\ q \in Nat \ {0} /\ q < L /\ (k + 1 = 2 * q \/ k + 1 = 2 * q + 1)
        BY <3>2 DEF M
      <4>2. Spanned(L, H, q, v[q])
        BY <1>10, <4>1
      <4> HIDE DEF q
      <4>3. /\ Spanned(L, H, 2 * q, [v[q] EXCEPT !.past = MiddleOf(v[q])])
            /\ Spanned(L, H, 2 * q + 1, [v[q] EXCEPT !.first = MiddleOf(v[q])])
        BY <4>1, <4>2, SpannedHalves
      <4>4. Spanned(L, H, 2 * q, v[2 * q]) /\ Spanned(L, H, 2 * q + 1, v[2 * q + 1])
        BY <1>8, <4>1, <4>3
      <4> QED BY <4>1, <4>4
    <3> QED BY <3>1, <3>2
  <2>3. \A node \in 1 .. k + 1 : node = k + 1 \/ node \in 1 .. k
    OBVIOUS
  <2>4. \A node \in 1 .. k : Spanned(L, H, node, v[node])
    BY <1>10
  <2>5. \A node \in 1 .. k + 1 : Spanned(L, H, node, v[node])
    BY <2>2, <2>3, <2>4
  <2> QED BY <2>1, <2>5
<1>11. M \in T
  <2>1. 0 .. M \subseteq T
    <3> HIDE DEF T
    <3> QED BY <1>1, <1>9, <1>10, ClimbTo
  <2>2. M \in 0 .. M
    BY <1>1
  <2> HIDE DEF T
  <2> QED BY <2>1, <2>2
<1>12. \A node \in 1 .. 2 * L - 1 : Spanned(L, H, node, v[node])
  BY <1>11 DEF M
<1>13. TreeRanges(v, L, H)
  BY <1>7, <1>8, <1>12 DEF TreeRanges, whole
<1> QED BY <1>13, RangesByParts DEF v

-----------------------------------------------------------------------------
(* The greatest ends *)

\* The recursive function of MaxEnds.
EndsOf(list, L) ==
    CHOOSE end : end = [node \in 1 .. 2 * L - 1 |->
        IF node >= L
        THEN IF node - L < Len(list) THEN list[node - L + 1].originalEnd ELSE 0
        ELSE IF end[2 * node] > end[2 * node + 1] THEN end[2 * node] ELSE end[2 * node + 1]]

\* MaxEnds by that function.
LEMMA EndsByParts == ASSUME NEW list, NEW L PROVE MaxEnds(list, L) = EndsOf(list, L)
  BY Zenon DEF MaxEnds, EndsOf

\* No segment under a node ends after what the tree says of it, and at a leaf it
\* says when that segment ends.
LEMMA EndsBound ==
    ASSUME NEW list \in Seq(Segments), NEW L \in Nat \ {0}, NEW H, Halves(H), NEW range, TreeRanges(range, L, H)
    PROVE  \A node \in 1 .. 2 * L - 1 :
               /\ MaxEnds(list, L)[node] \in Nat
               /\ \A i \in Nat : range[node].first <= i /\ i < range[node].past /\ i < Len(list)
                                 => list[i + 1].originalEnd <= MaxEnds(list, L)[node]
               /\ node >= L /\ node - L < Len(list)
                      => MaxEnds(list, L)[node] = list[node - L + 1].originalEnd
<1> DEFINE M == 2 * L - 1
           Stop == L .. M
           leaf == [node \in Stop |-> IF node - L < Len(list) THEN list[node - L + 1].originalEnd ELSE 0]
           join == [m \in Nat |-> [n \in Nat |-> IF m > n THEN m ELSE n]]
           v == EndsOf(list, L)
<1>1. Len(list) \in Nat /\ \A i \in 1 .. Len(list) : list[i].originalEnd \in Nat
  BY LenProperties, ElementOfSeq, SegmentTyped
<1>2. \A node \in 1 .. M : node \notin Stop => node \in 1 .. L - 1 /\ 2 * node + 1 <= M /\ 2 * node \in 1 .. M /\ 2 * node + 1 \in 1 .. M
  OBVIOUS
<1>3. ASSUME NEW node \in Stop
      PROVE  /\ node - L \in Nat /\ leaf[node] \in Nat
             /\ leaf[node] = IF node - L < Len(list) THEN list[node - L + 1].originalEnd ELSE 0
  <2>1. leaf[node] = IF node - L < Len(list) THEN list[node - L + 1].originalEnd ELSE 0
    OBVIOUS
  <2>2. node - L < Len(list) => node - L + 1 \in 1 .. Len(list)
    BY <1>1
  <2> HIDE DEF leaf
  <2> QED BY <1>1, <2>1, <2>2
<1>4. \A m, n \in Nat : join[m][n] \in Nat /\ join[m][n] = IF m > n THEN m ELSE n
  OBVIOUS
<1>5. M \in Nat
  OBVIOUS
<1> HIDE DEF leaf, join, M, Stop
<1>6. PICK f \in [1 .. M -> Nat] : TreeValues(f, M, Stop, leaf, join)
  <2>1. \A node \in 1 .. M : node \notin Stop => 2 * node + 1 <= M
    BY <1>2
  <2>2. \A node \in 1 .. M : node \in Stop => leaf[node] \in Nat
    BY <1>3
  <2>3. \A m, n \in Nat : join[m][n] \in Nat
    BY <1>4
  <2>4. 0 \in Nat
    OBVIOUS
  <2> QED BY <1>5, <2>1, <2>2, <2>3, <2>4, TreeRecursion
<1>7. ASSUME NEW node \in 1 .. M
      PROVE  f[node] = IF node >= L
                       THEN IF node - L < Len(list) THEN list[node - L + 1].originalEnd ELSE 0
                       ELSE IF f[2 * node] > f[2 * node + 1] THEN f[2 * node] ELSE f[2 * node + 1]
  <2>1. CASE node \in Stop
    <3>1. node >= L
      BY <2>1 DEF Stop
    <3>2. f[node] = leaf[node]
      BY <1>6, <2>1 DEF TreeValues
    <3> QED BY <1>3, <2>1, <3>1, <3>2
  <2>2. CASE node \notin Stop
    <3>1. ~(node >= L) /\ f[2 * node] \in Nat /\ f[2 * node + 1] \in Nat
      BY <1>2, <2>2
    <3>2. f[node] = join[f[2 * node]][f[2 * node + 1]]
      BY <1>6, <2>2 DEF TreeValues
    <3> QED BY <1>4, <3>1, <3>2
  <2> QED BY <2>1, <2>2
<1>8. f = [node \in 1 .. M |->
              IF node >= L
              THEN IF node - L < Len(list) THEN list[node - L + 1].originalEnd ELSE 0
              ELSE IF f[2 * node] > f[2 * node + 1] THEN f[2 * node] ELSE f[2 * node + 1]]
  BY <1>7
<1>9. v = [node \in 1 .. M |->
              IF node >= L
              THEN IF node - L < Len(list) THEN list[node - L + 1].originalEnd ELSE 0
              ELSE IF v[2 * node] > v[2 * node + 1] THEN v[2 * node] ELSE v[2 * node + 1]]
  BY <1>8, Zenon DEF EndsOf, M
<1> HIDE DEF v
<1>10. ASSUME NEW node \in 1 .. M
       PROVE  v[node] = IF node >= L
                        THEN IF node - L < Len(list) THEN list[node - L + 1].originalEnd ELSE 0
                        ELSE IF v[2 * node] > v[2 * node + 1] THEN v[2 * node] ELSE v[2 * node + 1]
  BY <1>9
<1> DEFINE Bounded(node) ==
               /\ v[node] \in Nat
               /\ \A i \in Nat : range[node].first <= i /\ i < range[node].past /\ i < Len(list)
                                 => list[i + 1].originalEnd <= v[node]
           T == {node \in 1 .. M : Bounded(node)}
<1>11. ASSUME NEW node \in 1 .. M, node \in Stop \/ (2 * node \in T /\ 2 * node + 1 \in T) PROVE node \in T
  <2>1. Spanned(L, H, node, range[node]) /\ node \in Nat \ {0}
    BY DEF TreeRanges, M
  <2>2. /\ range[node].first \in Nat /\ range[node].past \in Nat
        /\ range[node].first < range[node].past
        /\ node >= L => range[node].past = range[node].first + 1 /\ range[node].first = node - L
    <3>1. /\ range[node].first < range[node].past
          /\ node >= L => range[node].past = range[node].first + 1 /\ range[node].first = node - L
      BY <2>1, SpannedHalves
    <3> QED BY <2>1, <3>1 DEF Spanned
  <2>3. CASE node \in Stop
    <3>1. node >= L /\ node - L \in Nat
      BY <2>3 DEF Stop
    <3>2. v[node] = IF node - L < Len(list) THEN list[node - L + 1].originalEnd ELSE 0
      BY <1>10, <3>1
    <3>3. v[node] \in Nat
      <4>1. node - L < Len(list) => node - L + 1 \in 1 .. Len(list)
        BY <1>1, <3>1
      <4> QED BY <1>1, <3>2, <4>1
    <3>4. ASSUME NEW i \in Nat, range[node].first <= i, i < range[node].past, i < Len(list)
          PROVE  list[i + 1].originalEnd <= v[node]
      <4>1. i = node - L
        BY <2>2, <3>1, <3>4
      <4>2. i + 1 \in 1 .. Len(list)
        BY <1>1, <3>4
      <4> QED BY <1>1, <3>2, <3>4, <4>1, <4>2
    <3> QED BY <3>3, <3>4
  <2>4. CASE node \notin Stop
    <3>1. node \in 1 .. L - 1 /\ ~(node >= L)
      BY <1>2, <2>4
    <3>2. Bounded(2 * node) /\ Bounded(2 * node + 1)
      BY <1>11, <2>4
    <3>3. v[node] = IF v[2 * node] > v[2 * node + 1] THEN v[2 * node] ELSE v[2 * node + 1]
      BY <1>10, <3>1
    <3>4. v[node] \in Nat /\ v[2 * node] <= v[node] /\ v[2 * node + 1] <= v[node]
      BY <3>2, <3>3
    <3>5. /\ range[2 * node] = [range[node] EXCEPT !.past = MiddleOf(range[node])]
          /\ range[2 * node + 1] = [range[node] EXCEPT !.first = MiddleOf(range[node])]
      BY <3>1 DEF TreeRanges
    <3>6. range[node] = [first |-> range[node].first, past |-> range[node].past]
      BY <2>1 DEF Spanned
    <3>7. MiddleOf(range[node]) \in Nat
      <4>1. node < L
        BY <3>1
      <4> QED BY <2>1, <4>1, SpannedHalves
    <3>8. /\ range[2 * node].first = range[node].first /\ range[2 * node].past = MiddleOf(range[node])
          /\ range[2 * node + 1].first = MiddleOf(range[node]) /\ range[2 * node + 1].past = range[node].past
      BY <3>5, <3>6
    <3>9. ASSUME NEW i \in Nat, range[node].first <= i, i < range[node].past, i < Len(list)
          PROVE  list[i + 1].originalEnd <= v[node]
      <4>1. list[i + 1].originalEnd \in Nat
        <5>1. i + 1 \in 1 .. Len(list)
          BY <1>1, <3>9
        <5> QED BY <1>1, <5>1
      <4>2. CASE i < MiddleOf(range[node])
        <5>1. list[i + 1].originalEnd <= v[2 * node]
          BY <3>2, <3>8, <3>9, <4>2
        <5> QED BY <3>2, <3>4, <4>1, <5>1
      <4>3. CASE ~(i < MiddleOf(range[node]))
        <5>1. list[i + 1].originalEnd <= v[2 * node + 1]
          BY <3>2, <3>7, <3>8, <3>9, <4>3
        <5> QED BY <3>2, <3>4, <4>1, <5>1
      <4> QED BY <4>2, <4>3
    <3> QED BY <3>4, <3>9
  <2> QED BY <2>3, <2>4
<1>12. 1 .. M \subseteq T
  <2> HIDE DEF T
  <2>1. \A node \in 1 .. M : node \notin Stop => 2 * node + 1 <= M
    BY <1>2
  <2> QED BY <1>5, <1>11, <2>1, TreeInduction
<1>13. \A node \in 1 .. M : Bounded(node)
  BY <1>12
<1>14. \A node \in 1 .. M : node >= L /\ node - L < Len(list) => v[node] = list[node - L + 1].originalEnd
  BY <1>10
<1> QED BY <1>13, <1>14, EndsByParts DEF v, M

-----------------------------------------------------------------------------
(* Sequences that repeat nothing *)

\* Nothing is in the sequence twice, and what is in it.
Distinct(s) == \A j, k \in 1 .. Len(s) : s[j] = s[k] => j = k
Occurs(t, s) == \E k \in 1 .. Len(s) : s[k] = t

\* Two of them one after the other.
LEMMA Chained ==
    ASSUME NEW S, NEW s \in Seq(S), NEW t \in Seq(S)
    PROVE  /\ s \o t \in Seq(S)
           /\ \A v : Occurs(v, s \o t) <=> Occurs(v, s) \/ Occurs(v, t)
           /\ Distinct(s) /\ Distinct(t) /\ (\A v : ~(Occurs(v, s) /\ Occurs(v, t))) => Distinct(s \o t)
<1> DEFINE r == s \o t
           m == Len(s)
           n == Len(t)
<1>1. /\ r \in Seq(S) /\ Len(r) = Len(s) + Len(t)
      /\ \A i \in 1 .. Len(s) + Len(t) : r[i] = IF i <= Len(s) THEN s[i] ELSE t[i - Len(s)]
  BY ConcatProperties
<1>2. m \in Nat /\ n \in Nat /\ Len(r) = m + n
  BY <1>1, LenProperties
<1>3. \A i \in 1 .. m + n : r[i] = IF i <= m THEN s[i] ELSE t[i - m]
  BY <1>1
<1> HIDE DEF r, m, n
<1>4. ASSUME NEW i \in 1 .. m PROVE i \in 1 .. m + n /\ r[i] = s[i]
  <2>1. i \in 1 .. m + n /\ i <= m
    BY <1>2
  <2> QED BY <1>3, <2>1
<1>5. ASSUME NEW i \in 1 .. n PROVE i + m \in 1 .. m + n /\ r[i + m] = t[i]
  <2>1. i + m \in 1 .. m + n /\ ~(i + m <= m) /\ (i + m) - m = i
    BY <1>2
  <2> QED BY <1>3, <2>1
<1>6. ASSUME NEW i \in 1 .. m + n
      PROVE  (i \in 1 .. m /\ r[i] = s[i]) \/ (i - m \in 1 .. n /\ r[i] = t[i - m])
  <2>1. CASE i <= m
    <3>1. i \in 1 .. m
      BY <1>2, <2>1
    <3> QED BY <1>4, <3>1
  <2>2. CASE ~(i <= m)
    <3>1. i - m \in 1 .. n
      BY <1>2, <2>2
    <3> QED BY <1>3, <2>2, <3>1
  <2> QED BY <2>1, <2>2
<1>7. ASSUME NEW v PROVE Occurs(v, r) <=> Occurs(v, s) \/ Occurs(v, t)
  <2>1. ASSUME NEW i \in 1 .. m + n, r[i] = v
        PROVE  (\E k \in 1 .. m : s[k] = v) \/ \E k \in 1 .. n : t[k] = v
    BY <1>6, <2>1
  <2>2. ASSUME NEW k \in 1 .. m, s[k] = v PROVE \E i \in 1 .. m + n : r[i] = v
    BY <1>4, <2>2
  <2>3. ASSUME NEW k \in 1 .. n, t[k] = v PROVE \E i \in 1 .. m + n : r[i] = v
    BY <1>5, <2>3
  <2>4. (\E i \in 1 .. m + n : r[i] = v) <=> (\E k \in 1 .. m : s[k] = v) \/ \E k \in 1 .. n : t[k] = v
    BY <2>1, <2>2, <2>3
  <2> QED BY <1>2, <2>4 DEF Occurs, m, n
<1>8. ASSUME Distinct(s), Distinct(t), \A v : ~(Occurs(v, s) /\ Occurs(v, t)) PROVE Distinct(r)
  <2>1. SUFFICES ASSUME NEW i \in 1 .. m + n, NEW j \in 1 .. m + n, r[i] = r[j] PROVE i = j
    BY <1>2 DEF Distinct
  <2>2. ASSUME NEW k \in 1 .. m, NEW l \in 1 .. n, s[k] = t[l] PROVE FALSE
    BY <1>8, <2>2 DEF Occurs, m, n
  <2>3. /\ \A k, l \in 1 .. m : s[k] = s[l] => k = l
        /\ \A k, l \in 1 .. n : t[k] = t[l] => k = l
    BY <1>8 DEF Distinct, m, n
  <2>4. CASE i \in 1 .. m /\ r[i] = s[i] /\ j \in 1 .. m /\ r[j] = s[j]
    BY <2>1, <2>3, <2>4
  <2>5. CASE i - m \in 1 .. n /\ r[i] = t[i - m] /\ j - m \in 1 .. n /\ r[j] = t[j - m]
    <3>1. i - m = j - m
      BY <2>1, <2>3, <2>5
    <3> QED BY <1>2, <3>1
  <2>6. CASE i \in 1 .. m /\ r[i] = s[i] /\ j - m \in 1 .. n /\ r[j] = t[j - m]
    BY <2>1, <2>2, <2>6
  <2>7. CASE j \in 1 .. m /\ r[j] = s[j] /\ i - m \in 1 .. n /\ r[i] = t[i - m]
    BY <2>1, <2>2, <2>7
  <2> QED BY <1>6, <2>4, <2>5, <2>6, <2>7
<1> QED BY <1>1, <1>7, <1>8 DEF r

\* They are as long as their sets of elements are large.
LEMMA DistinctCount ==
    ASSUME NEW S, NEW s \in Seq(S), Distinct(s)
    PROVE  Len(s) = Cardinality(ToSet(s))
<1> DEFINE n == Len(s)
           T == ToSet(s)
<1>1. n \in Nat /\ s \in [1 .. n -> S] /\ DOMAIN s = 1 .. n
  BY LenProperties
<1>2. T = {s[i] : i \in 1 .. n}
  BY <1>1 DEF ToSet
<1> HIDE DEF n, T
<1>3. s \in Bijection(1 .. n, T)
  <2>1. s \in [1 .. n -> T]
    BY <1>1, <1>2
  <2>2. \A j, k \in 1 .. n : s[j] = s[k] => j = k
    BY DEF Distinct, n
  <2>3. \A t \in T : \E i \in 1 .. n : s[i] = t
    BY <1>2
  <2> QED BY <2>1, <2>2, <2>3 DEF Bijection, Injection, Surjection, IsInjective
<1>4. IsFiniteSet(1 .. n) /\ Cardinality(1 .. n) = n
  BY <1>1, FS_Interval
<1>5. ExistsBijection(1 .. n, T)
  BY <1>3 DEF ExistsBijection
<1>6. Cardinality(T) = Cardinality(1 .. n)
  BY <1>4, <1>5, FS_Bijection
<1> QED BY <1>4, <1>6 DEF n, T

-----------------------------------------------------------------------------
(* What the tree finds *)

\* Segments that end after p, or at p if that is enough.
Reaches(s, p, inclusive) == p < s.originalEnd \/ (inclusive /\ p = s.originalEnd)

\* Those of the list from one leaf to another, below the limit, each once.
Chosen(c, list, first, past, limit, p, inclusive) ==
    /\ c \in Seq(Segments) /\ Distinct(c)
    /\ \A t : Occurs(t, c) <=>
           \E i \in Nat : /\ first <= i /\ i < past /\ i < limit
                          /\ list[i + 1] = t /\ Reaches(t, p, inclusive)

\* A sorted list repeats nothing.
LEMMA SortedDistinct ==
    ASSUME NEW list \in Seq(Segments), Sorted(list)
    PROVE  Distinct(list)
<1>1. Len(list) \in Nat /\ \A i \in 1 .. Len(list) : list[i] \in Segments
  BY LenProperties, ElementOfSeq
<1>2. ASSUME NEW i \in 1 .. Len(list), NEW j \in 1 .. Len(list), list[i] = list[j] PROVE i = j
  <2>1. ~Earlier(list[i], list[j]) /\ ~Earlier(list[j], list[i])
    BY <1>1, <1>2, EarlierOrders
  <2>2. ~(i < j) /\ ~(j < i)
    BY <2>1 DEF Sorted
  <2> QED BY <2>2
<1> QED BY <1>2 DEF Distinct

\* What is chosen under the children of a node is chosen under the node.
LEMMA ChosenTwice ==
    ASSUME NEW list \in Seq(Segments), Sorted(list), NEW limit \in 0 .. Len(list), NEW p, NEW inclusive,
           NEW first \in Nat, NEW middle \in Nat, NEW past \in Nat, first <= middle, middle <= past,
           NEW c, NEW d,
           Chosen(c, list, first, middle, limit, p, inclusive),
           Chosen(d, list, middle, past, limit, p, inclusive)
    PROVE  Chosen(c \o d, list, first, past, limit, p, inclusive)
<1> DEFINE Found(t, low, high) ==
               \E i \in Nat : low <= i /\ i < high /\ i < limit /\ list[i + 1] = t /\ Reaches(t, p, inclusive)
<1>1. /\ c \in Seq(Segments) /\ d \in Seq(Segments) /\ Distinct(c) /\ Distinct(d)
      /\ \A t : Occurs(t, c) <=> Found(t, first, middle)
      /\ \A t : Occurs(t, d) <=> Found(t, middle, past)
  BY DEF Chosen
<1>2. ASSUME NEW t, Found(t, first, middle), Found(t, middle, past) PROVE FALSE
  <2>1. PICK i \in Nat : first <= i /\ i < middle /\ i < limit /\ list[i + 1] = t
    BY <1>2
  <2>2. PICK j \in Nat : middle <= j /\ j < past /\ j < limit /\ list[j + 1] = t
    BY <1>2
  <2>3. Len(list) \in Nat
    BY LenProperties
  <2>4. i + 1 \in 1 .. Len(list) /\ j + 1 \in 1 .. Len(list)
    BY <2>1, <2>2, <2>3
  <2>5. i + 1 = j + 1
    BY <2>1, <2>2, <2>4, SortedDistinct DEF Distinct
  <2> QED BY <2>1, <2>2, <2>5
<1>3. \A t : Found(t, first, past) <=> Found(t, first, middle) \/ Found(t, middle, past)
  <2> SUFFICES ASSUME NEW t PROVE Found(t, first, past) <=> Found(t, first, middle) \/ Found(t, middle, past)
    OBVIOUS
  <2>1. ASSUME Found(t, first, past) PROVE Found(t, first, middle) \/ Found(t, middle, past)
    <3>1. PICK i \in Nat : first <= i /\ i < past /\ i < limit /\ list[i + 1] = t /\ Reaches(t, p, inclusive)
      BY <2>1
    <3>2. i < middle \/ middle <= i
      OBVIOUS
    <3> QED BY <3>1, <3>2
  <2>2. ASSUME NEW i \in Nat PROVE (i < middle => i < past) /\ (middle <= i => first <= i)
    OBVIOUS
  <2> QED BY <2>1, <2>2
<1> HIDE DEF Found
<1>4. c \o d \in Seq(Segments) /\ Distinct(c \o d) /\ \A t : Occurs(t, c \o d) <=> Occurs(t, c) \/ Occurs(t, d)
  <2>1. \A t : ~(Occurs(t, c) /\ Occurs(t, d))
    BY <1>1, <1>2
  <2>2. c \in Seq(Segments) /\ d \in Seq(Segments)
    BY <1>1
  <2> QED BY <1>1, <2>1, <2>2, Chained
<1>5. \A t : Occurs(t, c \o d) <=> Found(t, first, past)
  BY <1>1, <1>3, <1>4
<1> QED BY <1>4, <1>5 DEF Chosen, Found

\* The recursive function of Collect.
CollectedOf(index, range, limit, p, inclusive) ==
    CHOOSE found : found = [node \in 1 .. 2 * index.leaves - 1 |->
        IF Skipped(index, node, range[node].first, limit, p, inclusive) THEN <<>>
        ELSE IF range[node].past - range[node].first = 1 THEN <<index.list[range[node].first + 1]>>
        ELSE found[2 * node] \o found[2 * node + 1]]

\* Collect by that function.
LEMMA CollectByParts ==
    ASSUME NEW index, NEW limit, NEW p, NEW inclusive
    PROVE  Collect(index, limit, p, inclusive) = CollectedOf(index, LeafRanges(index.leaves), limit, p, inclusive)
  BY Zenon DEF Collect, CollectedOf

\* A tree of a list.
TreeOf(list, L) == [list |-> list, leaves |-> L, maxEnd |-> MaxEnds(list, L)]

\* What is found under a node is what there is.
LEMMA CollectChooses ==
    ASSUME NEW list \in Seq(Segments), Sorted(list),
           NEW L \in Nat \ {0}, NEW H, Halves(H), L \in H, Len(list) <= L,
           NEW limit \in 0 .. Len(list), NEW p \in Nat, NEW inclusive \in BOOLEAN
    PROVE  Chosen(EndingAtOrAfter(TreeOf(list, L), limit, p, inclusive), list, 0, L, limit, p, inclusive)
<1> DEFINE M == 2 * L - 1
           index == TreeOf(list, L)
           range == LeafRanges(L)
           end == MaxEnds(list, L)
           N == Len(list)
           low(node) == range[node].first
           high(node) == range[node].past
           Skips(node) == Skipped(index, node, low(node), limit, p, inclusive)
           Stop == {node \in 1 .. M : Skips(node) \/ high(node) - low(node) = 1}
           S == Seq(Segments)
           leaf == [node \in Stop |-> IF Skips(node) THEN <<>> ELSE <<list[low(node) + 1]>>]
           join == [c \in S |-> [d \in S |-> c \o d]]
           v == CollectedOf(index, range, limit, p, inclusive)
<1>1. N \in Nat /\ limit \in Nat /\ limit <= N /\ M \in Nat /\ 1 \in 1 .. M
  BY LenProperties
<1>2. \A i \in 1 .. N : list[i] \in Segments /\ list[i].originalEnd \in Nat
  BY ElementOfSeq, SegmentTyped
<1>3. TreeRanges(range, L, H)
  BY RangesHalve
<1>4. \A node \in 1 .. M :
          /\ end[node] \in Nat
          /\ \A i \in Nat : low(node) <= i /\ i < high(node) /\ i < N => list[i + 1].originalEnd <= end[node]
          /\ node >= L /\ node - L < N => end[node] = list[node - L + 1].originalEnd
  BY <1>3, EndsBound
<1>5. index.list = list /\ index.leaves = L /\ index.maxEnd = end
  BY DEF TreeOf
<1> HIDE DEF index, range, end, N
<1>6. \A node \in 1 .. M :
          Skips(node) <=> \/ low(node) >= limit
                          \/ end[node] < p
                          \/ ~inclusive /\ end[node] = p
  BY <1>5 DEF Skipped
<1>7. ASSUME NEW node \in 1 .. M
      PROVE  /\ low(node) \in Nat /\ high(node) \in Nat /\ low(node) < high(node)
             /\ node >= L => high(node) - low(node) = 1 /\ low(node) = node - L
             /\ node < L =>
                    /\ high(node) - low(node) # 1
                    /\ 2 * node \in 1 .. M /\ 2 * node + 1 \in 1 .. M
                    /\ low(2 * node) = low(node) /\ high(2 * node) = MiddleOf(range[node])
                    /\ low(2 * node + 1) = MiddleOf(range[node]) /\ high(2 * node + 1) = high(node)
                    /\ MiddleOf(range[node]) \in Nat
                    /\ low(node) <= MiddleOf(range[node]) /\ MiddleOf(range[node]) <= high(node)
  <2>1. Spanned(L, H, node, range[node]) /\ node \in Nat \ {0}
    BY <1>3 DEF TreeRanges
  <2>2. /\ low(node) \in Nat /\ high(node) \in Nat
        /\ range[node] = [first |-> range[node].first, past |-> range[node].past]
    BY <2>1 DEF Spanned
  <2>3. /\ low(node) < high(node)
        /\ node >= L => high(node) = low(node) + 1 /\ low(node) = node - L
        /\ node < L =>
               /\ high(node) # low(node) + 1 /\ MiddleOf(range[node]) \in Nat
               /\ low(node) < MiddleOf(range[node]) /\ MiddleOf(range[node]) < high(node)
    BY <2>1, SpannedHalves
  <2>4. ASSUME node < L
        PROVE  /\ 2 * node \in 1 .. M /\ 2 * node + 1 \in 1 .. M
               /\ low(2 * node) = low(node) /\ high(2 * node) = MiddleOf(range[node])
               /\ low(2 * node + 1) = MiddleOf(range[node]) /\ high(2 * node + 1) = high(node)
    <3>1. node \in 1 .. L - 1
      BY <2>4
    <3>2. /\ range[2 * node] = [range[node] EXCEPT !.past = MiddleOf(range[node])]
          /\ range[2 * node + 1] = [range[node] EXCEPT !.first = MiddleOf(range[node])]
      BY <1>3, <3>1 DEF TreeRanges
    <3>3. 2 * node \in 1 .. M /\ 2 * node + 1 \in 1 .. M
      BY <3>1
    <3> QED BY <2>2, <3>2, <3>3
  <2> QED BY <2>2, <2>3, <2>4
<1> HIDE DEF low, high, Skips
<1>8. ASSUME NEW node \in 1 .. M
      PROVE  node \notin Stop => node < L /\ 2 * node + 1 <= M
  <2>1. node \notin Stop => ~(high(node) - low(node) = 1)
    OBVIOUS
  <2>2. ~(node >= L) => node < L
    OBVIOUS
  <2>3. node < L => 2 * node + 1 <= M
    BY <1>7
  <2> HIDE DEF Stop
  <2> QED BY <1>7, <2>1, <2>2, <2>3
<1>9. ASSUME NEW node \in Stop
      PROVE  /\ leaf[node] = IF Skips(node) THEN <<>> ELSE <<list[low(node) + 1]>>
             /\ leaf[node] \in S /\ node \in 1 .. M
             /\ ~Skips(node) => high(node) - low(node) = 1 /\ low(node) < limit /\ list[low(node) + 1] \in Segments
  <2>1. leaf[node] = IF Skips(node) THEN <<>> ELSE <<list[low(node) + 1]>>
    OBVIOUS
  <2>2. node \in 1 .. M
    OBVIOUS
  <2>3. low(node) \in Nat
    BY <1>7, <2>2
  <2>4. ~Skips(node) => high(node) - low(node) = 1 /\ low(node) < limit
    BY <1>1, <1>6, <2>2, <2>3
  <2>5. ~Skips(node) => low(node) + 1 \in 1 .. N
    BY <1>1, <2>3, <2>4
  <2>6. ~Skips(node) => list[low(node) + 1] \in Segments
    BY <1>2, <2>5
  <2>7. leaf[node] \in S
    <3> HIDE DEF leaf
    <3>1. CASE Skips(node)
      BY <2>1, <3>1, EmptySeq
    <3>2. CASE ~Skips(node)
      <4>1. <<list[low(node) + 1]>> \in S
        BY <2>6, <3>2
      <4> QED BY <2>1, <3>2, <4>1
    <3> QED BY <3>1, <3>2
  <2> QED BY <2>1, <2>2, <2>4, <2>6, <2>7
<1>10. ASSUME NEW c \in S, NEW d \in S PROVE join[c][d] = c \o d /\ join[c][d] \in S
  <2>1. join[c][d] = c \o d
    OBVIOUS
  <2>2. c \o d \in S
    BY ConcatProperties
  <2> HIDE DEF join
  <2> QED BY <2>1, <2>2
<1> HIDE DEF leaf, join, M, Stop
<1>11. PICK f \in [1 .. M -> S] : TreeValues(f, M, Stop, leaf, join)
  <2>1. \A node \in 1 .. M : node \notin Stop => 2 * node + 1 <= M
    BY <1>8
  <2>2. \A node \in 1 .. M : node \in Stop => leaf[node] \in S
    BY <1>9
  <2>3. \A c, d \in S : join[c][d] \in S
    BY <1>10
  <2>4. M \in Nat
    BY <1>1
  <2>5. <<>> \in S
    BY EmptySeq
  <2> HIDE DEF S
  <2> QED BY <2>1, <2>2, <2>3, <2>4, <2>5, TreeRecursion
<1> HIDE DEF S
<1>12. ASSUME NEW node \in 1 .. M
       PROVE  f[node] = IF Skips(node) THEN <<>>
                        ELSE IF high(node) - low(node) = 1 THEN <<list[low(node) + 1]>>
                        ELSE f[2 * node] \o f[2 * node + 1]
  <2>1. CASE node \in Stop
    <3>1. f[node] = leaf[node]
      BY <1>11, <2>1 DEF TreeValues
    <3> QED BY <1>9, <2>1, <3>1
  <2>2. CASE node \notin Stop
    <3>1. f[node] = join[f[2 * node]][f[2 * node + 1]]
      BY <1>11, <2>2 DEF TreeValues
    <3>2. f[2 * node] \in S /\ f[2 * node + 1] \in S
      <4>1. node < L
        BY <1>8, <2>2
      <4>2. 2 * node \in 1 .. M /\ 2 * node + 1 \in 1 .. M
        BY <1>7, <4>1
      <4> QED BY <4>2
    <3>3. ~Skips(node) /\ ~(high(node) - low(node) = 1)
      BY <2>2 DEF Stop
    <3> QED BY <1>10, <3>1, <3>2, <3>3
  <2> QED BY <2>1, <2>2
<1>13. f = [node \in 1 .. M |->
               IF Skips(node) THEN <<>>
               ELSE IF high(node) - low(node) = 1 THEN <<list[low(node) + 1]>>
               ELSE f[2 * node] \o f[2 * node + 1]]
  BY <1>12
<1>14. v = [node \in 1 .. M |->
               IF Skips(node) THEN <<>>
               ELSE IF high(node) - low(node) = 1 THEN <<list[low(node) + 1]>>
               ELSE v[2 * node] \o v[2 * node + 1]]
  BY <1>5, <1>13, ZenonT(40) DEF CollectedOf, M, Skips, high, low
<1> HIDE DEF v
<1>15. ASSUME NEW node \in 1 .. M
       PROVE  v[node] = IF Skips(node) THEN <<>>
                        ELSE IF high(node) - low(node) = 1 THEN <<list[low(node) + 1]>>
                        ELSE v[2 * node] \o v[2 * node + 1]
  BY <1>14
<1> DEFINE Good(node) == Chosen(v[node], list, low(node), high(node), limit, p, inclusive)
           T == {node \in 1 .. M : Good(node)}
<1>16. ASSUME NEW node \in 1 .. M, node \in Stop \/ (2 * node \in T /\ 2 * node + 1 \in T) PROVE Good(node)
  <2>1. low(node) \in Nat /\ high(node) \in Nat /\ low(node) < high(node)
    BY <1>7
  <2>2. CASE Skips(node)
    <3>1. v[node] = <<>>
      BY <1>15, <2>2
    <3>2. ASSUME NEW i \in Nat, low(node) <= i, i < high(node), i < limit, Reaches(list[i + 1], p, inclusive)
          PROVE  FALSE
      <4>1. ~(low(node) >= limit) /\ i < N /\ i + 1 \in 1 .. N
        BY <1>1, <2>1, <3>2
      <4>2. end[node] \in Nat /\ (end[node] < p \/ (~inclusive /\ end[node] = p))
        BY <1>4, <1>6, <2>2, <4>1
      <4>3. list[i + 1].originalEnd <= end[node] /\ list[i + 1].originalEnd \in Nat
        BY <1>2, <1>4, <3>2, <4>1
      <4> QED BY <3>2, <4>2, <4>3 DEF Reaches
    <3>3. \A t : ~Occurs(t, <<>>)
      BY DEF Occurs
    <3>4. Distinct(<<>>) /\ <<>> \in Seq(Segments)
      BY EmptySeq DEF Distinct
    <3> QED BY <3>1, <3>2, <3>3, <3>4 DEF Chosen
  <2>3. CASE ~Skips(node) /\ high(node) - low(node) = 1
    <3> DEFINE s == list[low(node) + 1]
    <3>1. v[node] = <<s>>
      BY <1>15, <2>3
    <3>2. node \in Stop
      BY <2>3 DEF Stop
    <3>3. low(node) < limit /\ s \in Segments
      BY <1>9, <2>3, <3>2
    <3>4. node >= L /\ low(node) = node - L
      <4>1. node >= L
        BY <1>7, <2>3
      <4> QED BY <1>7, <4>1
    <3>5. end[node] = s.originalEnd /\ end[node] \in Nat
      <4>1. node - L < N
        BY <1>1, <2>1, <3>3, <3>4
      <4> QED BY <1>4, <3>4, <4>1
    <3>6. Reaches(s, p, inclusive)
      <4>1. ~(end[node] < p) /\ ~(~inclusive /\ end[node] = p)
        BY <1>6, <2>3
      <4> HIDE DEF s
      <4> QED BY <3>5, <4>1 DEF Reaches
    <3>7. \A i \in Nat : low(node) <= i /\ i < high(node) <=> i = low(node)
      BY <2>1, <2>3
    <3> DEFINE one == <<s>>
    <3>8. Len(one) = 1 /\ one[1] = s /\ one \in Seq(Segments)
      BY <3>3
    <3> HIDE DEF one
    <3>9. Distinct(one) /\ \A t : Occurs(t, one) <=> t = s
      BY <3>8 DEF Distinct, Occurs
    <3>10. ASSUME NEW t
           PROVE  Occurs(t, one) <=>
                      \E i \in Nat : /\ low(node) <= i /\ i < high(node) /\ i < limit
                                     /\ list[i + 1] = t /\ Reaches(t, p, inclusive)
      BY <2>1, <3>3, <3>6, <3>7, <3>9
    <3> QED BY <3>1, <3>8, <3>9, <3>10 DEF Chosen, one
  <2>4. CASE ~Skips(node) /\ ~(high(node) - low(node) = 1)
    <3>1. node \notin Stop
      BY <2>4 DEF Stop
    <3>2. Good(2 * node) /\ Good(2 * node + 1)
      BY <1>16, <3>1
    <3>3. v[node] = v[2 * node] \o v[2 * node + 1]
      BY <1>15, <2>4
    <3> DEFINE middle == MiddleOf(range[node])
    <3>4. /\ low(2 * node) = low(node) /\ high(2 * node) = middle
          /\ low(2 * node + 1) = middle /\ high(2 * node + 1) = high(node)
          /\ middle \in Nat /\ low(node) <= middle /\ middle <= high(node)
      <4>1. node < L
        BY <1>8, <3>1
      <4> QED BY <1>7, <4>1
    <3> HIDE DEF middle
    <3>5. /\ Chosen(v[2 * node], list, low(node), middle, limit, p, inclusive)
          /\ Chosen(v[2 * node + 1], list, middle, high(node), limit, p, inclusive)
      BY <3>2, <3>4
    <3> QED BY <2>1, <3>3, <3>4, <3>5, ChosenTwice
  <2> QED BY <2>2, <2>3, <2>4
<1>17. 1 .. M \subseteq T
  <2>1. ASSUME NEW node \in 1 .. M, node \in Stop \/ (2 * node \in T /\ 2 * node + 1 \in T) PROVE node \in T
    <3>1. Good(node)
      BY <1>16, <2>1
    <3> HIDE DEF Good
    <3> QED BY <3>1
  <2> HIDE DEF T
  <2>2. \A node \in 1 .. M : node \notin Stop => 2 * node + 1 <= M
    BY <1>8
  <2>3. M \in Nat
    BY <1>1
  <2> QED BY <2>1, <2>2, <2>3, TreeInduction
<1>18. Good(1)
  <2> HIDE DEF Good
  <2> QED BY <1>1, <1>17
<1>19. low(1) = 0 /\ high(1) = L
  BY <1>3 DEF TreeRanges, low, high
<1>20. EndingAtOrAfter(index, limit, p, inclusive) = v[1]
  <2>1. Collect(index, limit, p, inclusive) = v
    BY <1>5, CollectByParts DEF v, range
  <2> QED BY <2>1 DEF EndingAtOrAfter
<1> QED BY <1>18, <1>19, <1>20 DEF index

-----------------------------------------------------------------------------
(* Lookups in the original *)

\* The binary search of the original.
LEMMA StartsFrom ==
    ASSUME NEW list \in Seq(Segments), Sorted(list), NEW p \in Nat
    PROVE  /\ FirstAtOrAfter(list, p) \in 0 .. Len(list)
           /\ \A i \in 1 .. FirstAtOrAfter(list, p) : list[i].originalStart < p
           /\ \A i \in FirstAtOrAfter(list, p) + 1 .. Len(list) : list[i].originalStart >= p
<1> DEFINE N == Len(list)
           Marked == {n \in 0 .. N : list[n + 1].originalStart >= p}
           m == FirstAtOrAfter(list, p)
<1>1. N \in Nat /\ \A i \in 1 .. N : list[i] \in Segments /\ list[i].originalStart \in Nat
  BY LenProperties, ElementOfSeq, SegmentTyped
<1>2. m = Min({n \in 0 .. N : n = N \/ n \in Marked})
  <2>1. {n \in 0 .. N : n = N \/ list[n + 1].originalStart >= p} = {n \in 0 .. N : n = N \/ n \in Marked}
    OBVIOUS
  <2> QED BY <2>1 DEF FirstAtOrAfter
<1>3. /\ m \in 0 .. N /\ (m = N \/ m \in Marked)
      /\ \A n \in 0 .. m - 1 : n \notin Marked
  <2> HIDE DEF Marked, N, m
  <2> QED BY <1>1, <1>2, LeastMarked
<1>4. \A i, j \in 1 .. N : i < j => list[i].originalStart <= list[j].originalStart
  BY <1>1 DEF Sorted, Earlier, SameOriginal
<1> HIDE DEF m, N
<1>5. ASSUME NEW i \in 1 .. m PROVE list[i].originalStart < p
  <2>1. i - 1 \in 0 .. m - 1 /\ i - 1 \in 0 .. N /\ (i - 1) + 1 = i /\ i \in 1 .. N
    BY <1>1, <1>3
  <2>2. i - 1 \notin Marked
    BY <1>3, <2>1
  <2>3. ~(list[(i - 1) + 1].originalStart >= p)
    BY <2>1, <2>2
  <2> QED BY <1>1, <2>1, <2>3
<1>6. ASSUME NEW i \in m + 1 .. N PROVE list[i].originalStart >= p
  <2>1. m \in Marked /\ m + 1 \in 1 .. N /\ i \in 1 .. N
    BY <1>1, <1>3
  <2>2. list[m + 1].originalStart >= p
    BY <2>1
  <2>3. m + 1 = i \/ m + 1 < i
    BY <1>1, <1>3
  <2>4. m + 1 < i => list[m + 1].originalStart <= list[i].originalStart
    BY <1>4, <2>1
  <2> QED BY <1>1, <2>1, <2>2, <2>3, <2>4
<1> QED BY <1>3, <1>5, <1>6 DEF m, N

\* Part of a list that repeats nothing.
LEMMA PartDistinct ==
    ASSUME NEW S, NEW s \in Seq(S), Distinct(s), NEW m \in 0 .. Len(s), NEW n \in m .. Len(s)
    PROVE  LET c == SubSeq(s, m + 1, n)
           IN  /\ c \in Seq(S) /\ Distinct(c)
               /\ \A t : Occurs(t, c) <=> \E i \in m + 1 .. n : s[i] = t
<1> DEFINE N == Len(s)
           c == SubSeq(s, m + 1, n)
<1>1. N \in Nat /\ \A i \in 1 .. N : s[i] \in S
  BY LenProperties, ElementOfSeq
<1>2. m + 1 \in Int /\ n \in Int /\ n <= N /\ m \in Nat /\ n \in Nat /\ m <= n
  BY <1>1
<1>3. \A i \in m + 1 .. n : i \in 1 .. N /\ s[i] \in S
  BY <1>1, <1>2
<1>4. /\ c \in Seq(S)
      /\ Len(c) = IF m + 1 <= n THEN n - (m + 1) + 1 ELSE 0
      /\ \A i \in 1 .. (n - (m + 1) + 1) : c[i] = s[m + 1 + i - 1]
  BY <1>2, <1>3, SubSeqProperties
<1> HIDE DEF c, N
<1>5. Len(c) = n - m
  BY <1>2, <1>4
<1>6. ASSUME NEW i \in 1 .. n - m PROVE m + i \in m + 1 .. n /\ c[i] = s[m + i]
  <2>1. i \in 1 .. (n - (m + 1) + 1) /\ m + 1 + i - 1 = m + i /\ m + i \in m + 1 .. n
    BY <1>2
  <2> QED BY <1>4, <2>1
<1>7. Distinct(c)
  <2> SUFFICES ASSUME NEW i \in 1 .. n - m, NEW j \in 1 .. n - m, c[i] = c[j] PROVE i = j
    BY <1>5 DEF Distinct
  <2>1. m + i \in 1 .. N /\ m + j \in 1 .. N /\ s[m + i] = s[m + j]
    BY <1>3, <1>6
  <2>2. m + i = m + j
    BY <2>1 DEF Distinct, N
  <2> QED BY <1>2, <2>2
<1>8. ASSUME NEW t PROVE Occurs(t, c) <=> \E i \in m + 1 .. n : s[i] = t
  <2>1. ASSUME NEW i \in m + 1 .. n, s[i] = t PROVE \E k \in 1 .. n - m : c[k] = t
    <3>1. i - m \in 1 .. n - m /\ m + (i - m) = i
      BY <1>2
    <3> QED BY <1>6, <2>1, <3>1
  <2>2. ASSUME NEW k \in 1 .. n - m, c[k] = t PROVE \E i \in m + 1 .. n : s[i] = t
    BY <1>6, <2>2
  <2> QED BY <1>5, <2>1, <2>2 DEF Occurs
<1> QED BY <1>4, <1>7, <1>8 DEF c

\* The index of a span map, and what it is good for.
LEMMA IndexFinds ==
    ASSUME InVirtualOrder
    PROVE  \E list \in Seq(Segments), L \in Nat \ {0} :
               /\ OriginalIndex = TreeOf(list, L) /\ Sorted(list)
               /\ \A s : s \in All <=> Occurs(s, list)
               /\ \A limit \in 0 .. Len(list), p \in Nat, inclusive \in BOOLEAN :
                      Chosen(EndingAtOrAfter(OriginalIndex, limit, p, inclusive), list, 0, L, limit, p, inclusive)
               /\ Len(list) <= L
<1> DEFINE list == InOriginalOrder
           L == LeafCount(Len(list))
<1>1. list \in Seq(Segments) /\ Sorted(list) /\ \A s : s \in All <=> Occurs(s, list)
  BY OriginalOrder DEF Occurs
<1> HIDE DEF list
<1>2. Len(list) \in Nat
  BY <1>1, LenProperties
<1>3. L \in Nat \ {0} /\ Len(list) <= L
  BY <1>2, LeavesEnough
<1>4. PICK H : Halves(H) /\ L \in H
  BY <1>2, LeavesEnough
<1>5. OriginalIndex = TreeOf(list, L)
  BY DEF OriginalIndex, TreeOf, list
<1> HIDE DEF L
<1>6. \A limit \in 0 .. Len(list), p \in Nat, inclusive \in BOOLEAN :
          Chosen(EndingAtOrAfter(TreeOf(list, L), limit, p, inclusive), list, 0, L, limit, p, inclusive)
  <2> SUFFICES ASSUME NEW limit \in 0 .. Len(list), NEW p \in Nat, NEW inclusive \in BOOLEAN
               PROVE  Chosen(EndingAtOrAfter(TreeOf(list, L), limit, p, inclusive), list, 0, L, limit, p, inclusive)
    OBVIOUS
  <2> QED BY <1>1, <1>3, <1>4, CollectChooses
<1> QED BY <1>1, <1>3, <1>5, <1>6

\* The segments that touch a position, each once.
LEMMA TouchingFound ==
    ASSUME InVirtualOrder, NEW p \in Nat
    PROVE  LET touching == SegmentsTouching(OriginalIndex, p)
           IN  /\ touching \in Seq(Segments) /\ Distinct(touching)
               /\ \A s : Occurs(s, touching) <=> s \in All /\ s.originalStart <= p /\ p <= s.originalEnd
<1>1. PICK list \in Seq(Segments), L \in Nat \ {0} :
          /\ OriginalIndex = TreeOf(list, L) /\ Sorted(list)
          /\ \A s : s \in All <=> Occurs(s, list)
          /\ \A limit \in 0 .. Len(list), q \in Nat, inclusive \in BOOLEAN :
                 Chosen(EndingAtOrAfter(OriginalIndex, limit, q, inclusive), list, 0, L, limit, q, inclusive)
          /\ Len(list) <= L
  BY IndexFinds
<1> DEFINE N == Len(list)
           limit == FirstAfter(list, p)
           c == EndingAtOrAfter(OriginalIndex, limit, p, TRUE)
<1>2. /\ N \in Nat /\ p + 1 \in Nat
      /\ \A i \in 1 .. N : /\ list[i] \in Segments
                            /\ list[i].originalStart \in Nat /\ list[i].originalEnd \in Nat
  BY LenProperties, ElementOfSeq, SegmentTyped
<1>3. /\ limit \in 0 .. N
      /\ \A i \in 1 .. limit : list[i].originalStart < p + 1
      /\ \A i \in limit + 1 .. N : list[i].originalStart >= p + 1
  BY <1>1, <1>2, StartsFrom DEF FirstAfter
<1>4. SegmentsTouching(OriginalIndex, p) = c
  BY <1>1 DEF SegmentsTouching, TreeOf
<1>5. Chosen(c, list, 0, L, limit, p, TRUE)
  BY <1>1, <1>3
<1> HIDE DEF N, limit, c
<1>6. ASSUME NEW s
      PROVE  Occurs(s, c) <=> s \in All /\ s.originalStart <= p /\ p <= s.originalEnd
  <2>1. Occurs(s, c) <=> \E i \in Nat : 0 <= i /\ i < L /\ i < limit /\ list[i + 1] = s /\ Reaches(s, p, TRUE)
    BY <1>5 DEF Chosen
  <2>2. ASSUME NEW i \in Nat, 0 <= i, i < L, i < limit, list[i + 1] = s, Reaches(s, p, TRUE)
        PROVE  s \in All /\ s.originalStart <= p /\ p <= s.originalEnd
    <3>1. i + 1 \in 1 .. limit /\ i + 1 \in 1 .. N
      BY <1>2, <1>3, <2>2
    <3>2. s.originalStart < p + 1 /\ s.originalStart \in Nat /\ s.originalEnd \in Nat
      BY <1>2, <1>3, <2>2, <3>1
    <3>3. s \in All
      BY <1>1, <2>2, <3>1 DEF Occurs, N
    <3> QED BY <2>2, <3>2, <3>3 DEF Reaches
  <2>3. ASSUME s \in All, s.originalStart <= p, p <= s.originalEnd
        PROVE  \E i \in Nat : 0 <= i /\ i < L /\ i < limit /\ list[i + 1] = s /\ Reaches(s, p, TRUE)
    <3>1. PICK k \in 1 .. N : list[k] = s
      BY <1>1, <2>3 DEF Occurs, N
    <3>2. s.originalStart \in Nat /\ s.originalEnd \in Nat
      BY <1>2, <3>1
    <3>3. k <= limit
      <4> SUFFICES ASSUME ~(k <= limit) PROVE FALSE
        OBVIOUS
      <4>1. k \in limit + 1 .. N
        BY <1>2, <1>3
      <4> QED BY <1>3, <2>3, <3>1, <3>2, <4>1
    <3>4. k - 1 \in Nat /\ 0 <= k - 1 /\ k - 1 < L /\ k - 1 < limit /\ (k - 1) + 1 = k
      BY <1>1, <1>2, <1>3, <3>3 DEF N
    <3>5. Reaches(s, p, TRUE)
      BY <2>3, <3>2 DEF Reaches
    <3> QED BY <3>1, <3>4, <3>5
  <2> QED BY <2>1, <2>2, <2>3
<1> QED BY <1>4, <1>5, <1>6 DEF Chosen

\* The segments at a position, each once.
LEMMA AtFound ==
    ASSUME InVirtualOrder, NEW p \in Nat
    PROVE  LET at == SegmentsAt(OriginalIndex, p)
           IN  /\ at \in Seq(Segments) /\ Distinct(at)
               /\ \A s : Occurs(s, at) <=>
                      s \in All /\ s.originalStart <= p /\ (p < s.originalEnd \/ p = s.originalStart)
<1>1. PICK list \in Seq(Segments), L \in Nat \ {0} :
          /\ OriginalIndex = TreeOf(list, L) /\ Sorted(list)
          /\ \A s : s \in All <=> Occurs(s, list)
          /\ \A limit \in 0 .. Len(list), q \in Nat, inclusive \in BOOLEAN :
                 Chosen(EndingAtOrAfter(OriginalIndex, limit, q, inclusive), list, 0, L, limit, q, inclusive)
          /\ Len(list) <= L
  BY IndexFinds
<1> DEFINE N == Len(list)
           before == FirstAtOrAfter(list, p)
           through == FirstAfter(list, p)
           c == EndingAtOrAfter(OriginalIndex, before, p, FALSE)
           d == SubSeq(list, before + 1, through)
<1>2. /\ N \in Nat /\ p + 1 \in Nat
      /\ \A i \in 1 .. N : /\ list[i] \in Segments
                            /\ list[i].originalStart \in Nat /\ list[i].originalEnd \in Nat
  BY LenProperties, ElementOfSeq, SegmentTyped
<1>3. /\ before \in 0 .. N
      /\ \A i \in 1 .. before : list[i].originalStart < p
      /\ \A i \in before + 1 .. N : list[i].originalStart >= p
  BY <1>1, StartsFrom
<1>4. /\ through \in 0 .. N
      /\ \A i \in 1 .. through : list[i].originalStart < p + 1
      /\ \A i \in through + 1 .. N : list[i].originalStart >= p + 1
  BY <1>1, <1>2, StartsFrom DEF FirstAfter
<1>5. SegmentsAt(OriginalIndex, p) = c \o d
  BY <1>1 DEF SegmentsAt, TreeOf
<1>6. Chosen(c, list, 0, L, before, p, FALSE)
  BY <1>1, <1>3
<1>7. through \in before .. N
  <2> HIDE DEF before, through, N
  <2> SUFFICES ASSUME through < before PROVE FALSE
    BY <1>2, <1>3, <1>4
  <2>1. before \in through + 1 .. N /\ before \in 1 .. before /\ before \in 1 .. N
    BY <1>2, <1>3, <1>4
  <2>2. list[before].originalStart < p /\ list[before].originalStart >= p + 1
    BY <1>3, <1>4, <2>1
  <2> QED BY <1>2, <2>1, <2>2
<1>8. d \in Seq(Segments) /\ Distinct(d) /\ \A t : Occurs(t, d) <=> \E i \in before + 1 .. through : list[i] = t
  <2>1. Distinct(list)
    BY <1>1, SortedDistinct
  <2>2. through \in before .. Len(list) /\ before \in 0 .. Len(list)
    BY <1>3, <1>7
  <2> HIDE DEF before, through, N
  <2> QED BY <2>1, <2>2, PartDistinct
<1> HIDE DEF N, before, through, c, d
<1>9. ASSUME NEW s
      PROVE  Occurs(s, c) <=> s \in All /\ s.originalStart < p /\ p < s.originalEnd
  <2>1. Occurs(s, c) <=> \E i \in Nat : 0 <= i /\ i < L /\ i < before /\ list[i + 1] = s /\ Reaches(s, p, FALSE)
    BY <1>6 DEF Chosen
  <2>2. ASSUME NEW i \in Nat, i < before, list[i + 1] = s, Reaches(s, p, FALSE)
        PROVE  s \in All /\ s.originalStart < p /\ p < s.originalEnd
    <3>1. i + 1 \in 1 .. before /\ i + 1 \in 1 .. N
      BY <1>2, <1>3, <2>2
    <3>2. s \in All
      BY <1>1, <2>2, <3>1 DEF Occurs, N
    <3> QED BY <1>3, <2>2, <3>1, <3>2 DEF Reaches
  <2>3. ASSUME s \in All, s.originalStart < p, p < s.originalEnd
        PROVE  \E i \in Nat : 0 <= i /\ i < L /\ i < before /\ list[i + 1] = s /\ Reaches(s, p, FALSE)
    <3>1. PICK k \in 1 .. N : list[k] = s
      BY <1>1, <2>3 DEF Occurs, N
    <3>2. k <= before
      <4> SUFFICES ASSUME ~(k <= before) PROVE FALSE
        OBVIOUS
      <4>1. k \in before + 1 .. N
        BY <1>2, <1>3
      <4> QED BY <1>2, <1>3, <2>3, <3>1, <4>1
    <3>3. k - 1 \in Nat /\ 0 <= k - 1 /\ k - 1 < L /\ k - 1 < before /\ (k - 1) + 1 = k
      BY <1>1, <1>2, <1>3, <3>2 DEF N
    <3> QED BY <2>3, <3>1, <3>3 DEF Reaches
  <2> QED BY <2>1, <2>2, <2>3
<1>10. ASSUME NEW s
       PROVE  Occurs(s, d) <=> s \in All /\ s.originalStart = p
  <2>1. ASSUME NEW i \in before + 1 .. through, list[i] = s PROVE s \in All /\ s.originalStart = p
    <3>1. i \in 1 .. N /\ i \in 1 .. through /\ i \in before + 1 .. N
      BY <1>2, <1>3, <1>4, <1>7
    <3>2. s.originalStart < p + 1 /\ s.originalStart >= p /\ s.originalStart \in Nat
      BY <1>2, <1>3, <1>4, <2>1, <3>1
    <3>3. s \in All
      BY <1>1, <2>1, <3>1 DEF Occurs, N
    <3> QED BY <3>2, <3>3
  <2>2. ASSUME s \in All, s.originalStart = p PROVE \E i \in before + 1 .. through : list[i] = s
    <3>1. PICK k \in 1 .. N : list[k] = s
      BY <1>1, <2>2 DEF Occurs, N
    <3>2. ~(k \in 1 .. before) /\ ~(k \in through + 1 .. N)
      BY <1>2, <1>3, <1>4, <2>2, <3>1
    <3>3. k \in before + 1 .. through
      BY <1>2, <1>3, <1>4, <3>2
    <3> QED BY <3>1, <3>3
  <2> QED BY <1>8, <2>1, <2>2
<1>11. c \in Seq(Segments) /\ Distinct(c)
  BY <1>6 DEF Chosen
<1>12. \A s : ~(Occurs(s, c) /\ Occurs(s, d))
  <2> SUFFICES ASSUME NEW s, Occurs(s, c), Occurs(s, d) PROVE FALSE
    OBVIOUS
  <2>1. s.originalStart < p /\ s.originalStart = p
    BY <1>9, <1>10
  <2> QED BY <2>1
<1>13. /\ c \o d \in Seq(Segments) /\ Distinct(c \o d)
       /\ \A s : Occurs(s, c \o d) <=> Occurs(s, c) \/ Occurs(s, d)
  <2>1. d \in Seq(Segments) /\ Distinct(d)
    BY <1>8
  <2> QED BY <1>11, <1>12, <2>1, Chained
<1>14. ASSUME NEW s
       PROVE  Occurs(s, c \o d) <=>
                  s \in All /\ s.originalStart <= p /\ (p < s.originalEnd \/ p = s.originalStart)
  <2>1. Occurs(s, c \o d) <=> s \in All /\ (s.originalStart = p \/ (s.originalStart < p /\ p < s.originalEnd))
    BY <1>9, <1>10, <1>13
  <2>2. s \in All => s.originalStart \in Nat /\ s.originalEnd \in Nat /\ s.originalStart <= s.originalEnd
    BY SegmentsPlaced, SegmentTyped
  <2>3. s \in All =>
            (s.originalStart = p \/ (s.originalStart < p /\ p < s.originalEnd)
             <=> s.originalStart <= p /\ (p < s.originalEnd \/ p = s.originalStart))
    BY <2>2
  <2> QED BY <2>1, <2>3
<1> QED BY <1>5, <1>13, <1>14

\* The tree finds what there is.
LEMMA TreeFindsAll ==
    ASSUME InVirtualOrder, NEW p \in Nat
    PROVE  TreeFinds(OriginalIndex, p)
<1> DEFINE at == SegmentsAt(OriginalIndex, p)
           touching == SegmentsTouching(OriginalIndex, p)
           here == {s \in All : s.originalStart <= p /\ p <= s.originalEnd}
<1>1. /\ touching \in Seq(Segments) /\ Distinct(touching)
      /\ \A s : Occurs(s, touching) <=> s \in All /\ s.originalStart <= p /\ p <= s.originalEnd
  BY TouchingFound
<1>2. /\ at \in Seq(Segments) /\ Distinct(at)
      /\ \A s : Occurs(s, at) <=>
             s \in All /\ s.originalStart <= p /\ (p < s.originalEnd \/ p = s.originalStart)
  BY AtFound
<1> HIDE DEF at, touching
<1>3. \A s : s \in ToSet(touching) <=> Occurs(s, touching)
  <2>1. DOMAIN touching = 1 .. Len(touching)
    BY <1>1, LenProperties
  <2> QED BY <2>1 DEF ToSet, Occurs
<1>4. \A s : s \in ToSet(at) <=> Occurs(s, at)
  <2>1. DOMAIN at = 1 .. Len(at)
    BY <1>2, LenProperties
  <2> QED BY <2>1 DEF ToSet, Occurs
<1>5. ToSet(touching) = here
  BY <1>1, <1>3
<1>6. ToSet(at) = {s \in here : p < s.originalEnd \/ p = s.originalStart}
  <2>1. \A s \in All : s.originalStart \in Nat /\ s.originalEnd \in Nat /\ s.originalStart <= s.originalEnd
    BY SegmentsPlaced, SegmentTyped
  <2>2. ASSUME NEW s
        PROVE  s \in ToSet(at) <=> s \in here /\ (p < s.originalEnd \/ p = s.originalStart)
    <3>1. s \in All => (p < s.originalEnd \/ p = s.originalStart => p <= s.originalEnd)
      BY <2>1
    <3> QED BY <1>2, <1>4, <3>1
  <2> HIDE DEF here
  <2> QED BY <2>2
<1>7. Len(touching) = Cardinality(ToSet(touching))
  BY <1>1, DistinctCount
<1>8. Len(at) = Cardinality(ToSet(at))
  BY <1>2, DistinctCount
<1> QED BY <1>5, <1>6, <1>7, <1>8 DEF TreeFinds, at, touching

-----------------------------------------------------------------------------
(* There and back *)

\* Unit for unit.
LEMMA UnitForUnit ==
    ASSUME NEW s \in Segments, s.verbatim
    PROVE  /\ \A p \in s.virtualStart .. s.virtualEnd :
                  LET o == s.originalStart + (p - s.virtualStart)
                  IN  o \in s.originalStart .. s.originalEnd /\ ToOriginal(s, p) = o /\ ToVirtual(s, o) = p
           /\ \A o \in s.originalStart .. s.originalEnd :
                  LET p == s.virtualStart + (o - s.originalStart)
                  IN  p \in s.virtualStart .. s.virtualEnd /\ ToVirtual(s, o) = p /\ ToOriginal(s, p) = o
<1> DEFINE vs == s.virtualStart
           ve == s.virtualEnd
           os == s.originalStart
           oe == s.originalEnd
<1>1. vs \in Nat /\ ve \in Nat /\ os \in Nat /\ oe \in Nat /\ ve - vs = oe - os
  BY SegmentTyped
<1>2. /\ \A p : ToOriginal(s, p) = Clamp(os + p - vs, os, oe)
      /\ \A o : ToVirtual(s, o) = Clamp(vs + o - os, vs, ve)
  BY DEF ToOriginal, ToVirtual
<1> HIDE DEF vs, ve, os, oe
<1>3. ASSUME NEW n \in Int, NEW low \in Int, NEW high \in Int, low <= n, n <= high PROVE Clamp(n, low, high) = n
  BY <1>3 DEF Clamp
<1>4. ASSUME NEW p \in vs .. ve
      PROVE  /\ os + (p - vs) \in os .. oe /\ ToOriginal(s, p) = os + (p - vs)
             /\ ToVirtual(s, os + (p - vs)) = p
  <2>1. /\ p \in Int /\ os + p - vs \in Int /\ os + p - vs = os + (p - vs)
        /\ os <= os + p - vs /\ os + p - vs <= oe /\ vs <= p /\ p <= ve
    BY <1>1
  <2>2. Clamp(os + p - vs, os, oe) = os + p - vs
    BY <1>1, <1>3, <2>1
  <2>3. vs + (os + (p - vs)) - os = p
    BY <1>1
  <2>4. Clamp(p, vs, ve) = p
    BY <1>1, <1>3, <2>1
  <2> QED BY <1>1, <1>2, <2>1, <2>2, <2>3, <2>4
<1>5. ASSUME NEW o \in os .. oe
      PROVE  /\ vs + (o - os) \in vs .. ve /\ ToVirtual(s, o) = vs + (o - os)
             /\ ToOriginal(s, vs + (o - os)) = o
  <2>1. /\ o \in Int /\ vs + o - os \in Int /\ vs + o - os = vs + (o - os)
        /\ vs <= vs + o - os /\ vs + o - os <= ve /\ os <= o /\ o <= oe
    BY <1>1
  <2>2. Clamp(vs + o - os, vs, ve) = vs + o - os
    BY <1>1, <1>3, <2>1
  <2>3. os + (vs + (o - os)) - vs = o
    BY <1>1
  <2>4. Clamp(o, os, oe) = o
    BY <1>1, <1>3, <2>1
  <2> QED BY <1>1, <1>2, <2>1, <2>2, <2>3, <2>4
<1> QED BY <1>4, <1>5 DEF vs, ve, os, oe

\* What a list holds.
LEMMA HeldBy ==
    ASSUME NEW S, NEW s \in Seq(S)
    PROVE  (\A t : t \in ToSet(s) <=> Occurs(t, s)) /\ (s = <<>> => \A t : ~Occurs(t, s))
<1>1. DOMAIN s = 1 .. Len(s) /\ Len(<<>>) = 0
  BY LenProperties
<1> QED BY <1>1 DEF ToSet, Occurs

\* A range that a verbatim segment covers.
LEMMA CoveredRange ==
    ASSUME InVirtualOrder, NEW s \in All, s.verbatim, NEW from \in Nat, NEW to \in Nat, from < to,
           s.virtualStart <= from, to <= s.virtualEnd
    PROVE  /\ MapRange(from, to) = Mapped(ToOriginal(s, from), ToOriginal(s, to), "exact")
           /\ ToOriginal(s, from) < ToOriginal(s, to)
<1>1. s \in Segments /\ \E i \in 1 .. Len(segments) : s = segments[i]
  BY SegmentsPlaced
<1>2. PICK i \in 1 .. Len(segments) : s = segments[i]
  BY <1>1
<1>3. s.virtualStart \in Nat /\ s.virtualEnd \in Nat /\ s.originalStart \in Nat /\ s.originalEnd \in Nat
  BY <1>1, SegmentTyped
<1>4. CoversUpTo(s, from) /\ CoversUpTo(s, to - 1) /\ to - 1 \in Nat
  BY <1>3 DEF CoversUpTo, Covers
<1>5. SegmentIndexAt(from) = [index |-> i, inside |-> TRUE]
  BY <1>2, <1>4, Covering
<1>6. SegmentIndexAt(to - 1) = [index |-> i, inside |-> TRUE]
  BY <1>2, <1>4, Covering
<1>7. ToOriginal(s, from) < ToOriginal(s, to) /\ ToOriginal(s, from) \in Nat /\ ToOriginal(s, to) \in Nat
  <2>1. from \in s.virtualStart .. s.virtualEnd /\ to \in s.virtualStart .. s.virtualEnd
    BY <1>3
  <2>2. /\ ToOriginal(s, from) = s.originalStart + (from - s.virtualStart)
        /\ ToOriginal(s, to) = s.originalStart + (to - s.virtualStart)
    BY <1>1, <2>1, UnitForUnit
  <2> QED BY <1>3, <2>1, <2>2
<1>8. MapRange(from, to) = Mapped(ToOriginal(s, from), ToOriginal(s, to), "exact")
  <2> DEFINE at == [index |-> i, inside |-> TRUE]
  <2>1. at.index = i /\ at.inside
    OBVIOUS
  <2> HIDE DEF at
  <2>2. \A p, atom : MapBoundary(p, at, atom) = ToOriginal(s, p)
    BY <1>2, <2>1 DEF MapBoundary
  <2>3. SegmentIndexAt(from) = at /\ SegmentIndexAt(to - 1) = at
    BY <1>5, <1>6 DEF at
  <2>4. (IF ToOriginal(s, from) > ToOriginal(s, to) THEN ToOriginal(s, from) ELSE ToOriginal(s, to)) = ToOriginal(s, to)
    BY <1>7
  <2> QED BY <1>2, <2>1, <2>2, <2>3, <2>4 DEF MapRange
<1> QED BY <1>7, <1>8

\* A point in a verbatim segment leads back to itself.
LEMMA PointsComeBack ==
    ASSUME InVirtualOrder, NEW p \in Nat, NEW f
    PROVE  PointsReturn(p, f)
<1> SUFFICES ASSUME NEW s \in All, s.verbatim, f \in s.features, CoversUpTo(s, p)
             PROVE  Mapped(p, p, "exact") \in Positions(MapPoint(p).from, f)
  BY DEF PointsReturn
<1>1. s \in Segments /\ \E i \in 1 .. Len(segments) : s = segments[i]
  BY SegmentsPlaced
<1>2. PICK i \in 1 .. Len(segments) : s = segments[i]
  BY <1>1
<1>3. /\ s.virtualStart \in Nat /\ s.virtualEnd \in Nat /\ s.originalStart \in Nat /\ s.originalEnd \in Nat
      /\ s.virtualStart < s.virtualEnd
  BY <1>1, SegmentTyped
<1>4. SegmentIndexAt(p) = [index |-> i, inside |-> TRUE]
  BY <1>2, Covering
<1> DEFINE o == ToOriginal(s, p)
<1>5. MapPoint(p).from = o
  BY <1>2, <1>4 DEF MapPoint, Mapped
<1>6. o \in s.originalStart .. s.originalEnd /\ ToVirtual(s, o) = p
  <2>1. p \in s.virtualStart .. s.virtualEnd
    BY <1>3 DEF CoversUpTo, Covers
  <2> QED BY <1>1, <2>1, UnitForUnit
<1> HIDE DEF o
<1> DEFINE touching == SegmentsTouching(OriginalIndex, o)
<1>7. o \in Nat /\ s.originalStart <= o /\ o <= s.originalEnd
  BY <1>3, <1>6
<1>8. touching \in Seq(Segments) /\ Occurs(s, touching)
  BY <1>7, TouchingFound
<1> HIDE DEF touching
<1>9. s \in ToSet(touching)
  BY <1>8, HeldBy
<1>10. ProjectPoint(s, o) = Mapped(p, p, "exact")
  BY <1>6 DEF ProjectPoint
<1> QED BY <1>5, <1>9, <1>10 DEF Positions, touching

\* The spans of a range, by their parts.
LEMMA SpansByParts ==
    ASSUME InVirtualOrder, NEW from \in Nat, NEW to \in Nat, from < to, NEW f
    PROVE  LET served == {s \in All : /\ s.originalStart <= from /\ (from < s.originalEnd \/ from = s.originalStart)
                                      /\ to <= s.originalEnd /\ f \in s.features}
           IN  /\ served # {} => Spans(from, to, f) = {ProjectRange(s, from, to) : s \in served}
               /\ served = {} =>
                      \E starts, ends : /\ starts \subseteq Nat /\ ends \subseteq Nat
                                        /\ Spans(from, to, f) \subseteq Between(starts, ends)
<1> DEFINE index == OriginalIndex
           atStart == SegmentsAt(index, from)
           atEnd == SegmentsAt(index, to - 1)
           served == {s \in All : /\ s.originalStart <= from /\ (from < s.originalEnd \/ from = s.originalStart)
                                  /\ to <= s.originalEnd /\ f \in s.features}
           inside == {ProjectRange(s, from, to) :
                         s \in {t \in ToSet(atStart) : to <= t.originalEnd /\ f \in t.features}}
           starts == Projections(atStart, from, f, FALSE)
           ends == Projections(atEnd, to, f, TRUE)
<1>1. to - 1 \in Nat
  OBVIOUS
<1>2. /\ atStart \in Seq(Segments)
      /\ \A s : Occurs(s, atStart) <=>
             s \in All /\ s.originalStart <= from /\ (from < s.originalEnd \/ from = s.originalStart)
  BY AtFound
<1>3. /\ atEnd \in Seq(Segments)
      /\ \A s : Occurs(s, atEnd) <=>
             s \in All /\ s.originalStart <= to - 1 /\ (to - 1 < s.originalEnd \/ to - 1 = s.originalStart)
  BY <1>1, AtFound
<1>4. Spans(from, to, f) = IF atStart = <<>> \/ atEnd = <<>> THEN {}
                           ELSE IF inside # {} THEN inside ELSE Between(starts, ends)
  BY DEF Spans
<1> HIDE DEF atStart, atEnd, index
<1>5. {t \in ToSet(atStart) : to <= t.originalEnd /\ f \in t.features} = served
  <2>1. \A s : s \in ToSet(atStart) <=> Occurs(s, atStart)
    BY <1>2, HeldBy
  <2> QED BY <1>2, <2>1
<1>6. inside = {ProjectRange(s, from, to) : s \in served}
  BY <1>5
<1>7. ASSUME served # {} PROVE Spans(from, to, f) = {ProjectRange(s, from, to) : s \in served}
  <2>1. PICK s \in served : TRUE
    BY <1>7
  <2>2. s.originalStart \in Nat /\ s.originalEnd \in Nat
    BY SegmentsPlaced, SegmentTyped
  <2>3. Occurs(s, atStart) /\ Occurs(s, atEnd)
    BY <1>2, <1>3, <2>2
  <2>4. atStart # <<>> /\ atEnd # <<>>
    BY <2>3, <1>2, <1>3, HeldBy
  <2>5. inside # {}
    <3> HIDE DEF served
    <3> QED BY <1>6, <2>1
  <2> HIDE DEF inside, served
  <2> QED BY <1>4, <1>6, <2>4, <2>5
<1>8. ASSUME served = {}
      PROVE  starts \subseteq Nat /\ ends \subseteq Nat /\ Spans(from, to, f) \subseteq Between(starts, ends)
  <2>1. ASSUME NEW list \in Seq(Segments), NEW p \in Nat, NEW atLast \in BOOLEAN
        PROVE  Projections(list, p, f, atLast) \subseteq Nat
    <3>1. ASSUME NEW s \in ToSet(list)
          PROVE  (IF s.verbatim THEN ToVirtual(s, p) ELSE IF atLast THEN s.virtualEnd ELSE s.virtualStart) \in Nat
      <4>1. s \in Segments
        <5>1. Occurs(s, list)
          BY HeldBy
        <5> QED BY <5>1, ElementOfSeq DEF Occurs
      <4>2. s.virtualStart \in Nat /\ s.virtualEnd \in Nat /\ s.originalStart \in Nat
        BY <4>1, SegmentTyped
      <4>3. ToVirtual(s, p) \in Nat
        <5> DEFINE n == s.virtualStart + p - s.originalStart
        <5>1. n \in Int
          BY <4>2
        <5>2. ToVirtual(s, p) = IF n < s.virtualStart THEN s.virtualStart ELSE IF n > s.virtualEnd THEN s.virtualEnd ELSE n
          BY DEF ToVirtual, Clamp
        <5> HIDE DEF n
        <5> QED BY <4>2, <5>1, <5>2
      <4> QED BY <4>2, <4>3
    <3> QED BY <3>1 DEF Projections
  <2>2. starts \subseteq Nat /\ ends \subseteq Nat
    BY <1>2, <1>3, <2>1
  <2>3. inside = {}
    BY <1>6, <1>8
  <2> HIDE DEF inside, starts, ends
  <2> QED BY <1>4, <2>2, <2>3
<1> QED BY <1>7, <1>8

\* What is exact can be undone.
LEMMA ExactComesBack ==
    ASSUME InVirtualOrder, NEW from \in Nat, NEW to \in Nat, from < to, NEW f
    PROVE  ExactBothWays(from, to, f)
<1>1. ASSUME NEW s \in All, s.verbatim, f \in s.features, Covers(s, from), to <= s.virtualEnd
      PROVE  Mapped(from, to, "exact") \in Spans(MapRange(from, to).from, MapRange(from, to).to, f)
  <2> DEFINE a == ToOriginal(s, from)
             b == ToOriginal(s, to)
  <2>1. s \in Segments /\ s.virtualStart <= from
    BY <1>1, SegmentsPlaced DEF Covers
  <2>2. s.virtualStart \in Nat /\ s.virtualEnd \in Nat /\ s.originalStart \in Nat /\ s.originalEnd \in Nat
    BY <2>1, SegmentTyped
  <2>3. MapRange(from, to) = Mapped(a, b, "exact") /\ a < b
    BY <1>1, <2>1, CoveredRange
  <2>4. from \in s.virtualStart .. s.virtualEnd /\ to \in s.virtualStart .. s.virtualEnd
    BY <1>1, <2>1, <2>2
  <2>5. /\ a \in s.originalStart .. s.originalEnd /\ ToVirtual(s, a) = from
        /\ b \in s.originalStart .. s.originalEnd /\ ToVirtual(s, b) = to
    BY <1>1, <2>1, <2>4, UnitForUnit
  <2> HIDE DEF a, b
  <2>6. a \in Nat /\ b \in Nat /\ s.originalStart <= a /\ a < s.originalEnd /\ b <= s.originalEnd
    BY <2>2, <2>3, <2>5
  <2> DEFINE served == {t \in All : /\ t.originalStart <= a /\ (a < t.originalEnd \/ a = t.originalStart)
                                    /\ b <= t.originalEnd /\ f \in t.features}
  <2>7. s \in served
    BY <1>1, <2>6
  <2>8. served # {} => Spans(a, b, f) = {ProjectRange(t, a, b) : t \in served}
    BY <2>3, <2>6, SpansByParts
  <2> HIDE DEF served
  <2>9. ProjectRange(s, a, b) = Mapped(from, to, "exact")
    BY <1>1, <2>5 DEF ProjectRange
  <2>10. MapRange(from, to).from = a /\ MapRange(from, to).to = b
    BY <2>3 DEF Mapped
  <2> QED BY <2>7, <2>8, <2>9, <2>10
<1>2. ASSUME NEW v \in Spans(from, to, f), v.fidelity = "exact"
      PROVE  MapRange(v.from, v.to) = Mapped(from, to, "exact")
  <2> DEFINE served == {t \in All : /\ t.originalStart <= from /\ (from < t.originalEnd \/ from = t.originalStart)
                                    /\ to <= t.originalEnd /\ f \in t.features}
  <2>1. /\ served # {} => Spans(from, to, f) = {ProjectRange(t, from, to) : t \in served}
        /\ served = {} => \E starts, ends : Spans(from, to, f) \subseteq Between(starts, ends)
    BY SpansByParts
  <2>2. served # {}
    <3> SUFFICES ASSUME served = {} PROVE FALSE
      OBVIOUS
    <3>1. PICK starts, ends : Spans(from, to, f) \subseteq Between(starts, ends)
      BY <2>1
    <3>2. v.fidelity = "approximate"
      BY <3>1 DEF Between, Mapped
    <3> QED BY <1>2, <3>2
  <2>3. PICK s \in served : v = ProjectRange(s, from, to)
    BY <2>1, <2>2
  <2>4. s \in All /\ s.originalStart <= from /\ to <= s.originalEnd /\ s \in Segments
    BY SegmentsPlaced
  <2> HIDE DEF served
  <2>5. s.verbatim
    BY <1>2, <2>3 DEF ProjectRange, Mapped
  <2> DEFINE a == ToVirtual(s, from)
             b == ToVirtual(s, to)
  <2>6. v.from = a /\ v.to = b
    BY <2>3, <2>5 DEF ProjectRange, Mapped
  <2>7. s.virtualStart \in Nat /\ s.virtualEnd \in Nat /\ s.originalStart \in Nat /\ s.originalEnd \in Nat
    BY <2>4, SegmentTyped
  <2>8. from \in s.originalStart .. s.originalEnd /\ to \in s.originalStart .. s.originalEnd
    BY <2>4, <2>7
  <2>9. /\ a = s.virtualStart + (from - s.originalStart) /\ a \in s.virtualStart .. s.virtualEnd
        /\ b = s.virtualStart + (to - s.originalStart) /\ b \in s.virtualStart .. s.virtualEnd
        /\ ToOriginal(s, a) = from /\ ToOriginal(s, b) = to
    <3>1. /\ a = s.virtualStart + (from - s.originalStart)
          /\ b = s.virtualStart + (to - s.originalStart)
          /\ s.virtualStart + (from - s.originalStart) \in s.virtualStart .. s.virtualEnd
          /\ s.virtualStart + (to - s.originalStart) \in s.virtualStart .. s.virtualEnd
          /\ ToOriginal(s, s.virtualStart + (from - s.originalStart)) = from
          /\ ToOriginal(s, s.virtualStart + (to - s.originalStart)) = to
      BY <2>4, <2>5, <2>8, UnitForUnit
    <3> HIDE DEF a, b
    <3> QED BY <3>1
  <2> HIDE DEF a, b
  <2>10. a \in Nat /\ b \in Nat /\ a < b /\ s.virtualStart <= a /\ b <= s.virtualEnd
    BY <2>7, <2>9
  <2>11. MapRange(a, b) = Mapped(ToOriginal(s, a), ToOriginal(s, b), "exact")
    BY <2>4, <2>5, <2>10, CoveredRange
  <2> QED BY <2>6, <2>9, <2>11
<1> QED BY <1>1, <1>2 DEF ExactBothWays

\* Results that are put together of several segments do not overlap.
LEMMA BetweenApart ==
    ASSUME NEW starts \in SUBSET Nat, NEW ends \in SUBSET Nat,
           NEW v \in Between(starts, ends), NEW w \in Between(starts, ends), v # w
    PROVE  v.to < w.from \/ w.to < v.from
<1> DEFINE Tight(a, b) ==
               /\ a \in starts /\ b \in ends /\ a <= b
               /\ \A e \in ends : e < a \/ b <= e
               /\ \A s \in starts : s <= a \/ b < s
<1>1. ASSUME NEW r \in Between(starts, ends)
      PROVE  \E a \in Nat, b \in Nat : r = Mapped(a, b, "approximate") /\ Tight(a, b)
  <2>1. PICK q \in starts \X ends :
            /\ r = Mapped(q[1], q[2], "approximate")
            /\ q[1] <= q[2]
            /\ \A e \in ends : e < q[1] \/ q[2] <= e
            /\ \A s \in starts : s <= q[1] \/ q[2] < s
    BY DEF Between
  <2>2. q[1] \in starts /\ q[2] \in ends /\ q[1] \in Nat /\ q[2] \in Nat
    OBVIOUS
  <2> QED BY <2>1, <2>2
<1>2. PICK a \in Nat, b \in Nat : v = Mapped(a, b, "approximate") /\ Tight(a, b)
  BY <1>1
<1>3. PICK c \in Nat, d \in Nat : w = Mapped(c, d, "approximate") /\ Tight(c, d)
  BY <1>1
<1>4. /\ a <= b /\ (d < a \/ b <= d) /\ (c <= a \/ b < c)
      /\ c <= d /\ (b < c \/ d <= b) /\ (a <= c \/ d < a)
  BY <1>2, <1>3
<1>5. a # c \/ b # d
  BY <1>2, <1>3
<1>6. b < c \/ d < a
  BY <1>4, <1>5
<1> QED BY <1>2, <1>3, <1>6 DEF Mapped

\* In all results.
LEMMA ResultsApart ==
    ASSUME InVirtualOrder, NEW from \in Nat, NEW to \in Nat, from < to, NEW f
    PROVE  SmallestAround(from, to, f)
<1> SUFFICES ASSUME NEW v \in Spans(from, to, f), NEW w \in Spans(from, to, f),
                    v # w, v.fidelity = "approximate"
             PROVE  v.to < w.from \/ w.to < v.from
  BY DEF SmallestAround
<1> DEFINE served == {t \in All : /\ t.originalStart <= from /\ (from < t.originalEnd \/ from = t.originalStart)
                                  /\ to <= t.originalEnd /\ f \in t.features}
<1>1. /\ served # {} => Spans(from, to, f) = {ProjectRange(t, from, to) : t \in served}
      /\ served = {} => \E starts, ends : /\ starts \subseteq Nat /\ ends \subseteq Nat
                                          /\ Spans(from, to, f) \subseteq Between(starts, ends)
  BY SpansByParts
<1> HIDE DEF served
<1>2. served = {}
  <2> SUFFICES ASSUME served # {} PROVE FALSE
    OBVIOUS
  <2>1. PICK s \in served : v = ProjectRange(s, from, to)
    BY <1>1
  <2> QED BY <2>1 DEF ProjectRange, Mapped
<1>3. PICK starts, ends : /\ starts \subseteq Nat /\ ends \subseteq Nat
                          /\ Spans(from, to, f) \subseteq Between(starts, ends)
  BY <1>1, <1>2
<1> QED BY <1>3, BetweenApart

-----------------------------------------------------------------------------
(* All lookups *)

\* Whatever the segments.
LEMMA LookupsDoAgree == InVirtualOrder => LookupsAgree
<1> SUFFICES ASSUME InVirtualOrder PROVE LookupsAgree
  OBVIOUS
<1>1. Offsets \subseteq Nat
  BY OffsetAssumption DEF Offsets
<1>2. ASSUME NEW p \in Offsets
      PROVE  /\ TreeFinds(OriginalIndex, p)
             /\ MapPoint(p).fidelity = Fidelity(p, p + 1)
             /\ \A f \in Features : PointsReturn(p, f)
  <2>1. p \in Nat
    BY <1>1
  <2> QED BY <2>1, TreeFindsAll, PointFidelity, PointsComeBack
<1>3. ASSUME NEW from \in Offsets, NEW to \in Offsets, from < to, NEW f \in Features
      PROVE  /\ ExactBothWays(from, to, f)
             /\ SmallestAround(from, to, f)
             /\ SupportsFeature(from, to, f) =
                    (\A p \in from .. to - 1 : \E s \in All : Covers(s, p) /\ f \in s.features)
  <2>1. from \in Nat /\ to \in Nat
    BY <1>1
  <2>2. SupportsFeature(from, to, f) \in BOOLEAN
    BY DEF SupportsFeature
  <2>3. SupportsFeature(from, to, f) <=>
            \A p \in from .. to - 1 : \E s \in All : Covers(s, p) /\ f \in s.features
    BY <1>3, <2>1, FeatureServed
  <2>4. SupportsFeature(from, to, f) =
            (\A p \in from .. to - 1 : \E s \in All : Covers(s, p) /\ f \in s.features)
    BY <2>2, <2>3
  <2>5. ExactBothWays(from, to, f)
    BY <1>3, <2>1, ExactComesBack
  <2>6. SmallestAround(from, to, f)
    BY <1>3, <2>1, ResultsApart
  <2> QED BY <2>4, <2>5, <2>6
<1>4. ASSUME NEW from \in Offsets, NEW to \in Offsets, from < to
      PROVE  MapRange(from, to).fidelity = Fidelity(from, to)
  <2>1. from \in Nat /\ to \in Nat
    BY <1>1
  <2> QED BY <1>4, <2>1, RangeFidelity
<1> QED BY <1>2, <1>3, <1>4 DEF LookupsAgree

\* LookupsAgree in all that a span map can become: each lookup of SpanMap, by
\* binary search or by the tree, finds what a look at every segment would, and
\* nothing twice; a range is exact just when one verbatim segment covers it.
THEOREM LookupsCorrect == SpanSpec => []LookupsAgree
  BY SegmentsOrdered, LookupsDoAgree, PTL
==============================================================================
