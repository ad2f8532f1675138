------------------------------ MODULE SpanMap ------------------------------
(***************************************************************************)
(* The map between the text a content mapper was given and the virtual     *)
(* text it made: SpanMap of                                                *)
(* src/src/core/corsa_client/src/api/content_mapper.rs.                    *)
(*                                                                         *)
(* A segment says which part of the virtual text stands for which part of  *)
(* the original, unit for unit (verbatim) or as a whole (atom), and which  *)
(* features may use it.  Virtual ranges are not empty and do not overlap;  *)
(* original ranges may.  Positions are found by binary search in the       *)
(* virtual text, and through a tree of greatest ends in the original.      *)
(* Lookups that return several results return a set here: the code sorts   *)
(* them and the groups it makes on the way decide nothing else.            *)
(***************************************************************************)
EXTENDS Integers, SequencesExt

CONSTANTS Segments,     \* the segments there may be
          MaxSegments,  \* bound of the model
          Features,
          LastOffset    \* bound of the model: greatest position asked for

\* What a mapper promises of a segment: part of a virtual text that is not empty,
\* and of the original, of the same length if it is verbatim.
WellFormed(s) ==
    /\ s \in [virtualStart : Nat, virtualEnd : Nat, originalStart : Nat, originalEnd : Nat,
              verbatim : BOOLEAN, features : SUBSET Features]
    /\ s.virtualStart < s.virtualEnd /\ s.originalStart <= s.originalEnd
    /\ s.verbatim => s.virtualEnd - s.virtualStart = s.originalEnd - s.originalStart

ASSUME SegmentAssumption == \A s \in Segments : WellFormed(s)
ASSUME OffsetAssumption == LastOffset \in Nat

VARIABLE segments

SpanInit == segments = <<>>

\* They share no unit of the virtual text.
Apart(s, t) == s.virtualEnd <= t.virtualStart \/ t.virtualEnd <= s.virtualStart

\* How many segments a binary search leaves on the left of p.
StartingBefore(p) ==
    Min({n \in 0 .. Len(segments) : n = Len(segments) \/ segments[n + 1].virtualStart >= p})

\* SpanMap::new with one segment more, which sorting puts in its place.
NewSpanMap(s) ==
    /\ Len(segments) < MaxSegments
    /\ \A t \in ToSet(segments) : Apart(s, t)
    /\ segments' = InsertAt(segments, StartingBefore(s.virtualStart) + 1, s)

SpanNext == \E s \in Segments : NewSpanMap(s)
SpanSpec == SpanInit /\ [][SpanNext]_segments

-----------------------------------------------------------------------------
(* From the virtual text to the original *)

\* The segment a position is in, or else the one before it, 0 for none.  The
\* end of the last segment is in it.
SegmentIndexAt(p) ==
    LET low == StartingBefore(p)
    IN  IF low < Len(segments) /\ segments[low + 1].virtualStart = p
        THEN [index |-> low + 1, inside |-> TRUE]
        ELSE [index |-> low,
              inside |-> low > 0 /\ \/ p < segments[low].virtualEnd
                                    \/ low = Len(segments) /\ p = segments[low].virtualEnd]

\* Where the original goes on after a segment.
InsertionPoint(i) == IF i = 0 THEN 0 ELSE segments[i].originalEnd

\* map_verbatim_position, one way and the other.
Clamp(n, low, high) == IF n < low THEN low ELSE IF n > high THEN high ELSE n
ToOriginal(s, p) == Clamp(s.originalStart + p - s.virtualStart, s.originalStart, s.originalEnd)
ToVirtual(s, p) == Clamp(s.virtualStart + p - s.originalStart, s.virtualStart, s.virtualEnd)

Mapped(from, to, fidelity) == [from |-> from, to |-> to, fidelity |-> fidelity]

\* map_point: an empty range.
MapPoint(p) ==
    LET at == SegmentIndexAt(p)
        s == segments[at.index]
        place == IF ~at.inside THEN InsertionPoint(at.index)
                 ELSE IF s.verbatim THEN ToOriginal(s, p) ELSE s.originalStart
    IN  Mapped(place, place, IF ~at.inside THEN "none" ELSE IF s.verbatim THEN "exact" ELSE "atom")

\* An end of a range, by the segment it is in.
MapBoundary(p, at, atom) ==
    IF ~at.inside THEN InsertionPoint(at.index)
    ELSE IF segments[at.index].verbatim THEN ToOriginal(segments[at.index], p) ELSE atom

\* map_range of a range that is not empty.
MapRange(from, to) ==
    LET first == SegmentIndexAt(from)
        last == SegmentIndexAt(to - 1)
        s == segments[first.index]
        start == MapBoundary(from, first, segments[first.index].originalStart)
        end == MapBoundary(to, last, segments[last.index].originalEnd)
    IN  IF first = last /\ ~first.inside
        THEN Mapped(InsertionPoint(first.index), InsertionPoint(first.index), "none")
        ELSE IF first = last /\ ~s.verbatim THEN Mapped(s.originalStart, s.originalEnd, "atom")
        ELSE Mapped(start, IF start > end THEN start ELSE end,
                    IF first = last THEN "exact" ELSE "approximate")

\* The loop of virtual_range_supports_feature goes on from where one segment ends.
Continues(s, through, f) ==
    s.virtualStart <= through /\ through < s.virtualEnd /\ f \in s.features

\* The segments from the one at the start to one that reaches the end follow each
\* other without a gap and all have the feature.
SupportsFeature(from, to, f) ==
    LET at == SegmentIndexAt(from)
        through(i) == IF i = at.index THEN from ELSE segments[i - 1].virtualEnd
    IN  at.inside /\ \E last \in at.index .. Len(segments) :
            /\ segments[last].virtualEnd >= to
            /\ \A i \in at.index .. last : Continues(segments[i], through(i), f)

-----------------------------------------------------------------------------
(* From the original text to the virtual *)

SameOriginal(s, t) == s.originalStart = t.originalStart /\ s.originalEnd = t.originalEnd

\* The key that the original index is sorted by.
Earlier(s, t) ==
    \/ s.originalStart < t.originalStart
    \/ s.originalStart = t.originalStart /\ s.originalEnd < t.originalEnd
    \/ SameOriginal(s, t) /\ s.virtualStart < t.virtualStart

InsertEarlier(list, s) ==
    InsertAt(list, 1 + Min({n \in 0 .. Len(list) : n = Len(list) \/ Earlier(s, list[n + 1])}), s)

\* The segments in the order of the original.
InOriginalOrder ==
    LET sorted[n \in 0 .. Len(segments)] ==
            IF n = 0 THEN <<>> ELSE InsertEarlier(sorted[n - 1], segments[n])
    IN  sorted[Len(segments)]

\* 1 is doubled until n leaves fit.
LeafCount(n) ==
    LET leaves[k \in 0 .. n] ==
            IF k = 0 THEN 1 ELSE IF leaves[k - 1] < n THEN 2 * leaves[k - 1] ELSE leaves[k - 1]
    IN  leaves[n]

\* The tree: a node has the greatest end of its children, a leaf the end of its
\* segment, 0 for padding.
MaxEnds(list, leaves) ==
    LET end[node \in 1 .. 2 * leaves - 1] ==
            IF node >= leaves
            THEN IF node - leaves < Len(list) THEN list[node - leaves + 1].originalEnd ELSE 0
            ELSE IF end[2 * node] > end[2 * node + 1] THEN end[2 * node] ELSE end[2 * node + 1]
    IN  end

\* original_index.
OriginalIndex ==
    LET list == InOriginalOrder
        leaves == LeafCount(Len(list))
    IN  [list |-> list, leaves |-> leaves, maxEnd |-> MaxEnds(list, leaves)]

\* The leaves under each node, the first and the one past the last, 0-based: each
\* half goes to a child.
LeafRanges(leaves) ==
    LET range[node \in 1 .. 2 * leaves - 1] ==
            IF node = 1 THEN [first |-> 0, past |-> leaves]
            ELSE LET above == range[node \div 2]
                     middle == above.first + (above.past - above.first) \div 2
                 IN  IF node % 2 = 0 THEN [above EXCEPT !.past = middle] ELSE [above EXCEPT !.first = middle]
    IN  range

\* Nothing in the leaves under a node is asked for: p is past every end.  An
\* inclusive end may be p; limit is 0-based.
Skipped(index, node, first, limit, p, inclusive) ==
    \/ first >= limit
    \/ index.maxEnd[node] < p
    \/ ~inclusive /\ index.maxEnd[node] = p

\* collect_segments_ending_at_or_after, for every node.
Collect(index, limit, p, inclusive) ==
    LET range == LeafRanges(index.leaves)
        found[node \in 1 .. 2 * index.leaves - 1] ==
            LET first == range[node].first
            IN  IF Skipped(index, node, first, limit, p, inclusive) THEN <<>>
                ELSE IF range[node].past - first = 1 THEN <<index.list[first + 1]>>
                ELSE found[2 * node] \o found[2 * node + 1]
    IN  found

EndingAtOrAfter(index, limit, p, inclusive) == Collect(index, limit, p, inclusive)[1]

\* How many segments the binary search leaves on the left.
FirstAtOrAfter(list, p) ==
    Min({n \in 0 .. Len(list) : n = Len(list) \/ list[n + 1].originalStart >= p})
FirstAfter(list, p) == FirstAtOrAfter(list, p + 1)

\* segments_at_original_position: ends exclusive.
SegmentsAt(index, p) ==
    LET before == FirstAtOrAfter(index.list, p)
    IN  EndingAtOrAfter(index, before, p, FALSE)
        \o SubSeq(index.list, before + 1, FirstAfter(index.list, p))

\* Mutant: the limit of segments_at_original_position.
SegmentsTouchingBefore(index, p) ==
    EndingAtOrAfter(index, FirstAtOrAfter(index.list, p), p, TRUE)

\* The segments of segment_groups_at_original_position: ends inclusive.
SegmentsTouching(index, p) ==
    EndingAtOrAfter(index, FirstAfter(index.list, p), p, TRUE)

\* original_to_virtual_positions in one segment, and in all with the feature.
ProjectPoint(s, p) ==
    LET place == IF s.verbatim THEN ToVirtual(s, p)
                 ELSE IF p = s.originalEnd /\ p # s.originalStart THEN s.virtualEnd
                 ELSE s.virtualStart
    IN  Mapped(place, place, IF s.verbatim THEN "exact" ELSE "atom")

Positions(p, f) ==
    {ProjectPoint(s, p) : s \in {t \in ToSet(SegmentsTouching(OriginalIndex, p)) : f \in t.features}}

\* original_to_virtual_spans_in_segments.
ProjectRange(s, from, to) ==
    IF s.verbatim THEN Mapped(ToVirtual(s, from), ToVirtual(s, to), "exact")
    ELSE Mapped(s.virtualStart, s.virtualEnd, "atom")

\* original_projections.
Projections(list, p, f, atEnd) ==
    {IF s.verbatim THEN ToVirtual(s, p) ELSE IF atEnd THEN s.virtualEnd ELSE s.virtualStart :
        s \in {t \in ToSet(list) : f \in t.features}}

\* Each start with the first end that is not before it, unless another start is
\* not after that end.
Between(starts, ends) ==
    {Mapped(v[1], v[2], "approximate") :
        v \in {v \in starts \X ends :
            /\ v[1] <= v[2]
            /\ \A e \in ends : e < v[1] \/ v[2] <= e
            /\ \A s \in starts : s <= v[1] \/ v[2] < s}}

\* original_to_virtual_spans of a range that is not empty.
Spans(from, to, f) ==
    LET index == OriginalIndex
        atStart == SegmentsAt(index, from)
        atEnd == SegmentsAt(index, to - 1)
        inside == {ProjectRange(s, from, to) :
                      s \in {t \in ToSet(atStart) : to <= t.originalEnd /\ f \in t.features}}
    IN  IF atStart = <<>> \/ atEnd = <<>> THEN {}
        ELSE IF inside # {} THEN inside
        ELSE Between(Projections(atStart, from, f, FALSE), Projections(atEnd, to, f, TRUE))

-----------------------------------------------------------------------------
(* What the lookups should find, read off the segments themselves *)

All == ToSet(segments)
Offsets == 0 .. LastOffset
Covers(s, p) == s.virtualStart <= p /\ p < s.virtualEnd

\* The end of the last segment counts as a unit of it.
CoversUpTo(s, p) == Covers(s, p) \/ (s = Last(segments) /\ p = s.virtualEnd)

Fidelity(from, to) ==
    LET covering(p) == {s \in All : CoversUpTo(s, p)}
        units == from .. to - 1
    IN  IF \A p \in units : covering(p) = {} THEN "none"
        ELSE IF \E s \in All : \A p \in units : s \in covering(p)
             THEN IF \E s \in covering(from) : s.verbatim THEN "exact" ELSE "atom"
        ELSE "approximate"

\* The tree finds the segments at a position, each once.
TreeFinds(index, p) ==
    LET at == SegmentsAt(index, p)
        touching == SegmentsTouching(index, p)
        here == {s \in All : s.originalStart <= p /\ p <= s.originalEnd}
    IN  /\ ToSet(touching) = here /\ Len(touching) = Cardinality(here)
        /\ ToSet(at) = {s \in here : p < s.originalEnd \/ p = s.originalStart}
        /\ Len(at) = Cardinality(ToSet(at))

\* What is exact can be undone, both ways.
ExactBothWays(from, to, f) ==
    /\ \A s \in All :
           s.verbatim /\ f \in s.features /\ Covers(s, from) /\ to <= s.virtualEnd
           => LET o == MapRange(from, to)
              IN  Mapped(from, to, "exact") \in Spans(o.from, o.to, f)
    /\ \A v \in Spans(from, to, f) :
           v.fidelity = "exact" => MapRange(v.from, v.to) = Mapped(from, to, "exact")

\* No result goes over another start or end of its own kind.
SmallestAround(from, to, f) ==
    \A v, w \in Spans(from, to, f) :
        v # w /\ v.fidelity = "approximate" => v.to < w.from \/ w.to < v.from

\* An exact point leads back to where it came from.
PointsReturn(p, f) ==
    \A s \in All : s.verbatim /\ f \in s.features /\ CoversUpTo(s, p)
                   => Mapped(p, p, "exact") \in Positions(MapPoint(p).from, f)

(* Every lookup finds what a look at all segments would: the binary searches  *)
(* and the tree miss and repeat nothing, whatever overlaps in the original.    *)
(* A range is exact if and only if one verbatim segment covers it, and then    *)
(* maps there and back; a feature is served if and only if every unit of the   *)
(* range is covered by a segment that serves it.                               *)
LookupsAgree ==
    LET index == OriginalIndex
    IN  /\ \A p \in Offsets :
               /\ TreeFinds(index, p)
               /\ MapPoint(p).fidelity = Fidelity(p, p + 1)
               /\ \A f \in Features : PointsReturn(p, f)
        /\ \A from, to \in Offsets : from < to =>
               /\ MapRange(from, to).fidelity = Fidelity(from, to)
               /\ \A f \in Features :
                      /\ ExactBothWays(from, to, f)
                      /\ SmallestAround(from, to, f)
                      /\ SupportsFeature(from, to, f) =
                             (\A p \in from .. to - 1 : \E s \in All : Covers(s, p) /\ f \in s.features)
=============================================================================
