------------------------------- MODULE Spans --------------------------------
(***************************************************************************)
(* How the points are divided for drawing.  GraphData cuts them into spans *)
(* where the gap between two of them is an outlier (a span is a session of *)
(* recording); combineSpansPixelWise merges spans that would have too few  *)
(* columns on the x axis of a frame; an iterator then gives the points,    *)
(* all or those of the last span, and finds each its place on the axis.    *)
(*                                                                         *)
(* A float is the exact ratio it stands for, comparisons of ratios are     *)
(* multiplied out.  Indexes of points are 0-based as in the code.          *)
(***************************************************************************)
EXTENDS PingPoint, Statistics, Sequences, SequencesExt

CONSTANTS
  NewPoints,  (* bound: the points that may come                           *)
  Widths,     (* bound: the widths of the terminal                         *)
  MaxPoints   (* bound: how many points there are                          *)

ASSUME SpansAssumption ==
  /\ NewPoints \subseteq [time: Nat, duration: Nat, dropped: BOOLEAN]
  /\ \A p \in NewPoints : p.dropped => p.duration = 0
  /\ MaxPoints \in Nat /\ Widths \subseteq Nat

VARIABLES
  points,  (* data.Data: the points in their insertion order               *)
  spans    (* GraphData.spans                                              *)

vars == <<points, spans>>

-----------------------------------------------------------------------------
(* SpanInfo                                                                *)

(* SpanStats, the gaps between the points: as many as there are, their     *)
(* sum, and the sum of their squares.                                      *)
NoGaps == [n |-> 0, sum |-> 0, squares |-> 0]
GapsAdd(g, gap) == [n |-> g.n + 1, sum |-> g.sum + gap, squares |-> g.squares + gap * gap]

(* The variance, times n * (n - 1).                                        *)
Spread(g) == g.n * g.squares - g.sum * g.sum

NewSpanInfo ==
  [gaps |-> NoGaps, stats |-> NoStats, time |-> SpanFrom(0), last |-> 0,
   count |-> 0, start |-> 0, end |-> 0]

AddFirstPoint(span, p, index) ==
  [span EXCEPT !.time = SpanFrom(p.time), !.stats = StatsAdd(@, p), !.last = p.time,
               !.count = @ + 1, !.start = index, !.end = index]

SpanGrow(span, p, index) ==
  [span EXCEPT !.gaps = GapsAdd(@, p.time - span.last), !.stats = StatsAdd(@, p),
               !.time = SpanAdd(@, p.time), !.last = p.time, !.count = @ + 1, !.end = index]

(* How many standard deviations a gap may be above the mean.               *)
AllowedDeviations(p) == IF p.dropped THEN 9 ELSE 4

(* Mutant: a gap at its limit is too big.                                  *)
TooBigAtLimit(span, p) ==
  LET g == span.gaps
      gap == p.time - span.last
      above == g.n * gap - g.sum
  IN  \/ span.count = 2 /\ gap >= 7 * g.sum
      \/ span.count > 2 /\ Spread(g) = 0 /\ g.n * gap > 2 * g.sum
      \/ /\ span.count > 2 /\ Spread(g) > 0 /\ above > 0
         /\ above * above * (g.n - 1) > AllowedDeviations(p) * AllowedDeviations(p) * g.n * Spread(g)

(* SpanInfo.AddPoint: whether the point is of a different span.            *)
TooBig(span, p) ==
  LET g == span.gaps
      gap == p.time - span.last
      above == g.n * gap - g.sum
  IN  \/ span.count = 2 /\ gap > 7 * g.sum
      \/ span.count > 2 /\ Spread(g) = 0 /\ g.n * gap > 2 * g.sum
      \/ /\ span.count > 2 /\ Spread(g) > 0 /\ above > 0
         /\ above * above * (g.n - 1) > AllowedDeviations(p) * AllowedDeviations(p) * g.n * Spread(g)

(* Mutant: the point that opens a span is left out of it.                  *)
AddToSpansLost(s, p, index) ==
  LET span == s[Len(s)]
  IN  IF span.count = 0 THEN [s EXCEPT ![Len(s)] = AddFirstPoint(@, p, index)]
      ELSE IF TooBig(span, p) THEN Append(s, NewSpanInfo)
      ELSE [s EXCEPT ![Len(s)] = SpanGrow(@, p, index)]

(* addPointToSpans *)
AddPointToSpans(s, p, index) ==
  LET span == s[Len(s)]
  IN  IF span.count = 0 THEN [s EXCEPT ![Len(s)] = AddFirstPoint(@, p, index)]
      ELSE IF TooBig(span, p) THEN Append(s, AddFirstPoint(NewSpanInfo, p, index))
      ELSE [s EXCEPT ![Len(s)] = SpanGrow(@, p, index)]

(* NewGraphData: the spans of the points of a file.                        *)
SpansOf(ps) ==
  LET upTo[n \in 0 .. Len(ps)] ==
        IF n = 0 THEN <<NewSpanInfo>> ELSE AddPointToSpans(upTo[n - 1], ps[n], n - 1)
  IN  upTo[Len(ps)]

Init == points = <<>> /\ spans = <<NewSpanInfo>>

(* GraphData.AddPoint *)
AddPoint(p) ==
  /\ Len(points) < MaxPoints
  /\ points' = Append(points, p)
  /\ spans' = AddPointToSpans(spans, p, Len(points))

(* The program ends and another one reads its file.                        *)
Reopen ==
  /\ points' = [i \in 1 .. Len(points) |-> Reread(points[i])]
  /\ spans' = SpansOf(points')

Next == Reopen \/ \E p \in NewPoints : AddPoint(p)

Spec == Init /\ [][Next]_vars

-----------------------------------------------------------------------------
(* The x axis                                                              *)

(* An XAxisSpanInfo with the spans of the indexes from .. to.              *)
Group(i, width) ==
  [from |-> i, to |-> i, stats |-> spans[i].stats, time |-> spans[i].time, width |-> width]

(* Mutant: the time span of the spans before is kept.                      *)
JoinedKeepsTime(group, i, width) ==
  [group EXCEPT !.to = i, !.width = width, !.stats = StatsMerge(@, spans[i].stats)]

Joined(group, i, width) ==
  [group EXCEPT !.to = i, !.width = width,
                !.stats = StatsMerge(@, spans[i].stats), !.time = SpanMerge(@, spans[i].time)]

(* The columns of so many of the points.                                   *)
Columns(space, n) == (space * n) \div Len(points)

MinPixels(space) == MaxOf(space \div 20, 5)

(* The first loop of combineSpansPixelWise, one span: the last group is    *)
(* open as long as it has fewer than the least columns, with the points of *)
(* acc so far.                                                             *)
CombineSpan(c, i, space) ==
  LET n == c.acc + spans[i].count
      enough == Columns(space, n) >= MinPixels(space)
      width == IF enough THEN Columns(space, n) ELSE 0
  IN  [acc    |-> IF enough THEN 0 ELSE n,
       groups |-> IF c.acc = 0 THEN Append(c.groups, Group(i, width))
                  ELSE [c.groups EXCEPT ![Len(c.groups)] = Joined(@, i, width)]]

Combined(space) ==
  LET upTo[n \in 0 .. Len(spans)] ==
        IF n = 0 THEN [acc |-> 0, groups |-> <<>>] ELSE CombineSpan(upTo[n - 1], n, space)
  IN  upTo[Len(spans)].groups

(* Go's division, towards zero.                                            *)
Quotient(a, b) == IF a < 0 THEN -((-a) \div b) ELSE a \div b

(* sliceutils.Fold, for the sum of the first n values.                     *)
SumTo(f, n) ==
  LET upTo[i \in 0 .. n] == IF i = 0 THEN 0 ELSE upTo[i - 1] + f[i]
  IN  upTo[n]

TotalWidth(groups) == SumTo([g \in 1 .. Len(groups) |-> groups[g].width], Len(groups))

(* Mutant: the rest of the division is left over.                          *)
WidenedEvenly(groups, space) ==
  LET each == Quotient(space - TotalWidth(groups), Len(groups))
  IN  [i \in 1 .. Len(groups) |-> [groups[i] EXCEPT !.width = @ + each]]

(* ... and the end of it: what is left is given to all, the rest to the    *)
(* last.                                                                   *)
Widened(groups, space) ==
  LET delta == space - TotalWidth(groups)
      each == Quotient(delta, Len(groups))
      rest == delta - each * Len(groups)
  IN  [i \in 1 .. Len(groups) |->
         [groups[i] EXCEPT !.width = @ + each + (IF i = Len(groups) THEN rest ELSE 0)]]

(* computeXAxis, but for the text on the axis.                             *)
XAxis(width, follow) ==
  IF follow THEN <<Group(Len(spans), width)>>
  ELSE Widened(Combined(width - 6), width - 6)

(* LockFreeIter: the total and the offset, and Iter.Get.                   *)
Iter(follow) ==
  IF follow
  THEN [total  |-> spans[Len(spans)].count,
        offset |-> SumTo([i \in 1 .. Len(spans) - 1 |-> spans[i].count], Len(spans) - 1)]
  ELSE [total |-> Len(points), offset |-> 0]

PointAt(iter, i) == points[i + iter.offset + 1]

(* xAxisIter.Get: the first group from the last one on that has the time   *)
(* of the point; 0 when there are no more groups, and it panics.           *)
Place(axis, from, p) ==
  LET fits == {g \in from .. Len(axis) : SpanContains(axis[g].time, p.time)}
  IN  IF from = 0 \/ fits = {} THEN 0 ELSE Min(fits)

(* The groups one point after the other is given.                          *)
Places(axis, iter) ==
  LET upTo[i \in 0 .. iter.total] ==
        IF i = 0 THEN <<>>
        ELSE LET before == upTo[i - 1]
                 from == IF i = 1 THEN 1 ELSE before[i - 1]
             IN  Append(before, Place(axis, from, PointAt(iter, i - 1)))
  IN  upTo[iter.total]

-----------------------------------------------------------------------------
(* Properties                                                              *)

Drawn == points # <<>>   (* computeFrame draws nothing without a point     *)

TimeSpan == [begin: Int, end: Int, duration: Nat]

(* The fields of SpanInfo (graph/graphdata/graphdata.go:125).              *)
TypeOK ==
  /\ Len(points) <= MaxPoints /\ Len(spans) >= 1
  /\ \A s \in Range(spans) :
       /\ s.count \in Nat /\ s.start \in Nat /\ s.end \in Nat /\ s.last \in Nat
       /\ s.gaps.n \in Nat /\ Spread(s.gaps) >= 0
       /\ s.time \in TimeSpan

(* The spans lie end to end over all the points, and each describes its    *)
(* own: their times, their round trips and the gaps between them, however  *)
(* the gaps fall and also for the points of a file (addPointToSpans,       *)
(* NewGraphData).                                                          *)
SpansTile ==
  Drawn =>
    /\ spans[1].start = 0 /\ spans[Len(spans)].end = Len(points) - 1
    /\ \A i \in 1 .. Len(spans) - 1 : spans[i].end + 1 = spans[i + 1].start
    /\ \A i \in 1 .. Len(spans) :
         LET s == spans[i]
             own == SubSeq(points, s.start + 1, s.end + 1)
         IN  /\ s.count = Len(own) /\ s.last = own[Len(own)].time
             /\ s.gaps.n = Len(own) - 1 /\ s.gaps.sum = s.last - own[1].time
             /\ s.stats.good + s.stats.dropped = Len(own)
             /\ {s.time.begin, s.time.end} \subseteq {q.time : q \in Range(own)}
             /\ \A q \in Range(own) : SpanContains(s.time, q.time)

(* Points that come at equal intervals are never taken apart, lost ones    *)
(* among them or not (SpanInfo.AddPoint: "the next point is some outlier").*)
SteadyIsOneSpan ==
  LET gap(i) == points[i + 1].time - points[i].time
  IN  (\A i \in 1 .. Len(points) - 1 : gap(i) >= 0 /\ gap(i) = gap(1)) => Len(spans) = 1

(* For every width of the terminal the axis has all the spans in order,    *)
(* the widths of its groups, each cut down to an integer, share out the    *)
(* columns there are and no more, and no group but the last has fewer than *)
(* its least (combineSpansPixelWise).  Where a group begins and ends is up *)
(* to its texts, which may leave some of the terminal unfilled: the TODO   *)
(* at xAxis.go:205.                                                        *)
WidthsShareTheAxis ==
  Drawn => \A width \in Widths :
    LET axis == XAxis(width, FALSE)
    IN  /\ axis[1].from = 1 /\ axis[Len(axis)].to = Len(spans)
        /\ \A g \in 1 .. Len(axis) - 1 :
             axis[g].to + 1 = axis[g + 1].from /\ axis[g].width >= MinPixels(width - 6)
        /\ TotalWidth(axis) = width - 6

(* Whatever order the timestamps are in, whichever spans were merged, and  *)
(* for the last span alone too, every point that is drawn finds a place on *)
(* the axis that holds its time: the iterator does not run out of groups,  *)
(* where it would panic (xAxisIter.Get, LockFreeIter).                     *)
PointsFindTheirPlace ==
  Drawn => \A width \in Widths, follow \in BOOLEAN :
    LET iter == Iter(follow)
        places == Places(XAxis(width, follow), iter)
    IN  /\ \A i \in 1 .. iter.total : places[i] # 0
        /\ iter.offset + iter.total = Len(points)
=============================================================================
