----------------------------- MODULE SpansProofs ------------------------------
(***************************************************************************)
(* The spans of the points, however their times fall: that they lie end to *)
(* end and describe their points, point by point and read from a file; and *)
(* the x axis made of them: that the widths of its groups share it and     *)
(* that every point finds its place.                                       *)
(***************************************************************************)
EXTENDS Spans, LeastElement

-----------------------------------------------------------------------------
(* Types                                                                   *)

PointType == [time: Nat, duration: Nat, dropped: BOOLEAN]
GapsType == [n: Nat, sum: Int, squares: Nat]
StatsType == [min: Nat, max: Nat, sum: Nat, good: Nat, dropped: Nat]
SpanType ==
  [gaps: GapsType, stats: StatsType, time: TimeSpan, last: Nat, count: Nat, start: Nat, end: Nat]

(* New points and points read from a file have times and round trips.      *)
LEMMA NewPointType == NewPoints \subseteq PointType
<1> QED
  BY SpansAssumption DEF PointType

(* A timestamp without what is below the millisecond.                      *)
LEMMA RereadType == \A p \in PointType : Reread(p) \in PointType
<1> TAKE p \in PointType
<1>1. \A t \in Nat : OnDisk(t) \in Nat
  <2> TAKE t \in Nat
  <2>1. Resolution \in Nat /\ Resolution > 0
    BY PointAssumption
  <2>2. t % Resolution \in 0 .. Resolution - 1
    BY <2>1
  <2>3. t = Resolution * (t \div Resolution) + (t % Resolution)
    BY <2>1
  <2>4. t \div Resolution \in Nat
    BY <2>1
  <2>5. Resolution * (t \div Resolution) \in Nat
    BY <2>1, <2>4
  <2> QED
    BY <2>2, <2>3, <2>5 DEF OnDisk
<1>2. p.time \in Nat
  BY DEF PointType
<1>3. OnDisk(p.time) \in Nat
  BY <1>1, <1>2
<1> QED
  BY <1>3 DEF Reread, PointType

-----------------------------------------------------------------------------
(* Gaps and statistics                                                     *)

(* The variance is not negative: by the inequality of Cauchy and Schwarz,  *)
(* for the gaps there are and the constant 1.                              *)
GapsSound(g) == (g.n = 0 => g.sum = 0 /\ g.squares = 0) /\ Spread(g) >= 0

(* Squares are not negative.                                               *)
LEMMA SquareIsNatural == \A a \in Int : a * a \in Nat
OBVIOUS

(* The inequality goes on to one more gap.                                 *)
LEMMA OneMoreGap ==
  ASSUME NEW n \in Nat, NEW s \in Int, NEW q \in Nat, NEW x \in Int,
         n = 0 => s = 0 /\ q = 0, n * q - s * s >= 0
  PROVE  (n + 1) * (q + x * x) - (s + x) * (s + x) >= 0
<1> DEFINE y == q + n * (x * x) - 2 * (s * x)
<1>1. (n + 1) * (q + x * x) - (s + x) * (s + x) = (n * q - s * s) + y
  OBVIOUS
<1>2. CASE n = 0
  BY <1>2
<1>3. CASE n > 0
  <2>1. n * y = (n * q - s * s) + (s - n * x) * (s - n * x)
    OBVIOUS
  <2>2. s - n * x \in Int /\ y \in Int
    OBVIOUS
  <2>3. (s - n * x) * (s - n * x) >= 0
    BY <2>2, SquareIsNatural
  <2> HIDE DEF y
  <2>4. (s - n * x) * (s - n * x) \in Int /\ n * q - s * s \in Int
    BY <2>2
  <2>5. n * y >= 0
    BY <2>1, <2>3, <2>4
  <2>6. y >= 0
    BY <1>3, <2>2, <2>5
  <2>7. (n * q - s * s) + y >= 0
    BY <2>2, <2>4, <2>6
  <2> QED
    BY <1>1, <2>7
<1> QED
  BY <1>2, <1>3

(* A gap is added to the gaps of a span (SpanStats.AddPoint).              *)
LEMMA GapsAddFacts ==
  ASSUME NEW g \in GapsType, GapsSound(g), NEW x \in Int
  PROVE  /\ GapsAdd(g, x) \in GapsType /\ GapsSound(GapsAdd(g, x))
         /\ GapsAdd(g, x).n = g.n + 1 /\ GapsAdd(g, x).sum = g.sum + x
         /\ GapsAdd(g, x).squares = g.squares + x * x
<1>1. g.n \in Nat /\ g.sum \in Int /\ g.squares \in Nat
  BY DEF GapsType
<1>2. x * x \in Nat
  BY SquareIsNatural
<1> DEFINE h == GapsAdd(g, x)
<1>3. h.n = g.n + 1 /\ h.sum = g.sum + x /\ h.squares = g.squares + x * x
      /\ h = [n |-> g.n + 1, sum |-> g.sum + x, squares |-> g.squares + x * x]
  BY DEF GapsAdd
<1>4. (g.n = 0 => g.sum = 0 /\ g.squares = 0) /\ g.n * g.squares - g.sum * g.sum >= 0
  BY DEF GapsSound, Spread
<1>5. (g.n + 1) * (g.squares + x * x) - (g.sum + x) * (g.sum + x) >= 0
  BY <1>1, <1>4, OneMoreGap
<1>6. h \in GapsType
  BY <1>1, <1>2, <1>3 DEF GapsType
<1> HIDE DEF h
<1>7. GapsSound(h)
  BY <1>1, <1>3, <1>5 DEF GapsSound, Spread
<1> QED
  BY <1>3, <1>6, <1>7 DEF h

(* A point is counted, as answered or as lost.                             *)
LEMMA StatsAddFacts ==
  ASSUME NEW s \in StatsType, NEW p \in PointType
  PROVE  /\ StatsAdd(s, p) \in StatsType
         /\ StatsAdd(s, p).good + StatsAdd(s, p).dropped = s.good + s.dropped + 1
<1>1. /\ s.min \in Nat /\ s.max \in Nat /\ s.sum \in Nat /\ s.good \in Nat
      /\ s.dropped \in Nat /\ p.duration \in Nat
  BY DEF StatsType, PointType
<1>2. /\ MinOf(s.min, p.duration) \in Nat /\ MaxOf(s.max, p.duration) \in Nat
      /\ s.sum + p.duration \in Nat /\ s.good + 1 \in Nat /\ s.dropped + 1 \in Nat
  BY <1>1 DEF MinOf, MaxOf
<1>3. StatsAdd(s, p) \in StatsType
  BY <1>1, <1>2 DEF StatsAdd, StatsType
<1>4. CASE p.dropped
  <2>1. StatsAdd(s, p).good = s.good /\ StatsAdd(s, p).dropped = s.dropped + 1
    BY <1>4 DEF StatsAdd, StatsType
  <2> QED
    BY <1>1, <1>3, <2>1
<1>5. CASE ~p.dropped
  <2>1. StatsAdd(s, p).good = s.good + 1 /\ StatsAdd(s, p).dropped = s.dropped
    BY <1>5 DEF StatsAdd, StatsType
  <2> QED
    BY <1>1, <1>3, <2>1
<1> QED
  BY <1>4, <1>5

(* The time span with one more time holds it and what it held, and its     *)
(* ends are old ends or the new time.                                      *)
LEMMA SpanAddFacts ==
  ASSUME NEW span \in TimeSpan, span.begin <= span.end, NEW t \in Nat
  PROVE  LET new == SpanAdd(span, t)
         IN  /\ new \in TimeSpan /\ new.begin <= new.end
             /\ SpanContains(new, t)
             /\ \A u \in Int : SpanContains(span, u) => SpanContains(new, u)
             /\ new.begin \in {span.begin, t} /\ new.end \in {span.end, t}
             /\ new.duration = new.end - new.begin
<1> DEFINE b == MinOf(span.begin, t)
           e == MaxOf(span.end, t)
           new == SpanAdd(span, t)
<1>1. span.begin \in Int /\ span.end \in Int
  BY DEF TimeSpan
<1>2. /\ b \in Int /\ e \in Int /\ b <= t /\ b <= span.begin /\ t <= e /\ span.end <= e
      /\ b \in {span.begin, t} /\ e \in {span.end, t}
  BY <1>1 DEF MinOf, MaxOf
<1>3. new = [begin |-> b, end |-> e, duration |-> e - b]
  BY DEF SpanAdd
<1> HIDE DEF b, e, new
<1>4. new.begin = b /\ new.end = e /\ new.duration = e - b /\ e - b \in Nat
  BY <1>2, <1>3
<1>5. new \in TimeSpan
  BY <1>2, <1>3, <1>4 DEF TimeSpan
<1>6. new.begin <= new.end
  BY <1>2, <1>4
<1>7. SpanContains(new, t) /\ \A u \in Int : SpanContains(span, u) => SpanContains(new, u)
  BY <1>1, <1>2, <1>4 DEF SpanContains
<1> QED
  BY <1>2, <1>4, <1>5, <1>6, <1>7 DEF new
-----------------------------------------------------------------------------
(* What a span and the spans say of the points                             *)

(* Statistics are those of the points from a to b: none is good, or the    *)
(* best and the worst round trip are those of good ones.                   *)
Summary(st, ps, a, b) ==
  IF st.good = 0 THEN \A i \in a .. b : ps[i].dropped
  ELSE /\ \E i \in a .. b : ~ps[i].dropped /\ ps[i].duration = st.min
       /\ \E i \in a .. b : ~ps[i].dropped /\ ps[i].duration = st.max
       /\ \A i \in a .. b :
            ~ps[i].dropped => st.min <= ps[i].duration /\ ps[i].duration <= st.max

(* They are those of the same points elsewhere.                            *)
LEMMA SummaryStill ==
  ASSUME NEW st, NEW ps, NEW qs, NEW a, NEW b, \A i \in a .. b : qs[i] = ps[i],
         Summary(st, ps, a, b)
  PROVE  Summary(st, qs, a, b)
BY DEF Summary

(* They go on to be when another point is counted.                         *)
LEMMA SummaryOfMore ==
  ASSUME NEW st \in StatsType, NEW ps, NEW qs, NEW a \in Nat, NEW b \in Nat, a <= b + 1,
         \A i \in a .. b : qs[i] = ps[i] /\ ps[i] \in PointType, qs[b + 1] \in PointType,
         Summary(st, ps, a, b)
  PROVE  Summary(StatsAdd(st, qs[b + 1]), qs, a, b + 1)
<1> DEFINE p == qs[b + 1]
           new == StatsAdd(st, p)
<1>1. /\ st.min \in Nat /\ st.max \in Nat /\ st.good \in Nat
      /\ p.duration \in Nat /\ p.dropped \in BOOLEAN
  BY DEF StatsType, PointType
<1>2. /\ \A i \in a .. b + 1 : i = b + 1 \/ (i \in a .. b /\ i # b + 1)
      /\ b + 1 \in a .. b + 1 /\ \A i \in a .. b : i \in a .. b + 1
  OBVIOUS
<1>3. Summary(st, qs, a, b)
  BY SummaryStill
<1>4. CASE p.dropped
  <2>1. new.min = st.min /\ new.max = st.max /\ new.good = st.good
    BY <1>4 DEF StatsAdd, StatsType
  <2> HIDE DEF new
  <2> QED
    BY <1>2, <1>3, <1>4, <2>1 DEF Summary, new
<1>5. CASE ~p.dropped
  <2>1. /\ new.good = st.good + 1
        /\ new.min = (IF st.good = 0 THEN p.duration ELSE MinOf(st.min, p.duration))
        /\ new.max = (IF st.good = 0 THEN p.duration ELSE MaxOf(st.max, p.duration))
    BY <1>5 DEF StatsAdd, StatsType
  <2> HIDE DEF new
  <2>2. new.good # 0
    BY <1>1, <2>1
  <2>3. CASE st.good = 0
    <3>1. \A i \in a .. b + 1 : ~qs[i].dropped => i = b + 1
      BY <1>2, <1>3, <2>3 DEF Summary
    <3>2. new.min = p.duration /\ new.max = p.duration
      BY <2>1, <2>3
    <3>3. p.duration <= p.duration
      BY <1>1
    <3> QED
      BY <1>2, <1>5, <2>2, <3>1, <3>2, <3>3 DEF Summary, new
  <2>4. CASE st.good # 0
    <3>1. /\ \E i \in a .. b : ~qs[i].dropped /\ qs[i].duration = st.min
          /\ \E i \in a .. b : ~qs[i].dropped /\ qs[i].duration = st.max
          /\ \A i \in a .. b :
               ~qs[i].dropped => st.min <= qs[i].duration /\ qs[i].duration <= st.max
      BY <1>3, <2>4 DEF Summary
    <3>2. /\ new.min \in {st.min, p.duration} /\ new.min <= st.min /\ new.min <= p.duration
          /\ new.max \in {st.max, p.duration} /\ st.max <= new.max /\ p.duration <= new.max
      BY <1>1, <2>1, <2>4 DEF MinOf, MaxOf
    <3>3. new.min \in Int /\ new.max \in Int
      BY <1>1, <3>2
    <3>4. \E i \in a .. b + 1 : ~qs[i].dropped /\ qs[i].duration = new.min
      BY <1>2, <1>5, <3>1, <3>2
    <3>5. \E i \in a .. b + 1 : ~qs[i].dropped /\ qs[i].duration = new.max
      BY <1>2, <1>5, <3>1, <3>2
    <3>6. ASSUME NEW i \in a .. b + 1, ~qs[i].dropped
          PROVE  new.min <= qs[i].duration /\ qs[i].duration <= new.max
      <4>1. CASE i = b + 1
        BY <3>2, <4>1
      <4>2. CASE i \in a .. b
        <5>1. st.min <= qs[i].duration /\ qs[i].duration <= st.max
          BY <3>1, <3>6, <4>2
        <5>2. qs[i].duration \in Int
          BY <4>2 DEF PointType
        <5> HIDE DEF p
        <5> QED
          BY <1>1, <3>2, <3>3, <5>1, <5>2
      <4> QED
        BY <1>2, <4>1, <4>2
    <3> QED
      BY <2>2, <3>4, <3>5, <3>6 DEF Summary, new
  <2> QED
    BY <2>3, <2>4
<1> QED
  BY <1>4, <1>5

(* A span describes the points from its start to its end.                  *)
Describes(ps, s) ==
  /\ s.start <= s.end /\ s.end < Len(ps)
  /\ s.count = s.end - s.start + 1
  /\ s.last = ps[s.end + 1].time
  /\ s.gaps.n = s.count - 1 /\ s.gaps.sum = s.last - ps[s.start + 1].time
  /\ s.stats.good + s.stats.dropped = s.count
  /\ s.time.begin <= s.time.end
  /\ \E i \in s.start + 1 .. s.end + 1 : ps[i].time = s.time.begin
  /\ \E i \in s.start + 1 .. s.end + 1 : ps[i].time = s.time.end
  /\ \A i \in s.start + 1 .. s.end + 1 : SpanContains(s.time, ps[i].time)
  /\ s.time.duration = s.time.end - s.time.begin
  /\ Summary(s.stats, ps, s.start + 1, s.end + 1)

(* It goes on to do so when another point is added after them.             *)
LEMMA DescribesStill ==
  ASSUME NEW ps \in Seq(PointType), NEW p \in PointType, NEW s \in SpanType, Describes(ps, s)
  PROVE  Describes(Append(ps, p), s)
<1>1. s.start \in Nat /\ s.end \in Nat /\ Len(ps) \in Nat
  BY DEF SpanType
<1>2. Len(Append(ps, p)) = Len(ps) + 1 /\ \A i \in 1 .. Len(ps) : Append(ps, p)[i] = ps[i]
  OBVIOUS
<1>3. s.start <= s.end /\ s.end < Len(ps)
  BY DEF Describes
<1>4. \A i \in s.start + 1 .. s.end + 1 : Append(ps, p)[i] = ps[i]
  BY <1>1, <1>2, <1>3
<1>5. s.start + 1 \in s.start + 1 .. s.end + 1 /\ s.end + 1 \in s.start + 1 .. s.end + 1
  BY <1>1, <1>3
<1>6. s.end < Len(ps) + 1
  BY <1>1, <1>3
<1>7. Append(ps, p)[s.start + 1] = ps[s.start + 1] /\ Append(ps, p)[s.end + 1] = ps[s.end + 1]
  BY <1>4, <1>5
<1>8. Summary(s.stats, Append(ps, p), s.start + 1, s.end + 1)
  BY <1>4, SummaryStill DEF Describes
<1> QED
  BY <1>2, <1>4, <1>6, <1>7, <1>8 DEF Describes

(* A new span with its first point.                                        *)
LEMMA FirstPoint ==
  ASSUME NEW ps \in Seq(PointType), NEW p \in PointType
  PROVE  LET s == AddFirstPoint(NewSpanInfo, p, Len(ps))
         IN  /\ s \in SpanType /\ Describes(Append(ps, p), s)
             /\ s.start = Len(ps) /\ s.end = Len(ps) /\ s.gaps = NoGaps
<1> DEFINE s == AddFirstPoint(NewSpanInfo, p, Len(ps))
           q == Append(ps, p)
<1>1. Len(ps) \in Nat /\ Len(q) = Len(ps) + 1 /\ q[Len(ps) + 1] = p /\ p.time \in Nat
  BY DEF PointType
<1>2. s = [gaps |-> NoGaps, stats |-> StatsAdd(NoStats, p), time |-> SpanFrom(p.time),
           last |-> p.time, count |-> 0 + 1, start |-> Len(ps), end |-> Len(ps)]
  <2> DEFINE stats == StatsAdd(NoStats, p)
             time == SpanFrom(p.time)
  <2>1. NewSpanInfo.stats = NoStats /\ NewSpanInfo.count = 0
    BY DEF NewSpanInfo
  <2>2. s = [NewSpanInfo EXCEPT !.time = time, !.stats = stats, !.last = p.time,
                                !.count = 0 + 1, !.start = Len(ps), !.end = Len(ps)]
    BY <2>1 DEF AddFirstPoint
  <2> HIDE DEF stats, time, s
  <2>3. s = [gaps |-> NoGaps, stats |-> stats, time |-> time,
             last |-> p.time, count |-> 0 + 1, start |-> Len(ps), end |-> Len(ps)]
    BY <2>2 DEF NewSpanInfo
  <2> QED
    BY <2>3 DEF stats, time
<1>3. NoStats \in StatsType /\ NoGaps \in GapsType /\ NoStats.good = 0 /\ NoStats.dropped = 0
      /\ NoGaps.n = 0 /\ NoGaps.sum = 0
  BY DEF NoStats, NoGaps, StatsType, GapsType
<1>4. StatsAdd(NoStats, p) \in StatsType
      /\ StatsAdd(NoStats, p).good + StatsAdd(NoStats, p).dropped = 1
  BY <1>3, StatsAddFacts
<1>5. /\ SpanFrom(p.time) \in TimeSpan
      /\ SpanFrom(p.time).begin = p.time /\ SpanFrom(p.time).end = p.time
      /\ SpanFrom(p.time).duration = SpanFrom(p.time).end - SpanFrom(p.time).begin
  BY <1>1 DEF SpanFrom, TimeSpan
<1> DEFINE stats == StatsAdd(NoStats, p)
           time == SpanFrom(p.time)
<1>6. s = [gaps |-> NoGaps, stats |-> stats, time |-> time,
           last |-> p.time, count |-> 0 + 1, start |-> Len(ps), end |-> Len(ps)]
  BY <1>2
<1> HIDE DEF s, q, stats, time
<1>7. /\ s.gaps = NoGaps /\ s.stats = stats /\ s.time = time /\ s.last = p.time
      /\ s.count = 1 /\ s.start = Len(ps) /\ s.end = Len(ps)
  BY <1>6
<1>8. s \in SpanType
  BY <1>1, <1>3, <1>4, <1>5, <1>6 DEF SpanType, stats, time
<1>9. Describes(q, s)
  <2>1. /\ \A i \in s.start + 1 .. s.end + 1 : i = Len(ps) + 1
        /\ Len(ps) + 1 \in s.start + 1 .. s.end + 1
    BY <1>1, <1>7
  <2>2. s.time.begin = p.time /\ s.time.end = p.time
    BY <1>5, <1>7 DEF time
  <2>3. \A i \in s.start + 1 .. s.end + 1 : SpanContains(s.time, q[i].time)
    BY <1>1, <2>1, <2>2 DEF SpanContains
  <2>4. s.stats.good + s.stats.dropped = 1
    BY <1>4, <1>7 DEF stats
  <2>5. q[s.start + 1] = p /\ q[s.end + 1] = p
    BY <1>1, <1>7
  <2>6. /\ s.start <= s.end /\ s.end < Len(q) /\ s.count = s.end - s.start + 1
        /\ s.gaps.n = s.count - 1 /\ s.gaps.sum = p.time - p.time
    BY <1>1, <1>3, <1>7
  <2>7. s.time.duration = s.time.end - s.time.begin
    BY <1>5, <1>7 DEF time
  <2>8. Summary(s.stats, q, s.start + 1, s.end + 1)
    <3>1. Len(ps) + 1 <= Len(ps) + 1 /\ \A i \in Len(ps) + 1 .. Len(ps) : FALSE
      BY <1>1
    <3>2. Summary(NoStats, q, Len(ps) + 1, Len(ps))
      BY <1>3, <3>1 DEF Summary
    <3> DEFINE b == Len(ps)
               a == Len(ps) + 1
    <3>3. /\ a \in Nat /\ b \in Nat /\ a <= b + 1 /\ Summary(NoStats, q, a, b)
          /\ \A i \in a .. b : q[i] = q[i] /\ q[i] \in PointType
          /\ q[b + 1] \in PointType /\ b + 1 = a /\ q[b + 1] = p
      BY <1>1, <3>1, <3>2
    <3>4. /\ s.stats = StatsAdd(NoStats, p) /\ s.start + 1 = a /\ s.end + 1 = a
      BY <1>7 DEF stats
    <3> HIDE DEF a, b
    <3>5. Summary(StatsAdd(NoStats, q[b + 1]), q, a, b + 1)
      BY <1>3, <3>3, SummaryOfMore
    <3> QED
      BY <3>3, <3>4, <3>5
  <2> QED
    BY <1>1, <1>7, <2>1, <2>2, <2>3, <2>4, <2>5, <2>6, <2>7, <2>8 DEF Describes
<1> QED
  BY <1>7, <1>8, <1>9 DEF s, q

(* A span that is the last, with one point more.                           *)
LEMMA OneMorePoint ==
  ASSUME NEW ps \in Seq(PointType), NEW p \in PointType, NEW s \in SpanType,
         Describes(ps, s), s.end = Len(ps) - 1, GapsSound(s.gaps)
  PROVE  LET t == SpanGrow(s, p, Len(ps))
         IN  /\ t \in SpanType /\ Describes(Append(ps, p), t)
             /\ t.start = s.start /\ t.end = Len(ps)
             /\ t.gaps = GapsAdd(s.gaps, p.time - s.last)
             /\ GapsSound(t.gaps)
<1> DEFINE q == Append(ps, p)
           gaps == GapsAdd(s.gaps, p.time - s.last)
           stats == StatsAdd(s.stats, p)
           time == SpanAdd(s.time, p.time)
           t == SpanGrow(s, p, Len(ps))
<1>1. Len(ps) \in Nat /\ Len(q) = Len(ps) + 1 /\ q[Len(ps) + 1] = p /\ p.time \in Nat
      /\ \A i \in 1 .. Len(ps) : q[i] = ps[i]
  BY DEF PointType
<1>2. /\ s.gaps \in GapsType /\ s.stats \in StatsType /\ s.time \in TimeSpan /\ s.last \in Nat
      /\ s.count \in Nat /\ s.start \in Nat /\ s.end \in Nat
      /\ s = [gaps |-> s.gaps, stats |-> s.stats, time |-> s.time, last |-> s.last,
              count |-> s.count, start |-> s.start, end |-> s.end]
  BY DEF SpanType
<1>3. t = [gaps |-> gaps, stats |-> stats, time |-> time, last |-> p.time,
           count |-> s.count + 1, start |-> s.start, end |-> Len(ps)]
  <2>1. t = [s EXCEPT !.gaps = gaps, !.stats = stats, !.time = time, !.last = p.time,
                      !.count = s.count + 1, !.end = Len(ps)]
    BY DEF SpanGrow
  <2> HIDE DEF gaps, stats, time, t
  <2> QED
    BY <1>2, <2>1
<1>4. p.time - s.last \in Int
  BY <1>1, <1>2
<1>5. /\ gaps \in GapsType /\ GapsSound(gaps)
      /\ gaps.n = s.gaps.n + 1 /\ gaps.sum = s.gaps.sum + (p.time - s.last)
  BY <1>2, <1>4, GapsAddFacts
<1>6. stats \in StatsType /\ stats.good + stats.dropped = s.stats.good + s.stats.dropped + 1
  BY <1>2, StatsAddFacts
<1>7. /\ time \in TimeSpan /\ time.begin <= time.end /\ SpanContains(time, p.time)
      /\ \A u \in Int : SpanContains(s.time, u) => SpanContains(time, u)
      /\ time.begin \in {s.time.begin, p.time} /\ time.end \in {s.time.end, p.time}
      /\ time.duration = time.end - time.begin
  BY <1>1, <1>2, SpanAddFacts DEF Describes
<1> HIDE DEF q, gaps, stats, time, t
<1>8. /\ t.gaps = gaps /\ t.stats = stats /\ t.time = time /\ t.last = p.time
      /\ t.count = s.count + 1 /\ t.start = s.start /\ t.end = Len(ps)
  BY <1>3
<1>9. t \in SpanType
  <2>1. s.count + 1 \in Nat
    BY <1>2
  <2> QED
    BY <1>1, <1>2, <1>3, <1>5, <1>6, <1>7, <2>1 DEF SpanType
<1>10. Describes(q, t)
  <2>1. /\ s.start <= s.end /\ s.count = s.end - s.start + 1
        /\ s.last = ps[s.end + 1].time
        /\ s.gaps.n = s.count - 1 /\ s.gaps.sum = s.last - ps[s.start + 1].time
        /\ s.stats.good + s.stats.dropped = s.count
    BY DEF Describes
  <2>2. /\ \A i \in t.start + 1 .. t.end + 1 :
             i = Len(ps) + 1 \/ (i \in s.start + 1 .. s.end + 1 /\ q[i] = ps[i] /\ ps[i] \in PointType)
        /\ \A i \in s.start + 1 .. s.end + 1 : i \in t.start + 1 .. t.end + 1 /\ q[i] = ps[i]
        /\ Len(ps) + 1 \in t.start + 1 .. t.end + 1
    BY <1>1, <1>2, <1>8, <2>1
  <2>3. \A i \in t.start + 1 .. t.end + 1 : SpanContains(t.time, q[i].time)
    <3> TAKE i \in t.start + 1 .. t.end + 1
    <3>1. CASE i = Len(ps) + 1
      BY <1>1, <1>7, <1>8, <3>1
    <3>2. CASE i \in s.start + 1 .. s.end + 1 /\ q[i] = ps[i] /\ ps[i] \in PointType
      <4>1. SpanContains(s.time, ps[i].time) /\ ps[i].time \in Int
        BY <3>2 DEF Describes, PointType
      <4> QED
        BY <1>7, <1>8, <3>2, <4>1
    <3> QED
      BY <2>2, <3>1, <3>2
  <2>4. \E i \in t.start + 1 .. t.end + 1 : q[i].time = t.time.begin
    <3>1. PICK i \in s.start + 1 .. s.end + 1 : ps[i].time = s.time.begin
      BY DEF Describes
    <3> QED
      BY <1>1, <1>7, <1>8, <2>2, <3>1
  <2>5. \E i \in t.start + 1 .. t.end + 1 : q[i].time = t.time.end
    <3>1. PICK i \in s.start + 1 .. s.end + 1 : ps[i].time = s.time.end
      BY DEF Describes
    <3> QED
      BY <1>1, <1>7, <1>8, <2>2, <3>1
  <2>6. t.start <= t.end /\ t.end < Len(q) /\ t.count = t.end - t.start + 1
    BY <1>1, <1>2, <1>8, <2>1
  <2>7. t.last = q[t.end + 1].time
    BY <1>1, <1>8
  <2>8. t.gaps.n = t.count - 1 /\ t.stats.good + t.stats.dropped = t.count
    BY <1>2, <1>5, <1>6, <1>8, <2>1 DEF GapsType
  <2>9. t.gaps.sum = t.last - q[t.start + 1].time
    <3>1. s.start + 1 \in 1 .. Len(ps)
      BY <1>1, <1>2, <2>1
    <3>2. q[t.start + 1] = ps[s.start + 1] /\ ps[s.start + 1].time \in Nat
      <4>1. ps[s.start + 1] \in PointType
        BY <3>1
      <4> QED
        BY <1>1, <1>8, <3>1, <4>1 DEF PointType
    <3>3. gaps.sum = (s.last - ps[s.start + 1].time) + (p.time - s.last)
      BY <1>5, <2>1
    <3> QED
      BY <1>1, <1>2, <1>8, <3>2, <3>3
  <2>10. t.time.begin <= t.time.end
    BY <1>7, <1>8
  <2>11. t.time.duration = t.time.end - t.time.begin
    BY <1>7, <1>8
  <2>12. Summary(t.stats, q, t.start + 1, t.end + 1)
    <3>1. s.end + 1 = Len(ps) /\ s.start + 1 <= Len(ps) + 1 /\ s.start + 1 \in Nat
      BY <1>1, <1>2, <2>1
    <3>2. \A i \in s.start + 1 .. Len(ps) : q[i] = ps[i] /\ ps[i] \in PointType
      BY <1>1, <1>2, <2>1
    <3>3. Summary(s.stats, ps, s.start + 1, Len(ps))
      BY <3>1 DEF Describes
    <3>4. Summary(StatsAdd(s.stats, q[Len(ps) + 1]), q, s.start + 1, Len(ps) + 1)
      BY <1>1, <1>2, <3>1, <3>2, <3>3, SummaryOfMore
    <3> QED
      BY <1>1, <1>8, <3>4 DEF stats
  <2> QED
    BY <2>3, <2>4, <2>5, <2>6, <2>7, <2>8, <2>9, <2>10, <2>11, <2>12 DEF Describes
<1> QED
  BY <1>5, <1>8, <1>9, <1>10 DEF q, t, gaps
-----------------------------------------------------------------------------
(* The invariant of the points and their spans                             *)

(* The spans lie end to end over all the points, and each describes its    *)
(* own.  Without a point there is one span, as NewGraphData makes it.      *)
Tiled(ps, s) ==
  /\ s \in Seq(SpanType) /\ Len(s) >= 1
  /\ \A i \in 1 .. Len(s) : GapsSound(s[i].gaps)
  /\ ps = <<>> => s = <<NewSpanInfo>>
  /\ ps # <<>> =>
       /\ s[1].start = 0 /\ s[Len(s)].end = Len(ps) - 1
       /\ \A i \in 1 .. Len(s) - 1 : s[i].end + 1 = s[i + 1].start
       /\ \A i \in 1 .. Len(s) : Describes(ps, s[i])

(* Points at equal intervals, and the one span that they have: its         *)
(* deviation is none.                                                      *)
Gap(ps, i) == ps[i + 1].time - ps[i].time
Steady(ps) == \A i \in 1 .. Len(ps) - 1 : Gap(ps, i) >= 0 /\ Gap(ps, i) = Gap(ps, 1)
Uniform(g, x) == g.sum = g.n * x /\ g.squares = g.n * (x * x)
Together(ps, s) ==
  Steady(ps) => Len(s) = 1 /\ (Len(ps) >= 2 => Uniform(s[1].gaps, Gap(ps, 1)))

SpansInv(ps, s) == Tiled(ps, s) /\ Together(ps, s)

(* The one element of a sequence is replaced.                              *)
LEMMA ReplaceTheOne ==
  \A T : \A s \in Seq(T), e \in T : Len(s) = 1 => [s EXCEPT ![1] = e] \in Seq(T)
OBVIOUS

(* A span of no points has no gaps.                                        *)
LEMMA NewSpanType == NewSpanInfo \in SpanType /\ GapsSound(NewSpanInfo.gaps)
BY DEF NewSpanInfo, NoGaps, NoStats, SpanFrom, SpanType, GapsType, StatsType, TimeSpan,
       GapsSound, Spread

(* Nothing yet.                                                            *)
LEMMA NoPointsTiled == SpansInv(<<>>, <<NewSpanInfo>>)
<1>1. <<NewSpanInfo>> \in Seq(SpanType) /\ Len(<<NewSpanInfo>>) = 1
      /\ <<NewSpanInfo>>[1] = NewSpanInfo
  BY NewSpanType
<1>2. Tiled(<<>>, <<NewSpanInfo>>)
  BY <1>1, NewSpanType DEF Tiled
<1> QED
  BY <1>1, <1>2 DEF SpansInv, Together

(* A gap that is no outlier does not open a span: with equal gaps none is. *)
LEMMA EqualGapIsNotTooBig ==
  ASSUME NEW s \in SpanType, NEW p \in PointType, NEW x \in Nat, p.time - s.last = x,
         s.gaps.n = s.count - 1, s.count >= 2, Uniform(s.gaps, x)
  PROVE  ~TooBig(s, p)
<1> DEFINE n == s.gaps.n
<1>1. n \in Nat /\ n >= 1 /\ s.count \in Nat /\ s.count = n + 1
  BY DEF SpanType, GapsType
<1>2. s.gaps.sum = n * x /\ s.gaps.squares = n * (x * x)
  BY DEF Uniform
<1> HIDE DEF n
<1>3. n * (n * (x * x)) - (n * x) * (n * x) = 0
  BY <1>1
<1>4. Spread(s.gaps) = 0
  BY <1>2, <1>3 DEF Spread, n
<1>5. n * x \in Nat
  BY <1>1
<1>6. ~(n * x > 2 * (n * x))
  BY <1>5
<1>7. s.count = 2 => ~(x > 7 * (n * x))
  BY <1>1
<1>8. s.gaps.sum = n * x
  BY <1>2
<1>9. TooBig(s, p) =>
        \/ s.count = 2 /\ x > 7 * s.gaps.sum
        \/ n * x > 2 * s.gaps.sum
        \/ Spread(s.gaps) > 0
  BY DEF TooBig, n
<1> QED
  BY <1>2, <1>4, <1>6, <1>7, <1>8, <1>9

(* Equal gaps and one more of the same.                                    *)
LEMMA UniformStill ==
  ASSUME NEW g \in GapsType, NEW x \in Int, Uniform(g, x)
  PROVE  Uniform(GapsAdd(g, x), x)
<1> DEFINE n == g.n
<1>1. n \in Nat /\ g.sum = n * x /\ g.squares = n * (x * x)
  BY DEF GapsType, Uniform
<1> HIDE DEF n
<1>2. n * x + x = (n + 1) * x /\ n * (x * x) + x * x = (n + 1) * (x * x)
  BY <1>1
<1>3. GapsAdd(g, x).n = n + 1 /\ GapsAdd(g, x).sum = n * x + x
      /\ GapsAdd(g, x).squares = n * (x * x) + x * x
  BY <1>1 DEF GapsAdd, n
<1> QED
  BY <1>2, <1>3 DEF Uniform

(* What a point more does to a sequence that is steady.                    *)
LEMMA SteadyFacts ==
  ASSUME NEW ps \in Seq(PointType), NEW p \in PointType, ps # <<>>, Steady(Append(ps, p))
  PROVE  /\ Steady(ps)
         /\ p.time - ps[Len(ps)].time = Gap(Append(ps, p), 1)
         /\ Gap(Append(ps, p), 1) \in Nat
         /\ Len(ps) >= 2 => Gap(Append(ps, p), 1) = Gap(ps, 1)
<1> DEFINE q == Append(ps, p)
           n == Len(ps)
<1>1. n \in Nat /\ n >= 1 /\ Len(q) = n + 1 /\ q[n + 1] = p /\ \A i \in 1 .. n : q[i] = ps[i]
  OBVIOUS
<1>2. \A i \in 1 .. n : ps[i] \in PointType
  OBVIOUS
<1> HIDE DEF q, n
<1>3. Steady(q)
  BY DEF q
<1>4. \A i \in 1 .. n : Gap(q, i) >= 0 /\ Gap(q, i) = Gap(q, 1)
  BY <1>1, <1>3 DEF Steady
<1>5. \A i \in 1 .. n - 1 : Gap(q, i) = Gap(ps, i)
  BY <1>1 DEF Gap
<1>6. Gap(q, n) = p.time - ps[n].time
  BY <1>1 DEF Gap
<1>7. n \in 1 .. n /\ 1 \in 1 .. n
  BY <1>1
<1>8. p.time \in Nat /\ ps[n].time \in Nat
  BY <1>2, <1>7 DEF PointType
<1>9. Gap(q, 1) \in Nat
  <2>1. Gap(q, 1) = p.time - ps[n].time /\ Gap(q, 1) >= 0
    BY <1>4, <1>6, <1>7
  <2> QED
    BY <1>8, <2>1
<1>10. Steady(ps)
  <2> SUFFICES ASSUME NEW i \in 1 .. n - 1
               PROVE  Gap(ps, i) >= 0 /\ Gap(ps, i) = Gap(ps, 1)
    BY DEF Steady, n
  <2>1. i \in 1 .. n /\ 1 \in 1 .. n - 1
    BY <1>1
  <2> QED
    BY <1>4, <1>5, <2>1
<1>11. n >= 2 => Gap(q, 1) = Gap(ps, 1)
  <2>1. n >= 2 => 1 \in 1 .. n - 1
    BY <1>1
  <2> QED
    BY <1>5, <2>1
<1>12. Gap(q, 1) = p.time - ps[n].time
  BY <1>4, <1>6, <1>7
<1> QED
  BY <1>9, <1>10, <1>11, <1>12 DEF q, n

(* addPointToSpans keeps the invariant.                                    *)
LEMMA AddPointToSpansInv ==
  ASSUME NEW ps \in Seq(PointType), NEW p \in PointType, NEW s, SpansInv(ps, s)
  PROVE  SpansInv(Append(ps, p), AddPointToSpans(s, p, Len(ps)))
<1> DEFINE q == Append(ps, p)
           n == Len(s)
           span == s[n]
           first == AddFirstPoint(NewSpanInfo, p, Len(ps))
           grown == SpanGrow(span, p, Len(ps))
           new == AddPointToSpans(s, p, Len(ps))
<1>1. /\ s \in Seq(SpanType) /\ n \in Nat /\ n >= 1 /\ span \in SpanType /\ GapsSound(span.gaps)
      /\ Len(ps) \in Nat /\ q \in Seq(PointType) /\ q # <<>> /\ Len(q) = Len(ps) + 1
      /\ \A i \in 1 .. n : s[i] \in SpanType /\ GapsSound(s[i].gaps)
  BY DEF SpansInv, Tiled
<1>2. /\ first \in SpanType /\ Describes(q, first)
      /\ first.start = Len(ps) /\ first.end = Len(ps) /\ GapsSound(first.gaps)
  BY FirstPoint DEF GapsSound, Spread, NoGaps
<1> HIDE DEF first, q
<1>3. CASE ps = <<>>
  <2>1. s = <<NewSpanInfo>> /\ n = 1 /\ span = NewSpanInfo /\ NewSpanInfo.count = 0
    <3>1. s = <<NewSpanInfo>>
      BY <1>3 DEF SpansInv, Tiled
    <3>2. Len(<<NewSpanInfo>>) = 1 /\ <<NewSpanInfo>>[1] = NewSpanInfo
      OBVIOUS
    <3> QED
      BY <3>1, <3>2 DEF NewSpanInfo
  <2>2. new = [s EXCEPT ![1] = first]
    BY <2>1 DEF AddPointToSpans, first
  <2>3. new \in Seq(SpanType) /\ Len(new) = 1 /\ new[1] = first
    <3> HIDE DEF new, n, span
    <3>1. Len(s) = 1
      BY <2>1 DEF n
    <3>2. s \in Seq(SpanType) /\ first \in SpanType
      BY <1>1, <1>2
    <3>3. [s EXCEPT ![1] = first] \in Seq(SpanType)
      BY <3>1, <3>2, ReplaceTheOne
    <3>4. Len(new) = 1 /\ new[1] = first
      BY <2>2, <3>1, <3>2
    <3> QED
      BY <2>2, <3>3, <3>4, Zenon
  <2>4. Len(ps) = 0 /\ Len(q) = 1
    BY <1>1, <1>3
  <2> HIDE DEF new, n
  <2>5. Tiled(q, new)
    BY <1>1, <1>2, <2>3, <2>4 DEF Tiled
  <2>6. Together(q, new)
    BY <2>3, <2>4 DEF Together
  <2> QED
    BY <2>5, <2>6 DEF SpansInv, new, q
<1>4. CASE ps # <<>>
  <2>1. /\ s[1].start = 0 /\ span.end = Len(ps) - 1
        /\ \A i \in 1 .. n - 1 : s[i].end + 1 = s[i + 1].start
        /\ \A i \in 1 .. n : Describes(ps, s[i])
        /\ Describes(ps, span)
    BY <1>1, <1>4 DEF SpansInv, Tiled
  <2>2. \A i \in 1 .. n : Describes(q, s[i])
    BY <1>1, <2>1, DescribesStill DEF q
  <2>3. span.count \in Nat /\ span.start \in Nat /\ span.end \in Nat /\ span.count >= 1
    <3> HIDE DEF span
    <3>1. span.count \in Nat /\ span.start \in Nat /\ span.end \in Nat
      BY <1>1 DEF SpanType
    <3>2. span.start <= span.end /\ span.count = span.end - span.start + 1
      BY <2>1 DEF Describes
    <3> QED
      BY <3>1, <3>2
  <2>4. /\ grown \in SpanType /\ Describes(q, grown)
        /\ grown.start = span.start /\ grown.end = Len(ps)
        /\ grown.gaps = GapsAdd(span.gaps, p.time - span.last) /\ GapsSound(grown.gaps)
    BY <1>1, <2>1, OneMorePoint DEF q
  <2>5. new = IF TooBig(span, p) THEN Append(s, first) ELSE [s EXCEPT ![n] = grown]
    BY <2>3 DEF AddPointToSpans, first
  <2> HIDE DEF new, grown, n, span
  <2>6. CASE TooBig(span, p)
    <3>1. /\ new \in Seq(SpanType) /\ Len(new) = n + 1 /\ new[n + 1] = first
          /\ \A i \in 1 .. n : new[i] = s[i]
      BY <1>1, <1>2, <2>5, <2>6 DEF n
    <3>2. \A i \in 1 .. n + 1 : i \in 1 .. n \/ i = n + 1
      BY <1>1
    <3>3. \A i \in 1 .. Len(new) : GapsSound(new[i].gaps) /\ Describes(q, new[i])
      BY <1>1, <1>2, <2>2, <3>1, <3>2
    <3>4. new[1].start = 0 /\ new[Len(new)].end = Len(q) - 1
      BY <1>1, <1>2, <2>1, <3>1
    <3>5. \A i \in 1 .. Len(new) - 1 : new[i].end + 1 = new[i + 1].start
      <4> TAKE i \in 1 .. Len(new) - 1
      <4>1. CASE i = n
        BY <1>1, <1>2, <2>1, <3>1, <4>1 DEF span
      <4>2. CASE i # n
        <5>1. i \in 1 .. n - 1 /\ i \in 1 .. n /\ i + 1 \in 1 .. n
          BY <1>1, <3>1, <4>2
        <5> QED
          BY <2>1, <3>1, <5>1
      <4> QED
        BY <4>1, <4>2
    <3>6. Tiled(q, new)
      BY <1>1, <3>1, <3>3, <3>4, <3>5 DEF Tiled
    <3>7. ~Steady(q)
      <4> SUFFICES ASSUME Steady(q) PROVE FALSE
        OBVIOUS
      <4>1. /\ Steady(ps) /\ p.time - ps[Len(ps)].time = Gap(q, 1) /\ Gap(q, 1) \in Nat
            /\ Len(ps) >= 2 => Gap(q, 1) = Gap(ps, 1)
        BY <1>4, SteadyFacts DEF q
      <4>2. n = 1 /\ span = s[1] /\ (Len(ps) >= 2 => Uniform(span.gaps, Gap(ps, 1)))
        BY <4>1 DEF SpansInv, Together, n, span
      <4>3. /\ span.count = Len(ps) /\ span.gaps.n = span.count - 1
            /\ span.last = ps[Len(ps)].time
        BY <1>1, <2>1, <2>3, <4>2 DEF Describes
      <4>4. CASE span.count = 1
        BY <2>6, <4>4 DEF TooBig
      <4>5. CASE span.count >= 2
        BY <1>1, <2>6, <4>1, <4>2, <4>3, <4>5, EqualGapIsNotTooBig
      <4> QED
        BY <2>3, <4>4, <4>5
    <3> QED
      BY <3>6, <3>7 DEF SpansInv, Together, new, q
  <2>7. CASE ~TooBig(span, p)
    <3>1. /\ new \in Seq(SpanType) /\ Len(new) = n /\ new[n] = grown
          /\ \A i \in 1 .. n - 1 : new[i] = s[i]
      BY <1>1, <2>4, <2>5, <2>7 DEF n
    <3>2. \A i \in 1 .. n : i \in 1 .. n - 1 \/ i = n
      BY <1>1
    <3>3. \A i \in 1 .. Len(new) : GapsSound(new[i].gaps) /\ Describes(q, new[i])
      BY <1>1, <2>2, <2>4, <3>1, <3>2
    <3>4. \A i \in 1 .. n : new[i].start = s[i].start
      BY <2>4, <3>1, <3>2 DEF span
    <3>5. new[1].start = 0 /\ new[Len(new)].end = Len(q) - 1
      BY <1>1, <2>1, <2>4, <3>1, <3>4
    <3>6. \A i \in 1 .. Len(new) - 1 : new[i].end + 1 = new[i + 1].start
      <4> TAKE i \in 1 .. Len(new) - 1
      <4>1. i \in 1 .. n - 1 /\ i + 1 \in 1 .. n
        BY <1>1, <3>1
      <4> QED
        BY <2>1, <3>1, <3>4, <4>1
    <3>7. Tiled(q, new)
      BY <1>1, <3>1, <3>3, <3>5, <3>6 DEF Tiled
    <3>8. Together(q, new)
      <4> SUFFICES ASSUME Steady(q)
                   PROVE  Len(new) = 1 /\ Uniform(new[1].gaps, Gap(q, 1))
        BY DEF Together
      <4>1. /\ Steady(ps) /\ p.time - ps[Len(ps)].time = Gap(q, 1) /\ Gap(q, 1) \in Nat
            /\ Len(ps) >= 2 => Gap(q, 1) = Gap(ps, 1)
        BY <1>4, SteadyFacts DEF q
      <4>2. n = 1 /\ span = s[1] /\ (Len(ps) >= 2 => Uniform(span.gaps, Gap(ps, 1)))
        BY <4>1 DEF SpansInv, Together, n, span
      <4>3. /\ span.count = Len(ps) /\ span.gaps.n = span.count - 1
            /\ span.last = ps[Len(ps)].time
        BY <1>1, <2>1, <2>3, <4>2 DEF Describes
      <4>4. Uniform(span.gaps, Gap(q, 1))
        <5>1. CASE Len(ps) >= 2
          BY <4>1, <4>2, <5>1
        <5>2. CASE Len(ps) = 1
          <6>1. span.gaps.n = 0 /\ span.gaps.sum = 0 /\ span.gaps.squares = 0
            BY <1>1, <4>3, <5>2 DEF GapsSound
          <6> QED
            BY <4>1, <6>1, SquareIsNatural DEF Uniform
        <5>3. Len(ps) >= 2 \/ Len(ps) = 1
          <6>1. Len(ps) \in Nat
            BY <1>1
          <6>2. Len(ps) >= 1
            BY <2>3, <4>3
          <6>3. \A k \in Nat : k >= 1 => k >= 2 \/ k = 1
            OBVIOUS
          <6> QED
            BY <6>1, <6>2, <6>3, Zenon
        <5> QED
          BY <5>1, <5>2, <5>3
      <4>5. Uniform(grown.gaps, Gap(q, 1))
        BY <1>1, <2>4, <4>1, <4>3, <4>4, UniformStill DEF SpanType
      <4> QED
        BY <3>1, <4>2, <4>5
    <3> QED
      BY <3>7, <3>8 DEF SpansInv, new, q
  <2> QED
    BY <2>6, <2>7
<1> QED
  BY <1>3, <1>4
-----------------------------------------------------------------------------
(* The spans of the points of a file                                       *)

(* What NewGraphData's loop has after n points: it is defined by the       *)
(* function that SpansOf chooses, which exists because each of its values  *)
(* is given by the one before.                                             *)
LEMMA SpansOfSteps ==
  ASSUME NEW ps \in Seq(PointType)
  PROVE  \E f : /\ f[0] = <<NewSpanInfo>>
                /\ \A n \in 1 .. Len(ps) : f[n] = AddPointToSpans(f[n - 1], ps[n], n - 1)
                /\ SpansOf(ps) = f[Len(ps)]
<1> DEFINE value(f, n) == IF n = 0 THEN <<NewSpanInfo>>
                          ELSE AddPointToSpans(f[n - 1], ps[n], n - 1)
           Solves(f, n) == f = [m \in 0 .. n |-> value(f, m)]
           S == {n \in Nat : \E f : Solves(f, n)}
<1>1. 0 \in S
  <2> DEFINE f == [m \in 0 .. 0 |-> <<NewSpanInfo>>]
  <2>1. Solves(f, 0)
    <3>1. \A m \in 0 .. 0 : value(f, m) = <<NewSpanInfo>>
      OBVIOUS
    <3> QED
      BY <3>1
  <2> QED
    BY <2>1
<1>2. \A n \in Nat : n \in S => n + 1 \in S
  <2> SUFFICES ASSUME NEW n \in Nat, n \in S
               PROVE  n + 1 \in S
    OBVIOUS
  <2>1. PICK f : Solves(f, n)
    OBVIOUS
  <2> DEFINE next == AddPointToSpans(f[n], ps[n + 1], n)
             g == [m \in 0 .. n + 1 |-> IF m <= n THEN f[m] ELSE next]
  <2>2. ASSUME NEW m \in 0 .. n + 1
        PROVE  g[m] = value(g, m)
    <3>1. CASE m = 0
      <4>1. f[0] = <<NewSpanInfo>>
        BY <2>1
      <4> QED
        BY <3>1, <4>1
    <3>2. CASE m \in 1 .. n
      <4>1. m \in 0 .. n /\ m - 1 \in 0 .. n + 1 /\ m - 1 <= n /\ m # 0
        BY <3>2
      <4>2. f[m] = AddPointToSpans(f[m - 1], ps[m], m - 1)
        BY <2>1, <4>1
      <4>3. g[m] = f[m] /\ g[m - 1] = f[m - 1]
        BY <4>1
      <4> QED
        BY <4>1, <4>2, <4>3
    <3>3. CASE m = n + 1
      <4>1. g[m] = next /\ g[n] = f[n] /\ m - 1 = n /\ m # 0
        <5> HIDE DEF next
        <5> QED
          BY <3>3
      <4> QED
        BY <3>3, <4>1
    <3> QED
      BY <3>1, <3>2, <3>3
  <2>3. g = [m \in 0 .. n + 1 |-> g[m]]
    OBVIOUS
  <2>4. Solves(g, n + 1)
    <3> HIDE DEF g
    <3> QED
      BY <2>2, <2>3
  <2> HIDE DEF g, Solves
  <2> QED
    BY <2>4
<1>3. \E f : Solves(f, Len(ps))
  <2> HIDE DEF S
  <2>1. Nat \subseteq S
    BY <1>1, <1>2, NatInductionOnSets
  <2> QED
    BY <2>1 DEF S
<1> DEFINE upTo == CHOOSE f : Solves(f, Len(ps))
<1>4. Solves(upTo, Len(ps))
  <2> HIDE DEF Solves
  <2> QED
    BY <1>3
<1>5. SpansOf(ps) = upTo[Len(ps)]
  BY DEF SpansOf
<1> HIDE DEF upTo
<1>6. Len(ps) \in Nat
  OBVIOUS
<1>7. upTo[0] = <<NewSpanInfo>>
  BY <1>4, <1>6
<1>8. \A n \in 1 .. Len(ps) : upTo[n] = AddPointToSpans(upTo[n - 1], ps[n], n - 1)
  <2> TAKE n \in 1 .. Len(ps)
  <2>1. n \in 0 .. Len(ps) /\ n # 0
    BY <1>6
  <2> QED
    BY <1>4, <2>1
<1> QED
  BY <1>5, <1>7, <1>8

(* NewGraphData gives the points of a file what adding them one by one     *)
(* would have given them.                                                  *)
LEMMA SpansOfInv ==
  ASSUME NEW ps \in Seq(PointType)
  PROVE  SpansInv(ps, SpansOf(ps))
<1>1. PICK f : /\ f[0] = <<NewSpanInfo>>
               /\ \A n \in 1 .. Len(ps) : f[n] = AddPointToSpans(f[n - 1], ps[n], n - 1)
               /\ SpansOf(ps) = f[Len(ps)]
  BY SpansOfSteps
<1> DEFINE first(n) == SubSeq(ps, 1, n)
           T == {n \in Nat : n <= Len(ps) => SpansInv(first(n), f[n])}
<1>2. Len(ps) \in Nat /\ \A i \in 1 .. Len(ps) : ps[i] \in PointType
  OBVIOUS
<1>3. 0 \in T
  <2>1. first(0) = <<>>
    OBVIOUS
  <2> QED
    BY <1>1, <2>1, NoPointsTiled
<1>4. \A n \in Nat : n \in T => n + 1 \in T
  <2> SUFFICES ASSUME NEW n \in Nat, n \in T, n + 1 <= Len(ps)
               PROVE  SpansInv(first(n + 1), f[n + 1])
    OBVIOUS
  <2>1. SpansInv(first(n), f[n])
    BY <1>2
  <2>2. first(n) \in Seq(PointType) /\ Len(first(n)) = n
    BY <1>2
  <2>3. first(n + 1) = Append(first(n), ps[n + 1])
    BY <1>2
  <2>4. n + 1 \in 1 .. Len(ps) /\ (n + 1) - 1 = n /\ ps[n + 1] \in PointType
    BY <1>2
  <2>5. f[n + 1] = AddPointToSpans(f[n], ps[n + 1], n)
    BY <1>1, <2>4
  <2> HIDE DEF first, T
  <2>6. SpansInv(Append(first(n), ps[n + 1]), AddPointToSpans(f[n], ps[n + 1], Len(first(n))))
    BY <2>1, <2>2, <2>4, AddPointToSpansInv
  <2> QED
    BY <2>2, <2>3, <2>5, <2>6
<1>5. Len(ps) \in T
  <2> HIDE DEF T
  <2> QED
    BY <1>2, <1>3, <1>4, NatInductionOnSets
<1>6. first(Len(ps)) = ps
  BY <1>2
<1>7. SpansInv(first(Len(ps)), f[Len(ps)])
  BY <1>2, <1>5
<1> HIDE DEF first, T
<1> QED
  BY <1>1, <1>6, <1>7

-----------------------------------------------------------------------------
(* The invariant                                                           *)

GraphInv == points \in Seq(PointType) /\ Len(points) <= MaxPoints /\ SpansInv(points, spans)

(* The invariant at the start, over a point and over a restart.            *)
LEMMA GraphInductive == Spec => []GraphInv
<1>1. Init => GraphInv
  BY NoPointsTiled, SpansAssumption DEF Init, GraphInv
<1>2. GraphInv /\ [Next]_vars => GraphInv'
  <2> SUFFICES ASSUME GraphInv, [Next]_vars PROVE GraphInv'
    OBVIOUS
  <2>1. ASSUME NEW p \in NewPoints, AddPoint(p) PROVE GraphInv'
    <3>1. p \in PointType
      BY NewPointType
    <3>2. /\ Len(points) < MaxPoints /\ points' = Append(points, p)
          /\ spans' = AddPointToSpans(spans, p, Len(points))
      BY <2>1 DEF AddPoint
    <3>3. SpansInv(Append(points, p), AddPointToSpans(spans, p, Len(points)))
      BY <3>1, AddPointToSpansInv DEF GraphInv
    <3>4. SpansInv(points, spans)'
      BY <3>2, <3>3 DEF SpansInv, Tiled, Together
    <3>5. points' \in Seq(PointType) /\ Len(points') <= MaxPoints
      BY <3>1, <3>2, SpansAssumption DEF GraphInv
    <3> QED
      BY <3>4, <3>5 DEF GraphInv
  <2>2. CASE Reopen
    <3>1. points' = [i \in 1 .. Len(points) |-> Reread(points[i])] /\ spans' = SpansOf(points')
      BY <2>2 DEF Reopen
    <3>2. \A i \in 1 .. Len(points) : Reread(points[i]) \in PointType
      BY RereadType DEF GraphInv
    <3>3. points' \in Seq(PointType) /\ Len(points') = Len(points)
      BY <3>1, <3>2 DEF GraphInv
    <3>4. SpansInv(points', SpansOf(points'))
      BY <3>3, SpansOfInv
    <3>5. SpansInv(points, spans)'
      BY <3>1, <3>4 DEF SpansInv, Tiled, Together
    <3> QED
      BY <3>3, <3>5 DEF GraphInv
  <2>3. CASE UNCHANGED vars
    BY <2>3 DEF vars, GraphInv, SpansInv, Tiled, Together
  <2> QED
    BY <2>1, <2>2, <2>3 DEF Next
<1> QED
  BY <1>1, <1>2, PTL DEF Spec

(* The invariant has the types of the spans.                               *)
LEMMA GraphTypes == GraphInv => TypeOK
<1> SUFFICES ASSUME GraphInv PROVE TypeOK
  OBVIOUS
<1>1. spans \in Seq(SpanType) /\ Len(spans) >= 1 /\ \A i \in 1 .. Len(spans) : GapsSound(spans[i].gaps)
  BY DEF GraphInv, SpansInv, Tiled
<1>2. ASSUME NEW s \in Range(spans)
      PROVE  /\ s.count \in Nat /\ s.start \in Nat /\ s.end \in Nat /\ s.last \in Nat
             /\ s.gaps.n \in Nat /\ Spread(s.gaps) >= 0
             /\ s.time \in TimeSpan
  <2>1. s \in SpanType /\ GapsSound(s.gaps)
    BY <1>1 DEF Range
  <2> QED
    BY <2>1 DEF SpanType, GapsType, GapsSound
<1> QED
  BY <1>1, <1>2 DEF TypeOK, GraphInv

(* The part of a sequence between two indexes, 0-based as in the code.     *)
LEMMA WindowFacts ==
  ASSUME NEW ps \in Seq(PointType), NEW a \in Nat, NEW b \in Nat, a <= b, b < Len(ps)
  PROVE  /\ Len(SubSeq(ps, a + 1, b + 1)) = b - a + 1
         /\ \A k \in 1 .. Len(SubSeq(ps, a + 1, b + 1)) :
              SubSeq(ps, a + 1, b + 1)[k] = ps[a + k]
         /\ DOMAIN SubSeq(ps, a + 1, b + 1) = 1 .. Len(SubSeq(ps, a + 1, b + 1))
<1>1. Len(ps) \in Nat
  OBVIOUS
<1>2. Len(SubSeq(ps, a + 1, b + 1)) = b - a + 1
  BY <1>1
<1>3. DOMAIN SubSeq(ps, a + 1, b + 1) = 1 .. b - a + 1
  BY <1>1
<1>4. \A k \in 1 .. b - a + 1 : SubSeq(ps, a + 1, b + 1)[k] = ps[a + k]
  BY <1>1
<1> QED
  BY <1>2, <1>3, <1>4

(* The invariant has the tiling.                                           *)
LEMMA GraphTiles == GraphInv => SpansTile
<1> SUFFICES ASSUME GraphInv, points # <<>>
             PROVE  SpansTile
  BY DEF SpansTile, Drawn
<1>1. /\ spans \in Seq(SpanType) /\ Len(spans) >= 1 /\ points \in Seq(PointType)
      /\ spans[1].start = 0 /\ spans[Len(spans)].end = Len(points) - 1
      /\ \A i \in 1 .. Len(spans) - 1 : spans[i].end + 1 = spans[i + 1].start
      /\ \A i \in 1 .. Len(spans) : Describes(points, spans[i])
  BY DEF GraphInv, SpansInv, Tiled
<1>2. ASSUME NEW i \in 1 .. Len(spans)
      PROVE  LET s == spans[i]
                 own == SubSeq(points, s.start + 1, s.end + 1)
             IN  /\ s.count = Len(own) /\ s.last = own[Len(own)].time
                 /\ s.gaps.n = Len(own) - 1 /\ s.gaps.sum = s.last - own[1].time
                 /\ s.stats.good + s.stats.dropped = Len(own)
                 /\ {s.time.begin, s.time.end} \subseteq {q.time : q \in Range(own)}
                 /\ \A q \in Range(own) : SpanContains(s.time, q.time)
  <2> DEFINE s == spans[i]
             own == SubSeq(points, s.start + 1, s.end + 1)
  <2>1. s \in SpanType /\ Describes(points, s)
    BY <1>1
  <2> HIDE DEF s
  <2>2. s.start \in Nat /\ s.end \in Nat /\ s.start <= s.end /\ s.end < Len(points)
        /\ s.count = s.end - s.start + 1
    BY <2>1 DEF SpanType, Describes
  <2>3. /\ Len(own) = s.end - s.start + 1
        /\ \A k \in 1 .. Len(own) : own[k] = points[s.start + k]
        /\ DOMAIN own = 1 .. Len(own)
    <3> DEFINE a == s.start
               b == s.end
    <3>1. a \in Nat /\ b \in Nat /\ a <= b /\ b < Len(points)
      BY <2>2
    <3> HIDE DEF a, b
    <3>2. /\ Len(SubSeq(points, a + 1, b + 1)) = b - a + 1
          /\ \A k \in 1 .. Len(SubSeq(points, a + 1, b + 1)) :
               SubSeq(points, a + 1, b + 1)[k] = points[a + k]
          /\ DOMAIN SubSeq(points, a + 1, b + 1) = 1 .. Len(SubSeq(points, a + 1, b + 1))
      BY <1>1, <3>1, WindowFacts
    <3> QED
      BY <3>2 DEF a, b
  <2> HIDE DEF own
  <2>4. Len(own) = s.count /\ Len(own) \in Nat /\ Len(own) >= 1
    BY <2>2, <2>3
  <2>5. own[Len(own)] = points[s.end + 1] /\ own[1] = points[s.start + 1]
    BY <2>2, <2>3, <2>4
  <2>6. \A k \in s.start + 1 .. s.end + 1 : points[k] \in Range(own)
    <3> TAKE k \in s.start + 1 .. s.end + 1
    <3>1. k - s.start \in 1 .. Len(own) /\ s.start + (k - s.start) = k
      BY <2>2, <2>3
    <3>2. own[k - s.start] = points[k]
      BY <2>3, <3>1
    <3> QED
      BY <2>3, <3>1, <3>2 DEF Range
  <2>7. \A q \in Range(own) : \E k \in s.start + 1 .. s.end + 1 : q = points[k]
    <3> TAKE q \in Range(own)
    <3>1. PICK k \in 1 .. Len(own) : q = own[k]
      BY <2>3 DEF Range
    <3>2. s.start + k \in s.start + 1 .. s.end + 1 /\ q = points[s.start + k]
      BY <2>2, <2>3, <3>1
    <3> QED
      BY <3>2
  <2>8. \A q \in Range(own) : SpanContains(s.time, q.time)
    BY <2>1, <2>7 DEF Describes
  <2>9. s.time.begin \in {q.time : q \in Range(own)} /\ s.time.end \in {q.time : q \in Range(own)}
    BY <2>1, <2>6 DEF Describes
  <2>10. /\ s.last = points[s.end + 1].time
         /\ s.gaps.n = s.count - 1 /\ s.gaps.sum = s.last - points[s.start + 1].time
         /\ s.stats.good + s.stats.dropped = s.count
    BY <2>1 DEF Describes
  <2>11. /\ s.count = Len(own) /\ s.last = own[Len(own)].time
         /\ s.gaps.n = Len(own) - 1 /\ s.gaps.sum = s.last - own[1].time
         /\ s.stats.good + s.stats.dropped = Len(own)
         /\ {s.time.begin, s.time.end} \subseteq {q.time : q \in Range(own)}
         /\ \A q \in Range(own) : SpanContains(s.time, q.time)
    BY <2>4, <2>5, <2>8, <2>9, <2>10
  <2> QED
    BY <2>11 DEF s, own
<1> QED
  BY <1>1, <1>2 DEF SpansTile

(* The invariant has the one span of steady points.                        *)
LEMMA GraphSteady == GraphInv => SteadyIsOneSpan
BY DEF GraphInv, SpansInv, Together, Steady, Gap, SteadyIsOneSpan

-----------------------------------------------------------------------------
(* Sums                                                                    *)

(* The recursive function of SumTo exists, by induction on its domain, and *)
(* a longer one goes on from a shorter.                                    *)
LEMMA SumSteps ==
  ASSUME NEW f
  PROVE  SumTo(f, 0) = 0 /\ \A n \in Nat : SumTo(f, n + 1) = SumTo(f, n) + f[n + 1]
<1> DEFINE value(h, m) == IF m = 0 THEN 0 ELSE h[m - 1] + f[m]
           Solves(h, n) == h = [m \in 0 .. n |-> value(h, m)]
           S == {n \in Nat : \E h : Solves(h, n)}
           sum(n) == CHOOSE h : Solves(h, n)
<1>1. 0 \in S
  <2> DEFINE h == [m \in 0 .. 0 |-> 0]
  <2>1. Solves(h, 0)
    <3>1. \A m \in 0 .. 0 : value(h, m) = 0
      OBVIOUS
    <3> QED
      BY <3>1
  <2> QED
    BY <2>1
<1>2. \A n \in Nat : n \in S => n + 1 \in S
  <2> SUFFICES ASSUME NEW n \in Nat, n \in S
               PROVE  n + 1 \in S
    OBVIOUS
  <2>1. PICK h : Solves(h, n)
    OBVIOUS
  <2> DEFINE next == h[n] + f[n + 1]
             g == [m \in 0 .. n + 1 |-> IF m <= n THEN h[m] ELSE next]
  <2>2. ASSUME NEW m \in 0 .. n + 1
        PROVE  g[m] = value(g, m)
    <3>1. CASE m = 0
      <4>1. h[0] = 0
        BY <2>1
      <4> QED
        BY <3>1, <4>1
    <3>2. CASE m \in 1 .. n
      <4>1. m \in 0 .. n /\ m - 1 \in 0 .. n + 1 /\ m - 1 <= n /\ m # 0
        BY <3>2
      <4>2. h[m] = h[m - 1] + f[m]
        BY <2>1, <4>1
      <4>3. g[m] = h[m] /\ g[m - 1] = h[m - 1]
        BY <4>1
      <4> QED
        BY <4>1, <4>2, <4>3
    <3>3. CASE m = n + 1
      <4>1. g[m] = next /\ g[n] = h[n] /\ m - 1 = n /\ m # 0
        <5> HIDE DEF next
        <5> QED
          BY <3>3
      <4> QED
        BY <3>3, <4>1
    <3> QED
      BY <3>1, <3>2, <3>3
  <2>3. g = [m \in 0 .. n + 1 |-> g[m]]
    OBVIOUS
  <2>4. Solves(g, n + 1)
    <3> HIDE DEF g
    <3> QED
      BY <2>2, <2>3
  <2> HIDE DEF g, Solves
  <2> QED
    BY <2>4
<1>3. \A n \in Nat : Solves(sum(n), n)
  <2> TAKE n \in Nat
  <2>1. \E h : Solves(h, n)
    <3> HIDE DEF S
    <3>1. Nat \subseteq S
      BY <1>1, <1>2, NatInductionOnSets
    <3> QED
      BY <3>1 DEF S
  <2> HIDE DEF Solves
  <2> QED
    BY <2>1
<1>4. \A n \in Nat : SumTo(f, n) = sum(n)[n]
  BY DEF SumTo
<1> HIDE DEF sum
<1>5. \A n \in Nat : sum(n)[0] = 0 /\ \A m \in 1 .. n : sum(n)[m] = sum(n)[m - 1] + f[m]
  <2> TAKE n \in Nat
  <2>1. Solves(sum(n), n)
    BY <1>3
  <2>2. sum(n)[0] = 0
    BY <2>1
  <2>3. ASSUME NEW m \in 1 .. n
        PROVE  sum(n)[m] = sum(n)[m - 1] + f[m]
    <3>1. m \in 0 .. n /\ m # 0
      OBVIOUS
    <3> QED
      BY <2>1, <3>1
  <2> QED
    BY <2>2, <2>3
<1> HIDE DEF Solves
<1>6. ASSUME NEW n \in Nat
      PROVE  sum(n + 1)[n] = sum(n)[n]
  <2> DEFINE T == {m \in Nat : m <= n => sum(n + 1)[m] = sum(n)[m]}
  <2>1. 0 \in T
    BY <1>5
  <2>2. \A m \in Nat : m \in T => m + 1 \in T
    <3> SUFFICES ASSUME NEW m \in Nat, m \in T, m + 1 <= n
                 PROVE  sum(n + 1)[m + 1] = sum(n)[m + 1]
      OBVIOUS
    <3>1. m + 1 \in 1 .. n /\ m + 1 \in 1 .. n + 1 /\ (m + 1) - 1 = m /\ n + 1 \in Nat
      OBVIOUS
    <3>2. sum(n + 1)[m] = sum(n)[m]
      OBVIOUS
    <3>3. sum(n + 1)[m + 1] = sum(n + 1)[m] + f[m + 1]
      BY <1>5, <3>1
    <3>4. sum(n)[m + 1] = sum(n)[m] + f[m + 1]
      BY <1>5, <3>1
    <3> QED
      BY <3>2, <3>3, <3>4
  <2>3. n \in T
    <3> HIDE DEF T
    <3> QED
      BY <2>1, <2>2, NatInductionOnSets
  <2> QED
    BY <2>3
<1>7. ASSUME NEW n \in Nat
      PROVE  SumTo(f, n + 1) = SumTo(f, n) + f[n + 1]
  <2>1. n + 1 \in 1 .. n + 1 /\ (n + 1) - 1 = n /\ n + 1 \in Nat
    OBVIOUS
  <2>2. sum(n + 1)[n + 1] = sum(n + 1)[n] + f[n + 1]
    BY <1>5, <2>1
  <2> QED
    BY <1>4, <1>6, <2>1, <2>2
<1>8. SumTo(f, 0) = 0
  BY <1>4, <1>5
<1> QED
  BY <1>7, <1>8

(* Sums of integers are one, and the same for the same values.             *)
LEMMA SumFacts ==
  ASSUME NEW n \in Nat, NEW f, \A i \in 1 .. n : f[i] \in Int,
         NEW g, \A i \in 1 .. n : g[i] = f[i]
  PROVE  SumTo(f, n) \in Int /\ SumTo(g, n) = SumTo(f, n)
<1> DEFINE T == {m \in Nat : m <= n => SumTo(f, m) \in Int /\ SumTo(g, m) = SumTo(f, m)}
<1>1. 0 \in T
  BY SumSteps
<1>2. \A m \in Nat : m \in T => m + 1 \in T
  <2> SUFFICES ASSUME NEW m \in Nat, m \in T, m + 1 <= n
               PROVE  SumTo(f, m + 1) \in Int /\ SumTo(g, m + 1) = SumTo(f, m + 1)
    OBVIOUS
  <2>1. SumTo(f, m) \in Int /\ SumTo(g, m) = SumTo(f, m)
    OBVIOUS
  <2>2. f[m + 1] \in Int /\ g[m + 1] = f[m + 1]
    OBVIOUS
  <2>3. SumTo(f, m + 1) = SumTo(f, m) + f[m + 1] /\ SumTo(g, m + 1) = SumTo(g, m) + g[m + 1]
    BY SumSteps
  <2> QED
    BY <2>1, <2>2, <2>3
<1>3. n \in T
  <2> HIDE DEF T
  <2> QED
    BY <1>1, <1>2, NatInductionOnSets
<1> QED
  BY <1>3

(* What is added to each value, and to the last, is added to the sum.      *)
LEMMA SumOfWidened ==
  ASSUME NEW n \in Nat \ {0}, NEW f, \A i \in 1 .. n : f[i] \in Int,
         NEW each \in Int, NEW rest \in Int,
         NEW g, \A i \in 1 .. n : g[i] = f[i] + each + (IF i = n THEN rest ELSE 0)
  PROVE  SumTo(g, n) = SumTo(f, n) + each * n + rest
<1> DEFINE T == {m \in Nat : m <= n =>
                   SumTo(g, m) = SumTo(f, m) + each * m + (IF m = n THEN rest ELSE 0)}
<1>1. 0 \in T
  BY SumSteps
<1>2. \A m \in Nat : m \in T => m + 1 \in T
  <2> SUFFICES ASSUME NEW m \in Nat, m \in T, m + 1 <= n
               PROVE  SumTo(g, m + 1) =
                        SumTo(f, m + 1) + each * (m + 1) + (IF m + 1 = n THEN rest ELSE 0)
    OBVIOUS
  <2>1. m # n /\ m <= n
    OBVIOUS
  <2>2. SumTo(g, m) = SumTo(f, m) + each * m
    <3>1. SumTo(g, m) = SumTo(f, m) + each * m + 0
      BY <2>1
    <3>2. SumTo(f, m) \in Int
      <4>1. \A i \in 1 .. m : f[i] \in Int
        BY <2>1
      <4> QED
        BY <4>1, SumFacts
    <3> QED
      BY <3>1, <3>2
  <2>3. f[m + 1] \in Int /\ g[m + 1] = f[m + 1] + each + (IF m + 1 = n THEN rest ELSE 0)
    OBVIOUS
  <2>4. SumTo(f, m + 1) = SumTo(f, m) + f[m + 1] /\ SumTo(g, m + 1) = SumTo(g, m) + g[m + 1]
    BY SumSteps
  <2>5. SumTo(f, m) \in Int
    <3>1. \A i \in 1 .. m : f[i] \in Int
      BY <2>1
    <3> QED
      BY <3>1, SumFacts
  <2>6. each * (m + 1) = each * m + each /\ each * m \in Int
    OBVIOUS
  <2> HIDE DEF T
  <2> QED
    BY <2>2, <2>3, <2>4, <2>5, <2>6
<1>3. n \in T
  <2> HIDE DEF T
  <2> QED
    BY <1>1, <1>2, NatInductionOnSets
<1> QED
  BY <1>3

-----------------------------------------------------------------------------
(* The groups of the x axis                                                *)

GroupType == [from: Nat, to: Nat, stats: StatsType, time: TimeSpan, width: Int]

(* Merged statistics and time spans are some; the time span holds both.    *)
LEMMA MergeFacts ==
  ASSUME NEW s \in StatsType, NEW t \in StatsType,
         NEW a \in TimeSpan, NEW b \in TimeSpan, a.begin <= a.end, b.begin <= b.end
  PROVE  /\ StatsMerge(s, t) \in StatsType
         /\ SpanMerge(a, b) \in TimeSpan
         /\ SpanMerge(a, b).begin <= a.begin /\ SpanMerge(a, b).begin <= b.begin
         /\ a.end <= SpanMerge(a, b).end /\ b.end <= SpanMerge(a, b).end
         /\ SpanMerge(a, b).duration = SpanMerge(a, b).end - SpanMerge(a, b).begin
<1>1. /\ s.min \in Nat /\ s.max \in Nat /\ s.sum \in Nat /\ s.good \in Nat /\ s.dropped \in Nat
      /\ t.min \in Nat /\ t.max \in Nat /\ t.sum \in Nat /\ t.good \in Nat /\ t.dropped \in Nat
  BY DEF StatsType
<1>2. /\ MinOf(s.min, t.min) \in Nat /\ MaxOf(s.max, t.max) \in Nat
      /\ s.sum + t.sum \in Nat /\ s.good + t.good \in Nat /\ s.dropped + t.dropped \in Nat
  BY <1>1 DEF MinOf, MaxOf
<1>3. StatsMerge(s, t) \in StatsType
  BY <1>2 DEF StatsMerge, StatsType
<1>4. a.begin \in Int /\ a.end \in Int /\ b.begin \in Int /\ b.end \in Int
  BY DEF TimeSpan
<1> DEFINE l == MinOf(a.begin, b.begin)
           h == MaxOf(a.end, b.end)
<1>5. l \in Int /\ h \in Int /\ l <= a.begin /\ l <= b.begin /\ a.end <= h /\ b.end <= h
  BY <1>4 DEF MinOf, MaxOf
<1>6. SpanMerge(a, b) = [begin |-> l, end |-> h, duration |-> h - l]
  BY DEF SpanMerge
<1> HIDE DEF l, h
<1>7. h - l \in Nat
  BY <1>4, <1>5
<1>8. SpanMerge(a, b) \in TimeSpan
  BY <1>5, <1>6, <1>7 DEF TimeSpan
<1> QED
  BY <1>3, <1>5, <1>6, <1>8

(* The last of the groups is replaced.                                     *)
LEMMA ReplaceTheLast ==
  ASSUME NEW T, NEW s \in Seq(T), Len(s) >= 1, NEW e \in T
  PROVE  /\ [s EXCEPT ![Len(s)] = e] \in Seq(T)
         /\ Len([s EXCEPT ![Len(s)] = e]) = Len(s)
         /\ [s EXCEPT ![Len(s)] = e][Len(s)] = e
         /\ \A i \in 1 .. Len(s) - 1 : [s EXCEPT ![Len(s)] = e][i] = s[i]
OBVIOUS

(* What the groups of the first k spans are: they hold them in order, and  *)
(* the time span of each those of its spans, and no more at its begin.     *)
GroupsSound(groups, k) ==
  /\ groups \in Seq(GroupType) /\ (Len(groups) = 0 <=> k = 0)
  /\ k > 0 => groups[1].from = 1 /\ groups[Len(groups)].to = k
  /\ \A g \in 1 .. Len(groups) - 1 : groups[g].to + 1 = groups[g + 1].from
  /\ \A g \in 1 .. Len(groups) :
       /\ groups[g].from >= 1 /\ groups[g].from <= groups[g].to
       /\ groups[g].time.begin <= groups[g].time.end
       /\ groups[g].time.duration = groups[g].time.end - groups[g].time.begin
       /\ \E i \in groups[g].from .. groups[g].to : groups[g].time.begin = spans[i].time.begin
       /\ \A i \in groups[g].from .. groups[g].to :
            /\ groups[g].time.begin <= spans[i].time.begin
            /\ spans[i].time.end <= groups[g].time.end

(* What the proofs need of the spans.                                      *)
SpansSound ==
  /\ points \in Seq(PointType) /\ Len(points) \in Nat \ {0}
  /\ spans \in Seq(SpanType) /\ Len(spans) \in Nat \ {0}
  /\ spans[1].start = 0 /\ spans[Len(spans)].end = Len(points) - 1
  /\ \A i \in 1 .. Len(spans) - 1 : spans[i].end + 1 = spans[i + 1].start
  /\ \A i \in 1 .. Len(spans) : Describes(points, spans[i])

(* The invariant has what the x axis needs, once there is a point.         *)
LEMMA GraphSpans == GraphInv /\ Drawn => SpansSound
BY DEF GraphInv, SpansInv, Tiled, SpansSound, Drawn

(* What the proofs need of each span.                                      *)
LEMMA SpanFacts ==
  ASSUME SpansSound, NEW i \in 1 .. Len(spans)
  PROVE  /\ spans[i].stats \in StatsType /\ spans[i].time \in TimeSpan
         /\ spans[i].time.begin \in Int /\ spans[i].time.end \in Int
         /\ spans[i].time.begin <= spans[i].time.end
         /\ spans[i].time.duration = spans[i].time.end - spans[i].time.begin
         /\ spans[i].start \in Nat /\ spans[i].end \in Nat /\ spans[i].start <= spans[i].end
         /\ spans[i].count \in Nat \ {0} /\ spans[i].count = spans[i].end - spans[i].start + 1
<1>1. spans[i] \in SpanType /\ Describes(points, spans[i])
  BY DEF SpansSound
<1>2. /\ spans[i].stats \in StatsType /\ spans[i].time \in TimeSpan
      /\ spans[i].start \in Nat /\ spans[i].end \in Nat
  BY <1>1 DEF SpanType
<1>3. /\ spans[i].time.begin <= spans[i].time.end /\ spans[i].start <= spans[i].end
      /\ spans[i].time.duration = spans[i].time.end - spans[i].time.begin
      /\ spans[i].count = spans[i].end - spans[i].start + 1
  BY <1>1 DEF Describes
<1>4. spans[i].time.begin \in Int /\ spans[i].time.end \in Int
  BY <1>2 DEF TimeSpan
<1>5. spans[i].count \in Nat \ {0}
  BY <1>2, <1>3
<1> QED
  BY <1>2, <1>3, <1>4, <1>5

(* A new group has one span.                                               *)
LEMMA NewGroupSound ==
  ASSUME SpansSound, NEW k \in Nat, k < Len(spans), NEW groups, GroupsSound(groups, k),
         NEW w \in Int
  PROVE  GroupsSound(Append(groups, Group(k + 1, w)), k + 1)
<1> DEFINE new == Group(k + 1, w)
           G == Append(groups, new)
           n == Len(groups)
<1>1. k + 1 \in 1 .. Len(spans) /\ groups \in Seq(GroupType) /\ n \in Nat
  BY DEF SpansSound, GroupsSound
<1>2. /\ spans[k + 1].stats \in StatsType /\ spans[k + 1].time \in TimeSpan
      /\ spans[k + 1].time.begin \in Int /\ spans[k + 1].time.end \in Int
      /\ spans[k + 1].time.begin <= spans[k + 1].time.end
      /\ spans[k + 1].time.duration = spans[k + 1].time.end - spans[k + 1].time.begin
  BY <1>1, SpanFacts
<1>3. /\ new \in GroupType /\ new.from = k + 1 /\ new.to = k + 1
      /\ new.time = spans[k + 1].time
  BY <1>1, <1>2 DEF Group, GroupType
<1> HIDE DEF new
<1>4. /\ G \in Seq(GroupType) /\ Len(G) = n + 1 /\ G[n + 1] = new
      /\ \A g \in 1 .. n : G[g] = groups[g]
  BY <1>1, <1>3
<1> HIDE DEF G
<1>5. G[1].from = 1 /\ G[Len(G)].to = k + 1
  <2>1. CASE k = 0
    BY <1>3, <1>4, <2>1 DEF GroupsSound
  <2>2. CASE k > 0
    <3>1. groups[1].from = 1 /\ 1 \in 1 .. n
      BY <1>1, <2>2 DEF GroupsSound
    <3> QED
      BY <1>3, <1>4, <3>1
  <2> QED
    BY <2>1, <2>2
<1>6. \A g \in 1 .. Len(G) - 1 : G[g].to + 1 = G[g + 1].from
  <2> TAKE g \in 1 .. Len(G) - 1
  <2>1. CASE g = n
    <3>1. n > 0 /\ k > 0 /\ n \in 1 .. n
      BY <1>1, <1>4, <2>1 DEF GroupsSound
    <3>2. groups[n].to = k
      BY <3>1 DEF GroupsSound
    <3> QED
      BY <1>3, <1>4, <2>1, <3>1, <3>2
  <2>2. CASE g # n
    <3>1. g \in 1 .. n - 1 /\ g \in 1 .. n /\ g + 1 \in 1 .. n
      BY <1>1, <1>4, <2>2
    <3> QED
      BY <1>4, <3>1 DEF GroupsSound
  <2> QED
    BY <2>1, <2>2
<1>7. ASSUME NEW g \in 1 .. Len(G)
      PROVE  /\ G[g].from >= 1 /\ G[g].from <= G[g].to /\ G[g].time.begin <= G[g].time.end
             /\ G[g].time.duration = G[g].time.end - G[g].time.begin
             /\ \E i \in G[g].from .. G[g].to : G[g].time.begin = spans[i].time.begin
             /\ \A i \in G[g].from .. G[g].to :
                  G[g].time.begin <= spans[i].time.begin /\ spans[i].time.end <= G[g].time.end
  <2>1. CASE g = n + 1
    <3>1. k + 1 \in k + 1 .. k + 1 /\ \A i \in k + 1 .. k + 1 : i = k + 1
      OBVIOUS
    <3>2. k + 1 >= 1 /\ k + 1 <= k + 1
      OBVIOUS
    <3>3. G[g].from = k + 1 /\ G[g].to = k + 1 /\ G[g].time = spans[k + 1].time
      BY <1>3, <1>4, <2>1
    <3>4. \E i \in G[g].from .. G[g].to : G[g].time.begin = spans[i].time.begin
      BY <3>1, <3>3
    <3>5. \A i \in G[g].from .. G[g].to :
            G[g].time.begin <= spans[i].time.begin /\ spans[i].time.end <= G[g].time.end
      BY <1>2, <3>1, <3>3
    <3> QED
      BY <1>2, <3>2, <3>3, <3>4, <3>5
  <2>2. CASE g \in 1 .. n
    BY <1>4, <2>2 DEF GroupsSound
  <2> QED
    BY <1>1, <1>4, <2>1, <2>2
<1>8. Len(G) # 0 /\ k + 1 # 0
  BY <1>1, <1>4
<1> QED
  BY <1>4, <1>5, <1>6, <1>7, <1>8 DEF GroupsSound, G, new

(* An open group gets one more span.                                       *)
LEMMA JoinedSound ==
  ASSUME SpansSound, NEW k \in Nat, k < Len(spans), NEW groups, GroupsSound(groups, k),
         Len(groups) >= 1, NEW w \in Int
  PROVE  GroupsSound([groups EXCEPT ![Len(groups)] = Joined(groups[Len(groups)], k + 1, w)], k + 1)
<1> DEFINE n == Len(groups)
           old == groups[n]
           new == Joined(old, k + 1, w)
           G == [groups EXCEPT ![n] = new]
<1>1. k + 1 \in 1 .. Len(spans) /\ groups \in Seq(GroupType) /\ n \in Nat \ {0} /\ n \in 1 .. n
      /\ k # 0
  BY DEF SpansSound, GroupsSound
<1>2. /\ spans[k + 1].stats \in StatsType /\ spans[k + 1].time \in TimeSpan
      /\ spans[k + 1].time.begin \in Int /\ spans[k + 1].time.end \in Int
      /\ spans[k + 1].time.begin <= spans[k + 1].time.end
      /\ spans[k + 1].time.duration = spans[k + 1].time.end - spans[k + 1].time.begin
  BY <1>1, SpanFacts
<1>3. /\ old \in GroupType /\ old.to = k /\ old.from >= 1 /\ old.from <= old.to
      /\ old.time.begin <= old.time.end
      /\ \E i \in old.from .. old.to : old.time.begin = spans[i].time.begin
      /\ \A i \in old.from .. old.to :
           old.time.begin <= spans[i].time.begin /\ spans[i].time.end <= old.time.end
  BY <1>1 DEF GroupsSound
<1> HIDE DEF old
<1>4. /\ old.stats \in StatsType /\ old.time \in TimeSpan /\ old.from \in Nat
      /\ old.time.begin \in Int /\ old.time.end \in Int
  BY <1>3 DEF GroupType, TimeSpan
<1> DEFINE t == SpanMerge(old.time, spans[k + 1].time)
<1>5. /\ StatsMerge(old.stats, spans[k + 1].stats) \in StatsType /\ t \in TimeSpan
      /\ t.begin <= old.time.begin /\ t.begin <= spans[k + 1].time.begin
      /\ old.time.end <= t.end /\ spans[k + 1].time.end <= t.end
      /\ t.duration = t.end - t.begin /\ t.begin \in {old.time.begin, spans[k + 1].time.begin}
  <2> DEFINE other == spans[k + 1]
  <2> HIDE DEF other
  <2>1. /\ other.stats \in StatsType /\ other.time \in TimeSpan
        /\ other.time.begin <= other.time.end
    BY <1>2 DEF other
  <2>2. old.time.begin <= old.time.end
    BY <1>3
  <2>3. /\ StatsMerge(old.stats, other.stats) \in StatsType /\ t \in TimeSpan
        /\ t.begin <= old.time.begin /\ t.begin <= other.time.begin
        /\ old.time.end <= t.end /\ other.time.end <= t.end
        /\ t.duration = t.end - t.begin
    BY <1>4, <2>1, <2>2, MergeFacts DEF other
  <2>4. t.begin \in {old.time.begin, other.time.begin}
    BY DEF SpanMerge, MinOf, other
  <2> QED
    BY <2>3, <2>4 DEF other
<1> HIDE DEF t
<1>6. new \in GroupType /\ new.from = old.from /\ new.to = k + 1 /\ new.time = t
  <2> DEFINE st == StatsMerge(old.stats, spans[k + 1].stats)
  <2>1. new = [old EXCEPT !.to = k + 1, !.width = w, !.stats = st, !.time = t]
    BY DEF Joined, t
  <2> HIDE DEF st, new
  <2>2. new = [from |-> old.from, to |-> k + 1, stats |-> st, time |-> t, width |-> w]
    BY <1>3, <2>1 DEF GroupType
  <2>3. st \in StatsType
    BY <1>5 DEF st
  <2> QED
    BY <1>4, <1>5, <2>2, <2>3 DEF GroupType
<1>7. t.begin \in Int /\ t.end \in Int
  BY <1>5 DEF TimeSpan
<1> HIDE DEF new
<1>8. G \in Seq(GroupType) /\ Len(G) = n /\ G[n] = new /\ \A g \in 1 .. n - 1 : G[g] = groups[g]
  BY <1>1, <1>6, ReplaceTheLast
<1> HIDE DEF G
<1>9. \A g \in 1 .. n : G[g].from = groups[g].from
  <2> TAKE g \in 1 .. n
  <2>1. g = n \/ g \in 1 .. n - 1
    BY <1>1
  <2> QED
    BY <1>6, <1>8, <2>1 DEF old
<1>10. G[1].from = 1 /\ G[Len(G)].to = k + 1
  <2>1. groups[1].from = 1 /\ 1 \in 1 .. n
    BY <1>1 DEF GroupsSound
  <2> QED
    BY <1>6, <1>8, <1>9, <2>1
<1>11. \A g \in 1 .. Len(G) - 1 : G[g].to + 1 = G[g + 1].from
  <2> TAKE g \in 1 .. Len(G) - 1
  <2>1. g \in 1 .. n - 1 /\ g + 1 \in 1 .. n
    BY <1>1, <1>8
  <2>2. groups[g].to + 1 = groups[g + 1].from
    BY <2>1 DEF GroupsSound
  <2> QED
    BY <1>8, <1>9, <2>1, <2>2
<1>12. ASSUME NEW g \in 1 .. Len(G)
       PROVE  /\ G[g].from >= 1 /\ G[g].from <= G[g].to /\ G[g].time.begin <= G[g].time.end
              /\ G[g].time.duration = G[g].time.end - G[g].time.begin
              /\ \E i \in G[g].from .. G[g].to : G[g].time.begin = spans[i].time.begin
              /\ \A i \in G[g].from .. G[g].to :
                   G[g].time.begin <= spans[i].time.begin /\ spans[i].time.end <= G[g].time.end
  <2>1. CASE g = n
    <3>1. ASSUME NEW i \in old.from .. k + 1
          PROVE  t.begin <= spans[i].time.begin /\ spans[i].time.end <= t.end
      <4>1. CASE i = k + 1
        BY <1>5, <4>1
      <4>2. CASE i # k + 1
        <5>1. i \in old.from .. old.to /\ i \in 1 .. Len(spans)
          BY <1>1, <1>3, <1>4, <4>2 DEF SpansSound
        <5>2. old.time.begin <= spans[i].time.begin /\ spans[i].time.end <= old.time.end
          BY <1>3, <5>1
        <5>3. spans[i].time.begin \in Int /\ spans[i].time.end \in Int
          BY <5>1, SpanFacts
        <5>4. \A x, y, z \in Int : x <= y /\ y <= z => x <= z
          OBVIOUS
        <5> QED
          BY <1>4, <1>5, <1>7, <5>2, <5>3, <5>4, Zenon
      <4> QED
        BY <4>1, <4>2
    <3>2. old.from <= k + 1 /\ t.begin <= t.end /\ t.duration = t.end - t.begin
      <4>1. /\ old.to = k /\ old.from <= old.to /\ old.time.begin <= old.time.end
            /\ t.begin <= old.time.begin /\ old.time.end <= t.end
        BY <1>3, <1>5
      <4> QED
        BY <1>4, <1>5, <1>7, <4>1
    <3>3. \E i \in old.from .. k + 1 : t.begin = spans[i].time.begin
      <4>1. k + 1 \in old.from .. k + 1 /\ \A i \in old.from .. old.to : i \in old.from .. k + 1
        BY <1>3, <1>4
      <4>2. CASE t.begin = spans[k + 1].time.begin
        BY <4>1, <4>2
      <4>3. CASE t.begin = old.time.begin
        BY <1>3, <4>1, <4>3
      <4> QED
        BY <1>5, <4>2, <4>3
    <3> QED
      BY <1>3, <1>6, <1>8, <2>1, <3>1, <3>2, <3>3
  <2>2. CASE g # n
    <3>1. g \in 1 .. n - 1 /\ g \in 1 .. n
      BY <1>1, <1>8, <2>2
    <3> QED
      BY <1>8, <3>1 DEF GroupsSound
  <2> QED
    BY <2>1, <2>2
<1>13. Len(G) # 0 /\ k + 1 # 0
  BY <1>1, <1>8
<1>14. GroupsSound(G, k + 1)
  BY <1>8, <1>10, <1>11, <1>12, <1>13 DEF GroupsSound
<1> QED
  BY <1>14 DEF G, new, old

(* The groups one more span is put into are those of the first n spans, by *)
(* induction on the domain of the recursive function of Combined.          *)
LEMMA CombinedSteps ==
  ASSUME NEW space, Len(spans) \in Nat
  PROVE  \E f : /\ f[0] = [acc |-> 0, groups |-> <<>>]
                /\ \A n \in 1 .. Len(spans) : f[n] = CombineSpan(f[n - 1], n, space)
                /\ Combined(space) = f[Len(spans)].groups
<1> DEFINE base == [acc |-> 0, groups |-> <<>>]
           value(f, n) == IF n = 0 THEN base ELSE CombineSpan(f[n - 1], n, space)
           Solves(f, n) == f = [m \in 0 .. n |-> value(f, m)]
           S == {n \in Nat : \E f : Solves(f, n)}
<1>1. 0 \in S
  <2> DEFINE f == [m \in 0 .. 0 |-> base]
  <2> HIDE DEF base
  <2>1. Solves(f, 0)
    <3>1. \A m \in 0 .. 0 : value(f, m) = base
      OBVIOUS
    <3> QED
      BY <3>1
  <2> QED
    BY <2>1
<1>2. \A n \in Nat : n \in S => n + 1 \in S
  <2> HIDE DEF base
  <2> SUFFICES ASSUME NEW n \in Nat, n \in S
               PROVE  n + 1 \in S
    OBVIOUS
  <2>1. PICK f : Solves(f, n)
    OBVIOUS
  <2> DEFINE next == CombineSpan(f[n], n + 1, space)
             g == [m \in 0 .. n + 1 |-> IF m <= n THEN f[m] ELSE next]
  <2>2. ASSUME NEW m \in 0 .. n + 1
        PROVE  g[m] = value(g, m)
    <3>1. CASE m = 0
      <4>1. f[0] = base
        BY <2>1
      <4> QED
        BY <3>1, <4>1
    <3>2. CASE m \in 1 .. n
      <4>1. m \in 0 .. n /\ m - 1 \in 0 .. n + 1 /\ m - 1 <= n /\ m # 0
        BY <3>2
      <4>2. f[m] = CombineSpan(f[m - 1], m, space)
        BY <2>1, <4>1
      <4>3. g[m] = f[m] /\ g[m - 1] = f[m - 1]
        BY <4>1
      <4> QED
        BY <4>1, <4>2, <4>3
    <3>3. CASE m = n + 1
      <4>1. g[m] = next /\ g[n] = f[n] /\ m - 1 = n /\ m # 0
        <5> HIDE DEF next
        <5> QED
          BY <3>3
      <4> QED
        BY <3>3, <4>1
    <3> QED
      BY <3>1, <3>2, <3>3
  <2>3. g = [m \in 0 .. n + 1 |-> g[m]]
    OBVIOUS
  <2>4. Solves(g, n + 1)
    <3> HIDE DEF g
    <3> QED
      BY <2>2, <2>3
  <2> HIDE DEF g, Solves
  <2> QED
    BY <2>4
<1>3. \E f : Solves(f, Len(spans))
  <2> HIDE DEF S
  <2>1. Nat \subseteq S
    BY <1>1, <1>2, NatInductionOnSets
  <2> QED
    BY <2>1 DEF S
<1> DEFINE upTo == CHOOSE f : Solves(f, Len(spans))
<1>4. Solves(upTo, Len(spans))
  <2> HIDE DEF Solves
  <2> QED
    BY <1>3
<1>5. Combined(space) = upTo[Len(spans)].groups
  BY DEF Combined
<1> HIDE DEF upTo
<1>6. upTo[0] = base
  <2> HIDE DEF base
  <2> QED
    BY <1>4
<1>7. \A n \in 1 .. Len(spans) : upTo[n] = CombineSpan(upTo[n - 1], n, space)
  <2> TAKE n \in 1 .. Len(spans)
  <2>1. n \in 0 .. Len(spans) /\ n # 0
    OBVIOUS
  <2> QED
    BY <1>4, <2>1
<1> QED
  BY <1>5, <1>6, <1>7

(* The columns of n of the points are no more than their share.            *)
LEMMA ColumnsFacts ==
  ASSUME Len(points) \in Nat \ {0}, NEW space \in Int, NEW n \in Nat
  PROVE  /\ Columns(space, n) \in Int
         /\ Len(points) * Columns(space, n) <= space * n
         /\ Columns(space, n) > 0 => space > 0
<1> DEFINE N == Len(points)
           a == space * n
           c == Columns(space, n)
<1>1. N \in Nat /\ N > 0 /\ a \in Int
  OBVIOUS
<1>2. c = a \div N
  BY DEF Columns
<1> HIDE DEF a, c, N
<1>3. /\ a = N * (a \div N) + (a % N) /\ a % N \in 0 .. N - 1 /\ a \div N \in Int
      /\ N * (a \div N) \in Int
  BY <1>1
<1>4. c \in Int /\ N * c <= a
  BY <1>1, <1>2, <1>3
<1>5. ASSUME c > 0
      PROVE  space > 0
  <2>1. N * c > 0
    BY <1>1, <1>4, <1>5
  <2>2. a > 0
    BY <1>1, <1>4, <2>1
  <2>3. CASE space <= 0
    <3>1. space * n <= 0
      BY <2>3
    <3> QED
      BY <1>1, <2>2, <3>1 DEF a
  <2> QED
    BY <2>3
<1> QED
  BY <1>4, <1>5 DEF a, c, N

(* The least columns of a group are at least five.                         *)
LEMMA MinPixelsFacts ==
  ASSUME NEW space \in Int
  PROVE  MinPixels(space) \in Int /\ MinPixels(space) >= 5
<1>1. space \div 20 \in Int
  OBVIOUS
<1> QED
  BY <1>1 DEF MinPixels, MaxOf

(* Of the groups only the last can be open; it has no columns then.        *)
Closed(c) == IF c.acc = 0 THEN Len(c.groups) ELSE Len(c.groups) - 1

(* How many points the first k spans have.                                 *)
Counted(k) == IF k = 0 THEN 0 ELSE spans[k].end + 1

(* What the widths of the groups of the first k spans are: closed ones     *)
(* have the least columns, and all of them no more than their share.       *)
WidthsSound(c, k, space) ==
  /\ c.acc \in Nat /\ (k = 0 => c.acc = 0)
  /\ c.acc # 0 => Len(c.groups) >= 1 /\ c.groups[Len(c.groups)].width = 0
  /\ \A g \in 1 .. Closed(c) : c.groups[g].width >= MinPixels(space) /\ space > 0
  /\ Len(points) * TotalWidth(c.groups) <= space * (Counted(k) - c.acc)

(* Points are counted span by span.                                        *)
LEMMA CountedFacts ==
  ASSUME SpansSound, NEW k \in Nat, k < Len(spans)
  PROVE  Counted(k) \in Nat /\ Counted(k + 1) = Counted(k) + spans[k + 1].count
<1>1. k + 1 \in 1 .. Len(spans)
  BY DEF SpansSound
<1>2. /\ spans[k + 1].start \in Nat /\ spans[k + 1].end \in Nat
      /\ spans[k + 1].count = spans[k + 1].end - spans[k + 1].start + 1
  BY <1>1, SpanFacts
<1>3. CASE k = 0
  BY <1>2, <1>3 DEF Counted, SpansSound
<1>4. CASE k # 0
  <2>1. k \in 1 .. Len(spans) /\ k \in 1 .. Len(spans) - 1
    BY <1>1, <1>4 DEF SpansSound
  <2>2. spans[k].end \in Nat
    BY <2>1, SpanFacts
  <2>3. spans[k].end + 1 = spans[k + 1].start
    BY <2>1 DEF SpansSound
  <2> QED
    BY <1>2, <1>4, <2>2, <2>3 DEF Counted
<1> QED
  BY <1>3, <1>4

(* The columns of groups of which one is added or the last has changed.    *)
LEMMA TotalWidthFacts ==
  ASSUME NEW n \in Nat, NEW G, Len(G) = n + 1, \A g \in 1 .. n + 1 : G[g].width \in Int,
         NEW H, Len(H) = n \/ Len(H) = n + 1, \A g \in 1 .. n : H[g] = G[g],
         Len(H) = n + 1 => H[n + 1].width = 0
  PROVE  TotalWidth(H) \in Int /\ TotalWidth(G) = TotalWidth(H) + G[n + 1].width
<1> DEFINE f == [g \in 1 .. Len(G) |-> G[g].width]
           h == [g \in 1 .. Len(H) |-> H[g].width]
<1>1. /\ \A g \in 1 .. n : g \in 1 .. n + 1 /\ f[g] \in Int /\ h[g] = f[g]
      /\ f[n + 1] = G[n + 1].width /\ f[n + 1] \in Int
  OBVIOUS
<1>2. Len(H) = n + 1 => h[n + 1] = 0
  OBVIOUS
<1>3. TotalWidth(G) = SumTo(f, n + 1) /\ TotalWidth(H) = SumTo(h, Len(H))
  BY DEF TotalWidth
<1> HIDE DEF f, h
<1>4. SumTo(f, n) \in Int /\ SumTo(h, n) = SumTo(f, n)
  BY <1>1, SumFacts
<1>5. SumTo(f, n + 1) = SumTo(f, n) + f[n + 1] /\ SumTo(h, n + 1) = SumTo(h, n) + h[n + 1]
  BY SumSteps
<1>6. SumTo(h, Len(H)) = SumTo(f, n)
  <2>1. CASE Len(H) = n
    BY <1>4, <2>1
  <2>2. CASE Len(H) = n + 1
    BY <1>2, <1>4, <1>5, <2>2
  <2> QED
    BY <2>1, <2>2
<1> QED
  BY <1>1, <1>3, <1>4, <1>5, <1>6

(* combineSpansPixelWise, one span.                                        *)
LEMMA CombineStep ==
  ASSUME SpansSound, NEW space \in Int, NEW k \in Nat, k < Len(spans), NEW c,
         GroupsSound(c.groups, k), WidthsSound(c, k, space)
  PROVE  LET new == CombineSpan(c, k + 1, space)
         IN  GroupsSound(new.groups, k + 1) /\ WidthsSound(new, k + 1, space)
<1> DEFINE n == c.acc + spans[k + 1].count
           N == Len(points)
           columns == Columns(space, n)
           enough == columns >= MinPixels(space)
           w == IF enough THEN columns ELSE 0
           new == CombineSpan(c, k + 1, space)
           old == c.groups
           G == new.groups
<1>1. /\ k + 1 \in 1 .. Len(spans) /\ N \in Nat \ {0} /\ c.acc \in Nat
      /\ old \in Seq(GroupType) /\ Len(old) \in Nat
  BY DEF SpansSound, GroupsSound, WidthsSound
<1>2. spans[k + 1].count \in Nat \ {0}
  BY <1>1, SpanFacts
<1>3. n \in Nat \ {0}
  BY <1>1, <1>2
<1> HIDE DEF n, N
<1>4. /\ columns \in Int /\ N * columns <= space * n /\ (columns > 0 => space > 0)
      /\ MinPixels(space) \in Int /\ MinPixels(space) >= 5
  BY <1>1, <1>3, ColumnsFacts, MinPixelsFacts DEF N
<1> HIDE DEF columns
<1>5. w \in Int /\ (enough => w = columns /\ space > 0) /\ (~enough => w = 0)
  BY <1>4
<1>6. /\ new.acc = (IF enough THEN 0 ELSE n)
      /\ G = IF c.acc = 0 THEN Append(old, Group(k + 1, w))
             ELSE [old EXCEPT ![Len(old)] = Joined(old[Len(old)], k + 1, w)]
  BY DEF CombineSpan, n, columns
<1> HIDE DEF w, enough, new
<1>7. c.acc # 0 => Len(old) >= 1 /\ old[Len(old)].width = 0
  BY DEF WidthsSound
<1>8. GroupsSound(G, k + 1)
  <2>1. CASE c.acc = 0
    BY <1>1, <1>5, <1>6, <2>1, NewGroupSound
  <2>2. CASE c.acc # 0
    BY <1>1, <1>5, <1>6, <1>7, <2>2, JoinedSound
  <2> QED
    BY <2>1, <2>2
<1> HIDE DEF old
<1> DEFINE m == IF c.acc = 0 THEN Len(old) ELSE Len(old) - 1
<1>9. m \in Nat
  BY <1>1, <1>7
<1>10. Len(G) = m + 1 /\ G[m + 1].width = w /\ \A g \in 1 .. m : G[g] = old[g]
  <2>1. CASE c.acc = 0
    <3>1. Group(k + 1, w) \in GroupType /\ Group(k + 1, w).width = w
      <4>1. spans[k + 1].stats \in StatsType /\ spans[k + 1].time \in TimeSpan
        BY <1>1, SpanFacts
      <4> QED
        BY <1>1, <1>5, <4>1 DEF Group, GroupType
    <3>2. G = Append(old, Group(k + 1, w)) /\ m = Len(old)
      BY <1>6, <2>1
    <3> QED
      BY <1>1, <3>1, <3>2
  <2>2. CASE c.acc # 0
    <3> DEFINE e == Joined(old[Len(old)], k + 1, w)
    <3>1. G = [old EXCEPT ![Len(old)] = e] /\ m + 1 = Len(old) /\ Len(old) \in 1 .. Len(old)
      BY <1>1, <1>6, <1>7, <2>2
    <3>2. old[Len(old)] \in GroupType
      BY <1>1, <3>1
    <3>3. e.width = w
      BY <3>2 DEF Joined, GroupType
    <3> HIDE DEF e
    <3>4. /\ Len(G) = Len(old) /\ G[Len(old)] = e
          /\ \A g \in 1 .. Len(old) - 1 : G[g] = old[g]
      BY <1>1, <3>1
    <3>5. m = Len(old) - 1
      BY <2>2
    <3> HIDE DEF m, G
    <3> QED
      BY <3>1, <3>3, <3>4, <3>5
  <2> QED
    BY <2>1, <2>2
<1>11. \A g \in 1 .. m : old[g].width >= MinPixels(space) /\ space > 0
  BY DEF WidthsSound, Closed, old
<1>12. \A g \in 1 .. m + 1 : G[g].width \in Int
  <2>1. \A g \in 1 .. m + 1 : G[g] \in GroupType
    BY <1>8, <1>10 DEF GroupsSound
  <2> QED
    BY <2>1 DEF GroupType
<1>13. TotalWidth(old) \in Int /\ TotalWidth(G) = TotalWidth(old) + w
  <2>1. Len(old) = m \/ Len(old) = m + 1
    BY <1>1
  <2>2. Len(old) = m + 1 => old[m + 1].width = 0
    BY <1>1, <1>7
  <2>3. \A g \in 1 .. m : old[g] = G[g]
    BY <1>10
  <2> HIDE DEF m, G
  <2> QED
    BY <1>9, <1>10, <1>12, <2>1, <2>2, <2>3, TotalWidthFacts
<1> HIDE DEF m, G
<1>14. \A g \in 1 .. Closed(new) : G[g].width >= MinPixels(space) /\ space > 0
  <2>1. CASE enough
    <3>1. Closed(new) = m + 1 /\ w >= MinPixels(space) /\ space > 0
      BY <1>5, <1>6, <1>10, <2>1 DEF Closed, enough, G
    <3> QED
      BY <1>9, <1>10, <1>11, <3>1
  <2>2. CASE ~enough
    <3>1. Closed(new) = m
      BY <1>3, <1>6, <1>9, <1>10, <2>2 DEF Closed, G
    <3> QED
      BY <1>10, <1>11, <3>1
  <2> QED
    BY <2>1, <2>2
<1>15. new.acc \in Nat /\ (new.acc # 0 => Len(G) >= 1 /\ G[Len(G)].width = 0)
  BY <1>3, <1>5, <1>6, <1>9, <1>10
<1>16. N * TotalWidth(G) <= space * (Counted(k + 1) - new.acc)
  <2>1. /\ Counted(k) \in Nat /\ Counted(k + 1) = Counted(k) + spans[k + 1].count
        /\ N * TotalWidth(old) <= space * (Counted(k) - c.acc)
    BY CountedFacts DEF WidthsSound, N, old
  <2> DEFINE a == Counted(k) - c.acc
             T == TotalWidth(old)
  <2>2. a \in Int /\ Counted(k + 1) = a + n /\ T \in Int /\ N * T <= space * a
    BY <1>1, <1>2, <1>13, <2>1 DEF n
  <2> HIDE DEF a, T
  <2>3. N * TotalWidth(G) = N * T + N * w /\ N * T \in Int /\ N * w \in Int
    BY <1>1, <1>5, <1>13, <2>2 DEF T
  <2>4. space * a \in Int /\ space * n \in Int /\ space * (a + n) = space * a + space * n
    BY <1>3, <2>2
  <2>5. CASE enough
    <3>1. Counted(k + 1) - new.acc = a + n /\ w = columns
      BY <1>3, <1>5, <1>6, <2>2, <2>5
    <3> QED
      BY <1>4, <2>2, <2>3, <2>4, <3>1
  <2>6. CASE ~enough
    <3>1. Counted(k + 1) - new.acc = a /\ N * w = 0
      BY <1>1, <1>3, <1>5, <1>6, <2>2, <2>6
    <3> QED
      BY <2>2, <2>3, <2>4, <3>1
  <2> QED
    BY <2>5, <2>6
<1>17. k + 1 # 0
  OBVIOUS
<1>18. WidthsSound(new, k + 1, space)
  BY <1>14, <1>15, <1>16, <1>17 DEF WidthsSound, N, G
<1> QED
  BY <1>8, <1>18 DEF G, new

(* combineSpansPixelWise, the loop over all spans.                         *)
LEMMA CombinedFacts ==
  ASSUME SpansSound, NEW space \in Int
  PROVE  /\ GroupsSound(Combined(space), Len(spans))
         /\ \A g \in 1 .. Len(Combined(space)) - 1 :
              Combined(space)[g].width >= MinPixels(space) /\ space > 0
         /\ TotalWidth(Combined(space)) \in Int
         /\ space > 0 => TotalWidth(Combined(space)) <= space
<1> DEFINE L == Len(spans)
           N == Len(points)
<1>1. L \in Nat \ {0} /\ N \in Nat \ {0} /\ Counted(L) = N
  BY DEF SpansSound, Counted
<1>2. PICK f : /\ f[0] = [acc |-> 0, groups |-> <<>>]
               /\ \A n \in 1 .. L : f[n] = CombineSpan(f[n - 1], n, space)
               /\ Combined(space) = f[L].groups
  BY <1>1, CombinedSteps
<1> HIDE DEF L, N
<1> DEFINE T == {n \in Nat : n <= L =>
                   GroupsSound(f[n].groups, n) /\ WidthsSound(f[n], n, space)}
<1>3. 0 \in T
  <2>1. f[0].groups = <<>> /\ f[0].acc = 0
    BY <1>2
  <2>2. <<>> \in Seq(GroupType) /\ Len(<<>>) = 0
    OBVIOUS
  <2>3. GroupsSound(<<>>, 0)
    BY <2>2 DEF GroupsSound
  <2>4. TotalWidth(<<>>) = 0
    BY <2>2, SumSteps DEF TotalWidth
  <2>5. Closed(f[0]) = 0 /\ Counted(0) = 0
    BY <2>1, <2>2 DEF Closed, Counted
  <2>6. Len(points) * 0 <= space * (0 - 0)
    BY <1>1 DEF N
  <2>7. WidthsSound(f[0], 0, space)
    BY <2>1, <2>2, <2>4, <2>5, <2>6 DEF WidthsSound
  <2> QED
    BY <2>1, <2>3, <2>7
<1>4. \A n \in Nat : n \in T => n + 1 \in T
  <2> SUFFICES ASSUME NEW n \in Nat, n \in T, n + 1 <= L
               PROVE  GroupsSound(f[n + 1].groups, n + 1) /\ WidthsSound(f[n + 1], n + 1, space)
    OBVIOUS
  <2>1. GroupsSound(f[n].groups, n) /\ WidthsSound(f[n], n, space) /\ n < L
    BY <1>1
  <2>2. n + 1 \in 1 .. L /\ (n + 1) - 1 = n
    BY <1>1
  <2>3. f[n + 1] = CombineSpan(f[n], n + 1, space)
    BY <1>2, <2>2
  <2>4. n < Len(spans)
    BY <2>1 DEF L
  <2> HIDE DEF T
  <2>5. LET new == CombineSpan(f[n], n + 1, space)
        IN  GroupsSound(new.groups, n + 1) /\ WidthsSound(new, n + 1, space)
    BY <2>1, <2>4, CombineStep
  <2> QED
    BY <2>3, <2>5
<1>5. GroupsSound(f[L].groups, L) /\ WidthsSound(f[L], L, space)
  <2>1. L \in T
    <3> HIDE DEF T
    <3> QED
      BY <1>1, <1>3, <1>4, NatInductionOnSets
  <2> QED
    BY <1>1, <2>1
<1> HIDE DEF T
<1> DEFINE G == f[L].groups
<1>6. G \in Seq(GroupType) /\ Len(G) \in Nat \ {0}
  BY <1>1, <1>5 DEF GroupsSound
<1>7. \A g \in 1 .. Len(G) - 1 : G[g].width >= MinPixels(space) /\ space > 0
  <2>1. \A g \in 1 .. Len(G) - 1 : g \in 1 .. Closed(f[L])
    BY <1>6 DEF Closed
  <2> QED
    BY <1>5, <2>1 DEF WidthsSound
<1>8. TotalWidth(G) \in Int
  <2> DEFINE h == [g \in 1 .. Len(G) |-> G[g].width]
  <2>1. \A g \in 1 .. Len(G) : h[g] \in Int
    <3> HIDE DEF G
    <3>1. \A g \in 1 .. Len(G) : G[g] \in GroupType
      BY <1>6
    <3> QED
      BY <3>1 DEF GroupType
  <2> HIDE DEF h
  <2>2. SumTo(h, Len(G)) \in Int
    BY <1>6, <2>1, SumFacts
  <2> QED
    BY <2>2 DEF TotalWidth, h
<1>9. ASSUME space > 0
      PROVE  TotalWidth(G) <= space
  <2> DEFINE t == TotalWidth(G)
             acc == f[L].acc
  <2>1. N * t <= space * (N - acc) /\ acc \in Nat
    BY <1>1, <1>5 DEF WidthsSound, N
  <2>2. t \in Int
    BY <1>8
  <2> HIDE DEF t, acc
  <2>3. space * (N - acc) = space * N - space * acc /\ space * acc >= 0 /\ space * acc \in Int
        /\ space * N \in Int /\ space * N = N * space
    BY <1>1, <1>9, <2>1
  <2>4. N * t <= N * space /\ N * t \in Int /\ N * space \in Int
    BY <1>1, <2>1, <2>2, <2>3
  <2>5. CASE t > space
    <3>1. N * t = N * space + N * (t - space) /\ t - space \in Nat \ {0}
      BY <1>1, <2>2, <2>5
    <3>2. N * (t - space) > 0
      BY <1>1, <3>1
    <3> QED
      BY <1>1, <2>4, <3>1, <3>2
  <2> QED
    BY <2>2, <2>5 DEF t
<1> HIDE DEF G
<1> QED
  BY <1>2, <1>5, <1>7, <1>8, <1>9 DEF G, L

(* Go's division gives each group the same, with the sign of what is given.*)
LEMMA QuotientFacts ==
  ASSUME NEW a \in Int, NEW b \in Nat \ {0}
  PROVE  Quotient(a, b) \in Int /\ (a >= 0 => Quotient(a, b) >= 0)
<1>1. a \div b \in Int /\ (-a) \div b \in Int /\ -((-a) \div b) \in Int
  OBVIOUS
<1>2. a >= 0 => a \div b >= 0
  OBVIOUS
<1> QED
  BY <1>1, <1>2 DEF Quotient

(* What is left over is given to the groups, all of it, and nothing else   *)
(* of them changes.                                                        *)
LEMMA WidenedFacts ==
  ASSUME NEW G \in Seq(GroupType), Len(G) >= 1, NEW space \in Int, TotalWidth(G) \in Int
  PROVE  LET axis == Widened(G, space)
         IN  /\ Len(axis) = Len(G) /\ TotalWidth(axis) = space
             /\ \A g \in 1 .. Len(G) : /\ axis[g].from = G[g].from /\ axis[g].to = G[g].to
                                       /\ axis[g].time = G[g].time
                                       /\ axis[g].width \in Int
             /\ space >= TotalWidth(G) =>
                  \A g \in 1 .. Len(G) - 1 : axis[g].width >= G[g].width
<1> DEFINE n == Len(G)
           delta == space - TotalWidth(G)
           each == Quotient(delta, n)
           rest == delta - each * n
           axis == Widened(G, space)
           e(i) == [G[i] EXCEPT !.width = @ + each + (IF i = n THEN rest ELSE 0)]
<1>1. n \in Nat \ {0} /\ delta \in Int
  OBVIOUS
<1>2. axis = [i \in 1 .. n |-> e(i)]
  BY DEF Widened
<1> HIDE DEF delta, n
<1>3. each \in Int /\ (delta >= 0 => each >= 0)
  BY <1>1, QuotientFacts
<1> HIDE DEF each
<1>4. each * n \in Int /\ rest \in Int /\ each * n + rest = delta
  BY <1>1, <1>3
<1> HIDE DEF rest
<1>5. ASSUME NEW i \in 1 .. n
      PROVE  /\ axis[i].from = G[i].from /\ axis[i].to = G[i].to /\ axis[i].time = G[i].time
             /\ axis[i].width = G[i].width + each + (IF i = n THEN rest ELSE 0)
             /\ G[i].width \in Int /\ axis[i].width \in Int
  <2>1. G[i] \in GroupType
    BY DEF n
  <2> DEFINE v == G[i].width + each + (IF i = n THEN rest ELSE 0)
  <2>2. axis[i] = [G[i] EXCEPT !.width = v]
    BY <1>2
  <2> HIDE DEF v, axis
  <2>3. /\ axis[i].from = G[i].from /\ axis[i].to = G[i].to /\ axis[i].time = G[i].time
        /\ axis[i].width = v
    BY <2>1, <2>2 DEF GroupType
  <2>4. G[i].width \in Int
    BY <2>1 DEF GroupType
  <2>5. v \in Int
    BY <1>3, <1>4, <2>4 DEF v
  <2> QED
    BY <2>3, <2>4, <2>5 DEF v
<1>6. Len(axis) = n
  BY <1>1, <1>2
<1> HIDE DEF axis, e
<1>7. TotalWidth(axis) = space
  <2> DEFINE f == [g \in 1 .. Len(G) |-> G[g].width]
             h == [g \in 1 .. Len(axis) |-> axis[g].width]
  <2>1. \A i \in 1 .. n : f[i] \in Int /\ h[i] = f[i] + each + (IF i = n THEN rest ELSE 0)
    BY <1>5, <1>6 DEF n
  <2>2. TotalWidth(G) = SumTo(f, n) /\ TotalWidth(axis) = SumTo(h, n)
    BY <1>6 DEF TotalWidth, n
  <2> HIDE DEF f, h
  <2>3. SumTo(h, n) = SumTo(f, n) + each * n + rest
    BY <1>1, <1>3, <1>4, <2>1, SumOfWidened
  <2>4. SumTo(f, n) \in Int
    BY <2>2
  <2> QED
    BY <1>4, <2>2, <2>3, <2>4 DEF delta
<1>8. ASSUME space >= TotalWidth(G), NEW g \in 1 .. n - 1
      PROVE  axis[g].width >= G[g].width
  <2>1. g \in 1 .. n /\ g # n
    BY <1>1
  <2>2. axis[g].width = G[g].width + each + 0 /\ G[g].width \in Int
    BY <1>5, <2>1
  <2>3. each >= 0
    BY <1>3, <1>8 DEF delta
  <2> QED
    BY <1>3, <2>2, <2>3
<1> QED
  BY <1>5, <1>6, <1>7, <1>8 DEF axis, n

(* combineSpansPixelWise and the filling of its columns.                   *)
LEMMA GraphFills == GraphInv => WidthsShareTheAxis
<1> SUFFICES ASSUME GraphInv, Drawn, NEW width \in Widths
             PROVE  LET axis == XAxis(width, FALSE)
                    IN  /\ axis[1].from = 1 /\ axis[Len(axis)].to = Len(spans)
                        /\ \A g \in 1 .. Len(axis) - 1 :
                             /\ axis[g].to + 1 = axis[g + 1].from
                             /\ axis[g].width >= MinPixels(width - 6)
                        /\ TotalWidth(axis) = width - 6
  BY DEF WidthsShareTheAxis
<1> DEFINE space == width - 6
           G == Combined(space)
           axis == Widened(G, space)
<1>1. space \in Int
  BY SpansAssumption
<1>2. SpansSound
  BY GraphSpans
<1> HIDE DEF space
<1>3. /\ GroupsSound(G, Len(spans)) /\ TotalWidth(G) \in Int
      /\ \A g \in 1 .. Len(G) - 1 : G[g].width >= MinPixels(space) /\ space > 0
      /\ space > 0 => TotalWidth(G) <= space
  BY <1>1, <1>2, CombinedFacts
<1> HIDE DEF G
<1>4. /\ G \in Seq(GroupType) /\ Len(G) \in Nat \ {0} /\ Len(G) >= 1
      /\ G[1].from = 1 /\ G[Len(G)].to = Len(spans)
      /\ \A g \in 1 .. Len(G) - 1 : G[g].to + 1 = G[g + 1].from
  <2>1. Len(spans) > 0 /\ Len(spans) # 0
    BY <1>2 DEF SpansSound
  <2>2. G \in Seq(GroupType) /\ Len(G) # 0
    BY <1>3, <2>1 DEF GroupsSound
  <2>3. Len(G) \in Nat \ {0} /\ Len(G) >= 1
    BY <2>2
  <2> QED
    BY <1>3, <2>1, <2>2, <2>3 DEF GroupsSound
<1>5. /\ Len(axis) = Len(G) /\ TotalWidth(axis) = space
      /\ \A g \in 1 .. Len(G) : /\ axis[g].from = G[g].from /\ axis[g].to = G[g].to
                                /\ axis[g].width \in Int
      /\ space >= TotalWidth(G) => \A g \in 1 .. Len(G) - 1 : axis[g].width >= G[g].width
  BY <1>1, <1>3, <1>4, WidenedFacts
<1> HIDE DEF axis
<1>6. ASSUME NEW g \in 1 .. Len(axis) - 1
      PROVE  axis[g].to + 1 = axis[g + 1].from /\ axis[g].width >= MinPixels(space)
  <2>1. g \in 1 .. Len(G) - 1 /\ g \in 1 .. Len(G) /\ g + 1 \in 1 .. Len(G)
    BY <1>4, <1>5
  <2>2. axis[g].to + 1 = axis[g + 1].from
    BY <1>4, <1>5, <2>1
  <2>3. axis[g].width >= G[g].width /\ G[g].width >= MinPixels(space)
    BY <1>1, <1>3, <1>5, <2>1
  <2>4. G[g].width \in Int /\ MinPixels(space) \in Int
    <3>1. G[g] \in GroupType
      BY <1>4, <2>1
    <3> QED
      BY <1>1, <3>1, MinPixelsFacts DEF GroupType
  <2>5. axis[g].width \in Int
    BY <1>5, <2>1
  <2>6. \A x, y, z \in Int : x >= y /\ y >= z => x >= z
    OBVIOUS
  <2>7. axis[g].width >= MinPixels(space)
    BY <2>3, <2>4, <2>5, <2>6, Zenon
  <2> QED
    BY <2>2, <2>7
<1>7. axis[1].from = 1 /\ axis[Len(axis)].to = Len(spans)
  BY <1>4, <1>5
<1>8. XAxis(width, FALSE) = axis
  BY DEF XAxis, axis, G, space
<1> QED
  BY <1>5, <1>6, <1>7, <1>8 DEF space

-----------------------------------------------------------------------------
(* The points on the x axis                                                *)

(* The recursive function of Places takes the points one by one.           *)
LEMMA PlacesSteps ==
  ASSUME NEW axis, NEW iter, iter.total \in Nat
  PROVE  \E f : /\ f[0] = <<>>
                /\ \A n \in 1 .. iter.total :
                     f[n] = Append(f[n - 1], Place(axis, IF n = 1 THEN 1 ELSE f[n - 1][n - 1],
                                                   PointAt(iter, n - 1)))
                /\ Places(axis, iter) = f[iter.total]
<1> DEFINE total == iter.total
           after(s, n) == Append(s, Place(axis, IF n = 1 THEN 1 ELSE s[n - 1], PointAt(iter, n - 1)))
           value(f, n) == IF n = 0 THEN <<>> ELSE after(f[n - 1], n)
           Solves(f, n) == f = [m \in 0 .. n |-> value(f, m)]
           S == {n \in Nat : \E f : Solves(f, n)}
<1>1. 0 \in S
  <2> DEFINE f == [m \in 0 .. 0 |-> <<>>]
  <2> HIDE DEF after
  <2>1. Solves(f, 0)
    <3>1. \A m \in 0 .. 0 : value(f, m) = <<>>
      OBVIOUS
    <3> QED
      BY <3>1
  <2> QED
    BY <2>1
<1>2. \A n \in Nat : n \in S => n + 1 \in S
  <2> HIDE DEF after
  <2> SUFFICES ASSUME NEW n \in Nat, n \in S
               PROVE  n + 1 \in S
    OBVIOUS
  <2>1. PICK f : Solves(f, n)
    OBVIOUS
  <2> DEFINE next == after(f[n], n + 1)
             g == [m \in 0 .. n + 1 |-> IF m <= n THEN f[m] ELSE next]
  <2>2. ASSUME NEW m \in 0 .. n + 1
        PROVE  g[m] = value(g, m)
    <3>1. CASE m = 0
      <4>1. f[0] = <<>>
        BY <2>1
      <4> QED
        BY <3>1, <4>1
    <3>2. CASE m \in 1 .. n
      <4>1. m \in 0 .. n /\ m - 1 \in 0 .. n + 1 /\ m - 1 <= n /\ m # 0
        BY <3>2
      <4>2. f[m] = after(f[m - 1], m)
        BY <2>1, <4>1
      <4>3. g[m] = f[m] /\ g[m - 1] = f[m - 1]
        BY <4>1
      <4> QED
        BY <4>1, <4>2, <4>3
    <3>3. CASE m = n + 1
      <4>1. g[m] = next /\ g[n] = f[n] /\ m - 1 = n /\ m # 0
        <5> HIDE DEF next
        <5> QED
          BY <3>3
      <4> QED
        BY <3>3, <4>1
    <3> QED
      BY <3>1, <3>2, <3>3
  <2>3. g = [m \in 0 .. n + 1 |-> g[m]]
    OBVIOUS
  <2>4. Solves(g, n + 1)
    <3> HIDE DEF g
    <3> QED
      BY <2>2, <2>3
  <2> HIDE DEF g, Solves
  <2> QED
    BY <2>4
<1>3. \E f : Solves(f, total)
  <2> HIDE DEF S
  <2>1. Nat \subseteq S
    BY <1>1, <1>2, NatInductionOnSets
  <2> QED
    BY <2>1 DEF S
<1> DEFINE upTo == CHOOSE f : Solves(f, total)
<1>4. Solves(upTo, total)
  <2> HIDE DEF Solves
  <2> QED
    BY <1>3
<1>5. Places(axis, iter) = upTo[total]
  BY DEF Places
<1> HIDE DEF upTo, after
<1>6. upTo[0] = <<>>
  BY <1>4
<1>7. \A n \in 1 .. total : upTo[n] = after(upTo[n - 1], n)
  <2> TAKE n \in 1 .. total
  <2>1. n \in 0 .. total /\ n # 0
    OBVIOUS
  <2> QED
    BY <1>4, <2>1
<1> QED
  BY <1>5, <1>6, <1>7 DEF after

(* A point has a place if a group that holds it is still to come: the      *)
(* first that does.                                                        *)
LEMMA PlaceFacts ==
  ASSUME NEW axis, Len(axis) \in Nat, NEW p, NEW home \in 1 .. Len(axis),
         SpanContains(axis[home].time, p.time), NEW from \in 1 .. home
  PROVE  /\ Place(axis, from, p) \in from .. home
         /\ SpanContains(axis[Place(axis, from, p)].time, p.time)
         /\ \A g \in from .. Place(axis, from, p) - 1 : ~SpanContains(axis[g].time, p.time)
<1> DEFINE fits == {g \in from .. Len(axis) : SpanContains(axis[g].time, p.time)}
<1>1. fits \in SUBSET Nat /\ home \in fits
  OBVIOUS
<1>2. /\ \A g \in fits : g >= from /\ SpanContains(axis[g].time, p.time)
      /\ \A g \in from .. Len(axis) : SpanContains(axis[g].time, p.time) => g \in fits
      /\ home \in Nat /\ home <= Len(axis) /\ from \in Nat
  OBVIOUS
<1>3. Place(axis, from, p) = IF from = 0 \/ fits = {} THEN 0 ELSE Min(fits)
  BY DEF Place
<1> HIDE DEF fits
<1>4. PICK m \in fits : \A j \in fits : m <= j
  BY <1>1, LeastNatural
<1>5. Min(fits) \in fits /\ \A j \in fits : Min(fits) <= j
  BY <1>4 DEF Min
<1>6. from # 0 /\ fits # {}
  BY <1>1
<1> DEFINE least == Min(fits)
<1>7. least \in Nat /\ least >= from /\ least <= home /\ SpanContains(axis[least].time, p.time)
  BY <1>1, <1>2, <1>5
<1>8. ASSUME NEW g \in from .. least - 1, SpanContains(axis[g].time, p.time)
      PROVE  FALSE
  <2> HIDE DEF least
  <2>1. g \in from .. Len(axis) /\ ~(least <= g)
    BY <1>2, <1>7
  <2> QED
    BY <1>2, <1>5, <1>8, <2>1 DEF least
<1> HIDE DEF least
<1>9. Place(axis, from, p) = least /\ least \in from .. home
  BY <1>2, <1>3, <1>6, <1>7 DEF least
<1> QED
  BY <1>7, <1>8, <1>9

(* Homes of the points of an iterator on an axis: groups that hold them,   *)
(* none before that of the point before.                                   *)
Homes(axis, iter) ==
  {home \in [1 .. iter.total -> 1 .. Len(axis)] :
     /\ \A i, j \in 1 .. iter.total : i <= j => home[i] <= home[j]
     /\ \A i \in 1 .. iter.total : SpanContains(axis[home[i]].time, PointAt(iter, i - 1).time)}

(* Where the points have homes every point finds a place, at or before its *)
(* home: the first group, from that of the point before, that holds it.    *)
LEMMA PlacesFound ==
  ASSUME NEW axis, Len(axis) \in Nat, NEW iter, iter.total \in Nat,
         NEW home \in Homes(axis, iter)
  PROVE  LET places == Places(axis, iter)
             from(i) == IF i = 1 THEN 1 ELSE places[i - 1]
         IN  /\ places \in Seq(Nat) /\ Len(places) = iter.total
             /\ \A i \in 1 .. iter.total :
                  /\ places[i] \in 1 .. home[i] /\ from(i) \in 1 .. home[i]
                  /\ places[i] \in from(i) .. home[i]
                  /\ SpanContains(axis[places[i]].time, PointAt(iter, i - 1).time)
                  /\ \A g \in from(i) .. places[i] - 1 :
                       ~SpanContains(axis[g].time, PointAt(iter, i - 1).time)
<1> DEFINE N == iter.total
<1>0. /\ home \in [1 .. N -> 1 .. Len(axis)]
      /\ \A i, j \in 1 .. N : i <= j => home[i] <= home[j]
      /\ \A i \in 1 .. N : SpanContains(axis[home[i]].time, PointAt(iter, i - 1).time)
  BY DEF Homes
<1>1. PICK f : /\ f[0] = <<>>
               /\ \A n \in 1 .. N :
                    f[n] = Append(f[n - 1], Place(axis, IF n = 1 THEN 1 ELSE f[n - 1][n - 1],
                                                  PointAt(iter, n - 1)))
               /\ Places(axis, iter) = f[N]
  BY PlacesSteps
<1> DEFINE from(s, j) == IF j = 1 THEN 1 ELSE s[j - 1]
           found(s, j) == /\ s[j] \in 1 .. home[j] /\ from(s, j) \in 1 .. home[j]
                          /\ s[j] \in from(s, j) .. home[j]
                          /\ SpanContains(axis[s[j]].time, PointAt(iter, j - 1).time)
                          /\ \A g \in from(s, j) .. s[j] - 1 :
                               ~SpanContains(axis[g].time, PointAt(iter, j - 1).time)
           T == {n \in Nat : n <= N =>
                   f[n] \in Seq(Nat) /\ Len(f[n]) = n /\ \A j \in 1 .. n : found(f[n], j)}
<1> HIDE DEF N
<1>2. 0 \in T
  <2>1. <<>> \in Seq(Nat) /\ Len(<<>>) = 0
    OBVIOUS
  <2>2. \A j \in 1 .. 0 : found(f[0], j)
    <3> HIDE DEF found
    <3> QED
      OBVIOUS
  <2>3. f[0] \in Seq(Nat) /\ Len(f[0]) = 0
    BY <1>1, <2>1
  <2> HIDE DEF found
  <2> QED
    BY <2>2, <2>3
<1>3. ASSUME NEW n \in Nat, n \in T
      PROVE  n + 1 \in T
  <2> HIDE DEF found
  <2> SUFFICES ASSUME n + 1 <= N
               PROVE  /\ f[n + 1] \in Seq(Nat) /\ Len(f[n + 1]) = n + 1
                      /\ \A j \in 1 .. n + 1 : found(f[n + 1], j)
    OBVIOUS
  <2>0. N \in Nat
    BY DEF N
  <2>1. /\ f[n] \in Seq(Nat) /\ Len(f[n]) = n
        /\ \A j \in 1 .. n : found(f[n], j)
    BY <1>3, <2>0
  <2>2. n + 1 \in 1 .. N /\ (n + 1) - 1 = n
    BY <2>0
  <2> DEFINE start == IF n + 1 = 1 THEN 1 ELSE f[n][n]
             g == Place(axis, start, PointAt(iter, n))
  <2>3. f[n + 1] = Append(f[n], g)
    BY <1>1, <2>2
  <2>4. home[n + 1] \in 1 .. Len(axis) /\ SpanContains(axis[home[n + 1]].time, PointAt(iter, n).time)
    BY <1>0, <2>2
  <2> HIDE DEF T
  <2>5. start \in 1 .. home[n + 1]
    <3>1. CASE n = 0
      BY <2>4, <3>1
    <3>2. CASE n # 0
      <4>1. n \in 1 .. n /\ n \in 1 .. N /\ n <= n + 1 /\ n + 1 # 1
        BY <2>0, <2>2, <3>2
      <4>2. f[n][n] \in 1 .. home[n] /\ home[n] <= home[n + 1] /\ home[n] \in 1 .. Len(axis)
        BY <1>0, <2>1, <2>2, <4>1 DEF found
      <4> QED
        BY <2>4, <4>1, <4>2
    <3> QED
      BY <3>1, <3>2
  <2>6. /\ g \in start .. home[n + 1] /\ SpanContains(axis[g].time, PointAt(iter, n).time)
        /\ \A h \in start .. g - 1 : ~SpanContains(axis[h].time, PointAt(iter, n).time)
    <3> HIDE DEF start
    <3> QED
      BY <2>4, <2>5, PlaceFacts
  <2>7. g \in Nat /\ g \in 1 .. home[n + 1]
    <3> HIDE DEF start, g
    <3> QED
      BY <2>4, <2>5, <2>6
  <2>8. /\ f[n + 1] \in Seq(Nat) /\ Len(f[n + 1]) = n + 1 /\ f[n + 1][n + 1] = g
        /\ \A j \in 1 .. n : f[n + 1][j] = f[n][j]
    <3> HIDE DEF g
    <3> QED
      BY <2>1, <2>3, <2>7
  <2>9. ASSUME NEW j \in 1 .. n + 1
        PROVE  found(f[n + 1], j)
    <3>1. j = n + 1 \/ j \in 1 .. n
      OBVIOUS
    <3>2. CASE j = n + 1
      <4>1. from(f[n + 1], j) = start
        <5>1. CASE n = 0
          BY <3>2, <5>1
        <5>2. CASE n # 0
          <6>1. n \in 1 .. n /\ j # 1 /\ j - 1 = n
            BY <3>2, <5>2
          <6> QED
            BY <2>8, <3>2, <6>1
        <5> QED
          BY <5>1, <5>2
      <4>2. f[n + 1][j] = g /\ j - 1 = n
        BY <2>2, <2>8, <3>2
      <4> HIDE DEF start, g, from
      <4> QED
        BY <2>5, <2>6, <2>7, <3>2, <4>1, <4>2 DEF found
    <3>3. CASE j \in 1 .. n
      <4>1. f[n + 1][j] = f[n][j] /\ found(f[n], j)
        BY <2>1, <2>8, <3>3
      <4>2. from(f[n + 1], j) = from(f[n], j)
        <5>1. CASE j = 1
          BY <5>1
        <5>2. CASE j # 1
          <6>1. j - 1 \in 1 .. n
            BY <3>3, <5>2
          <6> QED
            BY <2>8, <5>2, <6>1
        <5> QED
          BY <5>1, <5>2
      <4> HIDE DEF from
      <4> QED
        BY <4>1, <4>2 DEF found
    <3> QED
      BY <3>1, <3>2, <3>3
  <2> QED
    BY <2>8, <2>9
<1>4. N \in T
  <2>1. N \in Nat
    BY DEF N
  <2>2. \A n \in Nat : n \in T => n + 1 \in T
    BY <1>3
  <2> HIDE DEF T
  <2> QED
    BY <1>2, <2>1, <2>2, NatInductionOnSets
<1>5. f[N] \in Seq(Nat) /\ Len(f[N]) = N /\ \A j \in 1 .. N : found(f[N], j)
  <2>1. N \in Nat /\ N <= N
    BY DEF N
  <2> HIDE DEF found
  <2> QED
    BY <1>4, <2>1
<1> QED
  BY <1>1, <1>5 DEF N

(* Intervals that lie end to end are in order.                             *)
LEMMA EndToEnd ==
  ASSUME NEW n \in Nat, NEW b, NEW e, \A i \in 1 .. n : b[i] \in Int /\ e[i] \in Int /\ b[i] <= e[i],
         \A i \in 1 .. n - 1 : e[i] + 1 = b[i + 1]
  PROVE  \A i, j \in 1 .. n : i < j => e[i] < b[j]
<1> DEFINE T == {m \in Nat : m <= n => \A i, j \in 1 .. m : i < j => e[i] < b[j]}
<1>1. 0 \in T
  OBVIOUS
<1>2. ASSUME NEW m \in Nat, m \in T
      PROVE  m + 1 \in T
  <2> SUFFICES ASSUME m + 1 <= n
               PROVE  \A i, j \in 1 .. m + 1 : i < j => e[i] < b[j]
    OBVIOUS
  <2>0. \A i, j \in 1 .. m : i < j => e[i] < b[j]
    BY <1>2
  <2> HIDE DEF T
  <2> TAKE i, j \in 1 .. m + 1
  <2> HAVE i < j
  <2>1. CASE j \in 1 .. m
    <3>1. i \in 1 .. m
      BY <2>1
    <3> QED
      BY <2>0, <2>1, <3>1
  <2>2. CASE j = m + 1
    <3>1. m \in 1 .. n /\ m \in 1 .. n - 1 /\ i \in 1 .. m /\ i \in 1 .. n /\ m \in 1 .. m
          /\ j \in 1 .. n
      BY <2>2
    <3>2. e[m] + 1 = b[j] /\ e[m] \in Int /\ b[m] \in Int /\ b[m] <= e[m]
          /\ e[i] \in Int /\ b[j] \in Int
      BY <2>2, <3>1
    <3>3. CASE i = m
      BY <3>2, <3>3
    <3>4. CASE i < m
      <4>1. e[i] < b[m]
        BY <2>0, <3>1, <3>4
      <4> QED
        BY <3>2, <4>1
    <3> QED
      BY <3>1, <3>3, <3>4
  <2> QED
    BY <2>1, <2>2
<1>3. n \in T
  <2>1. \A m \in Nat : m \in T => m + 1 \in T
    BY <1>2
  <2> HIDE DEF T
  <2> QED
    BY <1>1, <2>1, NatInductionOnSets
<1> QED
  BY <1>3

(* Each number from the first to the last is in one of the intervals.      *)
LEMMA InOne ==
  ASSUME NEW n \in Nat \ {0}, NEW b, NEW e, \A i \in 1 .. n : b[i] \in Int /\ e[i] \in Int,
         \A i \in 1 .. n - 1 : e[i] + 1 = b[i + 1],
         NEW x \in Int, b[1] <= x, x <= e[n]
  PROVE  \E i \in 1 .. n : b[i] <= x /\ x <= e[i]
<1> DEFINE S == {i \in 1 .. n : x <= e[i]}
<1>1. S \in SUBSET Nat /\ n \in S
  OBVIOUS
<1> HIDE DEF S
<1>2. PICK i \in S : \A j \in S : i <= j
  BY <1>1, LeastNatural
<1>3. i \in 1 .. n /\ x <= e[i]
  BY <1>2 DEF S
<1>4. CASE i = 1
  BY <1>3, <1>4
<1>5. CASE i # 1
  <2>1. i - 1 \in 1 .. n /\ i - 1 \in 1 .. n - 1 /\ (i - 1) + 1 = i /\ ~(i <= i - 1)
    BY <1>3, <1>5
  <2>2. i - 1 \notin S
    BY <1>2, <2>1
  <2>3. ~(x <= e[i - 1]) /\ e[i - 1] \in Int /\ e[i - 1] + 1 = b[i]
    BY <2>1, <2>2 DEF S
  <2>4. b[i] \in Int /\ b[i] <= x
    BY <1>3, <2>3
  <2> QED
    BY <1>3, <2>4
<1> QED
  BY <1>4, <1>5

(* The interval that holds a number.                                       *)
Holder(b, e, n, x) == CHOOSE i \in 1 .. n : b[i] <= x /\ x <= e[i]

(* With intervals end to end every number between the first and the last   *)
(* has its interval, and greater numbers have later ones.                  *)
LEMMA HolderFacts ==
  ASSUME NEW n \in Nat \ {0}, NEW b, NEW e,
         \A i \in 1 .. n : b[i] \in Int /\ e[i] \in Int /\ b[i] <= e[i],
         \A i \in 1 .. n - 1 : e[i] + 1 = b[i + 1],
         NEW x \in Int, NEW y \in Int, b[1] <= x, x <= y, y <= e[n]
  PROVE  /\ Holder(b, e, n, x) \in 1 .. n
         /\ b[Holder(b, e, n, x)] <= x /\ x <= e[Holder(b, e, n, x)]
         /\ Holder(b, e, n, x) <= Holder(b, e, n, y)
<1> DEFINE h(z) == Holder(b, e, n, z)
<1>1. 1 \in 1 .. n /\ n \in 1 .. n /\ b[1] \in Int /\ e[n] \in Int
  OBVIOUS
<1>2. b[1] <= y /\ x <= e[n]
  BY <1>1
<1>3. \A i \in 1 .. n : b[i] \in Int /\ e[i] \in Int
  OBVIOUS
<1>4. \E i \in 1 .. n : b[i] <= x /\ x <= e[i]
  BY <1>2, <1>3, InOne
<1>5. \E i \in 1 .. n : b[i] <= y /\ y <= e[i]
  BY <1>2, <1>3, InOne
<1>6. h(x) \in 1 .. n /\ b[h(x)] <= x /\ x <= e[h(x)]
  BY <1>4 DEF Holder
<1>7. h(y) \in 1 .. n /\ b[h(y)] <= y /\ y <= e[h(y)]
  BY <1>5 DEF Holder
<1> HIDE DEF h
<1>8. h(x) <= h(y)
  <2> SUFFICES ASSUME h(y) < h(x)
               PROVE  FALSE
    BY <1>6, <1>7
  <2>1. \A i, j \in 1 .. n : i < j => e[i] < b[j]
    BY EndToEnd
  <2>2. e[h(y)] < b[h(x)]
    BY <1>6, <1>7, <2>1
  <2>3. e[h(y)] \in Int /\ b[h(x)] \in Int
    BY <1>3, <1>6, <1>7
  <2> QED
    BY <1>6, <1>7, <2>2, <2>3
<1> QED
  BY <1>6, <1>8 DEF h

(* The span that has a point.                                              *)
SpanAt(x) ==
  Holder([i \in 1 .. Len(spans) |-> spans[i].start], [i \in 1 .. Len(spans) |-> spans[i].end],
         Len(spans), x)

(* Every point has its span, that describes its time, and later points     *)
(* have no earlier one.                                                    *)
LEMMA SpanAtFacts ==
  ASSUME SpansSound, NEW x \in Nat, NEW y \in Nat, x <= y, y < Len(points)
  PROVE  /\ SpanAt(x) \in 1 .. Len(spans) /\ SpanAt(x) <= SpanAt(y)
         /\ SpanContains(spans[SpanAt(x)].time, points[x + 1].time)
<1> DEFINE n == Len(spans)
           b == [i \in 1 .. n |-> spans[i].start]
           e == [i \in 1 .. n |-> spans[i].end]
<1>1. n \in Nat \ {0} /\ Len(points) \in Nat
  BY DEF SpansSound
<1>2. \A i \in 1 .. n : /\ b[i] = spans[i].start /\ e[i] = spans[i].end
                        /\ b[i] \in Int /\ e[i] \in Int /\ b[i] <= e[i]
  BY SpanFacts
<1>3. \A i \in 1 .. n - 1 : e[i] + 1 = b[i + 1]
  <2> TAKE i \in 1 .. n - 1
  <2>1. i \in 1 .. n /\ i + 1 \in 1 .. n /\ spans[i].end + 1 = spans[i + 1].start
    BY <1>1 DEF SpansSound
  <2> QED
    BY <1>2, <2>1
<1>4. b[1] = 0 /\ e[n] = Len(points) - 1
  BY <1>1, <1>2 DEF SpansSound
<1>5. SpanAt(x) = Holder(b, e, n, x) /\ SpanAt(y) = Holder(b, e, n, y)
  BY DEF SpanAt
<1> HIDE DEF b, e, n
<1>6. /\ Holder(b, e, n, x) \in 1 .. n
      /\ b[Holder(b, e, n, x)] <= x /\ x <= e[Holder(b, e, n, x)]
      /\ Holder(b, e, n, x) <= Holder(b, e, n, y)
  <2>1. x \in Int /\ y \in Int /\ b[1] <= x /\ y <= e[n]
    BY <1>1, <1>4
  <2> QED
    BY <1>1, <1>2, <1>3, <2>1, HolderFacts
<1> DEFINE i == SpanAt(x)
<1>7. i \in 1 .. n /\ spans[i].start <= x /\ x <= spans[i].end
  BY <1>2, <1>5, <1>6
<1> HIDE DEF i
<1>8. spans[i].start \in Nat /\ spans[i].end \in Nat
  BY <1>7, SpanFacts DEF n
<1>9. x + 1 \in spans[i].start + 1 .. spans[i].end + 1
  BY <1>7, <1>8
<1>10. SpanContains(spans[i].time, points[x + 1].time)
  BY <1>7, <1>9 DEF SpansSound, Describes, n
<1> QED
  BY <1>5, <1>6, <1>10 DEF i, n

(* An axis has all spans in order, and the time of a group holds that of   *)
(* each of its spans and begins with one of them.                          *)
AxisSound(axis) ==
  /\ Len(axis) \in Nat \ {0}
  /\ axis[1].from = 1 /\ axis[Len(axis)].to = Len(spans)
  /\ \A g \in 1 .. Len(axis) - 1 : axis[g].to + 1 = axis[g + 1].from
  /\ \A g \in 1 .. Len(axis) :
       /\ axis[g].from \in Int /\ axis[g].to \in Int /\ axis[g].from <= axis[g].to
       /\ axis[g].time.begin \in Int /\ axis[g].time.end \in Int
       /\ axis[g].time.begin <= axis[g].time.end
       /\ axis[g].time.duration = axis[g].time.end - axis[g].time.begin
       /\ axis[g].width \in Int
       /\ \E i \in axis[g].from .. axis[g].to : axis[g].time.begin = spans[i].time.begin
       /\ \A i \in axis[g].from .. axis[g].to :
            /\ axis[g].time.begin <= spans[i].time.begin
            /\ spans[i].time.end <= axis[g].time.end

(* The group that has the span of a point.                                 *)
HomeAt(axis, x) ==
  Holder([g \in 1 .. Len(axis) |-> axis[g].from], [g \in 1 .. Len(axis) |-> axis[g].to],
         Len(axis), SpanAt(x))

(* Every point has its group on the axis, that holds its time, and later   *)
(* points have no earlier one.                                             *)
LEMMA HomeFacts ==
  ASSUME SpansSound, NEW axis, AxisSound(axis),
         NEW x \in Nat, NEW y \in Nat, x <= y, y < Len(points)
  PROVE  /\ HomeAt(axis, x) \in 1 .. Len(axis) /\ HomeAt(axis, x) <= HomeAt(axis, y)
         /\ SpanContains(axis[HomeAt(axis, x)].time, points[x + 1].time)
<1> DEFINE n == Len(axis)
           b == [g \in 1 .. n |-> axis[g].from]
           e == [g \in 1 .. n |-> axis[g].to]
           i == SpanAt(x)
           j == SpanAt(y)
<1>1. n \in Nat \ {0} /\ Len(spans) \in Nat /\ Len(points) \in Nat /\ y <= y
  BY DEF SpansSound, AxisSound
<1>2. /\ i \in 1 .. Len(spans) /\ j \in 1 .. Len(spans) /\ i <= j
      /\ SpanContains(spans[i].time, points[x + 1].time)
  <2>1. i \in 1 .. Len(spans) /\ i <= j /\ SpanContains(spans[i].time, points[x + 1].time)
    BY SpanAtFacts
  <2>2. j \in 1 .. Len(spans)
    BY <1>1, SpanAtFacts
  <2> QED
    BY <2>1, <2>2
<1>3. HomeAt(axis, x) = Holder(b, e, n, i) /\ HomeAt(axis, y) = Holder(b, e, n, j)
  BY DEF HomeAt
<1> HIDE DEF i, j
<1>4. \A g \in 1 .. n : /\ b[g] = axis[g].from /\ e[g] = axis[g].to
                        /\ b[g] \in Int /\ e[g] \in Int /\ b[g] <= e[g]
  BY DEF AxisSound
<1>5. \A g \in 1 .. n - 1 : e[g] + 1 = b[g + 1]
  <2> TAKE g \in 1 .. n - 1
  <2>1. axis[g].to + 1 = axis[g + 1].from
    BY DEF AxisSound
  <2> HIDE DEF n
  <2>2. g \in 1 .. n /\ g + 1 \in 1 .. n
    BY <1>1
  <2> HIDE DEF b, e
  <2> QED
    BY <1>4, <2>1, <2>2
<1>6. b[1] = 1 /\ e[n] = Len(spans)
  BY <1>1, <1>4 DEF AxisSound
<1> HIDE DEF b, e, n
<1>7. /\ Holder(b, e, n, i) \in 1 .. n
      /\ b[Holder(b, e, n, i)] <= i /\ i <= e[Holder(b, e, n, i)]
      /\ Holder(b, e, n, i) <= Holder(b, e, n, j)
  <2>1. i \in Int /\ j \in Int /\ b[1] <= i /\ j <= e[n]
    BY <1>1, <1>2, <1>6
  <2> QED
    BY <1>1, <1>2, <1>4, <1>5, <2>1, HolderFacts
<1> DEFINE g == HomeAt(axis, x)
<1>8. g \in 1 .. n /\ axis[g].from <= i /\ i <= axis[g].to
  BY <1>3, <1>4, <1>7
<1> HIDE DEF g
<1>9. /\ axis[g].from \in Int /\ axis[g].to \in Int
      /\ axis[g].time.begin \in Int /\ axis[g].time.end \in Int
      /\ \A k \in axis[g].from .. axis[g].to :
           axis[g].time.begin <= spans[k].time.begin /\ spans[k].time.end <= axis[g].time.end
  BY <1>8 DEF AxisSound, n
<1>10. i \in axis[g].from .. axis[g].to
  BY <1>1, <1>2, <1>8, <1>9
<1>11. axis[g].time.begin <= spans[i].time.begin /\ spans[i].time.end <= axis[g].time.end
  BY <1>9, <1>10
<1>12. spans[i].time.begin \in Int /\ spans[i].time.end \in Int
  BY <1>2, SpanFacts
<1>13. points[x + 1].time \in Int
  <2>1. points[x + 1] \in PointType
    BY <1>1 DEF SpansSound
  <2> QED
    BY <2>1 DEF PointType
<1>14. SpanContains(axis[g].time, points[x + 1].time)
  <2> DEFINE t == points[x + 1].time
  <2>1. spans[i].time.begin <= t /\ t <= spans[i].time.end
    BY <1>2 DEF SpanContains
  <2>2. \A u, v, w \in Int : u <= v /\ v <= w => u <= w
    OBVIOUS
  <2>3. axis[g].time.begin <= t /\ t <= axis[g].time.end
    <3> HIDE DEF t
    <3>1. t \in Int
      BY <1>13 DEF t
    <3> QED
      BY <1>9, <1>11, <1>12, <2>1, <2>2, <3>1, Zenon
  <2> QED
    BY <2>3 DEF SpanContains
<1> QED
  BY <1>3, <1>7, <1>14 DEF g, n

(* The axis of all points.                                                 *)
LEMMA WholeAxis ==
  ASSUME SpansSound, NEW width \in Int
  PROVE  AxisSound(XAxis(width, FALSE))
<1> DEFINE space == width - 6
           G == Combined(space)
           axis == Widened(G, space)
<1>1. space \in Int /\ XAxis(width, FALSE) = axis
  BY DEF XAxis
<1> HIDE DEF space
<1>2. GroupsSound(G, Len(spans)) /\ TotalWidth(G) \in Int
  BY <1>1, CombinedFacts
<1> HIDE DEF G
<1>3. /\ G \in Seq(GroupType) /\ Len(G) \in Nat \ {0} /\ Len(G) >= 1
      /\ G[1].from = 1 /\ G[Len(G)].to = Len(spans)
      /\ \A g \in 1 .. Len(G) - 1 : G[g].to + 1 = G[g + 1].from
  <2>1. Len(spans) > 0 /\ Len(spans) # 0
    BY DEF SpansSound
  <2>2. G \in Seq(GroupType) /\ Len(G) # 0
    BY <1>2, <2>1 DEF GroupsSound
  <2>3. Len(G) \in Nat \ {0} /\ Len(G) >= 1
    BY <2>2
  <2> QED
    BY <1>2, <2>1, <2>2, <2>3 DEF GroupsSound
<1>4. /\ Len(axis) = Len(G)
      /\ \A g \in 1 .. Len(G) : /\ axis[g].from = G[g].from /\ axis[g].to = G[g].to
                                /\ axis[g].time = G[g].time /\ axis[g].width \in Int
  BY <1>1, <1>2, <1>3, WidenedFacts
<1> HIDE DEF axis
<1>5. axis[1].from = 1 /\ axis[Len(axis)].to = Len(spans)
  BY <1>3, <1>4
<1>6. ASSUME NEW g \in 1 .. Len(axis) - 1
      PROVE  axis[g].to + 1 = axis[g + 1].from
  <2>1. g \in 1 .. Len(G) - 1 /\ g \in 1 .. Len(G) /\ g + 1 \in 1 .. Len(G)
    BY <1>3, <1>4
  <2> QED
    BY <1>3, <1>4, <2>1
<1>7. ASSUME NEW g \in 1 .. Len(axis)
      PROVE  /\ axis[g].from \in Int /\ axis[g].to \in Int /\ axis[g].from <= axis[g].to
             /\ axis[g].time.begin \in Int /\ axis[g].time.end \in Int
             /\ axis[g].time.begin <= axis[g].time.end
             /\ axis[g].time.duration = axis[g].time.end - axis[g].time.begin
             /\ axis[g].width \in Int
             /\ \E i \in axis[g].from .. axis[g].to : axis[g].time.begin = spans[i].time.begin
             /\ \A i \in axis[g].from .. axis[g].to :
                  /\ axis[g].time.begin <= spans[i].time.begin
                  /\ spans[i].time.end <= axis[g].time.end
  <2>1. g \in 1 .. Len(G) /\ G[g] \in GroupType
    BY <1>3, <1>4
  <2>2. /\ G[g].from \in Int /\ G[g].to \in Int
        /\ G[g].time.begin \in Int /\ G[g].time.end \in Int
    BY <2>1 DEF GroupType, TimeSpan
  <2>3. /\ G[g].from <= G[g].to /\ G[g].time.begin <= G[g].time.end
        /\ G[g].time.duration = G[g].time.end - G[g].time.begin
        /\ \E i \in G[g].from .. G[g].to : G[g].time.begin = spans[i].time.begin
        /\ \A i \in G[g].from .. G[g].to :
             G[g].time.begin <= spans[i].time.begin /\ spans[i].time.end <= G[g].time.end
    BY <1>2, <2>1 DEF GroupsSound
  <2>4. /\ axis[g].from = G[g].from /\ axis[g].to = G[g].to /\ axis[g].time = G[g].time
        /\ axis[g].width \in Int
    BY <1>4, <2>1
  <2> QED
    BY <2>2, <2>3, <2>4
<1>8. Len(axis) \in Nat \ {0}
  BY <1>3, <1>4
<1> QED
  BY <1>1, <1>5, <1>6, <1>7, <1>8 DEF AxisSound

(* The offset of the last span is where it starts.                         *)
LEMMA OffsetFacts ==
  ASSUME SpansSound
  PROVE  SumTo([i \in 1 .. Len(spans) - 1 |-> spans[i].count], Len(spans) - 1)
           = spans[Len(spans)].start
<1> DEFINE L == Len(spans)
           f == [i \in 1 .. L - 1 |-> spans[i].count]
           T == {n \in Nat : n <= L - 1 => SumTo(f, n) = Counted(n)}
<1>1. L \in Nat \ {0} /\ L - 1 \in Nat
  BY DEF SpansSound
<1>2. 0 \in T
  BY SumSteps DEF Counted
<1>3. ASSUME NEW n \in Nat, n \in T
      PROVE  n + 1 \in T
  <2> SUFFICES ASSUME n + 1 <= L - 1
               PROVE  SumTo(f, n + 1) = Counted(n + 1)
    OBVIOUS
  <2>1. SumTo(f, n) = Counted(n)
    BY <1>1, <1>3
  <2>2. n < L /\ n + 1 \in 1 .. L - 1
    BY <1>1
  <2>3. Counted(n) \in Nat /\ Counted(n + 1) = Counted(n) + spans[n + 1].count
    BY <2>2, CountedFacts
  <2>4. f[n + 1] = spans[n + 1].count
    BY <2>2
  <2> HIDE DEF f
  <2>5. SumTo(f, n + 1) = SumTo(f, n) + f[n + 1]
    BY SumSteps
  <2> QED
    BY <2>1, <2>3, <2>4, <2>5
<1>4. SumTo(f, L - 1) = Counted(L - 1)
  <2>1. \A n \in Nat : n \in T => n + 1 \in T
    BY <1>3
  <2>2. L - 1 \in T
    <3> HIDE DEF T, L
    <3> QED
      BY <1>1, <1>2, <2>1, NatInductionOnSets
  <2>3. L - 1 <= L - 1
    BY <1>1
  <2> HIDE DEF f, L
  <2> QED
    BY <2>2, <2>3
<1>5. Counted(L - 1) = spans[L].start
  <2>1. CASE L - 1 = 0
    <3>1. L = 1
      BY <1>1, <2>1
    <3> QED
      BY <3>1 DEF SpansSound, Counted
  <2>2. CASE L - 1 # 0
    <3>1. L - 1 \in 1 .. L - 1 /\ (L - 1) + 1 = L
      <4> HIDE DEF L
      <4> QED
        BY <1>1, <2>2
    <3>2. spans[L - 1].end + 1 = spans[(L - 1) + 1].start
      BY <3>1 DEF SpansSound
    <3> QED
      BY <2>2, <3>1, <3>2 DEF Counted
  <2> QED
    BY <2>1, <2>2
<1> QED
  BY <1>4, <1>5

(* What the times on an axis are.                                          *)
TimesSound(axis) ==
  /\ Len(axis) \in Nat \ {0}
  /\ \A g \in 1 .. Len(axis) :
       /\ axis[g].time.begin \in Int /\ axis[g].time.end \in Int
       /\ axis[g].time.begin <= axis[g].time.end
       /\ axis[g].time.duration = axis[g].time.end - axis[g].time.begin
       /\ axis[g].width \in Int

(* Every point that is drawn has a home: with the whole axis, and with     *)
(* that of the last span.                                                  *)
LEMMA HomesExist ==
  ASSUME SpansSound, NEW width \in Int, NEW follow \in BOOLEAN
  PROVE  LET iter == Iter(follow)
             axis == XAxis(width, follow)
         IN  /\ iter.total \in Nat \ {0} /\ iter.offset \in Nat
             /\ iter.offset + iter.total = Len(points)
             /\ TimesSound(axis) /\ Homes(axis, iter) # {}
<1> DEFINE iter == Iter(follow)
           axis == XAxis(width, follow)
           L == Len(spans)
           N == Len(points)
<1>2. L \in Nat \ {0} /\ N \in Nat \ {0} /\ L \in 1 .. L
  BY DEF SpansSound
<1>3. CASE ~follow
  <2>1. iter.total = N /\ iter.offset = 0 /\ axis = XAxis(width, FALSE)
    BY <1>3 DEF Iter
  <2> HIDE DEF iter, axis
  <2>2. AxisSound(axis)
    BY <2>1, WholeAxis
  <2>3. Len(axis) \in Nat /\ TimesSound(axis)
    BY <2>2 DEF AxisSound, TimesSound
  <2> DEFINE home == [i \in 1 .. N |-> HomeAt(axis, i - 1)]
  <2>4. ASSUME NEW i \in 1 .. N, NEW j \in 1 .. N, i <= j
        PROVE  /\ home[i] \in 1 .. Len(axis) /\ home[i] <= home[j]
               /\ SpanContains(axis[home[i]].time, PointAt(iter, i - 1).time)
    <3>1. i - 1 \in Nat /\ j - 1 \in Nat /\ i - 1 <= j - 1 /\ j - 1 < N /\ (i - 1) + 1 = i
      <4> HIDE DEF home, N
      <4>1. N \in Nat
        BY <1>2
      <4>2. i \in Int /\ i >= 1 /\ j \in Int /\ j <= N /\ i <= j
        BY <2>4, <4>1
      <4> QED
        BY <4>1, <4>2
    <3>2. home[i] = HomeAt(axis, i - 1) /\ home[j] = HomeAt(axis, j - 1)
      OBVIOUS
    <3>3. PointAt(iter, i - 1) = points[i]
      BY <1>2, <2>1, <3>1 DEF PointAt
    <3> HIDE DEF home, N
    <3>4. j - 1 < Len(points)
      BY <3>1 DEF N
    <3>5. /\ HomeAt(axis, i - 1) \in 1 .. Len(axis)
          /\ HomeAt(axis, i - 1) <= HomeAt(axis, j - 1)
          /\ SpanContains(axis[HomeAt(axis, i - 1)].time, points[(i - 1) + 1].time)
      BY <2>2, <3>1, <3>4, HomeFacts
    <3> QED
      BY <3>1, <3>2, <3>3, <3>5
  <2> HIDE DEF N
  <2>5. home \in [1 .. N -> 1 .. Len(axis)]
    <3>1. \A i \in 1 .. N : i <= i
      BY <1>2
    <3>2. \A i \in 1 .. N : home[i] \in 1 .. Len(axis)
      BY <2>4, <3>1
    <3> QED
      BY <3>2
  <2> HIDE DEF home
  <2>6. \A i \in 1 .. N : SpanContains(axis[home[i]].time, PointAt(iter, i - 1).time)
    <3>1. \A i \in 1 .. N : i <= i
      BY <1>2
    <3> QED
      BY <2>4, <3>1
  <2>7. \A i, j \in 1 .. N : i <= j => home[i] <= home[j]
    BY <2>4
  <2>8. home \in Homes(axis, iter)
    BY <2>1, <2>5, <2>6, <2>7 DEF Homes
  <2> QED
    <3>1. iter.total \in Nat \ {0} /\ iter.offset \in Nat /\ iter.offset + iter.total = N
      BY <1>2, <2>1
    <3> QED
      BY <2>3, <2>8, <3>1 DEF iter, axis, N
<1>4. CASE follow
  <2> DEFINE s == spans[L]
  <2>1. /\ s.start \in Nat /\ s.end \in Nat /\ s.start <= s.end /\ s.end = N - 1
        /\ s.count \in Nat \ {0} /\ s.count = s.end - s.start + 1
    BY <1>2, SpanFacts DEF SpansSound
  <2>2. iter.total = s.count /\ iter.offset = s.start
    BY <1>4, OffsetFacts DEF Iter
  <2>3. axis = <<Group(L, width)>>
    BY <1>4 DEF XAxis
  <2>4. Len(axis) = 1 /\ axis[1].time = s.time /\ axis[1].width = width
    BY <2>3 DEF Group
  <2>5. Describes(points, s)
    BY <1>2 DEF SpansSound
  <2>6. /\ s.time.begin \in Int /\ s.time.end \in Int /\ s.time.begin <= s.time.end
        /\ s.time.duration = s.time.end - s.time.begin
    BY <1>2, SpanFacts
  <2> HIDE DEF s, iter, axis, N, L
  <2>7. TimesSound(axis)
    BY <2>4, <2>6 DEF TimesSound
  <2> DEFINE home == [i \in 1 .. iter.total |-> 1]
  <2>8. home \in [1 .. iter.total -> 1 .. Len(axis)]
    BY <2>4
  <2>9. ASSUME NEW i \in 1 .. iter.total
        PROVE  home[i] = 1 /\ SpanContains(axis[home[i]].time, PointAt(iter, i - 1).time)
    <3>1. (i - 1) + iter.offset + 1 \in s.start + 1 .. s.end + 1
      BY <2>1, <2>2
    <3>2. SpanContains(s.time, points[(i - 1) + iter.offset + 1].time)
      BY <2>5, <3>1 DEF Describes
    <3> QED
      BY <2>4, <3>2 DEF PointAt
  <2>10. \A i, j \in 1 .. iter.total : i <= j => home[i] <= home[j]
    BY <2>9
  <2> HIDE DEF home
  <2>11. home \in Homes(axis, iter)
    BY <2>8, <2>9, <2>10 DEF Homes
  <2>12. iter.offset + iter.total = N
    BY <1>2, <2>1, <2>2
  <2> QED
    BY <2>1, <2>2, <2>7, <2>11, <2>12 DEF iter, axis, N
<1> QED
  BY <1>3, <1>4

(* So it finds its place.                                                  *)
LEMMA GraphPlaces == GraphInv => PointsFindTheirPlace
<1> SUFFICES ASSUME GraphInv, Drawn, NEW width \in Widths, NEW follow \in BOOLEAN
             PROVE  LET iter == Iter(follow)
                        places == Places(XAxis(width, follow), iter)
                    IN  /\ \A i \in 1 .. iter.total : places[i] # 0
                        /\ iter.offset + iter.total = Len(points)
  BY DEF PointsFindTheirPlace
<1> DEFINE iter == Iter(follow)
           axis == XAxis(width, follow)
           places == Places(axis, iter)
<1>1. SpansSound /\ width \in Int
  BY GraphSpans, SpansAssumption
<1>2. /\ iter.total \in Nat /\ iter.offset + iter.total = Len(points)
      /\ Len(axis) \in Nat /\ Homes(axis, iter) # {}
  BY <1>1, HomesExist DEF TimesSound
<1> HIDE DEF iter, axis
<1>3. PICK home : home \in Homes(axis, iter)
  BY <1>2
<1>4. ASSUME NEW i \in 1 .. iter.total
      PROVE  places[i] # 0
  <2>1. places[i] \in 1 .. home[i]
    BY <1>2, <1>3, PlacesFound
  <2>2. home[i] \in 1 .. Len(axis)
    BY <1>3 DEF Homes
  <2> HIDE DEF places
  <2> QED
    BY <1>2, <2>1, <2>2
<1> QED
  BY <1>2, <1>4 DEF iter, axis

-----------------------------------------------------------------------------
(* The theorems                                                            *)

(* The fields of a span keep their types, and the variance of its gaps,    *)
(* which is kept up to date by sums, is never negative (SpanInfo).         *)
THEOREM TypeCorrect == Spec => []TypeOK
BY GraphInductive, GraphTypes, PTL

(* The spans lie end to end over all the points and describe their own,    *)
(* for any times in any order, any number of points and restarts           *)
(* (addPointToSpans, NewGraphData).                                        *)
THEOREM SpansTileHolds == Spec => []SpansTile
BY GraphInductive, GraphTiles, PTL

(* Points that come at equal intervals are never taken apart, for any      *)
(* interval and any number of points, lost ones among them or not, also    *)
(* after their times have lost what is below the millisecond, if they      *)
(* are still equal then (SpanInfo.AddPoint).                               *)
THEOREM SteadyIsOneSpanHolds == Spec => []SteadyIsOneSpan
BY GraphInductive, GraphSteady, PTL

(* The axis has all spans in order, none of its groups but the last is     *)
(* narrower than the least, and their widths share out the columns there   *)
(* are and no more, for any width and any number of spans                  *)
(* (combineSpansPixelWise).                                                *)
THEOREM WidthsShareTheAxisHolds == Spec => []WidthsShareTheAxis
BY GraphInductive, GraphFills, PTL

(* Every point drawn finds its place on the axis, for any width, any       *)
(* number of spans and of merges of them, and times in any order: the      *)
(* iterator never runs out of groups (xAxisIter.Get, LockFreeIter).        *)
THEOREM PointsFindTheirPlaceHolds == Spec => []PointsFindTheirPlace
BY GraphInductive, GraphPlaces, PTL
=============================================================================
