----------------------------- MODULE Statistics -----------------------------
(***************************************************************************)
(* The statistics graph/data/data.go keeps up to date with every point:    *)
(* Stats, TimeSpan, Header and Runs.  They are exact here: a mean is kept  *)
(* as the sum it is the mean of, the variance is left out.                 *)
(***************************************************************************)
EXTENDS Integers

MinOf(a, b) == IF a < b THEN a ELSE b
MaxOf(a, b) == IF a > b THEN a ELSE b

NoStats == [min |-> 0, max |-> 0, sum |-> 0, good |-> 0, dropped |-> 0]

(* Mutant: no special case for the first good point.                       *)
StatsAddNoFirst(s, p) ==
  IF p.dropped THEN [s EXCEPT !.dropped = @ + 1]
  ELSE [s EXCEPT !.min = MinOf(@, p.duration), !.max = MaxOf(@, p.duration),
                 !.sum = @ + p.duration, !.good = @ + 1]

(* Stats.AddPoint and Stats.AddDroppedPacket                               *)
StatsAdd(s, p) ==
  IF p.dropped THEN [s EXCEPT !.dropped = @ + 1]
  ELSE [s EXCEPT !.min = IF s.good = 0 THEN p.duration ELSE MinOf(@, p.duration),
                 !.max = IF s.good = 0 THEN p.duration ELSE MaxOf(@, p.duration),
                 !.sum = @ + p.duration,
                 !.good = @ + 1]

SpanFrom(t) == [begin |-> t, end |-> t, duration |-> 0]

(* Mutant: timestamps are taken to come in order.                          *)
SpanAddInOrder(span, t) ==
  [begin |-> span.begin, end |-> t, duration |-> t - span.begin]

(* TimeSpan.AddTimestamp                                                   *)
SpanAdd(span, t) ==
  LET b == MinOf(span.begin, t)
      e == MaxOf(span.end, t)
  IN  [begin |-> b, end |-> e, duration |-> e - b]

NoHeader == [stats |-> NoStats, span |-> SpanFrom(0)]

(* Header.AddPoint: the time span starts over with every point until there *)
(* is a good one.                                                          *)
HeaderAdd(h, p) ==
  [stats |-> StatsAdd(h.stats, p),
   span  |-> IF h.stats.good = 0 THEN SpanFrom(p.time) ELSE SpanAdd(h.span, p.time)]

NoRun == [longest |-> 0, current |-> 0, lastIndex |-> 0]

(* Mutant: a streak as long as the longest replaces it.                    *)
RunIncAtLeast(r, index) ==
  IF r.current + 1 >= r.longest
  THEN [longest |-> r.current + 1, current |-> r.current + 1, lastIndex |-> index]
  ELSE [r EXCEPT !.current = @ + 1]

(* Run.Inc and Run.Reset                                                   *)
RunInc(r, index) ==
  IF r.current + 1 > r.longest
  THEN [longest |-> r.current + 1, current |-> r.current + 1, lastIndex |-> index]
  ELSE [r EXCEPT !.current = @ + 1]
RunReset(r) == [r EXCEPT !.current = 0]

NoRuns == [good |-> NoRun, dropped |-> NoRun]

RunsAdd(r, index, p) ==
  IF p.dropped
  THEN [good |-> RunReset(r.good), dropped |-> RunInc(r.dropped, index)]
  ELSE [good |-> RunInc(r.good, index), dropped |-> RunReset(r.dropped)]

-----------------------------------------------------------------------------
(* Stats.Merge and TimeSpan.Merge, for what is drawn together.             *)
StatsMerge(s, other) ==
  [min     |-> MinOf(s.min, other.min),
   max     |-> MaxOf(s.max, other.max),
   sum     |-> s.sum + other.sum,
   good    |-> s.good + other.good,
   dropped |-> s.dropped + other.dropped]

SpanMerge(span, other) ==
  LET b == MinOf(span.begin, other.begin)
      e == MaxOf(span.end, other.end)
  IN  [begin |-> b, end |-> e, duration |-> e - b]

SpanContains(span, t) == span.begin <= t /\ t <= span.end
=============================================================================
