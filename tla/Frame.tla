-------------------------------- MODULE Frame --------------------------------
(***************************************************************************)
(* One frame of the graph: where computeXAxis and computeYAxis put the     *)
(* points of Spans, what the draw window keeps of those that share a cell, *)
(* and the gradients between them.  A frame is a function of the points,   *)
(* of the size of the terminal, of the scale and of whether the last span  *)
(* is followed; a cell of the terminal is <<column, row>>, from 1.         *)
(*                                                                         *)
(* Texts count with their lengths only.  Normalised values are exact and   *)
(* cut to integers as the code cuts its floats.                            *)
(***************************************************************************)
EXTENDS Spans

CONSTANTS
  Sizes,       (* bound: the sizes of the terminal, [w |-> _, h |-> _]     *)
  StepLen,     (* the text of a time on the x axis                         *)
  LabelLen,    (* the text of a labelled round trip                        *)
  LogUnit,     (* how finely a logarithm is known                          *)
  FramePoints  (* bound: how many points the frames looked at have         *)

ASSUME FrameAssumption ==
  /\ \A s \in Sizes : s.w \in Nat \ {0} /\ s.h \in Nat \ {0}
  /\ StepLen \in Nat \ {0} /\ LabelLen \in Nat \ {0} /\ FramePoints \in Nat
  /\ LogUnit \in Nat \ {0} /\ \A p \in NewPoints : p.duration <= LogUnit

Scales == {"linear", "logarithmic"}

-----------------------------------------------------------------------------
(* The axes                                                                *)

StartLen == 23  (* "02 Jan 2006 15:04:05.00"                               *)

(* TimeSpan.FormatDraw: how many times fit behind the start.               *)
TimesFitting(width) ==
  IF width < StartLen THEN 0
  ELSE MaxOf(Quotient(width - (StartLen + 4), StepLen + 2), 0)

(* xAxisDrawTimes: the columns that are left after n times.                *)
AfterTimes(n, remaining) ==
  LET left[i \in 0 .. n] ==
        IF i = 0 THEN remaining
        ELSE LET r == left[i - 1] IN
             IF r <= StepLen THEN r
             ELSE IF r - StepLen <= 2 THEN MinOf(r - StepLen, 1)
             ELSE r - StepLen - 2
  IN  left[n]

(* The loop of computeXAxis, for one group: the columns that are left.     *)
AfterText(width, remaining) ==
  IF TimesFitting(width) = 0
  THEN remaining - (MaxOf(MinOf(width - 2, StartLen - 1), 0) + 2)
  ELSE AfterTimes(TimesFitting(width), remaining - (StartLen + 6))

(* computeXAxis: the groups with the columns they start and end in.        *)
PlacedGroups(axis, w, follow) ==
  LET column(remaining) == MinOf(w, w - remaining)
      left[i \in 0 .. Len(axis)] ==
        IF i = 0 THEN w - 6 ELSE AfterText(axis[i].width, left[i - 1])
      ends(i) == IF ~follow /\ w - 6 <= 1 THEN [startX |-> 1, endX |-> 1]
                 ELSE [startX |-> column(left[i - 1]), endX |-> column(left[i])]
  IN  [i \in 1 .. Len(axis) |->
         [from |-> axis[i].from, to |-> axis[i].to, stats |-> axis[i].stats,
          time |-> axis[i].time, width |-> axis[i].width,
          startX |-> ends(i).startX, endX |-> ends(i).endX]]

Placed(w, follow) == PlacedGroups(XAxis(w, follow), w, follow)

(* computeYAxis: the columns of its labels.                                *)
LabelSize(size) ==
  LET gap == IF size.h > 20 THEN 3 ELSE 2
  IN  MinOf((gap * 3) \div 2 + 4, size.w)

(* int(NormalizeToRange(...)); a division by zero is no number, of which   *)
(* the conversion makes the least integer.                                 *)
LeastInt == -1073741824
Normalized(v, min, max, newMin, newMax) ==
  IF min = max THEN LeastInt
  ELSE newMin + ((newMax - newMin) * (v - min)) \div (max - min)

(* Mutant: one datum is not told from many.                                *)
GetXNoEdge(t, g, size) ==
  LET newMin == MinOf(MaxOf(1, size.w - 1), g.endX)
      newMax == MaxOf(LabelSize(size), g.startX)
  IN  Normalized(g.time.end - t, 0, g.time.duration, newMin, newMax)

(* Mutant: the time since the begin, not the one until the end.            *)
GetXFromBegin(t, g, size) ==
  LET newMin == MinOf(MaxOf(1, size.w - 1), g.endX)
      newMax == MaxOf(LabelSize(size), g.startX)
  IN  IF g.stats.good <= 1 \/ g.time.duration = 0
      THEN (newMin + newMax) \div 2
      ELSE Normalized(t - g.time.begin, 0, g.time.duration, newMin, newMax)

GetX(t, g, size) ==
  LET newMin == MinOf(MaxOf(1, size.w - 1), g.endX)
      newMax == MaxOf(LabelSize(size), g.startX)
  IN  IF g.stats.good <= 1 \/ g.time.duration = 0
      THEN (newMin + newMax) \div 2
      ELSE Normalized(g.time.end - t, 0, g.time.duration, newMin, newMax)

TwoTo(n) ==
  LET upTo[i \in 0 .. n] == IF i = 0 THEN 1 ELSE 2 * upTo[i - 1]
  IN  upTo[n]

(* A logarithm, linear from one power of two to the next; larger numbers   *)
(* have larger ones, as far as it is known so finely.                      *)
Log(n) ==
  LET power == CHOOSE e \in 0 .. n : TwoTo(e) <= n /\ n < TwoTo(e + 1)
  IN  LogUnit * power + (LogUnit * (n - TwoTo(power))) \div TwoTo(power)

Scaled(scale, d) == IF scale = "linear" THEN d ELSE Log(d)

EffectiveYBounds(stats) ==
  IF stats.min # stats.max THEN [min |-> stats.min, max |-> stats.max]
  ELSE [min |-> stats.min \div 2, max |-> stats.min * 2]

(* The logarithm of nought is an infinity, and what is made of it no       *)
(* number.                                                                 *)
GetY(d, stats, scale, size) ==
  LET b == EffectiveYBounds(stats)
  IN  IF scale = "logarithmic" /\ b.min = 0 THEN LeastInt
      ELSE Normalized(Scaled(scale, d), Scaled(scale, b.min), Scaled(scale, b.max),
                      MaxOf(1, size.h - 2), MinOf(2, size.h))

(* Header.Stats of all the points, which is not in the spans.              *)
AllStats ==
  LET upTo[n \in 0 .. Len(points)] ==
        IF n = 0 THEN NoStats ELSE StatsAdd(upTo[n - 1], points[n])
  IN  upTo[Len(points)]

-----------------------------------------------------------------------------
(* The draw window: what is kept for each cell that is drawn.  A cell has  *)
(* a kind, the type infer finds, and what it needs of a count or a glyph.  *)

(* drawnDataType *)
Rank == [label |-> 0, point |-> 1, bar |-> 2, filler |-> 3, gradient |-> 4]

Cell(kind, n, glyph) == [kind |-> kind, n |-> n, glyph |-> glyph]
NoWindow == [cells |-> <<>>, max |-> 0, labels |-> {}]

Has(win, c) == c \in DOMAIN win.cells
Put(win, cs, cell) ==
  [win EXCEPT !.cells = [c \in DOMAIN @ \cup cs |-> IF c \in cs THEN cell ELSE @[c]]]

(* Mutant: a point that comes to a bar is not counted.                     *)
AddUnderBar(win, c, label) ==
  IF Has(win, c) /\ win.cells[c].kind \in {"label", "bar", "filler"} THEN win
  ELSE Put(win, {c}, Cell(IF label THEN "label" ELSE "point",
                          IF Has(win, c) THEN win.cells[c].n + 1 ELSE 1, "none"))

(* drawWindow.add *)
Add(win, c, label) ==
  LET n == IF Has(win, c) THEN win.cells[c].n + 1 ELSE 1
  IN  IF Has(win, c) /\ win.cells[c].kind = "label" THEN win
      ELSE [Put(win, {c}, Cell(IF label THEN "label" ELSE "point", n, "none"))
              EXCEPT !.max = IF Has(win, c) THEN MaxOf(n, @) ELSE @]

(* drawWindow.addLabel: the cells that it takes for those of its text are  *)
(* labels too.                                                             *)
AddLabel(win, x, y, d, leftJustify) ==
  LET at(i) == x + 2 + (IF leftJustify THEN -i ELSE i)
      upTo[i \in 0 .. LabelLen] ==
        IF i = 0 THEN win
        ELSE IF at(i - 1) = x \/ at(i - 1) < 1 THEN upTo[i - 1]
        ELSE Add(upTo[i - 1], <<at(i - 1), y>>, TRUE)
  IN  [upTo[LabelLen] EXCEPT !.labels = @ \cup {[x |-> x, y |-> y, d |-> d, left |-> leftJustify]}]

(* drawWindow.draw: the cells a label's symbol and text are printed in.    *)
Printed(l) ==
  LET from == IF l.left THEN MaxOf(1, l.x - LabelLen) ELSE l.x
  IN  (from .. from + LabelLen + 1) \X {l.y}

AverageLabelSize == 30

(* drawWindow.addPoint *)
AddPointTo(win, d, g, stats, x, y, size) ==
  LET needsLabel == \/ g.width > AverageLabelSize /\ d \in {g.stats.min, g.stats.max}
                    \/ d \in {stats.min, stats.max}
      added == Add(win, <<x, y>>, needsLabel)
  IN  IF needsLabel THEN AddLabel(added, x, y, d, x > (size.w - 2) \div 2) ELSE added

(* Mutant: what is there is not looked at.                                 *)
AddDroppedBarsOver(win, columns, size, kind) ==
  Put(win, columns \X (2 .. size.h - 2), Cell(kind, 0, "none"))

(* drawWindow.addDroppedBar, with shouldWrite, for each of the columns.    *)
AddDroppedBars(win, columns, size, kind) ==
  Put(win, {c \in columns \X (2 .. size.h - 2) :
              ~Has(win, c) \/ Rank[kind] < Rank[win.cells[c].kind]}, Cell(kind, 0, "none"))

(* drawWindow.addGradient *)
AddGradient(win, c, glyph) ==
  IF Has(win, c) /\ win.cells[c].kind \in {"label", "point"} THEN win
  ELSE Put(win, {c}, Cell("gradient", 0, glyph))

-----------------------------------------------------------------------------
(* Gradients: a glyph for each step from one cell to the next.             *)

(* getDir; y goes down the terminal, and is given the other way round.     *)
GetDir(begin, end) == IF begin < end THEN -1 ELSE IF begin = end THEN 0 ELSE 1

SolveDirections(x, y) ==
  IF y = 0 THEN (IF x = 0 THEN "nothing" ELSE "horizontal")
  ELSE IF x = 0 THEN "vertical"
  ELSE IF x = y THEN "upSteep" ELSE "downSteep"

SolveTwo(first, second) ==
  IF <<first, second>> = <<"horizontal", "vertical">> THEN <<"gap", "vertical">>
  ELSE IF <<first, second>> = <<"vertical", "horizontal">> THEN <<"vertical", "gap">>
  ELSE <<first, second>>

Level == {"horizontal", "nothing"}

(* solveShallowTwoDirections: whether both glyphs are settled, and them.   *)
SolveShallow(first, second) ==
  CASE first = "upSteep" /\ second \in Level   -> [specific |-> TRUE, is |-> <<"topLine", "bottomLine">>]
    [] first = "downSteep" /\ second \in Level -> [specific |-> TRUE, is |-> <<"bottomLine", "topLine">>]
    [] first \in Level /\ second = "upSteep"   -> [specific |-> FALSE, is |-> <<first, "topLine">>]
    [] first \in Level /\ second = "downSteep" -> [specific |-> FALSE, is |-> <<first, "bottomLine">>]
    [] OTHER                                   -> [specific |-> FALSE, is |-> <<first, second>>]

(* Solve, for a sequence of cells: a glyph for all but the last.           *)
Solve(cells) ==
  LET n == Len(cells) - 1
      y(i) == GetDir(cells[i + 1][2], cells[i][2])
      dir[i \in 1 .. n] == SolveDirections(GetDir(cells[i][1], cells[i + 1][1]), y(i))
      shallow(i) == SolveShallow(dir[i], dir[i + 1])
      skipped[i \in 1 .. n - 1] == i > 1 /\ ~skipped[i - 1] /\ shallow(i - 1).specific
      lastSolved == IF skipped[n - 1] THEN n - 2 ELSE n - 1
  IN  IF n <= 0 THEN <<>>
      ELSE IF n = 1 THEN <<dir[1]>>
      ELSE IF Cardinality({i \in 1 .. n : y(i) = 0}) > n \div 2
      THEN [i \in 1 .. n |-> IF i = n THEN shallow(lastSolved).is[2]
                             ELSE IF skipped[i] THEN shallow(i - 1).is[2]
                             ELSE shallow(i).is[1]]
      ELSE [i \in 1 .. n |-> IF i = n THEN SolveTwo(dir[n - 1], dir[n])[2]
                             ELSE SolveTwo(dir[i], dir[i + 1])[1]]

-----------------------------------------------------------------------------
(* The frame                                                               *)

(* What computeFrame is given of the points: the axis, the points in the   *)
(* order of the iterator, and the groups an iterator over the axis finds.  *)
ViewOf(size, scale, follow, axis, iter) ==
  [size |-> size, scale |-> scale, axis |-> axis,
   points |-> [i \in 1 .. iter.total |-> PointAt(iter, i - 1)],
   place  |-> Places(axis, iter),
   stats  |-> IF follow THEN axis[1].stats ELSE AllStats]

View(size, scale, follow) ==
  ViewOf(size, scale, follow, Placed(size.w, follow), Iter(follow))

GroupOf(v, i) == v.axis[v.place[i]]
ColumnOf(v, i) == GetX(v.points[i].time, GroupOf(v, i), v.size)
CellOf(v, i) == <<ColumnOf(v, i), GetY(v.points[i].duration, v.stats, v.scale, v.size)>>
Good(v) == {i \in 1 .. Len(v.points) : ~v.points[i].dropped}
Lost(v) == 1 .. Len(v.points) \ Good(v)

Between(a, b) == (MinOf(a, b) + 1) .. (MaxOf(a, b) - 1)

(* The first loop of computeFrame: points, bars and what fills the columns *)
(* from one lost point to the next.                                        *)
Points(v) ==
  LET x(i) == ColumnOf(v, i)
      bar(win, i) == AddDroppedBars(win, {x(i)}, v.size, "bar")
      upTo[i \in 0 .. Len(v.points)] ==
        IF i = 0 THEN NoWindow
        ELSE IF i \in Good(v)
        THEN AddPointTo(upTo[i - 1], v.points[i].duration, GroupOf(v, i), v.stats,
                        x(i), CellOf(v, i)[2], v.size)
        ELSE IF i - 1 \in Lost(v)
        THEN AddDroppedBars(bar(upTo[i - 1], i), Between(x(i - 1), x(i)), v.size, "filler")
        ELSE bar(upTo[i - 1], i)
  IN  upTo[Len(v.points)]

(* drawGradients walks the axis with the good points alone.                *)
GoodGroup(v, i) ==
  LET at[j \in 0 .. i] ==
        IF j = 0 THEN 1
        ELSE IF j \in Lost(v) THEN at[j - 1]
        ELSE CHOOSE g \in at[j - 1] .. Len(v.axis) :
               /\ SpanContains(v.axis[g].time, v.points[j].time)
               /\ \A h \in at[j - 1] .. g - 1 : ~SpanContains(v.axis[h].time, v.points[j].time)
  IN  at[i]

Translate(v, g, t, d) == <<GetX(t, v.axis[g], v.size), GetY(d, v.stats, v.scale, v.size)>>

(* The square root, from below.                                            *)
Root(n) == CHOOSE r \in 0 .. n : r * r <= n /\ n < (r + 1) * (r + 1)

(* drawGradient: the cells of the steps of length 1 between two points,    *)
(* from 1.5 on; distances are counted in halves.                           *)
StepsIn(v, g, p, q, square) ==
  LET halves == Root(4 * square)
      part(from, to, k) == from + Quotient((to - from) * (2 * k + 1), halves)
      upTo[k \in 0 .. halves] ==
        IF k = 0 THEN <<>>
        ELSE Append(upTo[k - 1],
                    Translate(v, g, part(p.time, q.time, k), part(p.duration, q.duration, k)))
  IN  upTo[Cardinality({k \in 1 .. halves : (2 * k + 1) * (2 * k + 1) < 4 * square})]

SquareOf(a, b) == (a[1] - b[1]) * (a[1] - b[1]) + (a[2] - b[2]) * (a[2] - b[2])

Steps(v, g, p, q) ==
  StepsIn(v, g, p, q, SquareOf(Translate(v, g, p.time, p.duration),
                               Translate(v, g, q.time, q.duration)))

(* The pairs of good points that follow each other in a group.             *)
Pairs(v) ==
  {i \in Good(v) : i - 1 \in Good(v) /\ GoodGroup(v, i - 1) = GoodGroup(v, i)}
StepsTo(v, i) == Steps(v, GoodGroup(v, i), v.points[i - 1], v.points[i])

(* shouldGradient: three good points in a row, of all that are recorded.   *)
ShouldGradient ==
  \E i \in 1 .. Len(points) - 2 : \A j \in i .. i + 2 : ~points[j].dropped

WithGlyphs(win, cells, glyphs) ==
  LET upTo[k \in 0 .. Len(glyphs)] ==
        IF k = 0 THEN win ELSE AddGradient(upTo[k - 1], cells[k], glyphs[k])
  IN  upTo[Len(glyphs)]
WithGradient(win, cells) == WithGlyphs(win, cells, Solve(cells))

(* drawGradients *)
Gradients(v, win) ==
  LET upTo[i \in 0 .. Len(v.points)] ==
        IF i = 0 THEN win
        ELSE IF i \in Pairs(v) THEN WithGradient(upTo[i - 1], StepsTo(v, i))
        ELSE upTo[i - 1]
  IN  IF ShouldGradient THEN upTo[Len(v.points)] ELSE win

(* computeFrame *)
Window(v) == Gradients(v, Points(v))

-----------------------------------------------------------------------------
(* Properties                                                              *)

(* The frames that are drawn with a window: two points or more.            *)
Framed == Len(points) \in 2 .. FramePoints
FramedLosses ==
  Drawn /\ Cardinality({i \in 1 .. Len(points) : points[i].dropped}) = FramePoints - 1

Views == {View(size, "linear", follow) : size \in Sizes, follow \in BOOLEAN}
Windowed == {v \in Views : Len(v.points) > 1}

InTerminal(cells, size) == cells \subseteq (1 .. size.w) \X (1 .. size.h)

DrawnInside(v) ==
  /\ \A i \in Lost(v) : ColumnOf(v, i) \in 1 .. v.size.w
  /\ InTerminal({CellOf(v, i) : i \in Good(v)}, v.size)
  /\ \A i \in Pairs(v) : InTerminal(Range(StepsTo(v, i)), v.size)

(* The y axis has a length: not all round trips are nought and, where it   *)
(* is logarithmic, none is, nor are all of a single nanosecond.            *)
HasRows(v) ==
  /\ v.stats.max > 0
  /\ v.scale = "logarithmic" => v.stats.min > 0 /\ v.stats.max > 1

(* Whatever the size of the terminal, the scale and the points, also one   *)
(* datum in a group, equal times or equal round trips, all columns are in  *)
(* the terminal; so is everything that is drawn, points of merged spans    *)
(* and steps of a gradient included, if and only if the y axis has a       *)
(* length: the fake bounds of effectiveYBounds do not make one of round    *)
(* trips of nought, and the check at drawing.go:214 fails for every good   *)
(* point then (computeFrame, drawGradients, drawGradient; getX, getY).     *)
InsideTerminal ==
  Framed => \A linear \in Views, scale \in Scales :
    LET v == [linear EXCEPT !.scale = scale]
    IN  /\ \A i \in 1 .. Len(v.points) : ColumnOf(v, i) \in 1 .. v.size.w
        /\ IF HasRows(v) THEN DrawnInside(v)
           ELSE \A i \in Good(v) : CellOf(v, i)[2] \notin 1 .. v.size.h

(* A cell that is kept for a label is covered by it, or it is the one that *)
(* a label to the left keeps beyond its symbol and prints nothing in.      *)
LabelledBy(l, c) == c \in Printed(l) \/ (l.left /\ c = <<l.x + 2, l.y>>)

CellsShown(v, win, at) ==
  \A i \in Good(v) :
    LET here == Cardinality({j \in Good(v) : at[j] = at[i]})
    IN  /\ Has(win, at[i])
        /\ IF win.cells[at[i]].kind = "label" THEN \E l \in win.labels : LabelledBy(l, at[i])
           ELSE /\ win.cells[at[i]].kind = "point" /\ win.cells[at[i]].n = here
                /\ here > 1 => here <= win.max

(* In whatever order points, bars, labels and gradients come to a cell, a  *)
(* good point is not lost there: its cell counts all the points that are   *)
(* in it, within what the key explains, or is covered by the text of a     *)
(* label; the only cell it may be missing from is the one two columns to   *)
(* the right of a label's point whose text is on its left.  And the best   *)
(* and the worst round trip of the frame have their labels, whatever the   *)
(* merged statistics of a group say (drawWindow.add, addPoint, addLabel,   *)
(* addGradient, draw).                                                     *)
PointsAreShown ==
  Framed => \A v \in Windowed : HasRows(v) => \A win \in {Window(v)} :
    /\ CellsShown(v, win, [i \in Good(v) |-> CellOf(v, i)])
    /\ Good(v) # {} => {v.stats.min, v.stats.max} \subseteq {l.d : l \in win.labels}

(* An axis whose texts leave each group a column to begin in, in a terminal *)
(* with room for the labels of the y axis.                                 *)
Roomy(v) == v.size.w >= 9 /\ \A g \in 1 .. Len(v.axis) : v.axis[g].startX < v.size.w

InOrder(v) == \A i \in 1 .. Len(v.points) - 1 : v.points[i].time <= v.points[i + 1].time

BarsShown(v, win, x) ==
  LET rows == 2 .. v.size.h - 2
  IN  \A i \in Lost(v) :
        /\ \A row \in rows : Has(win, <<x[i], row>>) /\ win.cells[<<x[i], row>>].kind # "filler"
        /\ Roomy(v) /\ InOrder(v) /\ rows # {} =>
             \E row \in rows : win.cells[<<x[i], row>>].kind # "gradient"
        /\ i - 1 \in Lost(v) => \A c \in Between(x[i - 1], x[i]) \X rows : Has(win, c)

(* Every lost packet is seen: its column is drawn from top to bottom, by   *)
(* its bar unless something of a higher rank is there, never by the filler *)
(* of other losses and, while times go on, not by gradients alone; and     *)
(* from one loss to the next no column is left blank                       *)
(* (drawWindow.addDroppedBar, addGradient, computeFrame).                  *)
LossIsShown ==
  Framed \/ FramedLosses => \A v \in Windowed :
    BarsShown(v, Window(v), [i \in 1 .. Len(v.points) |-> ColumnOf(v, i)])

Before(v, i, j) ==
  \/ v.place[i] < v.place[j]
  \/ v.place[i] = v.place[j] /\ v.points[i].time <= v.points[j].time

(* A frame with room for its texts is read from left to right: what is     *)
(* drawn further left is not of a later group and not, within one, of a    *)
(* later time, though the axis is inverted to draw it (getX, computeXAxis).*)
TimeRunsRight ==
  Framed => \A v \in Views : Roomy(v) =>
    \A i, j \in 1 .. Len(v.points) : Before(v, i, j) => ColumnOf(v, i) <= ColumnOf(v, j)
=============================================================================
