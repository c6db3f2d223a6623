----------------------------- MODULE FrameProofs ------------------------------
(***************************************************************************)
(* A frame, for every size of the terminal, every axis and any points:     *)
(* each good point is shown, each loss has its column, what is later is    *)
(* further right, and all is drawn inside the terminal.                    *)
(*                                                                         *)
(* The frame has no state of its own. ViewSound is what the invariant of   *)
(* the spans (GraphInv) says of the axis, the points and their groups of a *)
(* view. The loops of the code are recursive functions, which Recursion    *)
(* says to be there, and an invariant says what one has after each step:   *)
(* Shown of the points in the window, Barred of the columns of the losses, *)
(* WalkStep of the groups the gradients are drawn in, IsSteps of the cells *)
(* they run through, each of which is that of a time and a round trip      *)
(* between those of two points of a group.                                 *)
(***************************************************************************)
EXTENDS Frame, SpansProofs

-----------------------------------------------------------------------------
(* The statistics of a frame                                               *)

(* The loop over all points.                                               *)
LEMMA AllStatsSteps ==
  ASSUME points \in Seq(PointType)
  PROVE  \E f : /\ f[0] = NoStats /\ AllStats = f[Len(points)]
                /\ \A n \in 1 .. Len(points) : f[n] = StatsAdd(f[n - 1], points[n])
<1> DEFINE N == Len(points)
           step == [x \in StatsType \X (1 .. N) |-> StatsAdd(x[1], points[x[2]])]
           upTo == CHOOSE f : f = [n \in 0 .. N |-> IF n = 0 THEN NoStats
                                                    ELSE StatsAdd(f[n - 1], points[n])]
<1>1. N \in Nat /\ NoStats \in StatsType
  BY DEF NoStats, StatsType
<1>2. \A n \in 1 .. N : points[n] \in PointType
  OBVIOUS
<1>3. AllStats = upTo[N]
  BY DEF AllStats
<1> HIDE DEF N
<1>4. step \in [StatsType \X (1 .. N) -> StatsType]
  <2>1. ASSUME NEW x \in StatsType \X (1 .. N)
        PROVE  StatsAdd(x[1], points[x[2]]) \in StatsType
    <3>1. x[1] \in StatsType /\ points[x[2]] \in PointType
      BY <1>2
    <3> QED
      BY <3>1, StatsAddFacts
  <2> QED
    BY <2>1
<1>5. \A s \in StatsType, n \in 1 .. N : step[<<s, n>>] = StatsAdd(s, points[n])
  OBVIOUS
<1> HIDE DEF step
<1>6. PICK f : Iterates(f, N, StatsType, NoStats, step)
  BY <1>1, <1>4, Recursion
<1>7. \A n \in 1 .. N : f[n] = StatsAdd(f[n - 1], points[n])
  <2> TAKE n \in 1 .. N
  <2>1. n - 1 \in 0 .. N
    BY <1>1
  <2> QED
    BY <1>5, <1>6, <2>1 DEF Iterates
<1>8. f = [n \in 0 .. N |-> IF n = 0 THEN NoStats ELSE StatsAdd(f[n - 1], points[n])]
  <2>1. \A n \in 0 .. N : n = 0 \/ n \in 1 .. N
    BY <1>1
  <2> QED
    BY <1>6, <1>7, <2>1 DEF Iterates
<1>9. upTo = [n \in 0 .. N |-> IF n = 0 THEN NoStats ELSE StatsAdd(upTo[n - 1], points[n])]
  BY <1>8
<1> HIDE DEF upTo
<1>10. /\ upTo[0] = NoStats
       /\ \A n \in 1 .. N : upTo[n] = StatsAdd(upTo[n - 1], points[n])
  <2>1. 0 \in 0 .. N /\ \A n \in 1 .. N : n \in 0 .. N /\ n # 0
    BY <1>1
  <2> QED
    BY <1>9, <2>1
<1> QED
  BY <1>3, <1>10 DEF N

(* They are those of the points.                                           *)
LEMMA AllStatsFacts ==
  ASSUME points \in Seq(PointType)
  PROVE  AllStats \in StatsType /\ Summary(AllStats, points, 1, Len(points))
<1> DEFINE N == Len(points)
<1>1. PICK f : /\ f[0] = NoStats /\ AllStats = f[N]
               /\ \A n \in 1 .. N : f[n] = StatsAdd(f[n - 1], points[n])
  BY AllStatsSteps
<1>2. N \in Nat /\ \A i \in 1 .. N : points[i] \in PointType
  OBVIOUS
<1> HIDE DEF N
<1> DEFINE T == {n \in Nat : n <= N => f[n] \in StatsType /\ Summary(f[n], points, 1, n)}
<1>3. 0 \in T
  BY <1>1 DEF Summary, NoStats, StatsType
<1>4. ASSUME NEW n \in Nat, n \in T
      PROVE  n + 1 \in T
  <2> SUFFICES ASSUME n + 1 <= N
               PROVE  f[n + 1] \in StatsType /\ Summary(f[n + 1], points, 1, n + 1)
    OBVIOUS
  <2>1. f[n] \in StatsType /\ Summary(f[n], points, 1, n)
    BY <1>2, <1>4
  <2>2. n + 1 \in 1 .. N /\ (n + 1) - 1 = n /\ 1 <= n + 1 /\ \A i \in 1 .. n : i \in 1 .. N
    BY <1>2
  <2>3. f[n + 1] = StatsAdd(f[n], points[n + 1])
    BY <1>1, <2>2
  <2>4. points[n + 1] \in PointType /\ \A i \in 1 .. n : points[i] \in PointType
    BY <1>2, <2>2
  <2>5. Summary(StatsAdd(f[n], points[n + 1]), points, 1, n + 1)
    <3>1. 1 \in Nat /\ 1 <= n + 1
      BY <2>2
    <3> QED
      BY <2>1, <2>4, <3>1, SummaryOfMore
  <2> QED
    BY <2>1, <2>3, <2>4, <2>5, StatsAddFacts
<1>5. N \in T
  <2>1. \A n \in Nat : n \in T => n + 1 \in T
    BY <1>4
  <2> HIDE DEF T
  <2> QED
    BY <1>2, <1>3, <2>1, NatInductionOnSets
<1> QED
  BY <1>1, <1>2, <1>5 DEF N

-----------------------------------------------------------------------------
(* The columns of the groups                                               *)

(* The times on the axis take columns away.                                *)
LEMMA AfterTimesFacts ==
  ASSUME NEW n \in Nat, NEW remaining \in Int
  PROVE  AfterTimes(n, remaining) \in Int /\ AfterTimes(n, remaining) <= remaining
<1> DEFINE S == {r \in Int : r <= remaining}
           one(r) == IF r <= StepLen THEN r
                     ELSE IF r - StepLen <= 2 THEN MinOf(r - StepLen, 1)
                     ELSE r - StepLen - 2
           step == [x \in S \X (1 .. n) |-> one(x[1])]
           Solves(f) == f = [i \in 0 .. n |-> IF i = 0 THEN remaining ELSE one(f[i - 1])]
           left == CHOOSE f : Solves(f)
<1>1. StepLen \in Nat \ {0}
  BY FrameAssumption
<1>2. AfterTimes(n, remaining) = left[n]
  BY DEF AfterTimes
<1>3. \A r \in S : one(r) \in S
  BY <1>1 DEF MinOf
<1> HIDE DEF one
<1>4. step \in [S \X (1 .. n) -> S] /\ \A r \in S, i \in 1 .. n : step[<<r, i>>] = one(r)
  <2>1. \A x \in S \X (1 .. n) : x[1] \in S
    OBVIOUS
  <2> HIDE DEF S
  <2> QED
    BY <1>3, <2>1
<1>5. remaining \in S
  OBVIOUS
<1> HIDE DEF step, S
<1>6. PICK f : Iterates(f, n, S, remaining, step)
  BY <1>4, <1>5, Recursion
<1>7. Solves(f)
  <2>1. \A i \in 0 .. n : i = 0 \/ (i \in 1 .. n /\ i - 1 \in 0 .. n)
    OBVIOUS
  <2> QED
    BY <1>4, <1>6, <2>1 DEF Iterates
<1>8. Solves(left)
  <2> HIDE DEF Solves
  <2> QED
    BY <1>7
<1> HIDE DEF left
<1> DEFINE T == {i \in Nat : i <= n => left[i] \in S}
<1>9. 0 \in T
  BY <1>5, <1>8
<1>10. ASSUME NEW i \in Nat, i \in T
       PROVE  i + 1 \in T
  <2> SUFFICES ASSUME i + 1 <= n
               PROVE  left[i + 1] \in S
    OBVIOUS
  <2>1. left[i] \in S /\ i + 1 \in 0 .. n /\ i + 1 # 0 /\ (i + 1) - 1 = i
    BY <1>10
  <2>2. left[i + 1] = one(left[i])
    BY <1>8, <2>1
  <2> QED
    BY <1>3, <2>1, <2>2
<1>11. n \in T
  <2>1. \A i \in Nat : i \in T => i + 1 \in T
    BY <1>10
  <2> HIDE DEF T
  <2> QED
    BY <1>9, <2>1, NatInductionOnSets
<1> QED
  BY <1>2, <1>11 DEF S

(* So does the text of a group, two columns at least.                      *)
LEMMA AfterTextFacts ==
  ASSUME NEW width \in Int, NEW remaining \in Int
  PROVE  AfterText(width, remaining) \in Int /\ AfterText(width, remaining) <= remaining - 2
<1> DEFINE n == TimesFitting(width)
<1>1. n \in Nat
  <2>1. StepLen + 2 \in Nat \ {0} /\ width - (StartLen + 4) \in Int
    BY FrameAssumption DEF StartLen
  <2>2. Quotient(width - (StartLen + 4), StepLen + 2) \in Int
    BY <2>1, QuotientFacts
  <2> QED
    BY <2>2 DEF TimesFitting, MaxOf
<1> HIDE DEF n
<1>2. CASE n = 0
  <2>1. AfterText(width, remaining) = remaining - (MaxOf(MinOf(width - 2, StartLen - 1), 0) + 2)
    BY <1>2 DEF AfterText, n
  <2> QED
    BY <2>1 DEF MaxOf, MinOf, StartLen
<1>3. CASE n # 0
  <2>1. AfterText(width, remaining) = AfterTimes(n, remaining - (StartLen + 6))
    BY <1>3 DEF AfterText, n
  <2>2. remaining - (StartLen + 6) \in Int /\ remaining - (StartLen + 6) <= remaining - 2
    BY DEF StartLen
  <2>3. /\ AfterTimes(n, remaining - (StartLen + 6)) \in Int
        /\ AfterTimes(n, remaining - (StartLen + 6)) <= remaining - (StartLen + 6)
    BY <1>1, <2>2, AfterTimesFacts
  <2> QED
    BY <2>1, <2>2, <2>3
<1> QED
  BY <1>2, <1>3

(* The groups of an axis with their columns.                               *)
PlacedSound(axis, w) ==
  /\ TimesSound(axis)
  /\ \A g \in 1 .. Len(axis) :
       /\ axis[g].startX \in 1 .. w /\ axis[g].endX \in 1 .. w
       /\ axis[g].startX <= axis[g].endX
       /\ w >= 9 => axis[g].endX >= 8
  /\ \A g \in 1 .. Len(axis) - 1 : axis[g + 1].startX = axis[g].endX

(* They are placed one behind the other, inside the terminal.              *)
LEMMA PlacedFacts ==
  ASSUME NEW axis, TimesSound(axis), NEW w \in Nat \ {0}, NEW follow \in BOOLEAN
  PROVE  LET placed == PlacedGroups(axis, w, follow)
         IN  /\ PlacedSound(placed, w) /\ Len(placed) = Len(axis)
             /\ \A g \in 1 .. Len(axis) : /\ placed[g].time = axis[g].time
                                          /\ placed[g].stats = axis[g].stats
<1> DEFINE n == Len(axis)
           S == {r \in Int : r <= w - 6}
           step == [x \in S \X (1 .. n) |-> AfterText(axis[x[2]].width, x[1])]
           Solves(f) == f = [i \in 0 .. n |-> IF i = 0 THEN w - 6
                                              ELSE AfterText(axis[i].width, f[i - 1])]
           left == CHOOSE f : Solves(f)
           column(r) == MinOf(w, w - r)
           ends(i) == IF ~follow /\ w - 6 <= 1 THEN [startX |-> 1, endX |-> 1]
                      ELSE [startX |-> column(left[i - 1]), endX |-> column(left[i])]
           placed == PlacedGroups(axis, w, follow)
<1>1. n \in Nat \ {0} /\ \A g \in 1 .. n : axis[g].width \in Int
  BY DEF TimesSound
<1>2. placed = [i \in 1 .. n |->
                  [from |-> axis[i].from, to |-> axis[i].to, stats |-> axis[i].stats,
                   time |-> axis[i].time, width |-> axis[i].width,
                   startX |-> ends(i).startX, endX |-> ends(i).endX]]
  BY DEF PlacedGroups
<1> HIDE DEF n, placed
<1>3. ASSUME NEW r \in S, NEW g \in 1 .. n
      PROVE  AfterText(axis[g].width, r) \in S /\ AfterText(axis[g].width, r) <= r - 2
  <2>1. axis[g].width \in Int /\ r \in Int /\ r <= w - 6
    BY <1>1
  <2> DEFINE a == AfterText(axis[g].width, r)
  <2>2. a \in Int /\ a <= r - 2
    BY <2>1, AfterTextFacts
  <2> HIDE DEF a
  <2>3. a <= w - 6
    BY <2>1, <2>2
  <2> QED
    BY <2>2, <2>3 DEF a
<1>4. w - 6 \in S
  OBVIOUS
<1>5. /\ step \in [S \X (1 .. n) -> S]
      /\ \A r \in S, g \in 1 .. n : step[<<r, g>>] = AfterText(axis[g].width, r)
  <2> HIDE DEF S
  <2>1. \A x \in S \X (1 .. n) : x[1] \in S /\ x[2] \in 1 .. n
    OBVIOUS
  <2> QED
    BY <1>3, <2>1
<1> HIDE DEF step, S
<1>6. PICK f : Iterates(f, n, S, w - 6, step)
  BY <1>1, <1>4, <1>5, Recursion
<1>7. Solves(f)
  <2>1. \A i \in 0 .. n : i = 0 \/ (i \in 1 .. n /\ i - 1 \in 0 .. n)
    BY <1>1
  <2> QED
    BY <1>5, <1>6, <2>1 DEF Iterates
<1>8. Solves(left)
  <2> HIDE DEF Solves
  <2> QED
    BY <1>7
<1> HIDE DEF left
<1>9. left[0] = w - 6 /\ \A i \in 1 .. n : left[i] = AfterText(axis[i].width, left[i - 1])
  <2>1. 0 \in 0 .. n /\ \A i \in 1 .. n : i \in 0 .. n /\ i # 0
    BY <1>1
  <2> QED
    BY <1>8, <2>1
<1> DEFINE T == {i \in Nat : i <= n => left[i] \in S}
<1>10. 0 \in T
  BY <1>4, <1>9
<1>11. ASSUME NEW i \in Nat, i \in T
       PROVE  i + 1 \in T
  <2> SUFFICES ASSUME i + 1 <= n
               PROVE  left[i + 1] \in S
    OBVIOUS
  <2>1. left[i] \in S /\ i + 1 \in 1 .. n /\ (i + 1) - 1 = i
    BY <1>1, <1>11
  <2>2. left[i + 1] = AfterText(axis[i + 1].width, left[i])
    BY <1>9, <2>1
  <2> QED
    BY <1>3, <2>1, <2>2
<1>12. \A i \in 0 .. n : left[i] \in S
  <2>1. \A i \in Nat : i \in T => i + 1 \in T
    BY <1>11
  <2>2. Nat \subseteq T
    <3> HIDE DEF T
    <3> QED
      BY <1>10, <2>1, NatInductionOnSets
  <2> QED
    BY <1>1, <2>2
<1>13. ASSUME NEW i \in 1 .. n
       PROVE  /\ ends(i).startX \in 1 .. w /\ ends(i).endX \in 1 .. w
              /\ ends(i).startX <= ends(i).endX
              /\ w >= 9 => ends(i).endX >= 8
  <2>1. i - 1 \in 0 .. n /\ i \in 0 .. n
    BY <1>1
  <2>2. left[i - 1] \in Int /\ left[i - 1] <= w - 6 /\ left[i] \in Int
        /\ left[i] <= left[i - 1] - 2
    <3>1. left[i] \in S /\ left[i - 1] \in S
      BY <1>12, <2>1
    <3>2. left[i] <= left[i - 1] - 2
      BY <1>3, <1>9, <3>1
    <3> QED
      BY <3>1, <3>2 DEF S
  <2>3. CASE ~follow /\ w - 6 <= 1
    BY <2>3
  <2>4. CASE ~(~follow /\ w - 6 <= 1)
    <3>1. ends(i).startX = column(left[i - 1]) /\ ends(i).endX = column(left[i])
      BY <2>4
    <3> HIDE DEF ends
    <3> QED
      BY <2>2, <3>1 DEF MinOf
  <2> QED
    BY <2>3, <2>4
<1>14. ASSUME NEW i \in 1 .. n - 1
       PROVE  ends(i + 1).startX = ends(i).endX
  <2>1. (i + 1) - 1 = i
    BY <1>1
  <2> HIDE DEF column
  <2> QED
    BY <2>1
<1> HIDE DEF ends
<1>15. /\ Len(placed) = n
       /\ \A i \in 1 .. n : /\ placed[i].time = axis[i].time /\ placed[i].stats = axis[i].stats
                             /\ placed[i].width = axis[i].width
                             /\ placed[i].startX = ends(i).startX
                             /\ placed[i].endX = ends(i).endX
  BY <1>1, <1>2
<1>16. TimesSound(placed)
  BY <1>15 DEF TimesSound, n
<1>17. \A i \in 1 .. n - 1 : placed[i + 1].startX = placed[i].endX
  <2> TAKE i \in 1 .. n - 1
  <2>1. i \in 1 .. n /\ i + 1 \in 1 .. n
    BY <1>1
  <2> QED
    BY <1>14, <1>15, <2>1
<1>18. PlacedSound(placed, w)
  BY <1>13, <1>15, <1>16, <1>17 DEF PlacedSound
<1> QED
  BY <1>15, <1>18 DEF placed, n

-----------------------------------------------------------------------------
(* A frame                                                                 *)

(* Times that do not go back from one point to the next never do.          *)
LEMMA RisesThrough ==
  ASSUME NEW N \in Nat, NEW f, \A i \in 1 .. N : f[i] \in Int,
         \A i \in 1 .. N - 1 : f[i] <= f[i + 1]
  PROVE  \A i, j \in 1 .. N : i <= j => f[i] <= f[j]
<1> DEFINE T == {m \in Nat : m <= N => \A i, j \in 1 .. m : i <= j => f[i] <= f[j]}
<1>1. 0 \in T
  OBVIOUS
<1>2. ASSUME NEW m \in Nat, m \in T
      PROVE  m + 1 \in T
  <2> SUFFICES ASSUME m + 1 <= N, NEW i \in 1 .. m + 1, NEW j \in 1 .. m + 1, i <= j
               PROVE  f[i] <= f[j]
    OBVIOUS
  <2>1. \A k, l \in 1 .. m : k <= l => f[k] <= f[l]
    BY <1>2
  <2> HIDE DEF T
  <2>2. CASE j \in 1 .. m
    <3>1. i \in 1 .. m
      BY <2>2
    <3> QED
      BY <2>1, <2>2, <3>1
  <2>3. CASE j = m + 1
    <3>1. CASE i = j
      <4>1. f[i] \in Int
        OBVIOUS
      <4> QED
        BY <3>1, <4>1
    <3>2. CASE i # j
      <4>1. /\ i \in 1 .. m /\ m \in 1 .. m /\ i <= m /\ m \in 1 .. N - 1
            /\ i \in 1 .. N /\ j \in 1 .. N /\ m \in 1 .. N
        BY <2>3, <3>2
      <4>2. f[i] <= f[m] /\ f[m] <= f[j]
        BY <2>1, <2>3, <4>1
      <4>3. f[i] \in Int /\ f[m] \in Int /\ f[j] \in Int
        BY <4>1
      <4> QED
        BY <4>2, <4>3
    <3> QED
      BY <3>1, <3>2
  <2> QED
    BY <2>2, <2>3
<1>3. N \in T
  <2>1. \A m \in Nat : m \in T => m + 1 \in T
    BY <1>2
  <2> HIDE DEF T
  <2> QED
    BY <1>1, <2>1, NatInductionOnSets
<1> QED
  BY <1>3

(* The groups of points in order begin in order.                           *)
BeginInOrder(axis) ==
  \A g, h \in 1 .. Len(axis) : g < h => axis[g].time.begin <= axis[h].time.begin

LEMMA GroupsBeginInOrder ==
  ASSUME SpansSound, NEW axis, AxisSound(axis),
         \A i \in 1 .. Len(points) - 1 : points[i].time <= points[i + 1].time
  PROVE  BeginInOrder(axis)
<1> DEFINE N == Len(points)
           L == Len(spans)
           n == Len(axis)
           time == [i \in 1 .. N |-> points[i].time]
           first == [k \in 1 .. L |-> spans[k].start]
           last == [k \in 1 .. L |-> spans[k].end]
           from == [g \in 1 .. n |-> axis[g].from]
           to == [g \in 1 .. n |-> axis[g].to]
<1>1. N \in Nat /\ L \in Nat /\ n \in Nat
  BY DEF SpansSound, AxisSound
<1>2. \A i, j \in 1 .. N : i <= j => time[i] <= time[j]
  <2>1. \A i \in 1 .. N : time[i] \in Int /\ time[i] = points[i].time
    <3>1. \A i \in 1 .. N : points[i] \in PointType
      BY DEF SpansSound
    <3> QED
      BY <3>1 DEF PointType
  <2>2. \A i \in 1 .. N - 1 : time[i] <= time[i + 1]
    <3> TAKE i \in 1 .. N - 1
    <3>1. i \in 1 .. N /\ i + 1 \in 1 .. N
      BY <1>1
    <3> QED
      BY <2>1, <3>1
  <2> HIDE DEF time, N
  <2> QED
    BY <1>1, <2>1, <2>2, RisesThrough
<1>3. \A k, m \in 1 .. L : k < m => spans[k].end < spans[m].start
  <2>1. \A k \in 1 .. L : /\ first[k] = spans[k].start /\ last[k] = spans[k].end
                          /\ first[k] \in Int /\ last[k] \in Int /\ first[k] <= last[k]
    BY SpanFacts
  <2>2. \A k \in 1 .. L - 1 : last[k] + 1 = first[k + 1]
    <3> TAKE k \in 1 .. L - 1
    <3>1. k \in 1 .. L /\ k + 1 \in 1 .. L
      BY <1>1
    <3>2. spans[k].end + 1 = spans[k + 1].start
      BY DEF SpansSound
    <3> HIDE DEF first, last
    <3> QED
      BY <2>1, <3>1, <3>2
  <2> HIDE DEF first, last
  <2>3. \A k, m \in 1 .. L : k < m => last[k] < first[m]
    <3> HIDE DEF L
    <3> QED
      BY <1>1, <2>1, <2>2, EndToEnd
  <2> QED
    BY <2>1, <2>3
<1>4. \A g, h \in 1 .. n : g < h => axis[g].to < axis[h].from
  <2>1. \A g \in 1 .. n : /\ from[g] = axis[g].from /\ to[g] = axis[g].to
                          /\ from[g] \in Int /\ to[g] \in Int /\ from[g] <= to[g]
    BY DEF AxisSound
  <2>2. \A g \in 1 .. n - 1 : to[g] + 1 = from[g + 1]
    <3> TAKE g \in 1 .. n - 1
    <3>1. g \in 1 .. n /\ g + 1 \in 1 .. n
      BY <1>1
    <3>2. axis[g].to + 1 = axis[g + 1].from
      BY DEF AxisSound
    <3> HIDE DEF from, to
    <3> QED
      BY <2>1, <3>1, <3>2
  <2> HIDE DEF from, to
  <2>3. \A g, h \in 1 .. n : g < h => to[g] < from[h]
    <3> HIDE DEF n
    <3> QED
      BY <1>1, <2>1, <2>2, EndToEnd
  <2> QED
    BY <2>1, <2>3
<1>5. ASSUME NEW g \in 1 .. n
      PROVE  /\ axis[g].from \in 1 .. L /\ axis[g].to \in 1 .. L /\ axis[g].from <= axis[g].to
             /\ axis[g].time.begin \in Int
             /\ \E k \in axis[g].from .. axis[g].to : axis[g].time.begin = spans[k].time.begin
             /\ axis[g].time.begin <= spans[axis[g].to].time.begin
  <2>1. /\ axis[g].from \in Int /\ axis[g].to \in Int /\ axis[g].from <= axis[g].to
        /\ axis[g].time.begin \in Int
        /\ \E k \in axis[g].from .. axis[g].to : axis[g].time.begin = spans[k].time.begin
        /\ \A k \in axis[g].from .. axis[g].to : axis[g].time.begin <= spans[k].time.begin
    BY DEF AxisSound
  <2>2. 1 <= axis[g].from
    <3>1. axis[1].from = 1 /\ axis[1].to \in Int /\ 1 <= axis[1].to /\ 1 \in 1 .. n
      <4>1. 1 \in 1 .. n
        BY <1>1
      <4> QED
        BY <4>1 DEF AxisSound
    <3>2. CASE g = 1
      BY <3>1, <3>2
    <3>3. CASE g # 1
      <4>1. axis[1].to < axis[g].from
        BY <1>1, <1>4, <3>1, <3>3
      <4> QED
        BY <2>1, <3>1, <4>1
    <3> QED
      BY <3>2, <3>3
  <2>3. axis[g].to <= L
    <3>1. axis[n].to = L /\ axis[n].from \in Int /\ axis[n].from <= axis[n].to /\ n \in 1 .. n
      <4>1. n \in 1 .. n
        BY <1>1
      <4> QED
        BY <4>1 DEF AxisSound
    <3>2. CASE g = n
      BY <1>1, <3>1, <3>2
    <3>3. CASE g # n
      <4>1. axis[g].to < axis[n].from
        BY <1>1, <1>4, <3>1, <3>3
      <4> QED
        BY <1>1, <2>1, <3>1, <4>1
    <3> QED
      BY <3>2, <3>3
  <2>4. axis[g].to \in axis[g].from .. axis[g].to
    BY <2>1
  <2> HIDE DEF n, L
  <2> QED
    BY <1>1, <2>1, <2>2, <2>3, <2>4
<1>6. ASSUME NEW k \in 1 .. L
      PROVE  /\ spans[k].start \in Nat /\ spans[k].end \in Nat /\ spans[k].start <= spans[k].end
             /\ spans[k].end < N /\ spans[k].time.begin \in Int
             /\ \E i \in spans[k].start + 1 .. spans[k].end + 1 : points[i].time = spans[k].time.begin
             /\ spans[k].time.begin <= points[spans[k].start + 1].time
  <2>1. /\ spans[k].start \in Nat /\ spans[k].end \in Nat /\ spans[k].start <= spans[k].end
        /\ spans[k].time.begin \in Int
    BY SpanFacts
  <2>2. Describes(points, spans[k])
    BY DEF SpansSound
  <2>3. spans[k].start + 1 \in spans[k].start + 1 .. spans[k].end + 1
    BY <2>1
  <2>4. SpanContains(spans[k].time, points[spans[k].start + 1].time)
    BY <2>2, <2>3 DEF Describes
  <2> QED
    BY <2>1, <2>2, <2>4 DEF Describes, SpanContains
<1>7. ASSUME NEW g \in 1 .. n, NEW h \in 1 .. n, g < h
      PROVE  axis[g].time.begin <= axis[h].time.begin
  <2> DEFINE k == axis[g].to
  <2>1. k \in 1 .. L /\ axis[g].time.begin <= spans[k].time.begin /\ axis[g].time.begin \in Int
    BY <1>5
  <2>2. PICK m \in axis[h].from .. axis[h].to : axis[h].time.begin = spans[m].time.begin
    BY <1>5
  <2>3. m \in 1 .. L /\ k < m
    <3>1. axis[h].from \in 1 .. L /\ axis[h].to \in 1 .. L /\ k < axis[h].from
      BY <1>4, <1>5, <1>7
    <3> HIDE DEF k
    <3> QED
      BY <1>1, <2>1, <2>2, <3>1
  <2> HIDE DEF k
  <2>4. spans[k].end < spans[m].start
    BY <1>3, <2>1, <2>3
  <2>5. PICK i \in spans[m].start + 1 .. spans[m].end + 1 : points[i].time = spans[m].time.begin
    BY <1>6, <2>3
  <2> DEFINE p == spans[k].start + 1
  <2>6. p \in 1 .. N /\ i \in 1 .. N /\ p <= i
    <3>1. /\ spans[k].start \in Nat /\ spans[k].end \in Nat /\ spans[k].start <= spans[k].end
          /\ spans[m].start \in Nat /\ spans[m].end \in Nat /\ spans[m].end < N
      BY <1>6, <2>1, <2>3
    <3> DEFINE a == spans[k].start
               b == spans[k].end
               c == spans[m].start
               d == spans[m].end
    <3>2. i \in c + 1 .. d + 1 /\ p = a + 1 /\ a \in Nat /\ b \in Nat /\ c \in Nat /\ d \in Nat
          /\ a <= b /\ b < c /\ d < N
      BY <2>4, <3>1
    <3> HIDE DEF a, b, c, d, p, N
    <3> QED
      BY <1>1, <3>2
  <2>7. spans[k].time.begin <= points[p].time /\ spans[k].time.begin \in Int
    BY <1>6, <2>1
  <2> HIDE DEF p
  <2>8. points[p].time <= points[i].time
    BY <1>2, <2>6
  <2>9. points[p].time \in Int /\ points[i].time \in Int
    <3>1. points[p] \in PointType /\ points[i] \in PointType
      BY <2>6 DEF SpansSound
    <3> QED
      BY <3>1 DEF PointType
  <2> QED
    BY <2>1, <2>2, <2>5, <2>7, <2>8, <2>9
<1> QED
  BY <1>7 DEF BeginInOrder

(* What a frame is given: points with their statistics, an axis in its     *)
(* terminal, and the place of each point on it, the first group from that  *)
(* of the point before that holds its time; groups of points in order      *)
(* begin in order.                                                         *)
From(place, i) == IF i = 1 THEN 1 ELSE place[i - 1]

ViewSound(v) ==
  /\ v.size.w \in Nat \ {0} /\ v.size.h \in Nat \ {0}
  /\ v.points \in Seq(PointType) /\ Len(v.points) \in Nat \ {0}
  /\ PlacedSound(v.axis, v.size.w)
  /\ v.stats \in StatsType /\ Summary(v.stats, v.points, 1, Len(v.points))
  /\ \A i \in 1 .. Len(v.points) :
       /\ v.place[i] \in 1 .. Len(v.axis) /\ From(v.place, i) \in 1 .. v.place[i]
       /\ SpanContains(v.axis[v.place[i]].time, v.points[i].time)
       /\ \A g \in From(v.place, i) .. v.place[i] - 1 :
            ~SpanContains(v.axis[g].time, v.points[i].time)
  /\ InOrder(v) => BeginInOrder(v.axis)

(* Statistics of points are those of the same points with other indexes.   *)
LEMMA SummaryMoved ==
  ASSUME NEW st, NEW ps, NEW qs, NEW from \in Nat, NEW n \in Nat,
         \A i \in 1 .. n : qs[i] = ps[i + from], Summary(st, ps, from + 1, from + n)
  PROVE  Summary(st, qs, 1, n)
<1>1. \A i \in 1 .. n : i + from \in from + 1 .. from + n
  OBVIOUS
<1>2. \A i \in from + 1 .. from + n : i - from \in 1 .. n /\ (i - from) + from = i
  OBVIOUS
<1>3. \A i \in from + 1 .. from + n : ps[i] = qs[i - from] /\ i - from \in 1 .. n
  <2> TAKE i \in from + 1 .. from + n
  <2>1. i - from \in 1 .. n /\ (i - from) + from = i
    BY <1>2
  <2>2. qs[i - from] = ps[(i - from) + from]
    BY <2>1
  <2> QED
    BY <2>1, <2>2
<1>4. CASE st.good = 0
  BY <1>1, <1>4 DEF Summary
<1>5. CASE st.good # 0
  <2>1. \E i \in 1 .. n : ~qs[i].dropped /\ qs[i].duration = st.min
    <3>1. PICK i \in from + 1 .. from + n : ~ps[i].dropped /\ ps[i].duration = st.min
      BY <1>5 DEF Summary
    <3> QED
      BY <1>3, <3>1
  <2>2. \E i \in 1 .. n : ~qs[i].dropped /\ qs[i].duration = st.max
    <3>1. PICK i \in from + 1 .. from + n : ~ps[i].dropped /\ ps[i].duration = st.max
      BY <1>5 DEF Summary
    <3> QED
      BY <1>3, <3>1
  <2>3. \A i \in 1 .. n :
          ~qs[i].dropped => st.min <= qs[i].duration /\ qs[i].duration <= st.max
    BY <1>1, <1>5 DEF Summary
  <2> QED
    BY <1>5, <2>1, <2>2, <2>3 DEF Summary
<1> QED
  BY <1>4, <1>5

(* Whatever was recorded, this is what computeFrame is given.              *)
LEMMA ViewFacts ==
  ASSUME GraphInv, Drawn, NEW size \in Sizes, NEW scale, NEW follow \in BOOLEAN
  PROVE  /\ ViewSound(View(size, scale, follow))
         /\ View(size, scale, follow).size = size /\ View(size, scale, follow).scale = scale
         /\ \A i \in 1 .. Len(View(size, scale, follow).points) :
              \E k \in 1 .. Len(points) : View(size, scale, follow).points[i] = points[k]
<1> DEFINE iter == Iter(follow)
           whole == XAxis(size.w, follow)
           axis == PlacedGroups(whole, size.w, follow)
           ps == [i \in 1 .. iter.total |-> PointAt(iter, i - 1)]
           place == Places(axis, iter)
           stats == IF follow THEN axis[1].stats ELSE AllStats
           v == View(size, scale, follow)
           N == Len(points)
<1>1. SpansSound /\ size.w \in Nat \ {0} /\ size.h \in Nat \ {0} /\ size.w \in Int
  BY GraphSpans, FrameAssumption
<1>2. v = [size |-> size, scale |-> scale, axis |-> axis, points |-> ps, place |-> place,
           stats |-> stats]
  BY DEF View, ViewOf, Placed
<1>3. /\ iter.total \in Nat \ {0} /\ iter.offset \in Nat /\ iter.offset + iter.total = N
      /\ TimesSound(whole) /\ Homes(whole, iter) # {}
  BY <1>1, HomesExist
<1>4. N \in Nat /\ points \in Seq(PointType)
  BY <1>1 DEF SpansSound
<1> HIDE DEF N, iter, whole, v
<1>5. /\ PlacedSound(axis, size.w) /\ Len(axis) = Len(whole)
      /\ \A g \in 1 .. Len(whole) : axis[g].time = whole[g].time /\ axis[g].stats = whole[g].stats
  BY <1>1, <1>3, PlacedFacts
<1> HIDE DEF axis
<1>6. PICK home : home \in Homes(whole, iter)
  BY <1>3
<1>7. home \in Homes(axis, iter) /\ Len(axis) \in Nat
  <2>1. /\ home \in [1 .. iter.total -> 1 .. Len(whole)]
        /\ \A i, j \in 1 .. iter.total : i <= j => home[i] <= home[j]
        /\ \A i \in 1 .. iter.total :
             SpanContains(whole[home[i]].time, PointAt(iter, i - 1).time)
    BY <1>6 DEF Homes
  <2>2. \A i \in 1 .. iter.total : SpanContains(axis[home[i]].time, PointAt(iter, i - 1).time)
    BY <1>5, <2>1
  <2>3. Len(axis) \in Nat
    BY <1>5 DEF PlacedSound, TimesSound
  <2> QED
    BY <1>5, <2>1, <2>2, <2>3 DEF Homes
<1>8. ASSUME NEW i \in 1 .. iter.total
      PROVE  ps[i] = points[i + iter.offset] /\ ps[i] \in PointType /\ ps[i] = PointAt(iter, i - 1)
  <2>1. i - 1 + iter.offset + 1 = i + iter.offset /\ i + iter.offset \in 1 .. N
    BY <1>3, <1>4
  <2>2. points[i + iter.offset] \in PointType
    BY <1>4, <2>1 DEF N
  <2> QED
    BY <2>1, <2>2 DEF PointAt
<1>9. ps \in Seq(PointType) /\ Len(ps) = iter.total
  <2>1. ps \in [1 .. iter.total -> PointType]
    BY <1>8
  <2> HIDE DEF ps
  <2> QED
    BY <1>3, <2>1
<1>10. stats \in StatsType /\ Summary(stats, ps, 1, iter.total)
  <2>1. CASE ~follow
    <3>1. iter.offset = 0 /\ stats = AllStats
      BY <2>1 DEF iter, Iter
    <3>2. iter.total = N
      BY <1>3, <1>4, <3>1
    <3>3. AllStats \in StatsType /\ Summary(AllStats, points, 1, N)
      BY <1>4, AllStatsFacts DEF N
    <3>4. \A i \in 1 .. N : points[i] = ps[i]
      <4> TAKE i \in 1 .. N
      <4>1. i + iter.offset = i /\ i \in 1 .. iter.total
        BY <1>4, <3>1, <3>2
      <4> QED
        BY <1>8, <4>1
    <3> HIDE DEF ps, stats
    <3> QED
      BY <3>1, <3>2, <3>3, <3>4, SummaryStill
  <2>2. CASE follow
    <3> DEFINE L == Len(spans)
               s == spans[L]
    <3>1. L \in 1 .. L /\ Describes(points, s) /\ s.start \in Nat /\ s.end \in Nat
          /\ s.count = s.end - s.start + 1 /\ s.stats \in StatsType
      BY <1>1, SpanFacts DEF SpansSound
    <3>2. iter.total = s.count /\ iter.offset = s.start
      BY <1>1, <2>2, OffsetFacts DEF iter, Iter
    <3>3. whole = <<Group(L, size.w)>>
      BY <2>2 DEF whole, XAxis
    <3>4. Len(whole) = 1 /\ whole[1].stats = s.stats
      BY <3>3 DEF Group
    <3>5. stats = s.stats
      <4>1. 1 \in 1 .. Len(whole)
        BY <3>4
      <4> QED
        BY <1>5, <2>2, <3>4, <4>1
    <3> HIDE DEF L, s, stats, ps
    <3>6. s.end + 1 = iter.offset + iter.total
      BY <1>3, <3>1, <3>2
    <3>7. Summary(s.stats, points, iter.offset + 1, iter.offset + iter.total)
      BY <3>1, <3>2, <3>6 DEF Describes
    <3>8. Summary(s.stats, ps, 1, iter.total)
      <4>1. iter.offset \in Nat /\ iter.total \in Nat
        BY <1>3
      <4> QED
        BY <1>8, <3>7, <4>1, SummaryMoved
    <3> QED
      BY <3>1, <3>5, <3>8
  <2> QED
    BY <2>1, <2>2
<1>11. ASSUME NEW i \in 1 .. iter.total
       PROVE  /\ place[i] \in 1 .. Len(axis) /\ From(place, i) \in 1 .. place[i]
              /\ SpanContains(axis[place[i]].time, ps[i].time)
              /\ \A g \in From(place, i) .. place[i] - 1 :
                   ~SpanContains(axis[g].time, ps[i].time)
  <2>1. /\ place[i] \in 1 .. home[i] /\ From(place, i) \in 1 .. home[i]
        /\ place[i] \in From(place, i) .. home[i]
        /\ SpanContains(axis[place[i]].time, PointAt(iter, i - 1).time)
        /\ \A g \in From(place, i) .. place[i] - 1 :
             ~SpanContains(axis[g].time, PointAt(iter, i - 1).time)
    BY <1>3, <1>7, PlacesFound DEF From
  <2>2. home[i] \in 1 .. Len(axis) /\ ps[i] = PointAt(iter, i - 1)
    BY <1>7, <1>8 DEF Homes
  <2> HIDE DEF place, ps
  <2>3. place[i] \in 1 .. Len(axis) /\ From(place, i) \in 1 .. place[i]
    BY <1>7, <2>1, <2>2
  <2> QED
    BY <2>1, <2>2, <2>3
<1>14. ASSUME \A i \in 1 .. Len(ps) - 1 : ps[i].time <= ps[i + 1].time
       PROVE  BeginInOrder(axis)
  <2>1. CASE follow
    <3>1. Len(whole) = 1
      BY <2>1 DEF whole, XAxis
    <3> QED
      BY <1>5, <3>1 DEF BeginInOrder
  <2>2. CASE ~follow
    <3>1. iter.offset = 0 /\ iter.total = N
      BY <1>3, <1>4, <2>2 DEF iter, Iter
    <3>2. \A i \in 1 .. N : ps[i] = points[i]
      <4> TAKE i \in 1 .. N
      <4>1. i + iter.offset = i /\ i \in 1 .. iter.total
        BY <1>4, <3>1
      <4> QED
        BY <1>8, <4>1
    <3> HIDE DEF ps
    <3>3. \A i \in 1 .. Len(points) - 1 : points[i].time <= points[i + 1].time
      <4> TAKE i \in 1 .. Len(points) - 1
      <4>1. i \in 1 .. N /\ i + 1 \in 1 .. N /\ i \in 1 .. Len(ps) - 1
        BY <1>4, <1>9, <3>1 DEF N
      <4> QED
        BY <1>14, <3>2, <4>1
    <3>4. AxisSound(whole)
      BY <1>1, <2>2, WholeAxis DEF whole
    <3>5. BeginInOrder(whole)
      BY <1>1, <3>3, <3>4, GroupsBeginInOrder
    <3> QED
      BY <1>5, <3>5 DEF BeginInOrder
  <2> QED
    BY <2>1, <2>2
<1> HIDE DEF ps, place, stats
<1>12. ViewSound(v)
  <2>1. /\ v.size = size /\ v.axis = axis /\ v.points = ps /\ v.place = place /\ v.stats = stats
    BY <1>2
  <2> QED
    BY <1>1, <1>3, <1>5, <1>9, <1>10, <1>11, <1>14, <2>1 DEF ViewSound, InOrder
<1>13. v.size = size /\ v.scale = scale
  BY <1>2
<1>15. \A i \in 1 .. Len(v.points) : \E k \in 1 .. N : v.points[i] = points[k]
  <2>1. v.points = ps
    BY <1>2
  <2> SUFFICES ASSUME NEW i \in 1 .. Len(ps) PROVE \E k \in 1 .. N : ps[i] = points[k]
    BY <2>1
  <2>2. i + iter.offset \in 1 .. N /\ i \in 1 .. iter.total
    BY <1>3, <1>4, <1>9
  <2> QED
    BY <1>8, <2>2
<1> QED
  BY <1>12, <1>13, <1>15 DEF v, N

-----------------------------------------------------------------------------
(* Where the points are drawn                                              *)

(* A part of a number, cut to an integer.                                  *)
LEMMA DivisionFacts ==
  ASSUME NEW a \in Int, NEW b \in Nat \ {0}
  PROVE  a \div b \in Int /\ (a \div b) * b <= a /\ a < (a \div b) * b + b
<1>1. a \div b \in Int /\ a % b \in 0 .. b - 1 /\ a = b * (a \div b) + (a % b)
  OBVIOUS
<1> DEFINE q == a \div b
           r == a % b
<1> HIDE DEF q, r
<1>2. q \in Int /\ r \in 0 .. b - 1 /\ a = b * q + r
  BY <1>1 DEF q, r
<1>3. q * b \in Int /\ b * q = q * b
  BY <1>2
<1>4. q * b <= a /\ a < q * b + b
  BY <1>2, <1>3
<1> QED
  BY <1>2, <1>4 DEF q

(* A quotient is between those of the numbers its dividend is between.     *)
LEMMA DivisionBounds ==
  ASSUME NEW a \in Int, NEW b \in Nat \ {0}, NEW q \in Int
  PROVE  (a \div b >= q <=> a >= q * b) /\ (a \div b <= q <=> a < (q + 1) * b)
<1> DEFINE d == a \div b
<1>1. d \in Int /\ d * b <= a /\ a < d * b + b
  BY DivisionFacts
<1> HIDE DEF d
<1>2. \A x, y \in Int : x <= y => x * b <= y * b
  <2> TAKE x, y \in Int
  <2> HAVE x <= y
  <2>1. y - x \in Nat
    OBVIOUS
  <2>2. (y - x) * b \in Nat
    BY <2>1
  <2>3. (y - x) * b = y * b - x * b /\ x * b \in Int /\ y * b \in Int
    OBVIOUS
  <2> QED
    BY <2>2, <2>3
<1>3. /\ d * b \in Int /\ q * b \in Int /\ (q + 1) * b = q * b + b
      /\ (d + 1) * b = d * b + b
  BY <1>1
<1>4. d >= q => a >= q * b
  <2> HAVE d >= q
  <2>1. q * b <= d * b
    BY <1>1, <1>2
  <2> QED
    BY <1>1, <1>3, <2>1
<1>5. a >= q * b => d >= q
  <2> SUFFICES ASSUME a >= q * b, d + 1 <= q PROVE FALSE
    BY <1>1
  <2>1. (d + 1) * b <= q * b
    BY <1>1, <1>2
  <2> QED
    BY <1>1, <1>3, <2>1
<1>6. d <= q => a < (q + 1) * b
  <2> HAVE d <= q
  <2>1. d * b <= q * b
    BY <1>1, <1>2
  <2> QED
    BY <1>1, <1>3, <2>1
<1>7. a < (q + 1) * b => d <= q
  <2> SUFFICES ASSUME a < (q + 1) * b, q + 1 <= d PROVE FALSE
    BY <1>1
  <2>1. (q + 1) * b <= d * b
    BY <1>1, <1>2
  <2> QED
    BY <1>1, <1>3, <2>1
<1> QED
  BY <1>4, <1>5, <1>6, <1>7 DEF d

(* A normalised value is an integer, whatever the value is; of one in the  *)
(* range it is in the new range, whichever end of it is the larger.        *)
LEMMA NormalizedFacts ==
  ASSUME NEW v \in Int, NEW min \in Int, NEW max \in Int, min <= max,
         NEW newMin \in Int, NEW newMax \in Int
  PROVE  /\ Normalized(v, min, max, newMin, newMax) \in Int
         /\ min <= v /\ v <= max /\ min # max =>
              Normalized(v, min, max, newMin, newMax)
                \in MinOf(newMin, newMax) .. MaxOf(newMin, newMax)
<1> DEFINE n == Normalized(v, min, max, newMin, newMax)
           a == newMax - newMin
           b == max - min
           c == v - min
           d == (a * c) \div b
<1>1. CASE min = max
  BY <1>1 DEF Normalized, LeastInt
<1>2. CASE min # max
  <2>1. n = newMin + d
    BY <1>2 DEF Normalized
  <2>2. a \in Int /\ b \in Nat \ {0} /\ c \in Int
    BY <1>2
  <2>3. a * c \in Int
    BY <2>2
  <2>4. d \in Int
    <3> HIDE DEF a, b, c
    <3> QED
      BY <2>2, <2>3, DivisionFacts
  <2>5. ASSUME min <= v, v <= max
        PROVE  n \in MinOf(newMin, newMax) .. MaxOf(newMin, newMax)
    <3>1. c \in Nat /\ b - c \in Nat
      BY <2>5
    <3> HIDE DEF n, d, b, c
    <3>2. CASE newMin <= newMax
      <4>1. a \in Nat
        BY <3>2
      <4> HIDE DEF a
      <4>2. a * c \in Nat /\ a * (b - c) \in Nat
        BY <3>1, <4>1
      <4>3. a * (b - c) = a * b - a * c /\ a * b \in Int /\ (a + 1) * b = a * b + b
        BY <2>2, <3>1, <4>1
      <4>4. a * c >= 0 * b /\ a * c < (a + 1) * b
        BY <2>2, <4>2, <4>3
      <4>5. d >= 0 /\ d <= a
        BY <2>2, <2>3, <4>4, DivisionBounds DEF d
      <4> QED
        BY <2>1, <2>4, <3>2, <4>5 DEF a, MinOf, MaxOf
    <3>3. CASE newMax < newMin
      <4>1. -a \in Nat
        BY <3>3
      <4> HIDE DEF a
      <4>2. (-a) * c \in Nat /\ (-a) * (b - c) \in Nat
        BY <3>1, <4>1
      <4>3. (-a) * c = -(a * c) /\ (-a) * (b - c) = a * c - a * b /\ a * b \in Int
        BY <2>2, <3>1, <4>1
      <4>4. a * c >= a * b /\ a * c < (0 + 1) * b
        BY <2>2, <2>3, <4>2, <4>3
      <4>5. d >= a /\ d <= 0
        BY <2>2, <2>3, <4>4, DivisionBounds DEF d
      <4> QED
        BY <2>1, <2>4, <3>3, <4>5 DEF a, MinOf, MaxOf
    <3> QED
      BY <3>2, <3>3
  <2> QED
    BY <2>1, <2>4, <2>5
<1> QED
  BY <1>1, <1>2

(* A time is drawn in some column, and one of the group inside the         *)
(* terminal.                                                               *)
LEMMA GetXFacts ==
  ASSUME NEW size, size.w \in Nat \ {0}, NEW axis, PlacedSound(axis, size.w),
         NEW i \in 1 .. Len(axis), NEW t \in Int
  PROVE  /\ GetX(t, axis[i], size) \in Int
         /\ SpanContains(axis[i].time, t) => GetX(t, axis[i], size) \in 1 .. size.w
<1> DEFINE g == axis[i]
           w == size.w
           newMin == MinOf(MaxOf(1, w - 1), g.endX)
           newMax == MaxOf(LabelSize(size), g.startX)
           x == GetX(t, g, size)
<1>1. /\ g.startX \in 1 .. w /\ g.endX \in 1 .. w
      /\ g.time.begin \in Int /\ g.time.end \in Int /\ g.time.begin <= g.time.end
      /\ g.time.duration = g.time.end - g.time.begin
  BY DEF PlacedSound, TimesSound
<1>2. LabelSize(size) \in 1 .. w
  BY DEF LabelSize, MinOf
<1> HIDE DEF g
<1>3. newMin \in 1 .. w /\ newMax \in 1 .. w
  BY <1>1, <1>2 DEF MinOf, MaxOf
<1>4. x = IF g.stats.good <= 1 \/ g.time.duration = 0 THEN (newMin + newMax) \div 2
          ELSE Normalized(g.time.end - t, 0, g.time.duration, newMin, newMax)
  BY DEF GetX
<1> HIDE DEF w, newMin, newMax, x
<1>5. CASE g.stats.good <= 1 \/ g.time.duration = 0
  <2>1. x = (newMin + newMax) \div 2 /\ w \in Nat
    BY <1>4, <1>5 DEF w
  <2> QED
    BY <1>3, <2>1 DEF g, x, w
<1>6. CASE ~(g.stats.good <= 1 \/ g.time.duration = 0)
  <2> DEFINE v == g.time.end - t
             dur == g.time.duration
  <2>1. x = Normalized(v, 0, dur, newMin, newMax)
    BY <1>4, <1>6
  <2>2. v \in Int /\ dur \in Nat /\ dur # 0
    BY <1>1, <1>6
  <2>3. SpanContains(g.time, t) => 0 <= v /\ v <= dur
    BY <1>1 DEF SpanContains
  <2> HIDE DEF v, dur
  <2>4. newMin \in Int /\ newMax \in Int /\ 0 <= dur /\ 0 \in Int /\ dur \in Int /\ w \in Nat
    BY <1>3, <2>2 DEF w
  <2>5. /\ x \in Int
        /\ 0 <= v /\ v <= dur => x \in MinOf(newMin, newMax) .. MaxOf(newMin, newMax)
    BY <2>1, <2>2, <2>4, NormalizedFacts
  <2>6. \A y \in MinOf(newMin, newMax) .. MaxOf(newMin, newMax) : y \in 1 .. w
    BY <1>3, <2>4 DEF MinOf, MaxOf
  <2> QED
    BY <2>3, <2>5, <2>6 DEF g, x, w
<1> QED
  BY <1>5, <1>6

(* A scale on which longer round trips are not lower, from the lower bound *)
(* of the y axis to the upper one.                                         *)
Rising(scale, stats) ==
  \A m, n \in EffectiveYBounds(stats).min .. EffectiveYBounds(stats).max :
    Scaled(scale, m) \in Int /\ (m <= n => Scaled(scale, m) <= Scaled(scale, n))

(* The bounds are numbers, and all round trips between the best and the    *)
(* worst are between them.                                                 *)
LEMMA BoundsFacts ==
  ASSUME NEW stats \in StatsType, stats.min <= stats.max
  PROVE  LET b == EffectiveYBounds(stats)
         IN  /\ b.min \in Nat /\ b.max \in Nat /\ b.min <= b.max
             /\ b.min <= stats.min /\ stats.max <= b.max
<1> DEFINE b == EffectiveYBounds(stats)
<1>1. stats.min \in Nat /\ stats.max \in Nat
  BY DEF StatsType
<1>2. CASE stats.min # stats.max
  <2>1. b.min = stats.min /\ b.max = stats.max
    BY <1>2 DEF EffectiveYBounds
  <2> QED
    BY <1>1, <2>1
<1>3. CASE stats.min = stats.max
  <2>1. b.min = stats.min \div 2 /\ b.max = stats.min * 2
    BY <1>3 DEF EffectiveYBounds
  <2> HIDE DEF b
  <2>2. b.min \in Nat /\ b.max \in Nat /\ b.min <= b.max /\ b.min <= stats.min
        /\ stats.max <= b.max
    BY <1>1, <1>3, <2>1
  <2> QED
    BY <2>2 DEF b
<1> QED
  BY <1>2, <1>3

LEMMA LinearRises == \A stats \in StatsType : Rising("linear", stats)
<1> SUFFICES ASSUME NEW stats \in StatsType PROVE Rising("linear", stats)
  OBVIOUS
<1> DEFINE b == EffectiveYBounds(stats)
<1>1. b.min \in Int /\ b.max \in Int
  BY DEF EffectiveYBounds, StatsType
<1> HIDE DEF b
<1>2. \A m \in b.min .. b.max : m \in Int
  BY <1>1
<1> QED
  BY <1>2 DEF Rising, Scaled, b

(* The y axis has a length: its bounds are numbers that are told apart.    *)
Ranges(scale, stats) ==
  LET b == EffectiveYBounds(stats)
  IN  /\ ~(scale = "logarithmic" /\ b.min = 0)
      /\ Scaled(scale, b.min) # Scaled(scale, b.max)

(* A round trip is drawn in some row, and one between the best and the     *)
(* worst inside the terminal, where the axis has a length.                 *)
LEMMA GetYFacts ==
  ASSUME NEW size, size.h \in Nat \ {0}, NEW scale,
         NEW stats \in StatsType, stats.min <= stats.max, Rising(scale, stats),
         NEW d \in Nat, stats.min <= d, d <= stats.max
  PROVE  LET y == GetY(d, stats, scale, size)
         IN  /\ y \in Int
             /\ Ranges(scale, stats)
                => y \in 1 .. size.h /\ (size.h >= 4 => y \in 2 .. size.h - 2)
<1> DEFINE b == EffectiveYBounds(stats)
           y == GetY(d, stats, scale, size)
           lo == Scaled(scale, b.min)
           hi == Scaled(scale, b.max)
           at == Scaled(scale, d)
           newMin == MaxOf(1, size.h - 2)
           newMax == MinOf(2, size.h)
<1>1. stats.min \in Nat /\ stats.max \in Nat
  BY DEF StatsType
<1>2. b.min \in Nat /\ b.max \in Nat /\ b.min <= d /\ d <= b.max /\ b.min <= b.max
  <2>1. /\ b.min \in Nat /\ b.max \in Nat /\ b.min <= b.max
        /\ b.min <= stats.min /\ stats.max <= b.max
    BY BoundsFacts
  <2> HIDE DEF b
  <2> QED
    BY <1>1, <2>1
<1>3. y = IF scale = "logarithmic" /\ b.min = 0 THEN LeastInt
          ELSE Normalized(at, lo, hi, newMin, newMax)
  BY DEF GetY
<1> DEFINE row == Normalized(at, lo, hi, newMin, newMax)
<1>8. LeastInt \in Int /\ (Ranges(scale, stats) => y = row /\ lo # hi)
  BY <1>3 DEF Ranges, LeastInt
<1> HIDE DEF b, y
<1>4. lo \in Int /\ hi \in Int /\ at \in Int /\ lo <= hi /\ lo <= at /\ at <= hi
  <2>1. b.min \in b.min .. b.max /\ b.max \in b.min .. b.max /\ d \in b.min .. b.max
    BY <1>2
  <2>2. \A m, n \in b.min .. b.max :
          Scaled(scale, m) \in Int /\ (m <= n => Scaled(scale, m) <= Scaled(scale, n))
    BY DEF Rising, b
  <2> QED
    BY <1>2, <2>1, <2>2
<1>5. newMin \in Int /\ newMax \in Int
  BY DEF MinOf, MaxOf
<1> HIDE DEF lo, hi, at, newMin, newMax
<1>6. /\ row \in Int
      /\ lo <= at /\ at <= hi /\ lo # hi => row \in MinOf(newMin, newMax) .. MaxOf(newMin, newMax)
  BY <1>4, <1>5, NormalizedFacts
<1> HIDE DEF row
<1>9. y \in Int
  BY <1>3, <1>6, <1>8 DEF row
<1>7. \A z \in MinOf(newMin, newMax) .. MaxOf(newMin, newMax) :
        z \in 1 .. size.h /\ (size.h >= 4 => z \in 2 .. size.h - 2)
  BY DEF newMin, newMax, MinOf, MaxOf
<1> QED
  BY <1>4, <1>6, <1>7, <1>8, <1>9 DEF y

(* All points of a frame have columns in the terminal, and its good ones   *)
(* round trips between the best and the worst.                             *)
LEMMA ColumnFacts ==
  ASSUME NEW v, ViewSound(v)
  PROVE  /\ \A i \in 1 .. Len(v.points) : ColumnOf(v, i) \in 1 .. v.size.w
         /\ Len(v.points) \in Nat \ {0} /\ Good(v) \subseteq 1 .. Len(v.points)
         /\ \A i \in Good(v) : /\ v.points[i].time \in Nat /\ v.points[i].duration \in Nat
                               /\ v.stats.min <= v.points[i].duration
                               /\ v.points[i].duration <= v.stats.max
                               /\ v.stats.min <= v.stats.max
<1> DEFINE N == Len(v.points)
<1>1. N \in Nat \ {0} /\ \A i \in 1 .. N : v.points[i] \in PointType
  BY DEF ViewSound
<1>2. \A i \in 1 .. N : v.points[i].time \in Nat /\ v.points[i].duration \in Nat
  BY <1>1 DEF PointType
<1>3. ASSUME NEW i \in 1 .. N
      PROVE  ColumnOf(v, i) \in 1 .. v.size.w
  <2>1. /\ v.place[i] \in 1 .. Len(v.axis) /\ PlacedSound(v.axis, v.size.w)
        /\ SpanContains(v.axis[v.place[i]].time, v.points[i].time)
        /\ v.size.w \in Nat \ {0}
    BY DEF ViewSound
  <2>2. v.points[i].time \in Int
    BY <1>2
  <2> QED
    BY <2>1, <2>2, GetXFacts DEF ColumnOf, GroupOf
<1>4. Good(v) \subseteq 1 .. N
  BY DEF Good
<1>5. ASSUME NEW i \in Good(v)
      PROVE  /\ v.stats.min <= v.points[i].duration /\ v.points[i].duration <= v.stats.max
             /\ v.stats.min <= v.stats.max
  <2>1. i \in 1 .. N /\ ~v.points[i].dropped
    BY DEF Good
  <2>2. Summary(v.stats, v.points, 1, N) /\ v.stats \in StatsType
    BY DEF ViewSound
  <2> HIDE DEF N
  <2>3. v.stats.min <= v.points[i].duration /\ v.points[i].duration <= v.stats.max
    BY <2>1, <2>2 DEF Summary
  <2>4. v.stats.min \in Int /\ v.stats.max \in Int /\ v.points[i].duration \in Int
    BY <1>2, <2>1, <2>2 DEF StatsType
  <2> QED
    BY <2>3, <2>4
<1> QED
  BY <1>1, <1>2, <1>3, <1>4, <1>5

(* The good points have cells.                                             *)
LEMMA CellFacts ==
  ASSUME NEW v, ViewSound(v), Rising(v.scale, v.stats)
  PROVE  /\ \A i \in 1 .. Len(v.points) : ColumnOf(v, i) \in 1 .. v.size.w
         /\ \A i \in Good(v) : CellOf(v, i) \in Int \X Int
         /\ Good(v) # {} => v.stats.min <= v.stats.max
         /\ Len(v.points) \in Nat \ {0} /\ Good(v) \subseteq 1 .. Len(v.points)
<1>1. ASSUME NEW i \in Good(v)
      PROVE  CellOf(v, i) \in Int \X Int
  <2>1. v.stats \in StatsType /\ v.size.h \in Nat \ {0} /\ v.size.w \in Nat
    BY DEF ViewSound
  <2>2. /\ v.points[i].duration \in Nat /\ v.stats.min <= v.points[i].duration
        /\ v.points[i].duration <= v.stats.max /\ v.stats.min <= v.stats.max
        /\ ColumnOf(v, i) \in 1 .. v.size.w
    BY ColumnFacts
  <2>3. GetY(v.points[i].duration, v.stats, v.scale, v.size) \in Int
    BY <2>1, <2>2, GetYFacts
  <2>4. ColumnOf(v, i) \in Int
    BY <2>1, <2>2
  <2> QED
    BY <2>3, <2>4 DEF CellOf
<1> QED
  BY <1>1, ColumnFacts

-----------------------------------------------------------------------------
(* The draw window                                                         *)

(* What a loop keeps from one step to the next it keeps to the end.        *)
LEMMA LoopKeeps ==
  ASSUME NEW N \in Nat, NEW S, NEW f, f[0] \in S,
         \A n \in 1 .. N : f[n - 1] \in S => f[n] \in S
  PROVE  f[N] \in S
<1> DEFINE T == {n \in Nat : n <= N => f[n] \in S}
<1>1. 0 \in T
  OBVIOUS
<1>2. ASSUME NEW n \in Nat, n \in T
      PROVE  n + 1 \in T
  <2> SUFFICES ASSUME n + 1 <= N PROVE f[n + 1] \in S
    OBVIOUS
  <2>1. n + 1 \in 1 .. N /\ (n + 1) - 1 = n /\ f[n] \in S
    BY <1>2
  <2> QED
    BY <2>1
<1>3. N \in T
  <2>1. \A n \in Nat : n \in T => n + 1 \in T
    BY <1>2
  <2> HIDE DEF T
  <2> QED
    BY <1>1, <2>1, NatInductionOnSets
<1> QED
  BY <1>3

Kinds == {"label", "point", "bar", "filler", "gradient"}

(* Windows with cells of U and glyphs of G.                                *)
LabelType == [x: Int, y: Int, d: Nat, left: BOOLEAN]
CellType(G) == [kind: Kinds, n: Nat, glyph: G]
WindowType(U, G) ==
  [cells: UNION {[D -> CellType(G)] : D \in SUBSET U}, max: Nat, labels: SUBSET LabelType]

Kept(win, new, c) ==
  (Has(new, c) <=> Has(win, c)) /\ (Has(win, c) => new.cells[c] = win.cells[c])

Labelled(win, c) == Has(win, c) /\ win.cells[c].kind = "label"

(* What there is to know of the fields of a window.                        *)
Fields(win, U, G) ==
  /\ win = [cells |-> win.cells, max |-> win.max, labels |-> win.labels]
  /\ win.max \in Nat /\ win.labels \in SUBSET LabelType
  /\ DOMAIN win.cells \subseteq U
  /\ \A c \in DOMAIN win.cells : /\ win.cells[c] \in CellType(G)
                                 /\ win.cells[c].kind \in Kinds /\ win.cells[c].n \in Nat

LEMMA FieldsOfWindow ==
  ASSUME NEW U, NEW G, NEW win \in WindowType(U, G)
  PROVE  Fields(win, U, G)
<1>1. /\ win = [cells |-> win.cells, max |-> win.max, labels |-> win.labels]
      /\ win.max \in Nat /\ win.labels \in SUBSET LabelType
      /\ win.cells \in UNION {[D -> CellType(G)] : D \in SUBSET U}
  BY DEF WindowType
<1>2. PICK D \in SUBSET U : win.cells \in [D -> CellType(G)]
  BY <1>1
<1>3. /\ DOMAIN win.cells = D
      /\ \A c \in D : win.cells[c] \in CellType(G)
  BY <1>2
<1>4. \A cell \in CellType(G) : cell.kind \in Kinds /\ cell.n \in Nat
  BY DEF CellType
<1> QED
  BY <1>1, <1>3, <1>4 DEF Fields

(* Cells are put in.                                                       *)
IsPut(win, new, cs, cell) ==
  /\ new.max = win.max /\ new.labels = win.labels
  /\ \A c \in cs : Has(new, c) /\ new.cells[c] = cell
  /\ \A c : c \notin cs => Kept(win, new, c)

LEMMA PutFacts ==
  ASSUME NEW U, NEW G, NEW win \in WindowType(U, G), NEW cs \in SUBSET U,
         NEW cell \in CellType(G)
  PROVE  Put(win, cs, cell) \in WindowType(U, G) /\ IsPut(win, Put(win, cs, cell), cs, cell)
<1> DEFINE D == DOMAIN win.cells \cup cs
           cells == [c \in D |-> IF c \in cs THEN cell ELSE win.cells[c]]
           new == Put(win, cs, cell)
<1>1. /\ win = [cells |-> win.cells, max |-> win.max, labels |-> win.labels]
      /\ win.max \in Nat /\ win.labels \in SUBSET LabelType /\ DOMAIN win.cells \subseteq U
      /\ \A c \in DOMAIN win.cells : win.cells[c] \in CellType(G)
  <2>1. Fields(win, U, G)
    BY FieldsOfWindow
  <2> QED
    BY <2>1 DEF Fields
<1>2. new = [win EXCEPT !.cells = cells]
  BY DEF Put
<1>3. cells \in [D -> CellType(G)] /\ D \in SUBSET U
  BY <1>1
<1>4. DOMAIN cells = D /\ \A c \in D : cells[c] = IF c \in cs THEN cell ELSE win.cells[c]
  OBVIOUS
<1> HIDE DEF cells, new
<1>5. new = [cells |-> cells, max |-> win.max, labels |-> win.labels]
  BY <1>1, <1>2
<1>6. cells \in UNION {[E -> CellType(G)] : E \in SUBSET U}
  BY <1>3
<1>7. new \in WindowType(U, G)
  BY <1>1, <1>5, <1>6 DEF WindowType
<1>8. new.cells = cells /\ new.max = win.max /\ new.labels = win.labels
  BY <1>5
<1> QED
  BY <1>4, <1>7, <1>8 DEF Has, Kept, IsPut, new

(* drawWindow.add: the cell is a label, or a point that counts one more,   *)
(* and the largest number there is at least that of points on others.      *)
IsAdded(win, new, c, label) ==
  /\ new.max >= win.max /\ new.labels = win.labels
  /\ \A e : e # c => Kept(win, new, e)
  /\ Has(new, c)
  /\ label \/ Labelled(win, c) => Labelled(new, c)
  /\ ~label /\ ~Labelled(win, c) =>
       /\ new.cells[c].kind = "point"
       /\ new.cells[c].n = IF Has(win, c) THEN win.cells[c].n + 1 ELSE 1
       /\ Has(win, c) => new.cells[c].n <= new.max

LEMMA AddFacts ==
  ASSUME NEW U, NEW G, "none" \in G, NEW win \in WindowType(U, G), NEW c \in U,
         NEW label \in BOOLEAN
  PROVE  Add(win, c, label) \in WindowType(U, G) /\ IsAdded(win, Add(win, c, label), c, label)
<1> DEFINE n == IF Has(win, c) THEN win.cells[c].n + 1 ELSE 1
           kind == IF label THEN "label" ELSE "point"
           cell == Cell(kind, n, "none")
           put == Put(win, {c}, cell)
           max == IF Has(win, c) THEN MaxOf(n, put.max) ELSE put.max
           new == Add(win, c, label)
<1>1. /\ win.max \in Nat
      /\ Has(win, c) => win.cells[c].n \in Nat
  BY FieldsOfWindow DEF Fields, Has
<1>2. CASE Labelled(win, c)
  <2>1. new = win
    BY <1>2 DEF Add, Labelled
  <2> QED
    BY <1>1, <1>2, <2>1 DEF Kept, Labelled, IsAdded
<1>3. CASE ~Labelled(win, c)
  <2>1. new = [put EXCEPT !.max = max]
    BY <1>3 DEF Add, Labelled
  <2>2. n \in Nat /\ kind \in Kinds /\ kind = IF label THEN "label" ELSE "point"
    BY <1>1 DEF Kinds
  <2> HIDE DEF n, kind
  <2>3. cell \in CellType(G) /\ cell.kind = kind /\ cell.n = n
    BY <2>2 DEF Cell, CellType
  <2> HIDE DEF cell
  <2>4. /\ put \in WindowType(U, G) /\ put.max = win.max /\ put.labels = win.labels
        /\ Has(put, c) /\ put.cells[c] = cell
        /\ \A e : e # c => Kept(win, put, e)
    <3> DEFINE cs == {c}
    <3>1. cs \in SUBSET U /\ c \in cs /\ (\A e : e # c => e \notin cs) /\ cell \in CellType(G)
      BY <2>3
    <3>2. put = Put(win, cs, cell)
      OBVIOUS
    <3> HIDE DEF cs, put
    <3>3. put \in WindowType(U, G) /\ IsPut(win, put, cs, cell)
      BY <3>1, <3>2, PutFacts
    <3> QED
      BY <3>1, <3>3 DEF IsPut
  <2> HIDE DEF put
  <2>5. max \in Nat /\ max >= win.max /\ (Has(win, c) => n <= max)
    BY <1>1, <2>2, <2>4 DEF MaxOf
  <2> HIDE DEF max, new
  <2>6. /\ put = [cells |-> put.cells, max |-> put.max, labels |-> put.labels]
        /\ put.labels \in SUBSET LabelType
    <3>1. Fields(put, U, G)
      BY <2>4, FieldsOfWindow
    <3> QED
      BY <3>1 DEF Fields
  <2>7. new = [cells |-> put.cells, max |-> max, labels |-> put.labels]
    BY <2>1, <2>6
  <2>8. put.cells \in UNION {[D -> CellType(G)] : D \in SUBSET U}
    BY <2>4 DEF WindowType
  <2>9. /\ new \in WindowType(U, G) /\ new.max = max /\ new.labels = win.labels
        /\ new.cells = put.cells
    BY <2>4, <2>5, <2>6, <2>7, <2>8 DEF WindowType
  <2>10. /\ Has(new, c) /\ new.cells[c].kind = kind /\ new.cells[c].n = n
         /\ \A e : e # c => Kept(win, new, e)
    BY <2>3, <2>4, <2>9 DEF Has, Kept
  <2>11. label => Labelled(new, c)
    BY <2>2, <2>10 DEF Labelled
  <2>12. ~label => new.cells[c].kind = "point"
    BY <2>2, <2>10
  <2> QED
    BY <1>3, <2>5, <2>9, <2>10, <2>11, <2>12 DEF IsAdded, new, n
<1> QED
  BY <1>2, <1>3

(* Over several steps.                                                     *)
LEMMA KeptOn ==
  ASSUME NEW a, NEW b, NEW d, NEW c, Kept(a, b, c), Kept(b, d, c)
  PROVE  Kept(a, d, c)
BY DEF Kept

LEMMA LabelKept ==
  ASSUME NEW a, NEW b, NEW c, Kept(a, b, c)
  PROVE  Labelled(a, c) <=> Labelled(b, c)
BY DEF Kept, Labelled

(* drawWindow.addLabel: cells of the label turn to labels, and no other    *)
(* changes.                                                                *)
OnlyLabels(win, new, label) ==
  /\ new.max >= win.max
  /\ \A c : Labelled(new, c) \/ Kept(win, new, c)
  /\ \A c : Labelled(new, c) => Labelled(win, c) \/ LabelledBy(label, c)

IsLabel(win, new, label) ==
  OnlyLabels(win, new, label) /\ new.labels = win.labels \cup {label}

(* The columns that a label takes are those it prints in, but for one.     *)
LEMMA LabelCells ==
  ASSUME NEW x \in Nat \ {0}, NEW y \in Int, NEW d \in Nat, NEW left \in BOOLEAN
  PROVE  LET label == [x |-> x, y |-> y, d |-> d, left |-> left]
         IN  /\ LabelledBy(label, <<x, y>>)
             /\ \A i \in 1 .. LabelLen :
                  LET at == x + 2 + (IF left THEN -(i - 1) ELSE i - 1)
                  IN  at >= 1 => LabelledBy(label, <<at, y>>)
<1> DEFINE n == LabelLen
           from == IF left THEN MaxOf(1, x - n) ELSE x
           label == [x |-> x, y |-> y, d |-> d, left |-> left]
<1>1. n \in Nat \ {0}
  BY FrameAssumption
<1>2. \A k \in Int : LabelledBy(label, <<k, y>>)
                      <=> k \in from .. from + n + 1 \/ (left /\ k = x + 2)
  BY DEF LabelledBy, Printed
<1> HIDE DEF n, label
<1>3. x \in from .. from + n + 1
  BY <1>1 DEF MaxOf
<1>4. ASSUME NEW i \in 1 .. n,
             x + 2 + (IF left THEN -(i - 1) ELSE i - 1) >= 1
      PROVE  LabelledBy(label, <<x + 2 + (IF left THEN -(i - 1) ELSE i - 1), y>>)
  <2> DEFINE at == x + 2 + (IF left THEN -(i - 1) ELSE i - 1)
  <2>1. at \in Int /\ (at \in from .. from + n + 1 \/ (left /\ at = x + 2))
    BY <1>1, <1>4 DEF MaxOf
  <2> HIDE DEF at, from
  <2>2. LabelledBy(label, <<at, y>>)
    BY <1>2, <2>1
  <2> QED
    BY <2>2 DEF at
<1> HIDE DEF from
<1>5. LabelledBy(label, <<x, y>>)
  BY <1>2, <1>3
<1> QED
  BY <1>4, <1>5 DEF n, label

LEMMA AddLabelFacts ==
  ASSUME NEW U, NEW G, "none" \in G, Int \X Int \subseteq U, NEW win \in WindowType(U, G),
         NEW x \in Nat \ {0}, NEW y \in Int, NEW d \in Nat, NEW left \in BOOLEAN
  PROVE  LET new == AddLabel(win, x, y, d, left)
         IN  /\ new \in WindowType(U, G)
             /\ IsLabel(win, new, [x |-> x, y |-> y, d |-> d, left |-> left])
<1> DEFINE n == LabelLen
           label == [x |-> x, y |-> y, d |-> d, left |-> left]
           at(i) == x + 2 + (IF left THEN -i ELSE i)
           one(w, i) == IF at(i - 1) = x \/ at(i - 1) < 1 THEN w
                        ELSE Add(w, <<at(i - 1), y>>, TRUE)
           S == {w \in WindowType(U, G) : OnlyLabels(win, w, label) /\ w.labels = win.labels}
           step == [z \in S \X (1 .. n) |-> one(z[1], z[2])]
           Solves(f) == f = [i \in 0 .. n |-> IF i = 0 THEN win
                                              ELSE IF at(i - 1) = x \/ at(i - 1) < 1 THEN f[i - 1]
                                              ELSE Add(f[i - 1], <<at(i - 1), y>>, TRUE)]
           upTo == CHOOSE f : Solves(f)
           new == AddLabel(win, x, y, d, left)
<1>1. new = [upTo[n] EXCEPT !.labels = @ \cup {label}]
  BY DEF AddLabel
<1>2. n \in Nat
  BY FrameAssumption
<1>3. \A i \in 1 .. n : at(i - 1) \in Int
  BY <1>2
<1>0. \A i \in 1 .. n : at(i - 1) >= 1 => LabelledBy(label, <<at(i - 1), y>>)
  BY LabelCells
<1>15. label \in LabelType
  BY DEF LabelType
<1> HIDE DEF n, at, label
<1>4. ASSUME NEW w \in S, NEW i \in 1 .. n
      PROVE  one(w, i) \in S
  <2>1. w \in WindowType(U, G) /\ OnlyLabels(win, w, label) /\ w.labels = win.labels
    OBVIOUS
  <2>2. CASE at(i - 1) = x \/ at(i - 1) < 1
    BY <2>2
  <2>3. CASE ~(at(i - 1) = x \/ at(i - 1) < 1)
    <3> DEFINE c == <<at(i - 1), y>>
               z == Add(w, c, TRUE)
    <3>1. one(w, i) = z
      BY <2>3
    <3>2. c \in U /\ LabelledBy(label, c)
      <4>1. at(i - 1) \in Int /\ at(i - 1) >= 1
        BY <1>3, <2>3
      <4> QED
        BY <1>0, <4>1
    <3> HIDE DEF c, z
    <3>3. z \in WindowType(U, G) /\ IsAdded(w, z, c, TRUE)
      BY <2>1, <3>2, AddFacts DEF z
    <3>4. /\ z.max >= w.max /\ z.labels = w.labels /\ Labelled(z, c)
          /\ \A e : e # c => Kept(w, z, e)
      BY <3>3 DEF IsAdded
    <3>5. /\ win.max \in Nat /\ w.max \in Nat /\ z.max \in Nat
      <4>1. Fields(win, U, G) /\ Fields(w, U, G) /\ Fields(z, U, G)
        BY <2>1, <3>3, FieldsOfWindow
      <4> QED
        BY <4>1 DEF Fields
    <3>6. /\ w.max >= win.max
          /\ \A e : Labelled(w, e) \/ Kept(win, w, e)
          /\ \A e : Labelled(w, e) => Labelled(win, e) \/ LabelledBy(label, e)
      BY <2>1 DEF OnlyLabels
    <3>7. z.max >= win.max
      BY <3>4, <3>5, <3>6
    <3>8. \A e : Labelled(z, e) \/ Kept(win, z, e)
      BY <3>4, <3>6, KeptOn, LabelKept
    <3>10. \A e : Labelled(z, e) => Labelled(win, e) \/ LabelledBy(label, e)
      BY <3>2, <3>4, <3>6, LabelKept
    <3>9. OnlyLabels(win, z, label)
      BY <3>7, <3>8, <3>10 DEF OnlyLabels
    <3> QED
      BY <2>1, <3>1, <3>3, <3>4, <3>9
  <2> QED
    BY <2>2, <2>3
<1>5. win \in S
  <2>1. win.max \in Nat
    BY FieldsOfWindow DEF Fields
  <2>2. OnlyLabels(win, win, label)
    BY <2>1 DEF OnlyLabels, Kept
  <2> QED
    BY <2>2
<1>6. Solves(upTo)
  <2> HIDE DEF one, S
  <2>1. step \in [S \X (1 .. n) -> S] /\ \A w \in S, i \in 1 .. n : step[<<w, i>>] = one(w, i)
    <3>1. \A z \in S \X (1 .. n) : z[1] \in S /\ z[2] \in 1 .. n
      OBVIOUS
    <3> QED
      BY <1>4, <3>1
  <2> HIDE DEF step
  <2>2. PICK f : Iterates(f, n, S, win, step)
    BY <1>2, <1>5, <2>1, Recursion
  <2>3. Solves(f)
    <3>1. \A i \in 0 .. n : i = 0 \/ (i \in 1 .. n /\ i - 1 \in 0 .. n)
      BY <1>2
    <3>2. ASSUME NEW i \in 1 .. n
          PROVE  f[i] = one(f[i - 1], i)
      <4>1. i - 1 \in 0 .. n
        BY <1>2
      <4>2. f[i - 1] \in S /\ f[i] = step[<<f[i - 1], i>>]
        BY <2>2, <4>1 DEF Iterates
      <4> QED
        BY <2>1, <4>2
    <3> QED
      BY <2>2, <3>1, <3>2 DEF Iterates, one
  <2> HIDE DEF Solves
  <2> QED
    BY <2>3
<1> HIDE DEF upTo
<1>7. upTo[0] = win /\ \A i \in 1 .. n : upTo[i] = one(upTo[i - 1], i)
  <2>1. 0 \in 0 .. n /\ \A i \in 1 .. n : i \in 0 .. n /\ i # 0
    BY <1>2
  <2> QED
    BY <1>6, <2>1
<1> HIDE DEF one, S
<1>8. upTo[n] \in S
  <2>1. \A i \in 1 .. n : upTo[i - 1] \in S => upTo[i] \in S
    BY <1>4, <1>7
  <2>2. upTo[0] \in S
    BY <1>5, <1>7
  <2> QED
    BY <1>2, <2>1, <2>2, LoopKeeps
<1> DEFINE w == upTo[n]
<1>9. w \in WindowType(U, G) /\ OnlyLabels(win, w, label) /\ w.labels = win.labels
  BY <1>8 DEF S
<1> HIDE DEF w
<1>10. /\ w = [cells |-> w.cells, max |-> w.max, labels |-> w.labels]
       /\ w.max \in Nat /\ w.labels \in SUBSET LabelType
  BY <1>9, FieldsOfWindow DEF Fields
<1>11. new = [cells |-> w.cells, max |-> w.max, labels |-> w.labels \cup {label}]
  <2>1. new = [w EXCEPT !.labels = w.labels \cup {label}]
    BY <1>1 DEF w
  <2> HIDE DEF new
  <2> QED
    BY <1>10, <2>1
<1> HIDE DEF new
<1>12. new.cells = w.cells /\ new.max = w.max /\ new.labels = win.labels \cup {label}
  BY <1>9, <1>11
<1>13. new \in WindowType(U, G)
  <2>1. w.cells \in UNION {[D -> CellType(G)] : D \in SUBSET U}
    BY <1>9 DEF WindowType
  <2>2. w.labels \cup {label} \in SUBSET LabelType
    BY <1>10, <1>15
  <2> QED
    BY <1>10, <1>11, <2>1, <2>2 DEF WindowType
<1>14. OnlyLabels(win, new, label)
  BY <1>9, <1>12 DEF OnlyLabels, Kept, Labelled, Has
<1> QED
  BY <1>12, <1>13, <1>14 DEF IsLabel, new, label

(* The round trips that have labels; the cells that are some label's.      *)
LabelledTrips(win) == {l.d : l \in win.labels}
Explained(win, c) == \E l \in win.labels : LabelledBy(l, c)

(* drawWindow.addPoint: a cell counts one more, other cells turn to labels *)
(* or do not change, and the best and the worst round trip get theirs.     *)
IsPoint(win, new, c) ==
  /\ new.max >= win.max /\ win.labels \subseteq new.labels
  /\ \A e : e # c => Labelled(new, e) \/ Kept(win, new, e)
  /\ \A e : Labelled(new, e) => Labelled(win, e) \/ Explained(new, e)
  /\ Has(new, c)
  /\ Labelled(new, c) \/
       /\ ~Labelled(win, c) /\ new.cells[c].kind = "point"
       /\ new.cells[c].n = IF Has(win, c) THEN win.cells[c].n + 1 ELSE 1
       /\ Has(win, c) => new.cells[c].n <= new.max

LEMMA AddPointToFacts ==
  ASSUME NEW U, NEW G, "none" \in G, Int \X Int \subseteq U, NEW win \in WindowType(U, G),
         NEW x \in Nat \ {0}, NEW y \in Int, NEW d \in Nat, NEW g, NEW stats, NEW size
  PROVE  LET new == AddPointTo(win, d, g, stats, x, y, size)
         IN  /\ new \in WindowType(U, G) /\ IsPoint(win, new, <<x, y>>)
             /\ d \in {stats.min, stats.max} => d \in LabelledTrips(new)
<1> DEFINE c == <<x, y>>
           needsLabel == \/ g.width > AverageLabelSize /\ d \in {g.stats.min, g.stats.max}
                         \/ d \in {stats.min, stats.max}
           left == x > (size.w - 2) \div 2
           added == Add(win, c, needsLabel)
           labelled == AddLabel(added, x, y, d, left)
           label == [x |-> x, y |-> y, d |-> d, left |-> left]
           new == AddPointTo(win, d, g, stats, x, y, size)
<1>1. new = IF needsLabel THEN labelled ELSE added
  BY DEF AddPointTo
<1>2. c \in U /\ needsLabel \in BOOLEAN /\ left \in BOOLEAN
  OBVIOUS
<1>3. d \in {stats.min, stats.max} => needsLabel
  OBVIOUS
<1> HIDE DEF c, needsLabel, left, added, new
<1>4. added \in WindowType(U, G) /\ IsAdded(win, added, c, needsLabel)
  BY <1>2, AddFacts DEF added
<1>5. added.max \in Nat /\ win.max \in Nat
  <2>1. Fields(added, U, G) /\ Fields(win, U, G)
    BY <1>4, FieldsOfWindow
  <2> QED
    BY <2>1 DEF Fields
<1>6. CASE ~needsLabel
  <2>1. new = added
    BY <1>1, <1>6
  <2>2. \A e : Labelled(added, e) => Labelled(win, e)
    BY <1>4, <1>6, LabelKept DEF IsAdded, Labelled
  <2>3. IsPoint(win, added, c)
    BY <1>4, <1>6, <2>2 DEF IsAdded, IsPoint
  <2> QED
    BY <1>3, <1>4, <1>6, <2>1, <2>3 DEF new, c
<1>7. CASE needsLabel
  <2>1. new = labelled
    BY <1>1, <1>7
  <2>2. labelled \in WindowType(U, G) /\ IsLabel(added, labelled, label)
    BY <1>2, <1>4, AddLabelFacts
  <2>3. labelled.max \in Nat
    BY <2>2, FieldsOfWindow DEF Fields
  <2>10. label.d = d /\ LabelledBy(label, c)
    BY <1>2, LabelCells DEF c
  <2> HIDE DEF labelled, label
  <2>4. /\ added.max >= win.max /\ added.labels = win.labels /\ Labelled(added, c)
        /\ \A e : e # c => Kept(win, added, e)
    BY <1>4, <1>7 DEF IsAdded
  <2>5. /\ labelled.max >= added.max
        /\ \A e : Labelled(labelled, e) \/ Kept(added, labelled, e)
        /\ \A e : Labelled(labelled, e) => Labelled(added, e) \/ LabelledBy(label, e)
        /\ labelled.labels = added.labels \cup {label}
    BY <2>2 DEF OnlyLabels, IsLabel
  <2>6. labelled.max >= win.max
    BY <1>5, <2>3, <2>4, <2>5
  <2>7. Labelled(labelled, c)
    BY <2>4, <2>5, LabelKept
  <2>8. \A e : e # c => Labelled(labelled, e) \/ Kept(win, labelled, e)
    BY <2>4, <2>5, KeptOn
  <2>11. \A e : LabelledBy(label, e) => Explained(labelled, e)
    BY <2>5 DEF Explained
  <2>12. \A e : Labelled(labelled, e) => Labelled(win, e) \/ Explained(labelled, e)
    BY <2>4, <2>5, <2>10, <2>11, LabelKept
  <2>9. IsPoint(win, labelled, c)
    BY <2>4, <2>5, <2>6, <2>7, <2>8, <2>12 DEF IsPoint, Labelled
  <2>13. d \in LabelledTrips(labelled)
    BY <2>5, <2>10 DEF LabelledTrips
  <2> QED
    BY <2>1, <2>2, <2>9, <2>13 DEF new, c
<1> QED
  BY <1>6, <1>7

(* drawWindow.addDroppedBar: the rows of the columns have the bar or       *)
(* what ranks before it, and nothing that does is covered.                 *)
IsBarred(win, new, cs, kind) ==
  /\ new.max = win.max /\ new.labels = win.labels
  /\ \A c : c \notin cs => Kept(win, new, c)
  /\ \A c \in cs :
       /\ Has(new, c)
       /\ \/ /\ Kept(win, new, c) /\ new.cells[c].kind \in {"label", "point", "bar", kind}
          \/ /\ new.cells[c].kind = kind /\ new.cells[c].n = 0
             /\ Has(win, c) => win.cells[c].kind \notin {"label", "point", "bar", kind}

LEMMA AddDroppedBarsFacts ==
  ASSUME NEW U, NEW G, "none" \in G, Int \X Int \subseteq U, NEW win \in WindowType(U, G),
         NEW columns \in SUBSET Int, NEW size, size.h \in Nat, NEW kind \in {"bar", "filler"}
  PROVE  LET new == AddDroppedBars(win, columns, size, kind)
         IN  /\ new \in WindowType(U, G)
             /\ IsBarred(win, new, columns \X (2 .. size.h - 2), kind)
<1> DEFINE all == columns \X (2 .. size.h - 2)
           cs == {c \in all : ~Has(win, c) \/ Rank[kind] < Rank[win.cells[c].kind]}
           cell == Cell(kind, 0, "none")
           new == AddDroppedBars(win, columns, size, kind)
<1>1. new = Put(win, cs, cell)
  BY DEF AddDroppedBars
<1>2. cs \in SUBSET U
  <2>1. \A row \in 2 .. size.h - 2 : row \in Int
    OBVIOUS
  <2>2. all \subseteq Int \X Int
    BY <2>1
  <2> HIDE DEF all
  <2> QED
    BY <2>2
<1>3. cell \in CellType(G) /\ cell.kind = kind /\ cell.n = 0
  BY DEF Cell, CellType, Kinds
<1> HIDE DEF cell, new, all
<1>4. new \in WindowType(U, G) /\ IsPut(win, new, cs, cell)
  BY <1>1, <1>2, <1>3, PutFacts
<1>5. ASSUME NEW c \in all
      PROVE  /\ Has(new, c)
             /\ \/ /\ Kept(win, new, c) /\ new.cells[c].kind \in {"label", "point", "bar", kind}
                \/ /\ new.cells[c].kind = kind /\ new.cells[c].n = 0
                   /\ Has(win, c) => win.cells[c].kind \notin {"label", "point", "bar", kind}
  <2>0. Has(win, c) => win.cells[c].kind \in Kinds
    BY FieldsOfWindow DEF Fields, Has
  <2>1. \A k \in Kinds :
          Rank[kind] < Rank[k] <=> k \notin {"label", "point", "bar", kind}
    <3>1. /\ Rank["label"] = 0 /\ Rank["point"] = 1 /\ Rank["bar"] = 2 /\ Rank["filler"] = 3
          /\ Rank["gradient"] = 4
      BY DEF Rank
    <3> QED
      BY <3>1 DEF Kinds
  <2>2. CASE c \in cs
    <3>1. Has(new, c) /\ new.cells[c] = cell
      BY <1>4, <2>2 DEF IsPut
    <3>2. Has(win, c) => Rank[kind] < Rank[win.cells[c].kind]
      BY <2>2
    <3> QED
      BY <1>3, <2>0, <2>1, <3>1, <3>2
  <2>3. CASE c \notin cs
    <3>1. Kept(win, new, c)
      BY <1>4, <2>3 DEF IsPut
    <3>2. Has(win, c) /\ ~(Rank[kind] < Rank[win.cells[c].kind])
      BY <2>3
    <3> HIDE DEF cs
    <3> QED
      BY <2>0, <2>1, <3>1, <3>2 DEF Kept
  <2> QED
    BY <2>2, <2>3
<1>6. \A c : c \notin all => c \notin cs
  OBVIOUS
<1> HIDE DEF cs
<1> QED
  BY <1>4, <1>5, <1>6 DEF IsPut, IsBarred, new, all

(* drawWindow.addGradient covers neither points nor labels.                *)
IsGradient(win, new, c) ==
  /\ new.max = win.max /\ new.labels = win.labels
  /\ \A e : e # c => Kept(win, new, e)
  /\ \/ Kept(win, new, c)
     \/ /\ Has(new, c) /\ new.cells[c].kind = "gradient"
        /\ Has(win, c) => win.cells[c].kind \notin {"label", "point"}

LEMMA AddGradientFacts ==
  ASSUME NEW U, NEW G, NEW win \in WindowType(U, G), NEW c \in U, NEW glyph \in G
  PROVE  LET new == AddGradient(win, c, glyph)
         IN  new \in WindowType(U, G) /\ IsGradient(win, new, c)
<1> DEFINE new == AddGradient(win, c, glyph)
<1>1. CASE Has(win, c) /\ win.cells[c].kind \in {"label", "point"}
  <2>1. new = win
    BY <1>1 DEF AddGradient
  <2> QED
    BY <2>1 DEF IsGradient, Kept
<1>2. CASE ~(Has(win, c) /\ win.cells[c].kind \in {"label", "point"})
  <2> DEFINE cs == {c}
             cell == Cell("gradient", 0, glyph)
  <2>1. new = Put(win, cs, cell)
    BY <1>2 DEF AddGradient
  <2>2. cs \in SUBSET U /\ c \in cs /\ \A e : e # c => e \notin cs
    OBVIOUS
  <2>3. cell \in CellType(G) /\ cell.kind = "gradient"
    BY DEF Cell, CellType, Kinds
  <2> HIDE DEF cs, cell, new
  <2>4. new \in WindowType(U, G) /\ IsPut(win, new, cs, cell)
    BY <2>1, <2>2, <2>3, PutFacts
  <2> QED
    BY <1>2, <2>2, <2>3, <2>4 DEF IsPut, IsGradient, new
<1> QED
  BY <1>1, <1>2

-----------------------------------------------------------------------------
(* The points, one after the other                                         *)

Rows(v) == 2 .. v.size.h - 2

(* What the first loop of computeFrame does with a point.                  *)
IsStep(v, U, G, win, new, i) ==
  /\ i \in Good(v) => /\ IsPoint(win, new, CellOf(v, i))
                      /\ v.points[i].duration \in {v.stats.min, v.stats.max}
                           => v.points[i].duration \in LabelledTrips(new)
  /\ i \in Lost(v) =>
       \E mid \in WindowType(U, G) :
         /\ IsBarred(win, mid, {ColumnOf(v, i)} \X Rows(v), "bar")
         /\ IF i - 1 \in Lost(v)
            THEN IsBarred(mid, new, Between(ColumnOf(v, i - 1), ColumnOf(v, i)) \X Rows(v), "filler")
            ELSE new = mid

LEMMA PointsSteps ==
  ASSUME NEW v, ViewSound(v), Rising(v.scale, v.stats), NEW U, NEW G, "none" \in G, Int \X Int \subseteq U
  PROVE  \E f : /\ f[0] = NoWindow /\ f[Len(v.points)] = Points(v)
                /\ \A i \in 0 .. Len(v.points) : f[i] \in WindowType(U, G)
                /\ \A i \in 1 .. Len(v.points) : IsStep(v, U, G, f[i - 1], f[i], i)
<1> DEFINE N == Len(v.points)
           W == WindowType(U, G)
           x(i) == ColumnOf(v, i)
           bar(win, i) == AddDroppedBars(win, {x(i)}, v.size, "bar")
           one(win, i) ==
             IF i \in Good(v)
             THEN AddPointTo(win, v.points[i].duration, GroupOf(v, i), v.stats,
                             x(i), CellOf(v, i)[2], v.size)
             ELSE IF i - 1 \in Lost(v)
             THEN AddDroppedBars(bar(win, i), Between(x(i - 1), x(i)), v.size, "filler")
             ELSE bar(win, i)
           step == [z \in W \X (1 .. N) |-> one(z[1], z[2])]
           Solves(f) ==
             f = [i \in 0 .. N |->
                    IF i = 0 THEN NoWindow
                    ELSE IF i \in Good(v)
                    THEN AddPointTo(f[i - 1], v.points[i].duration, GroupOf(v, i), v.stats,
                                    x(i), CellOf(v, i)[2], v.size)
                    ELSE IF i - 1 \in Lost(v)
                    THEN AddDroppedBars(bar(f[i - 1], i), Between(x(i - 1), x(i)), v.size, "filler")
                    ELSE bar(f[i - 1], i)]
           upTo == CHOOSE f : Solves(f)
<1>1. Points(v) = upTo[N]
  BY DEF Points
<1>2. /\ N \in Nat \ {0} /\ Good(v) \subseteq 1 .. N
      /\ \A i \in 1 .. N : ColumnOf(v, i) \in 1 .. v.size.w
      /\ \A i \in Good(v) : CellOf(v, i) \in Int \X Int
  BY CellFacts
<1>3. v.size.h \in Nat /\ v.size.w \in Nat /\ \A i \in 1 .. N : v.points[i] \in PointType
  BY DEF ViewSound
<1>4. \A i \in 1 .. N : i \in Good(v) \/ i \in Lost(v)
  BY DEF Lost
<1>5. Lost(v) \subseteq 1 .. N /\ \A i \in Lost(v) : i \notin Good(v)
  BY DEF Lost
<1>6. \A i \in 1 .. N : x(i) \in Nat \ {0} /\ x(i) \in Int
  BY <1>2, <1>3
<1> HIDE DEF N
<1>7. ASSUME NEW win \in W, NEW i \in 1 .. N
      PROVE  one(win, i) \in W /\ IsStep(v, U, G, win, one(win, i), i)
  <2> DEFINE new == one(win, i)
  <2>1. CASE i \in Good(v)
    <3> DEFINE d == v.points[i].duration
               y == CellOf(v, i)[2]
               g == GroupOf(v, i)
               size == v.size
               stats == v.stats
    <3>1. new = AddPointTo(win, d, g, stats, x(i), y, size)
      BY <2>1
    <3>2. d \in Nat
      BY <1>3 DEF PointType
    <3>3. CellOf(v, i) = <<x(i), y>> /\ y \in Int
      BY <1>2, <2>1 DEF CellOf
    <3> HIDE DEF new, d, y, g, size, stats
    <3>4. /\ new \in W /\ IsPoint(win, new, <<x(i), y>>)
          /\ d \in {stats.min, stats.max} => d \in LabelledTrips(new)
      BY <1>6, <3>1, <3>2, <3>3, AddPointToFacts
    <3>5. i \notin Lost(v)
      BY <1>5, <2>1
    <3> QED
      BY <3>3, <3>4, <3>5 DEF IsStep, new, d, stats
  <2>2. CASE i \in Lost(v)
    <3> DEFINE mid == bar(win, i)
    <3>0. i \notin Good(v)
      BY <1>5, <2>2
    <3>1. mid \in W /\ IsBarred(win, mid, {x(i)} \X Rows(v), "bar")
      <4> DEFINE columns == {x(i)}
                 size == v.size
      <4>1. columns \in SUBSET Int /\ size.h \in Nat
        BY <1>3, <1>6
      <4>2. mid = AddDroppedBars(win, columns, size, "bar")
        OBVIOUS
      <4> HIDE DEF mid, columns, size
      <4>3. mid \in W /\ IsBarred(win, mid, columns \X (2 .. size.h - 2), "bar")
        BY <4>1, <4>2, AddDroppedBarsFacts
      <4> QED
        BY <4>3 DEF columns, size, Rows
    <3> HIDE DEF mid
    <3>2. CASE i - 1 \in Lost(v)
      <4> DEFINE columns == Between(x(i - 1), x(i))
                 size == v.size
      <4>1. columns \in SUBSET Int /\ size.h \in Nat
        <5>1. x(i) \in Int /\ x(i - 1) \in Int
          BY <1>5, <1>6, <3>2
        <5> HIDE DEF x
        <5>2. \A k \in columns : k \in Int
          BY <5>1 DEF Between, MinOf, MaxOf
        <5> QED
          BY <1>3, <5>2
      <4>2. new = AddDroppedBars(mid, columns, size, "filler")
        BY <3>0, <3>2 DEF mid
      <4> HIDE DEF columns, size, new
      <4>3. new \in W /\ IsBarred(mid, new, columns \X (2 .. size.h - 2), "filler")
        BY <3>1, <4>1, <4>2, AddDroppedBarsFacts
      <4>4. IsBarred(mid, new, Between(x(i - 1), x(i)) \X Rows(v), "filler")
        BY <4>3 DEF columns, size, Rows
      <4> QED
        BY <3>0, <3>1, <3>2, <4>3, <4>4 DEF IsStep, new
    <3>3. CASE i - 1 \notin Lost(v)
      <4>1. new = mid
        BY <3>0, <3>3 DEF mid
      <4> HIDE DEF new
      <4> QED
        BY <3>0, <3>1, <3>3, <4>1 DEF IsStep, new
    <3> QED
      BY <3>2, <3>3
  <2> QED
    BY <1>4, <2>1, <2>2
<1>8. NoWindow \in W
  <2> DEFINE D == {}
             cells == <<>>
  <2>1. cells \in [D -> CellType(G)] /\ D \in SUBSET U
    OBVIOUS
  <2>2. NoWindow = [cells |-> cells, max |-> 0, labels |-> {}]
    BY DEF NoWindow
  <2> HIDE DEF cells, D
  <2> QED
    BY <2>1, <2>2 DEF WindowType
<1>9. Solves(upTo)
  <2> HIDE DEF one, W
  <2>1. step \in [W \X (1 .. N) -> W] /\ \A w \in W, i \in 1 .. N : step[<<w, i>>] = one(w, i)
    <3>1. \A z \in W \X (1 .. N) : z[1] \in W /\ z[2] \in 1 .. N
      OBVIOUS
    <3> QED
      BY <1>7, <3>1
  <2> HIDE DEF step
  <2>2. PICK f : Iterates(f, N, W, NoWindow, step)
    BY <1>2, <1>8, <2>1, Recursion
  <2>3. Solves(f)
    <3>1. \A i \in 0 .. N : i = 0 \/ (i \in 1 .. N /\ i - 1 \in 0 .. N)
      BY <1>2
    <3>2. ASSUME NEW i \in 1 .. N
          PROVE  f[i] = one(f[i - 1], i)
      <4>1. i - 1 \in 0 .. N
        BY <1>2
      <4>2. f[i - 1] \in W /\ f[i] = step[<<f[i - 1], i>>]
        BY <2>2, <4>1 DEF Iterates
      <4> QED
        BY <2>1, <4>2
    <3> HIDE DEF x, bar
    <3> QED
      BY <2>2, <3>1, <3>2 DEF Iterates, one
  <2> HIDE DEF Solves
  <2> QED
    BY <2>3
<1> HIDE DEF upTo
<1>10. upTo[0] = NoWindow /\ \A i \in 1 .. N : upTo[i] = one(upTo[i - 1], i)
  <2>1. 0 \in 0 .. N /\ \A i \in 1 .. N : i \in 0 .. N /\ i # 0
    BY <1>2
  <2> HIDE DEF x, bar
  <2> QED
    BY <1>9, <2>1
<1> HIDE DEF one, W
<1>11. \A n \in 0 .. N : upTo[n] \in W
  <2> TAKE n \in 0 .. N
  <2>1. \A i \in 1 .. n : upTo[i - 1] \in W => upTo[i] \in W
    <3>1. \A i \in 1 .. n : i \in 1 .. N
      BY <1>2
    <3> QED
      BY <1>7, <1>10, <3>1
  <2>2. upTo[0] \in W /\ n \in Nat
    BY <1>8, <1>10
  <2> QED
    BY <2>1, <2>2, LoopKeeps
<1>12. ASSUME NEW i \in 1 .. N
       PROVE  IsStep(v, U, G, upTo[i - 1], upTo[i], i)
  <2>1. i - 1 \in 0 .. N
    BY <1>2
  <2> QED
    BY <1>7, <1>10, <1>11, <2>1
<1> QED
  BY <1>1, <1>10, <1>11, <1>12 DEF N, W

-----------------------------------------------------------------------------
(* Every point is shown                                                    *)

(* The good points up to k that come to a cell.                            *)
Here(v, k, c) == {j \in Good(v) : j <= k /\ CellOf(v, j) = c}

(* A cell to which n points have come shows them, or is covered by a       *)
(* label; one to which none has come does not count any.                   *)
ShownAt(win, c, n) ==
  \/ Labelled(win, c)
  \/ /\ Has(win, c) /\ win.cells[c].kind = "point" /\ win.cells[c].n = n
     /\ n > 1 => n <= win.max
BareAt(win, c) ==
  Has(win, c) => \/ win.cells[c].kind = "label"
                 \/ win.cells[c].kind # "point" /\ win.cells[c].n = 0

Shown(v, k, win) ==
  /\ \A c : IF Here(v, k, c) = {} THEN BareAt(win, c)
            ELSE ShownAt(win, c, Cardinality(Here(v, k, c)))
  /\ \A c : Labelled(win, c) => Explained(win, c)
  /\ \A j \in Good(v) :
       j <= k /\ v.points[j].duration \in {v.stats.min, v.stats.max}
         => v.points[j].duration \in LabelledTrips(win)

(* The points at a cell are counted one by one.                            *)
LEMMA HereFacts ==
  ASSUME NEW v, ViewSound(v), Rising(v.scale, v.stats), NEW k \in 0 .. Len(v.points) - 1, NEW c
  PROVE  /\ IsFiniteSet(Here(v, k, c)) /\ Cardinality(Here(v, k, c)) \in Nat
         /\ Here(v, 0, c) = {}
         /\ k + 1 \in Good(v) /\ CellOf(v, k + 1) = c =>
              /\ Here(v, k + 1, c) # {}
              /\ Cardinality(Here(v, k + 1, c)) = Cardinality(Here(v, k, c)) + 1
         /\ ~(k + 1 \in Good(v) /\ CellOf(v, k + 1) = c) => Here(v, k + 1, c) = Here(v, k, c)
<1> DEFINE N == Len(v.points)
<1>1. N \in Nat /\ Good(v) \subseteq 1 .. N
  BY CellFacts
<1> HIDE DEF N
<1>2. IsFiniteSet(1 .. N)
  BY <1>1, FS_Interval
<1>3. IsFiniteSet(Here(v, k, c))
  <2>1. Here(v, k, c) \subseteq 1 .. N
    BY <1>1 DEF Here
  <2> QED
    BY <1>2, <2>1, FS_Subset
<1>4. Cardinality(Here(v, k, c)) \in Nat
  BY <1>3, FS_CardinalityType
<1>5. Here(v, 0, c) = {}
  BY <1>1 DEF Here
<1>6. \A j \in Good(v) : j <= k + 1 <=> (j <= k \/ j = k + 1)
  BY <1>1
<1>7. ASSUME k + 1 \in Good(v), CellOf(v, k + 1) = c
      PROVE  /\ Here(v, k + 1, c) # {}
             /\ Cardinality(Here(v, k + 1, c)) = Cardinality(Here(v, k, c)) + 1
  <2>1. Here(v, k + 1, c) = Here(v, k, c) \cup {k + 1}
    BY <1>6, <1>7 DEF Here
  <2>2. k + 1 \notin Here(v, k, c)
    BY <1>1 DEF Here
  <2> QED
    BY <1>3, <2>1, <2>2, FS_AddElement
<1>8. ASSUME ~(k + 1 \in Good(v) /\ CellOf(v, k + 1) = c)
      PROVE  Here(v, k + 1, c) = Here(v, k, c)
  BY <1>6, <1>8 DEF Here
<1> QED
  BY <1>3, <1>4, <1>5, <1>7, <1>8

(* A cell that is kept, or becomes a label, goes on to show its points.    *)
LEMMA StillShown ==
  ASSUME NEW win, NEW new, NEW c, NEW n \in Nat, win.max \in Nat, new.max \in Nat,
         new.max >= win.max, Labelled(new, c) \/ Kept(win, new, c)
  PROVE  /\ ShownAt(win, c, n) => ShownAt(new, c, n)
         /\ BareAt(win, c) => BareAt(new, c)
<1>1. n <= win.max => n <= new.max
  OBVIOUS
<1> QED
  BY <1>1 DEF ShownAt, BareAt, Kept, Labelled

(* The bars have no labels.                                                *)
LEMMA BarredExplained ==
  ASSUME NEW win, NEW new, NEW cs, NEW kind \in {"bar", "filler"}, IsBarred(win, new, cs, kind)
  PROVE  new.labels = win.labels /\ \A c : Labelled(new, c) => Labelled(win, c)
<1>1. new.labels = win.labels
  BY DEF IsBarred
<1>2. ASSUME NEW c, Labelled(new, c)
      PROVE  Labelled(win, c)
  <2>1. Kept(win, new, c) \/ new.cells[c].kind = kind
    BY DEF IsBarred
  <2> QED
    BY <1>2, <2>1, LabelKept DEF Labelled
<1> QED
  BY <1>1, <1>2

(* So does one that gets a bar, or another one does.                       *)
LEMMA BarredShown ==
  ASSUME NEW win, NEW new, NEW cs, NEW kind \in {"bar", "filler"}, IsBarred(win, new, cs, kind),
         NEW c, NEW n \in Nat, win.max \in Nat
  PROVE  /\ ShownAt(win, c, n) => ShownAt(new, c, n)
         /\ BareAt(win, c) => BareAt(new, c)
<1>1. new.max = win.max
  BY DEF IsBarred
<1>2. CASE Kept(win, new, c)
  BY <1>1, <1>2, StillShown
<1>3. CASE ~Kept(win, new, c)
  <2>1. /\ new.cells[c].kind = kind /\ new.cells[c].n = 0
        /\ Has(win, c) => win.cells[c].kind \notin {"label", "point", "bar", kind}
    BY <1>3 DEF IsBarred
  <2> QED
    BY <2>1 DEF ShownAt, BareAt, Labelled
<1> QED
  BY <1>2, <1>3

(* A step of the loop.                                                     *)
LEMMA ShownStep ==
  ASSUME NEW v, ViewSound(v), Rising(v.scale, v.stats), NEW U, NEW G,
         NEW win \in WindowType(U, G), NEW new \in WindowType(U, G),
         NEW k \in 0 .. Len(v.points) - 1, Shown(v, k, win), IsStep(v, U, G, win, new, k + 1)
  PROVE  Shown(v, k + 1, new)
<1> DEFINE i == k + 1
           m(c) == Cardinality(Here(v, k, c))
<1>1. /\ \A c : m(c) \in Nat
      /\ \A c : ~(i \in Good(v) /\ CellOf(v, i) = c) => Here(v, i, c) = Here(v, k, c)
      /\ \A c : i \in Good(v) /\ CellOf(v, i) = c =>
                  Here(v, i, c) # {} /\ Cardinality(Here(v, i, c)) = m(c) + 1
  <2>1. ASSUME NEW c
        PROVE  /\ m(c) \in Nat
               /\ ~(i \in Good(v) /\ CellOf(v, i) = c) => Here(v, i, c) = Here(v, k, c)
               /\ i \in Good(v) /\ CellOf(v, i) = c =>
                    Here(v, i, c) # {} /\ Cardinality(Here(v, i, c)) = m(c) + 1
    BY HereFacts
  <2> HIDE DEF i, m
  <2> QED
    BY <2>1
<1>2. win.max \in Nat /\ new.max \in Nat
  BY FieldsOfWindow DEF Fields
<1>3. /\ \A c : IF Here(v, k, c) = {} THEN BareAt(win, c) ELSE ShownAt(win, c, m(c))
      /\ \A c : Labelled(win, c) => Explained(win, c)
      /\ \A j \in Good(v) : j <= k /\ v.points[j].duration \in {v.stats.min, v.stats.max}
                              => v.points[j].duration \in LabelledTrips(win)
  BY DEF Shown
<1>4. i \in 1 .. Len(v.points) /\ Good(v) \subseteq 1 .. Len(v.points)
      /\ \A j \in Good(v) : j <= i => j <= k \/ j = i
  <2>1. Len(v.points) \in Nat /\ Good(v) \subseteq 1 .. Len(v.points)
    BY CellFacts
  <2> QED
    BY <2>1
<1> HIDE DEF i, m
<1>5. CASE i \in Good(v)
  <2> DEFINE c == CellOf(v, i)
  <2>1. /\ IsPoint(win, new, c)
        /\ v.points[i].duration \in {v.stats.min, v.stats.max} => v.points[i].duration \in LabelledTrips(new)
    BY <1>5 DEF IsStep, i
  <2>2. /\ new.max >= win.max /\ win.labels \subseteq new.labels
        /\ \A e : e # c => Labelled(new, e) \/ Kept(win, new, e)
        /\ \A e : Labelled(new, e) => Labelled(win, e) \/ Explained(new, e)
    BY <2>1 DEF IsPoint
  <2>7. LabelledTrips(win) \subseteq LabelledTrips(new)
        /\ \A e : Explained(win, e) => Explained(new, e)
    BY <2>2 DEF LabelledTrips, Explained
  <2>8. \A e : Labelled(new, e) => Explained(new, e)
    BY <1>3, <2>2, <2>7
  <2>3. ASSUME NEW e, e # c
        PROVE  IF Here(v, i, e) = {} THEN BareAt(new, e)
               ELSE ShownAt(new, e, Cardinality(Here(v, i, e)))
    <3>1. Here(v, i, e) = Here(v, k, e) /\ m(e) \in Nat
      BY <1>1, <2>3
    <3>2. /\ ShownAt(win, e, m(e)) => ShownAt(new, e, m(e))
          /\ BareAt(win, e) => BareAt(new, e)
      BY <1>2, <2>2, <2>3, <3>1, StillShown
    <3> QED
      BY <1>3, <3>1, <3>2 DEF m
  <2>4. /\ Here(v, i, c) # {} /\ Cardinality(Here(v, i, c)) = m(c) + 1
        /\ ShownAt(new, c, m(c) + 1)
    <3>1. Here(v, i, c) # {} /\ Cardinality(Here(v, i, c)) = m(c) + 1 /\ m(c) \in Nat
      BY <1>1, <1>5
    <3>2. CASE Labelled(new, c)
      BY <3>1, <3>2 DEF ShownAt
    <3>3. CASE ~Labelled(new, c)
      <4>1. /\ Has(new, c) /\ ~Labelled(win, c) /\ new.cells[c].kind = "point"
            /\ new.cells[c].n = IF Has(win, c) THEN win.cells[c].n + 1 ELSE 1
            /\ Has(win, c) => new.cells[c].n <= new.max
        BY <2>1, <3>3 DEF IsPoint
      <4>2. CASE Here(v, k, c) = {}
        <5>1. m(c) = 0
          BY <4>2, FS_EmptySet DEF m
        <5>2. Has(win, c) => win.cells[c].n = 0
          BY <1>3, <4>1, <4>2 DEF BareAt, Labelled
        <5>3. new.cells[c].n = 1
          BY <4>1, <5>2
        <5> QED
          BY <3>1, <4>1, <5>1, <5>3 DEF ShownAt
      <4>3. CASE Here(v, k, c) # {}
        <5>1. Has(win, c) /\ win.cells[c].n = m(c)
          BY <1>3, <4>1, <4>3 DEF ShownAt
        <5> HIDE DEF c
        <5> QED
          BY <3>1, <4>1, <5>1 DEF ShownAt
      <4> QED
        BY <4>2, <4>3
    <3> QED
      BY <3>1, <3>2, <3>3
  <2>5. \A j \in Good(v) : j <= i /\ v.points[j].duration \in {v.stats.min, v.stats.max}
                             => v.points[j].duration \in LabelledTrips(new)
    BY <1>3, <1>4, <2>1, <2>7
  <2>6. \A e : IF Here(v, i, e) = {} THEN BareAt(new, e)
               ELSE ShownAt(new, e, Cardinality(Here(v, i, e)))
    BY <2>3, <2>4
  <2> QED
    BY <2>5, <2>6, <2>8 DEF Shown, i
<1>6. CASE i \notin Good(v)
  <2>1. i \in Lost(v)
    BY <1>4, <1>6 DEF Lost
  <2>2. PICK mid \in WindowType(U, G) :
          /\ IsBarred(win, mid, {ColumnOf(v, i)} \X Rows(v), "bar")
          /\ IF i - 1 \in Lost(v)
             THEN IsBarred(mid, new, Between(ColumnOf(v, i - 1), ColumnOf(v, i)) \X Rows(v), "filler")
             ELSE new = mid
    BY <2>1 DEF IsStep, i
  <2>3. mid.max \in Nat
    BY FieldsOfWindow DEF Fields
  <2>4. ASSUME NEW c, NEW n \in Nat
        PROVE  /\ ShownAt(win, c, n) => ShownAt(new, c, n)
               /\ BareAt(win, c) => BareAt(new, c)
    <3>1. /\ ShownAt(win, c, n) => ShownAt(mid, c, n)
          /\ BareAt(win, c) => BareAt(mid, c)
      BY <1>2, <2>2, BarredShown
    <3>2. CASE i - 1 \in Lost(v)
      <4>1. /\ ShownAt(mid, c, n) => ShownAt(new, c, n)
            /\ BareAt(mid, c) => BareAt(new, c)
        BY <2>2, <2>3, <3>2, BarredShown
      <4> QED
        BY <3>1, <4>1
    <3>3. CASE i - 1 \notin Lost(v)
      BY <2>2, <3>1, <3>3
    <3> QED
      BY <3>2, <3>3
  <2>5. \A e : IF Here(v, i, e) = {} THEN BareAt(new, e)
               ELSE ShownAt(new, e, Cardinality(Here(v, i, e)))
    <3> TAKE e
    <3>1. Here(v, i, e) = Here(v, k, e) /\ m(e) \in Nat
      BY <1>1, <1>6
    <3>2. /\ ShownAt(win, e, m(e)) => ShownAt(new, e, m(e))
          /\ BareAt(win, e) => BareAt(new, e)
      BY <2>4, <3>1
    <3> QED
      BY <1>3, <3>1, <3>2 DEF m
  <2>6. new.labels = win.labels /\ \A e : Labelled(new, e) => Labelled(win, e)
    <3>1. mid.labels = win.labels /\ \A e : Labelled(mid, e) => Labelled(win, e)
      BY <2>2, BarredExplained
    <3>2. new.labels = mid.labels /\ \A e : Labelled(new, e) => Labelled(mid, e)
      BY <2>2, BarredExplained
    <3> QED
      BY <3>1, <3>2
  <2>8. LabelledTrips(new) = LabelledTrips(win) /\ \A e : Labelled(new, e) => Explained(new, e)
    BY <1>3, <2>6 DEF LabelledTrips, Explained
  <2>7. \A j \in Good(v) : j <= i /\ v.points[j].duration \in {v.stats.min, v.stats.max}
                             => v.points[j].duration \in LabelledTrips(new)
    BY <1>3, <1>4, <1>6, <2>8
  <2> QED
    BY <2>5, <2>7, <2>8 DEF Shown, i
<1> QED
  BY <1>5, <1>6

(* Before there are gradients, every point is shown.                       *)
LEMMA PointsShown ==
  ASSUME NEW v, ViewSound(v), Rising(v.scale, v.stats), NEW U, NEW G, "none" \in G, Int \X Int \subseteq U
  PROVE  Points(v) \in WindowType(U, G) /\ Shown(v, Len(v.points), Points(v))
<1> DEFINE N == Len(v.points)
<1>1. PICK f : /\ f[0] = NoWindow /\ f[N] = Points(v)
               /\ \A i \in 0 .. N : f[i] \in WindowType(U, G)
               /\ \A i \in 1 .. N : IsStep(v, U, G, f[i - 1], f[i], i)
  BY PointsSteps
<1>2. N \in Nat \ {0} /\ Good(v) \subseteq 1 .. N
  BY CellFacts
<1> HIDE DEF N
<1> DEFINE T == {k \in Nat : k <= N => Shown(v, k, f[k])}
<1>3. 0 \in T
  <2>1. \A c : Here(v, 0, c) = {}
    BY <1>2 DEF Here
  <2>2. \A c : BareAt(NoWindow, c) /\ ~Labelled(NoWindow, c)
    BY DEF BareAt, Labelled, Has, NoWindow
  <2>3. \A j \in Good(v) : ~(j <= 0)
    BY <1>2
  <2>4. Shown(v, 0, NoWindow)
    BY <2>1, <2>2, <2>3 DEF Shown
  <2> QED
    BY <1>1, <2>4
<1>4. ASSUME NEW k \in Nat, k \in T
      PROVE  k + 1 \in T
  <2> SUFFICES ASSUME k + 1 <= N PROVE Shown(v, k + 1, f[k + 1])
    OBVIOUS
  <2>1. /\ k \in 0 .. N - 1 /\ k \in 0 .. N /\ k + 1 \in 0 .. N /\ k + 1 \in 1 .. N
        /\ (k + 1) - 1 = k /\ Shown(v, k, f[k])
    BY <1>2, <1>4
  <2>2. f[k] \in WindowType(U, G) /\ f[k + 1] \in WindowType(U, G)
        /\ IsStep(v, U, G, f[k], f[k + 1], k + 1)
    BY <1>1, <2>1
  <2> QED
    BY <2>1, <2>2, ShownStep DEF N
<1>5. N \in T
  <2>1. \A k \in Nat : k \in T => k + 1 \in T
    BY <1>4
  <2> HIDE DEF T
  <2> QED
    BY <1>2, <1>3, <2>1, NatInductionOnSets
<1>6. Shown(v, N, f[N]) /\ f[N] \in WindowType(U, G)
  <2>1. N <= N /\ N \in 0 .. N
    BY <1>2
  <2> QED
    BY <1>1, <1>5, <2>1
<1> QED
  BY <1>1, <1>6 DEF N

-----------------------------------------------------------------------------
(* The gradients                                                           *)

(* The first group from one on that holds a time is there, if some group   *)
(* from it on does.                                                        *)
Holds(axis, g, t) == SpanContains(axis[g].time, t)
IsFirst(axis, from, t, g) == Holds(axis, g, t) /\ \A h \in from .. g - 1 : ~Holds(axis, h, t)

LEMMA FirstFacts ==
  ASSUME NEW axis, Len(axis) \in Nat, NEW home \in 1 .. Len(axis), NEW from \in 1 .. home,
         NEW t, Holds(axis, home, t)
  PROVE  /\ \E g \in from .. Len(axis) : IsFirst(axis, from, t, g)
         /\ \A g \in from .. Len(axis) : IsFirst(axis, from, t, g) => g \in from .. home
         /\ \A g, h \in from .. Len(axis) :
              IsFirst(axis, from, t, g) /\ IsFirst(axis, from, t, h) => g = h
<1> DEFINE fits == {g \in from .. Len(axis) : Holds(axis, g, t)}
<1>1. fits \in SUBSET Nat /\ home \in fits
  OBVIOUS
<1>2. PICK g \in fits : \A h \in fits : g <= h
  <2> HIDE DEF fits
  <2> QED
    BY <1>1, LeastNatural
<1>3. g \in from .. Len(axis) /\ IsFirst(axis, from, t, g)
  <2>1. \A h \in from .. g - 1 : h \in from .. Len(axis) /\ ~(g <= h)
    BY <1>2
  <2> QED
    BY <1>2, <2>1 DEF IsFirst
<1>4. ASSUME NEW h \in from .. Len(axis), IsFirst(axis, from, t, h)
      PROVE  h \in from .. home
  <2>1. ~(home \in from .. h - 1)
    BY <1>4 DEF IsFirst
  <2> QED
    BY <2>1
<1>5. ASSUME NEW h \in from .. Len(axis), NEW k \in from .. Len(axis),
             IsFirst(axis, from, t, h), IsFirst(axis, from, t, k)
      PROVE  h = k
  <2>1. ~(h \in from .. k - 1) /\ ~(k \in from .. h - 1)
    BY <1>5 DEF IsFirst
  <2> QED
    BY <2>1
<1> QED
  BY <1>3, <1>4, <1>5

(* The groups that drawGradients walks through: those of the good points   *)
(* are at or before their places, and hold them.                           *)
WalkStep(v, i, before, here) ==
  /\ i \in Lost(v) => here = before
  /\ i \in Good(v) => /\ here \in before .. v.place[i]
                      /\ IsFirst(v.axis, before, v.points[i].time, here)

LEMMA GoodGroupFacts ==
  ASSUME NEW v, ViewSound(v)
  PROVE  /\ GoodGroup(v, 0) = 1
         /\ \A i \in 1 .. Len(v.points) :
              /\ GoodGroup(v, i) \in 1 .. v.place[i]
              /\ WalkStep(v, i, GoodGroup(v, i - 1), GoodGroup(v, i))
<1> DEFINE N == Len(v.points)
           n == Len(v.axis)
           S == 1 .. n
           t(j) == v.points[j].time
           one(a, j) == IF j \in Lost(v) THEN a
                        ELSE CHOOSE g \in a .. n :
                               /\ SpanContains(v.axis[g].time, t(j))
                               /\ \A h \in a .. g - 1 : ~SpanContains(v.axis[h].time, t(j))
           safe(a, j) == IF one(a, j) \in S THEN one(a, j) ELSE 1
           step == [z \in S \X (1 .. N) |-> safe(z[1], z[2])]
           Solves(f, i) == f = [j \in 0 .. i |-> IF j = 0 THEN 1 ELSE one(f[j - 1], j)]
           P(j) == IF j = 0 THEN 1 ELSE v.place[j]
<1>1. /\ N \in Nat \ {0} /\ n \in Nat \ {0}
      /\ \A i \in 1 .. N : /\ v.place[i] \in 1 .. n /\ From(v.place, i) \in 1 .. v.place[i]
                           /\ Holds(v.axis, v.place[i], t(i))
  BY DEF ViewSound, PlacedSound, TimesSound, Holds
<1>2. \A i \in 0 .. N : GoodGroup(v, i) = (CHOOSE f : Solves(f, i))[i]
  <2> TAKE i \in 0 .. N
  <2> QED
    BY DEF GoodGroup
<1>3. \A i \in 1 .. N : i \in Good(v) <=> i \notin Lost(v)
  BY DEF Good, Lost
<1>4. ASSUME NEW j \in 1 .. N
      PROVE  P(j) \in 1 .. n /\ P(j - 1) \in 1 .. P(j) /\ P(j) = v.place[j]
  <2>1. v.place[j] \in 1 .. n /\ From(v.place, j) \in 1 .. v.place[j] /\ j # 0
    BY <1>1
  <2>2. P(j) = v.place[j] /\ P(j - 1) = From(v.place, j)
    <3>1. j - 1 = 0 <=> j = 1
      OBVIOUS
    <3> QED
      BY <2>1, <3>1 DEF From
  <2> QED
    BY <2>1, <2>2
<1> HIDE DEF N, n, P
<1>5. ASSUME NEW j \in 1 .. N, NEW a \in 1 .. P(j - 1)
      PROVE  /\ one(a, j) \in 1 .. P(j) /\ one(a, j) \in S
             /\ WalkStep(v, j, a, one(a, j))
  <2>1. P(j) \in 1 .. n /\ a \in 1 .. P(j) /\ P(j) = v.place[j]
    BY <1>1, <1>4
  <2>2. CASE j \in Lost(v)
    <3>1. one(a, j) = a /\ j \notin Good(v)
      BY <1>3, <2>2
    <3> HIDE DEF one
    <3> QED
      BY <1>1, <2>1, <2>2, <3>1 DEF WalkStep
  <2>3. CASE j \notin Lost(v)
    <3> DEFINE g == CHOOSE g \in a .. n : IsFirst(v.axis, a, t(j), g)
    <3>1. one(a, j) = g
      BY <2>3 DEF IsFirst, Holds
    <3>2. Holds(v.axis, P(j), t(j))
      BY <1>1, <2>1
    <3>3. /\ \E h \in a .. n : IsFirst(v.axis, a, t(j), h)
          /\ \A h \in a .. n : IsFirst(v.axis, a, t(j), h) => h \in a .. P(j)
      <4> HIDE DEF t
      <4> QED
        BY <1>1, <2>1, <3>2, FirstFacts DEF n
    <3>4. g \in a .. n /\ IsFirst(v.axis, a, t(j), g)
      <4> HIDE DEF t
      <4> QED
        BY <3>3
    <3> HIDE DEF g
    <3>5. g \in a .. P(j) /\ g \in 1 .. P(j) /\ g \in S
      BY <1>1, <2>1, <3>3, <3>4
    <3> HIDE DEF one
    <3> QED
      BY <2>1, <2>3, <3>1, <3>4, <3>5 DEF WalkStep
  <2> QED
    BY <2>2, <2>3
<1> HIDE DEF t, one
<1>6. PICK f : Iterates(f, N, S, 1, step)
  <2>1. step \in [S \X (1 .. N) -> S] /\ 1 \in S
    BY <1>1
  <2> HIDE DEF S, step
  <2> QED
    BY <1>1, <2>1, Recursion
<1>7. f[0] = 1 /\ \A j \in 1 .. N : f[j - 1] \in S /\ f[j] = safe(f[j - 1], j)
  <2>1. \A j \in 1 .. N : j - 1 \in 0 .. N
    BY <1>1
  <2> HIDE DEF S, safe
  <2>2. \A j \in 1 .. N : f[j - 1] \in S
    BY <1>6, <2>1 DEF Iterates
  <2>3. \A j \in 1 .. N : f[j] = step[<<f[j - 1], j>>]
    BY <1>6 DEF Iterates
  <2>4. \A a \in S, j \in 1 .. N : step[<<a, j>>] = safe(a, j)
    OBVIOUS
  <2> HIDE DEF step
  <2> QED
    BY <1>6, <2>2, <2>3, <2>4 DEF Iterates
<1> DEFINE T == {k \in Nat : k <= N => f[k] \in 1 .. P(k)}
<1>8. \A k \in 0 .. N : f[k] \in 1 .. P(k)
  <2>1. 0 \in T
    BY <1>7 DEF P
  <2>2. ASSUME NEW k \in Nat, k \in T
        PROVE  k + 1 \in T
    <3> SUFFICES ASSUME k + 1 <= N PROVE f[k + 1] \in 1 .. P(k + 1)
      OBVIOUS
    <3>1. k + 1 \in 1 .. N /\ (k + 1) - 1 = k /\ f[k] \in 1 .. P(k)
      BY <1>1, <2>2
    <3>2. f[k + 1] = safe(f[k], k + 1)
      BY <1>7, <3>1
    <3>3. one(f[k], k + 1) \in 1 .. P(k + 1) /\ one(f[k], k + 1) \in S
      BY <1>5, <3>1
    <3> QED
      BY <3>2, <3>3
  <2>3. \A k \in Nat : k \in T => k + 1 \in T
    BY <2>2
  <2>4. Nat \subseteq T
    <3> HIDE DEF T
    <3> QED
      BY <2>1, <2>3, NatInductionOnSets
  <2>5. \A k \in 0 .. N : k \in Nat /\ k <= N
    BY <1>1
  <2> QED
    BY <2>4, <2>5
<1>9. ASSUME NEW j \in 1 .. N
      PROVE  f[j] = one(f[j - 1], j) /\ WalkStep(v, j, f[j - 1], f[j])
  <2>1. j - 1 \in 0 .. N
    BY <1>1
  <2>2. f[j - 1] \in 1 .. P(j - 1)
    BY <1>8, <2>1
  <2>3. one(f[j - 1], j) \in S /\ WalkStep(v, j, f[j - 1], one(f[j - 1], j))
    BY <1>5, <2>2
  <2>4. f[j] = one(f[j - 1], j)
    BY <1>7, <2>3
  <2> QED
    BY <2>3, <2>4
<1>10. ASSUME NEW i \in 0 .. N
       PROVE  GoodGroup(v, i) = f[i]
  <2> DEFINE at == CHOOSE h : Solves(h, i)
             h == [j \in 0 .. i |-> f[j]]
  <2>1. \A j \in 0 .. i : j = 0 \/ (j \in 1 .. N /\ j \in 1 .. i /\ j - 1 \in 0 .. i)
    BY <1>1
  <2>2. Solves(h, i)
    <3>1. \A j \in 0 .. i : h[j] = f[j]
      OBVIOUS
    <3>2. h = [j \in 0 .. i |-> h[j]]
      OBVIOUS
    <3> HIDE DEF h
    <3>3. \A j \in 0 .. i : h[j] = IF j = 0 THEN 1 ELSE one(h[j - 1], j)
      BY <1>7, <1>9, <2>1, <3>1
    <3> QED
      BY <3>2, <3>3
  <2>3. Solves(at, i)
    <3> HIDE DEF Solves, h
    <3> QED
      BY <2>2
  <2> HIDE DEF at
  <2> DEFINE V == {k \in Nat : k <= i => at[k] = f[k]}
  <2>4. 0 \in V
    BY <1>7, <2>3
  <2>5. ASSUME NEW k \in Nat, k \in V
        PROVE  k + 1 \in V
    <3> SUFFICES ASSUME k + 1 <= i PROVE at[k + 1] = f[k + 1]
      OBVIOUS
    <3>1. k + 1 \in 0 .. i /\ k + 1 \in 1 .. N /\ k + 1 # 0 /\ (k + 1) - 1 = k /\ at[k] = f[k]
      BY <1>1, <2>5
    <3>2. at[k + 1] = one(at[k], k + 1)
      BY <2>3, <3>1
    <3> QED
      BY <1>9, <3>1, <3>2
  <2>6. at[i] = f[i]
    <3>1. \A k \in Nat : k \in V => k + 1 \in V
      BY <2>5
    <3>2. Nat \subseteq V
      <4> HIDE DEF V
      <4> QED
        BY <2>4, <3>1, NatInductionOnSets
    <3> QED
      BY <3>2
  <2> QED
    BY <1>2, <2>6 DEF at
<1>11. \A i \in 1 .. N : i \in 0 .. N /\ i - 1 \in 0 .. N /\ 0 \in 0 .. N
  BY <1>1
<1>12. 0 \in 0 .. N
  BY <1>1
<1>13. ASSUME NEW i \in 1 .. N
       PROVE  f[i] \in 1 .. v.place[i]
  <2>1. f[i] \in 1 .. P(i)
    BY <1>8, <1>11
  <2> QED
    BY <1>4, <2>1
<1> QED
  BY <1>7, <1>9, <1>10, <1>11, <1>12, <1>13 DEF N

(* There is a root of every number.                                        *)
LEMMA RootFacts ==
  ASSUME NEW n \in Nat
  PROVE  /\ Root(n) \in 0 .. n
         /\ Root(n) * Root(n) <= n /\ n < (Root(n) + 1) * (Root(n) + 1)
<1> DEFINE T == {r \in Nat : n < (r + 1) * (r + 1)}
<1>1. n \in T
  <2>1. (n + 1) * (n + 1) = n * n + 2 * n + 1 /\ n * n \in Nat
    OBVIOUS
  <2> QED
    BY <2>1
<1>2. PICK m \in T : \A r \in T : m <= r
  <2>1. T \in SUBSET Nat /\ T # {}
    BY <1>1
  <2> HIDE DEF T
  <2> QED
    BY <2>1, LeastNatural
<1>3. m \in 0 .. n /\ n < (m + 1) * (m + 1)
  BY <1>1, <1>2
<1>4. m * m <= n
  <2>1. CASE m = 0
    BY <2>1
  <2>2. CASE m # 0
    <3>1. m - 1 \in Nat /\ (m - 1) + 1 = m /\ m - 1 \notin T /\ m * m \in Nat
      BY <1>2, <2>2
    <3> QED
      BY <3>1
  <2> QED
    BY <2>1, <2>2
<1>5. \E r \in 0 .. n : r * r <= n /\ n < (r + 1) * (r + 1)
  BY <1>3, <1>4
<1> QED
  BY <1>5 DEF Root

LEMMA SquareFacts ==
  ASSUME NEW a \in Int \X Int, NEW b \in Int \X Int
  PROVE  SquareOf(a, b) \in Nat
<1>1. \A x \in Int : x * x \in Nat
  <2> TAKE x \in Int
  <2>1. x \in Nat \/ -x \in Nat
    OBVIOUS
  <2>2. (-x) * (-x) = x * x
    OBVIOUS
  <2>3. \A n \in Nat : n * n \in Nat
    OBVIOUS
  <2> QED
    BY <2>1, <2>2, <2>3
<1> DEFINE x == a[1] - b[1]
           y == a[2] - b[2]
<1>2. x \in Int /\ y \in Int /\ SquareOf(a, b) = x * x + y * y
  BY DEF SquareOf
<1> HIDE DEF x, y
<1>3. x * x \in Nat /\ y * y \in Nat
  BY <1>1, <1>2
<1> QED
  BY <1>2, <1>3

(* The steps between two points are a sequence of their translations.      *)
PartOf(from, to, k, halves) == from + Quotient((to - from) * (2 * k + 1), halves)
StepOf(v, g, p, q, halves, k) ==
  Translate(v, g, PartOf(p.time, q.time, k, halves), PartOf(p.duration, q.duration, k, halves))

IsSteps(v, g, p, q, halves, n, cells) ==
  /\ cells \in Seq({StepOf(v, g, p, q, halves, k) : k \in 1 .. halves}) /\ Len(cells) = n
  /\ \A k \in 1 .. n : cells[k] = StepOf(v, g, p, q, halves, k)

LEMMA StepsInFacts ==
  ASSUME NEW v, NEW g, NEW p, NEW q, NEW square \in Nat
  PROVE  LET halves == Root(4 * square)
             short == {k \in 1 .. halves : (2 * k + 1) * (2 * k + 1) < 4 * square}
         IN  /\ halves \in Nat /\ IsFiniteSet(short) /\ Cardinality(short) \in 0 .. halves
             /\ IsSteps(v, g, p, q, halves, Cardinality(short), StepsIn(v, g, p, q, square))
<1> DEFINE h == Root(4 * square)
           short == {k \in 1 .. h : (2 * k + 1) * (2 * k + 1) < 4 * square}
           n == Cardinality(short)
           cell(k) == StepOf(v, g, p, q, h, k)
           S == {cell(k) : k \in 1 .. h}
           part(from, to, k) == from + Quotient((to - from) * (2 * k + 1), h)
           Solves(f) ==
             f = [k \in 0 .. h |->
                    IF k = 0 THEN <<>>
                    ELSE Append(f[k - 1],
                                Translate(v, g, part(p.time, q.time, k),
                                          part(p.duration, q.duration, k)))]
           upTo == CHOOSE f : Solves(f)
           one(cs, k) == Append(cs, cell(k))
           step == [z \in Seq(S) \X (1 .. h) |-> one(z[1], z[2])]
<1>1. StepsIn(v, g, p, q, square) = upTo[n]
  BY DEF StepsIn
<1>2. h \in Nat
  <2>1. 4 * square \in Nat
    OBVIOUS
  <2> HIDE DEF h
  <2>2. h \in 0 .. 4 * square
    BY <2>1, RootFacts DEF h
  <2> QED
    BY <2>1, <2>2
<1> HIDE DEF h
<1>3. IsFiniteSet(short) /\ n \in 0 .. h
  <2>1. IsFiniteSet(1 .. h) /\ Cardinality(1 .. h) = h /\ short \subseteq 1 .. h
    BY <1>2, FS_Interval
  <2> HIDE DEF short
  <2>2. IsFiniteSet(short) /\ Cardinality(short) <= h
    BY <2>1, FS_Subset
  <2>3. Cardinality(short) \in Nat
    BY <2>2, FS_CardinalityType
  <2> QED
    BY <1>2, <2>2, <2>3
<1> HIDE DEF n
<1>4. \A k \in 1 .. h : cell(k) \in S
  OBVIOUS
<1>5. \A k : cell(k) = Translate(v, g, part(p.time, q.time, k), part(p.duration, q.duration, k))
  BY DEF StepOf, PartOf
<1> HIDE DEF cell, S, part
<1>6. Solves(upTo)
  <2>1. step \in [Seq(S) \X (1 .. h) -> Seq(S)]
        /\ \A cs \in Seq(S), k \in 1 .. h : step[<<cs, k>>] = one(cs, k)
    <3>1. \A z \in Seq(S) \X (1 .. h) : z[1] \in Seq(S) /\ z[2] \in 1 .. h
      OBVIOUS
    <3>2. \A cs \in Seq(S), k \in 1 .. h : one(cs, k) \in Seq(S)
      BY <1>4
    <3> HIDE DEF one
    <3> QED
      BY <3>1, <3>2
  <2> HIDE DEF step
  <2>2. <<>> \in Seq(S)
    OBVIOUS
  <2> DEFINE Q == Seq(S)
             none == <<>>
  <2>3. PICK f : Iterates(f, h, Q, none, step)
    <3>1. none \in Q /\ step \in [Q \X (1 .. h) -> Q]
      BY <2>1, <2>2
    <3> HIDE DEF Q, none
    <3> QED
      BY <1>2, <3>1, Recursion
  <2>4. Solves(f)
    <3>1. \A k \in 0 .. h : k = 0 \/ (k \in 1 .. h /\ k - 1 \in 0 .. h)
      BY <1>2
    <3>2. ASSUME NEW k \in 1 .. h
          PROVE  f[k] = one(f[k - 1], k)
      <4>1. k - 1 \in 0 .. h
        BY <1>2
      <4>2. f[k - 1] \in Q /\ f[k] = step[<<f[k - 1], k>>]
        <5> HIDE DEF Q
        <5> QED
          BY <2>3, <4>1 DEF Iterates
      <4> QED
        BY <2>1, <4>2
    <3>3. f \in [0 .. h -> Q] /\ f[0] = <<>>
      BY <2>3 DEF Iterates
    <3> HIDE DEF Q
    <3> QED
      BY <1>5, <3>1, <3>2, <3>3
  <2> HIDE DEF Solves
  <2> QED
    BY <2>4
<1> HIDE DEF upTo
<1>7. upTo[0] = <<>> /\ \A k \in 1 .. h : upTo[k] = Append(upTo[k - 1], cell(k))
  <2>1. 0 \in 0 .. h /\ \A k \in 1 .. h : k \in 0 .. h /\ k # 0
    BY <1>2
  <2> QED
    BY <1>5, <1>6, <2>1
<1> DEFINE Listed(k, cs) == cs \in Seq(S) /\ Len(cs) = k /\ \A j \in 1 .. k : cs[j] = cell(j)
           T == {k \in Nat : k <= h => Listed(k, upTo[k])}
<1>8. 0 \in T
  <2>1. <<>> \in Seq(S) /\ Len(<<>>) = 0 /\ \A j \in 1 .. 0 : <<>>[j] = cell(j)
    OBVIOUS
  <2>2. Listed(0, <<>>)
    BY <2>1
  <2> HIDE DEF Listed
  <2> QED
    BY <1>7, <2>2
<1>9. ASSUME NEW k \in Nat, k \in T
      PROVE  k + 1 \in T
  <2> SUFFICES ASSUME k + 1 <= h PROVE Listed(k + 1, upTo[k + 1])
    OBVIOUS
  <2>1. k + 1 \in 1 .. h /\ (k + 1) - 1 = k /\ Listed(k, upTo[k])
    BY <1>2, <1>9
  <2> DEFINE cs == upTo[k]
             c == cell(k + 1)
  <2>2. upTo[k + 1] = Append(cs, c)
    BY <1>7, <2>1
  <2>3. c \in S
    BY <1>4, <2>1
  <2>4. cs \in Seq(S) /\ Len(cs) = k /\ \A j \in 1 .. k : cs[j] = cell(j)
    BY <2>1
  <2>5. \A j \in 1 .. k + 1 : j \in 1 .. k \/ j = k + 1
    OBVIOUS
  <2>6. cell(k + 1) = c
    OBVIOUS
  <2> HIDE DEF cs, c
  <2>7. Append(cs, c) \in Seq(S) /\ Len(Append(cs, c)) = k + 1
        /\ Append(cs, c)[k + 1] = c /\ \A j \in 1 .. k : Append(cs, c)[j] = cs[j]
    BY <2>3, <2>4
  <2> QED
    BY <2>2, <2>4, <2>5, <2>6, <2>7
<1>10. Listed(n, upTo[n])
  <2>1. \A k \in Nat : k \in T => k + 1 \in T
    BY <1>9
  <2>2. Nat \subseteq T
    <3> HIDE DEF T
    <3> QED
      BY <1>8, <2>1, NatInductionOnSets
  <2>3. n \in Nat /\ n <= h
    BY <1>2, <1>3
  <2> QED
    BY <2>2, <2>3
<1>11. IsSteps(v, g, p, q, h, n, upTo[n])
  BY <1>10 DEF IsSteps, S, cell
<1> QED
  BY <1>1, <1>2, <1>3, <1>11 DEF h, n

(* Solve has a glyph for all cells but the last.                           *)
LEMMA SolveFacts ==
  ASSUME NEW cells, Len(cells) \in Nat
  PROVE  Len(Solve(cells)) \in Nat /\ Len(Solve(cells)) <= Len(cells)
<1> DEFINE n == Len(cells) - 1
           y(i) == GetDir(cells[i + 1][2], cells[i][2])
           dir == [i \in 1 .. n |-> SolveDirections(GetDir(cells[i][1], cells[i + 1][1]), y(i))]
           shallow(i) == SolveShallow(dir[i], dir[i + 1])
           skipped == CHOOSE f : f = [i \in 1 .. n - 1 |->
                                        i > 1 /\ ~f[i - 1] /\ shallow(i - 1).specific]
           lastSolved == IF skipped[n - 1] THEN n - 2 ELSE n - 1
           first == dir[1]
           flat == Cardinality({i \in 1 .. n : y(i) = 0}) > n \div 2
           a(i) == IF i = n THEN shallow(lastSolved).is[2]
                   ELSE IF skipped[i] THEN shallow(i - 1).is[2]
                   ELSE shallow(i).is[1]
           b(i) == IF i = n THEN SolveTwo(dir[n - 1], dir[n])[2]
                   ELSE SolveTwo(dir[i], dir[i + 1])[1]
<1>1. Solve(cells) = IF n <= 0 THEN <<>>
                     ELSE IF n = 1 THEN <<first>>
                     ELSE IF flat THEN [i \in 1 .. n |-> a(i)] ELSE [i \in 1 .. n |-> b(i)]
  BY DEF Solve
<1>2. n \in Int /\ (n <= 0 \/ n \in Nat) /\ n <= Len(cells)
  OBVIOUS
<1> HIDE DEF n, a, b, first, flat
<1>3. n \in Nat => Len([i \in 1 .. n |-> a(i)]) = n /\ Len([i \in 1 .. n |-> b(i)]) = n
  OBVIOUS
<1>4. Len(<<>>) = 0 /\ Len(<<first>>) = 1
  OBVIOUS
<1> QED
  BY <1>1, <1>2, <1>3, <1>4

(* Several gradients.                                                      *)
IsGradients(win, new, cs) ==
  /\ new.max = win.max /\ new.labels = win.labels
  /\ \A c : c \notin cs => Kept(win, new, c)
  /\ \A c : \/ Kept(win, new, c)
            \/ /\ Has(new, c) /\ new.cells[c].kind = "gradient"
               /\ Has(win, c) => win.cells[c].kind \notin {"label", "point"}

LEMMA GradientsOn ==
  ASSUME NEW cs, NEW a, NEW b, NEW d, IsGradients(a, b, cs), IsGradients(b, d, cs)
  PROVE  IsGradients(a, d, cs)
<1>1. d.max = a.max /\ d.labels = a.labels
  BY DEF IsGradients
<1>2. \A c : c \notin cs => Kept(a, d, c)
  BY KeptOn DEF IsGradients
<1>3. ASSUME NEW c
      PROVE  \/ Kept(a, d, c)
             \/ /\ Has(d, c) /\ d.cells[c].kind = "gradient"
                /\ Has(a, c) => a.cells[c].kind \notin {"label", "point"}
  <2>1. \/ Kept(a, b, c)
        \/ /\ Has(b, c) /\ b.cells[c].kind = "gradient"
           /\ Has(a, c) => a.cells[c].kind \notin {"label", "point"}
    BY DEF IsGradients
  <2>2. \/ Kept(b, d, c)
        \/ /\ Has(d, c) /\ d.cells[c].kind = "gradient"
           /\ Has(b, c) => b.cells[c].kind \notin {"label", "point"}
    BY DEF IsGradients
  <2> QED
    BY <2>1, <2>2 DEF Kept
<1> QED
  BY <1>1, <1>2, <1>3 DEF IsGradients

LEMMA OneOfGradients ==
  ASSUME NEW cs, NEW c \in cs, NEW a, NEW b, IsGradient(a, b, c)
  PROVE  IsGradients(a, b, cs)
BY DEF IsGradient, IsGradients

LEMMA NoGradients ==
  ASSUME NEW cs, NEW a
  PROVE  IsGradients(a, a, cs)
BY DEF IsGradients, Kept

LEMMA WithGlyphsFacts ==
  ASSUME NEW U, NEW G, NEW win \in WindowType(U, G), NEW cells, NEW glyphs, NEW cs,
         Len(glyphs) \in Nat,
         \A k \in 1 .. Len(glyphs) : cells[k] \in U /\ cells[k] \in cs /\ glyphs[k] \in G
  PROVE  LET new == WithGlyphs(win, cells, glyphs)
         IN  new \in WindowType(U, G) /\ IsGradients(win, new, cs)
<1> DEFINE n == Len(glyphs)
           W == WindowType(U, G)
           S == {w \in W : IsGradients(win, w, cs)}
           one(w, k) == AddGradient(w, cells[k], glyphs[k])
           step == [z \in S \X (1 .. n) |-> one(z[1], z[2])]
           Solves(f) == f = [k \in 0 .. n |-> IF k = 0 THEN win
                                              ELSE AddGradient(f[k - 1], cells[k], glyphs[k])]
           upTo == CHOOSE f : Solves(f)
<1>1. WithGlyphs(win, cells, glyphs) = upTo[n]
  BY DEF WithGlyphs
<1>2. n \in Nat /\ \A k \in 1 .. n : cells[k] \in U /\ cells[k] \in cs /\ glyphs[k] \in G
  OBVIOUS
<1> HIDE DEF n
<1>3. ASSUME NEW w \in S, NEW k \in 1 .. n
      PROVE  one(w, k) \in S
  <2> DEFINE new == one(w, k)
             c == cells[k]
             glyph == glyphs[k]
  <2>1. w \in WindowType(U, G) /\ IsGradients(win, w, cs) /\ c \in U /\ glyph \in G /\ c \in cs
    BY <1>2
  <2>2. new = AddGradient(w, c, glyph)
    OBVIOUS
  <2> HIDE DEF new, c, glyph
  <2>3. new \in WindowType(U, G) /\ IsGradient(w, new, c)
    BY <2>1, <2>2, AddGradientFacts
  <2>4. IsGradients(w, new, cs)
    BY <2>1, <2>3, OneOfGradients
  <2>5. IsGradients(win, new, cs)
    BY <2>1, <2>4, GradientsOn
  <2> QED
    BY <2>3, <2>5 DEF new
<1>4. win \in S
  BY NoGradients
<1> HIDE DEF one, S, W
<1>5. Solves(upTo)
  <2>1. step \in [S \X (1 .. n) -> S] /\ \A w \in S, k \in 1 .. n : step[<<w, k>>] = one(w, k)
    <3>1. \A z \in S \X (1 .. n) : z[1] \in S /\ z[2] \in 1 .. n
      OBVIOUS
    <3> QED
      BY <1>3, <3>1
  <2> HIDE DEF step
  <2>2. PICK f : Iterates(f, n, S, win, step)
    BY <1>2, <1>4, <2>1, Recursion
  <2>3. Solves(f)
    <3>1. \A k \in 0 .. n : k = 0 \/ (k \in 1 .. n /\ k - 1 \in 0 .. n)
      BY <1>2
    <3>2. ASSUME NEW k \in 1 .. n
          PROVE  f[k] = one(f[k - 1], k)
      <4>1. k - 1 \in 0 .. n
        BY <1>2
      <4>2. f[k - 1] \in S /\ f[k] = step[<<f[k - 1], k>>]
        BY <2>2, <4>1 DEF Iterates
      <4> QED
        BY <2>1, <4>2
    <3> QED
      BY <2>2, <3>1, <3>2 DEF Iterates, one
  <2> HIDE DEF Solves
  <2> QED
    BY <2>3
<1> HIDE DEF upTo
<1>6. upTo[0] = win /\ \A k \in 1 .. n : upTo[k] = one(upTo[k - 1], k)
  <2>1. 0 \in 0 .. n /\ \A k \in 1 .. n : k \in 0 .. n /\ k # 0
    BY <1>2
  <2> QED
    BY <1>5, <2>1 DEF one
<1>7. upTo[n] \in S
  <2>1. \A k \in 1 .. n : upTo[k - 1] \in S => upTo[k] \in S
    BY <1>3, <1>6
  <2>2. upTo[0] \in S
    BY <1>4, <1>6
  <2> QED
    BY <1>2, <2>1, <2>2, LoopKeeps
<1> QED
  BY <1>1, <1>7 DEF S, W

(* The cells of the steps that get a glyph, and the glyphs.                *)
Glyphs(v, i) == Solve(StepsTo(v, i))
GradientCells(v) == UNION {{StepsTo(v, i)[k] : k \in 1 .. Len(Glyphs(v, i))} : i \in Pairs(v)}
GlyphsOf(v) == UNION {{Glyphs(v, i)[k] : k \in 1 .. Len(Glyphs(v, i))} : i \in Pairs(v)}

(* The groups and the points between which there are steps.                *)
LEMMA PairFacts ==
  ASSUME NEW v, ViewSound(v), NEW i \in Pairs(v)
  PROVE  /\ i \in Good(v) /\ i - 1 \in Good(v) /\ i \in 1 .. Len(v.points)
         /\ i - 1 \in 1 .. Len(v.points)
         /\ v.points[i - 1] \in PointType /\ v.points[i] \in PointType
         /\ GoodGroup(v, i) \in 1 .. v.place[i] /\ v.place[i] \in 1 .. Len(v.axis)
         /\ GoodGroup(v, i) \in 1 .. Len(v.axis)
         /\ GoodGroup(v, i - 1) = GoodGroup(v, i)
         /\ Holds(v.axis, GoodGroup(v, i), v.points[i - 1].time)
         /\ Holds(v.axis, GoodGroup(v, i), v.points[i].time)
<1>1. i \in Good(v) /\ i - 1 \in Good(v) /\ GoodGroup(v, i - 1) = GoodGroup(v, i)
  BY DEF Pairs
<1>2. i \in 1 .. Len(v.points) /\ i - 1 \in 1 .. Len(v.points)
  BY <1>1 DEF Good
<1>3. v.points \in Seq(PointType) /\ v.place[i] \in 1 .. Len(v.axis) /\ Len(v.axis) \in Nat
  BY <1>2 DEF ViewSound, PlacedSound, TimesSound
<1>4. /\ GoodGroup(v, i) \in 1 .. v.place[i]
      /\ WalkStep(v, i, GoodGroup(v, i - 1), GoodGroup(v, i))
      /\ WalkStep(v, i - 1, GoodGroup(v, i - 1 - 1), GoodGroup(v, i - 1))
  BY <1>2, GoodGroupFacts
<1>5. /\ Holds(v.axis, GoodGroup(v, i), v.points[i].time)
      /\ Holds(v.axis, GoodGroup(v, i - 1), v.points[i - 1].time)
  BY <1>1, <1>4 DEF WalkStep, IsFirst
<1>6. GoodGroup(v, i) \in 1 .. Len(v.axis)
  BY <1>3, <1>4
<1>7. v.points[i - 1] \in PointType /\ v.points[i] \in PointType
  BY <1>2, <1>3
<1> QED
  BY <1>1, <1>2, <1>3, <1>4, <1>5, <1>6, <1>7

LEMMA TranslateFacts ==
  ASSUME NEW v, ViewSound(v), Rising(v.scale, v.stats), NEW j \in Good(v),
         NEW g \in 1 .. Len(v.axis)
  PROVE  Translate(v, g, v.points[j].time, v.points[j].duration) \in Int \X Int
<1> DEFINE t == v.points[j].time
           d == v.points[j].duration
<1>1. /\ v.stats \in StatsType /\ v.size.h \in Nat \ {0}
      /\ v.stats.min <= v.stats.max /\ t \in Nat /\ d \in Nat
      /\ v.stats.min <= d /\ d <= v.stats.max
  BY ColumnFacts DEF ViewSound
<1> HIDE DEF t, d
<1>2. GetX(t, v.axis[g], v.size) \in Int
  <2>1. t \in Int
    BY <1>1
  <2> QED
    BY <2>1, GetXFacts DEF ViewSound
<1>3. GetY(d, v.stats, v.scale, v.size) \in Int
  BY <1>1, GetYFacts
<1> QED
  BY <1>2, <1>3 DEF Translate, t, d

LEMMA StepsToFacts ==
  ASSUME NEW v, ViewSound(v), Rising(v.scale, v.stats), NEW i \in Pairs(v)
  PROVE  \E square \in Nat :
           LET g == GoodGroup(v, i)
               p == v.points[i - 1]
               q == v.points[i]
               halves == Root(4 * square)
               short == {k \in 1 .. halves : (2 * k + 1) * (2 * k + 1) < 4 * square}
           IN  /\ halves \in Nat /\ IsFiniteSet(short) /\ Cardinality(short) \in 0 .. halves
               /\ IsSteps(v, g, p, q, halves, Cardinality(short), StepsTo(v, i))
<1> DEFINE g == GoodGroup(v, i)
           p == v.points[i - 1]
           q == v.points[i]
           a == Translate(v, g, p.time, p.duration)
           b == Translate(v, g, q.time, q.duration)
           square == SquareOf(a, b)
<1>1. i \in Good(v) /\ i - 1 \in Good(v) /\ g \in 1 .. Len(v.axis)
  BY PairFacts
<1> HIDE DEF g
<1>4. a \in Int \X Int /\ b \in Int \X Int
  BY <1>1, TranslateFacts
<1>5. StepsTo(v, i) = StepsIn(v, g, p, q, square)
  BY DEF StepsTo, Steps, g
<1> HIDE DEF a, b, p, q
<1>6. square \in Nat
  BY <1>4, SquareFacts
<1> HIDE DEF square
<1>7. LET halves == Root(4 * square)
          short == {k \in 1 .. halves : (2 * k + 1) * (2 * k + 1) < 4 * square}
      IN  /\ halves \in Nat /\ IsFiniteSet(short) /\ Cardinality(short) \in 0 .. halves
          /\ IsSteps(v, g, p, q, halves, Cardinality(short), StepsIn(v, g, p, q, square))
  BY <1>6, StepsInFacts
<1> QED
  BY <1>5, <1>6, <1>7 DEF g, p, q

LEMMA GlyphsFacts ==
  ASSUME NEW v, ViewSound(v), Rising(v.scale, v.stats), NEW i \in Pairs(v)
  PROVE  /\ Len(StepsTo(v, i)) \in Nat /\ Len(Glyphs(v, i)) \in Nat
         /\ Len(Glyphs(v, i)) <= Len(StepsTo(v, i))
<1>1. Len(StepsTo(v, i)) \in Nat
  <2>1. PICK square \in Nat :
           LET g == GoodGroup(v, i)
               p == v.points[i - 1]
               q == v.points[i]
               halves == Root(4 * square)
               short == {k \in 1 .. halves : (2 * k + 1) * (2 * k + 1) < 4 * square}
           IN  /\ halves \in Nat /\ IsFiniteSet(short) /\ Cardinality(short) \in 0 .. halves
               /\ IsSteps(v, g, p, q, halves, Cardinality(short), StepsTo(v, i))
    BY StepsToFacts
  <2> DEFINE halves == Root(4 * square)
             short == {k \in 1 .. halves : (2 * k + 1) * (2 * k + 1) < 4 * square}
  <2>2. Len(StepsTo(v, i)) = Cardinality(short) /\ Cardinality(short) \in 0 .. halves
        /\ halves \in Nat
    BY <2>1 DEF IsSteps
  <2> HIDE DEF halves, short
  <2> QED
    BY <2>2
<1> QED
  BY <1>1, SolveFacts DEF Glyphs

(* drawGradients: the cells of the steps get gradients, unless they show   *)
(* points or labels.                                                       *)
LEMMA GradientsFacts ==
  ASSUME NEW v, ViewSound(v), Rising(v.scale, v.stats), NEW U, NEW G, NEW win \in WindowType(U, G),
         GradientCells(v) \subseteq U, GlyphsOf(v) \subseteq G
  PROVE  IsGradients(win, Gradients(v, win), GradientCells(v))
<1> DEFINE N == Len(v.points)
           W == WindowType(U, G)
           cs == GradientCells(v)
           S == {w \in W : IsGradients(win, w, cs)}
           one(w, i) == IF i \in Pairs(v) THEN WithGradient(w, StepsTo(v, i)) ELSE w
           step == [z \in S \X (1 .. N) |-> one(z[1], z[2])]
           Solves(f) == f = [i \in 0 .. N |->
                               IF i = 0 THEN win
                               ELSE IF i \in Pairs(v) THEN WithGradient(f[i - 1], StepsTo(v, i))
                               ELSE f[i - 1]]
           upTo == CHOOSE f : Solves(f)
<1>1. Gradients(v, win) = IF ShouldGradient THEN upTo[N] ELSE win
  BY DEF Gradients
<1>2. N \in Nat
  BY DEF ViewSound
<1> HIDE DEF N
<1>3. ASSUME NEW w \in S, NEW i \in 1 .. N
      PROVE  one(w, i) \in S
  <2>1. w \in WindowType(U, G) /\ IsGradients(win, w, cs)
    OBVIOUS
  <2>2. CASE i \notin Pairs(v)
    <3>1. one(w, i) = w
      BY <2>2
    <3> HIDE DEF one, S
    <3> QED
      BY <3>1
  <2>3. CASE i \in Pairs(v)
    <3> DEFINE cells == StepsTo(v, i)
               glyphs == Glyphs(v, i)
               new == one(w, i)
    <3>1. new = WithGlyphs(w, cells, glyphs)
      BY <2>3 DEF WithGradient, Glyphs
    <3>2. Len(glyphs) \in Nat
      BY <2>3, GlyphsFacts
    <3>3. \A k \in 1 .. Len(glyphs) : cells[k] \in U /\ cells[k] \in cs /\ glyphs[k] \in G
      <4>1. \A k \in 1 .. Len(glyphs) : cells[k] \in cs /\ glyphs[k] \in GlyphsOf(v)
        BY <2>3 DEF GradientCells, GlyphsOf
      <4> QED
        BY <4>1
    <3> HIDE DEF cells, glyphs, new, cs
    <3>4. new \in WindowType(U, G) /\ IsGradients(w, new, cs)
      BY <2>1, <3>1, <3>2, <3>3, WithGlyphsFacts
    <3>5. IsGradients(win, new, cs)
      BY <2>1, <3>4, GradientsOn
    <3> QED
      BY <3>4, <3>5 DEF new
  <2> QED
    BY <2>2, <2>3
<1>4. win \in S
  BY NoGradients
<1> HIDE DEF one, S, W
<1>5. Solves(upTo)
  <2>1. step \in [S \X (1 .. N) -> S] /\ \A w \in S, k \in 1 .. N : step[<<w, k>>] = one(w, k)
    <3>1. \A z \in S \X (1 .. N) : z[1] \in S /\ z[2] \in 1 .. N
      OBVIOUS
    <3> QED
      BY <1>3, <3>1
  <2> HIDE DEF step
  <2>2. PICK f : Iterates(f, N, S, win, step)
    BY <1>2, <1>4, <2>1, Recursion
  <2>3. Solves(f)
    <3>1. \A k \in 0 .. N : k = 0 \/ (k \in 1 .. N /\ k - 1 \in 0 .. N)
      BY <1>2
    <3>2. ASSUME NEW k \in 1 .. N
          PROVE  f[k] = one(f[k - 1], k)
      <4>1. k - 1 \in 0 .. N
        BY <1>2
      <4>2. f[k - 1] \in S /\ f[k] = step[<<f[k - 1], k>>]
        BY <2>2, <4>1 DEF Iterates
      <4> QED
        BY <2>1, <4>2
    <3> QED
      BY <2>2, <3>1, <3>2 DEF Iterates, one
  <2> HIDE DEF Solves
  <2> QED
    BY <2>3
<1> HIDE DEF upTo
<1>6. upTo[0] = win /\ \A k \in 1 .. N : upTo[k] = one(upTo[k - 1], k)
  <2>1. 0 \in 0 .. N /\ \A k \in 1 .. N : k \in 0 .. N /\ k # 0
    BY <1>2
  <2> QED
    BY <1>5, <2>1 DEF one
<1>7. upTo[N] \in S
  <2>1. \A k \in 1 .. N : upTo[k - 1] \in S => upTo[k] \in S
    BY <1>3, <1>6
  <2>2. upTo[0] \in S
    BY <1>4, <1>6
  <2> QED
    BY <1>2, <2>1, <2>2, LoopKeeps
<1>8. Gradients(v, win) \in S
  BY <1>1, <1>4, <1>7
<1> QED
  BY <1>8 DEF S

(* A cell that gets gradients goes on to show its points.                  *)
LEMMA GradientsShow ==
  ASSUME NEW win, NEW new, NEW cs, IsGradients(win, new, cs), NEW c, NEW n \in Nat,
         ShownAt(win, c, n)
  PROVE  ShownAt(new, c, n)
<1>1. new.max = win.max
  BY DEF IsGradients
<1>2. Has(win, c) /\ win.cells[c].kind \in {"label", "point"}
  BY DEF ShownAt, Labelled
<1>3. Kept(win, new, c)
  BY <1>2 DEF IsGradients
<1> QED
  BY <1>1, <1>3 DEF ShownAt, Kept, Labelled

LEMMA WindowShows ==
  ASSUME NEW v, ViewSound(v), Rising(v.scale, v.stats)
  PROVE  /\ CellsShown(v, Window(v), [i \in Good(v) |-> CellOf(v, i)])
         /\ Good(v) # {} => {v.stats.min, v.stats.max} \subseteq {l.d : l \in Window(v).labels}
<1> DEFINE U == (Int \X Int) \cup GradientCells(v)
           G == {"none"} \cup GlyphsOf(v)
           before == Points(v)
           win == Window(v)
           at == [i \in Good(v) |-> CellOf(v, i)]
           N == Len(v.points)
<1>1. before \in WindowType(U, G) /\ Shown(v, N, before)
  <2>1. "none" \in G /\ Int \X Int \subseteq U
    OBVIOUS
  <2> HIDE DEF U, G
  <2> QED
    BY <2>1, PointsShown
<1>2. IsGradients(before, win, GradientCells(v))
  <2>1. GradientCells(v) \subseteq U /\ GlyphsOf(v) \subseteq G
    OBVIOUS
  <2>2. win = Gradients(v, before)
    BY DEF Window
  <2> HIDE DEF U, G, win, before
  <2> QED
    BY <1>1, <2>1, <2>2, GradientsFacts
<1>3. N \in Nat \ {0} /\ Good(v) \subseteq 1 .. N /\ \A i \in Good(v) : i <= N
  <2>1. N \in Nat \ {0} /\ Good(v) \subseteq 1 .. N
    BY CellFacts
  <2> QED
    BY <2>1
<1> HIDE DEF U, G, win, before, N
<1>7. win.labels = before.labels /\ \A c : Labelled(win, c) => Labelled(before, c)
  <2>1. \A c : Kept(before, win, c) \/ (Has(win, c) => win.cells[c].kind = "gradient")
    BY <1>2 DEF IsGradients
  <2> QED
    BY <1>2, <2>1, LabelKept DEF IsGradients, Labelled
<1>4. ASSUME NEW i \in Good(v)
      PROVE  LET here == Cardinality({j \in Good(v) : at[j] = at[i]})
             IN  /\ Has(win, at[i])
                 /\ IF win.cells[at[i]].kind = "label" THEN \E l \in win.labels : LabelledBy(l, at[i])
                    ELSE /\ win.cells[at[i]].kind = "point" /\ win.cells[at[i]].n = here
                         /\ here > 1 => here <= win.max
  <2> DEFINE c == CellOf(v, i)
             here == Cardinality({j \in Good(v) : at[j] = at[i]})
  <2>1. at[i] = c /\ {j \in Good(v) : at[j] = at[i]} = Here(v, N, c)
    BY <1>3 DEF Here
  <2>2. i \in Here(v, N, c)
    BY <1>3 DEF Here
  <2>3. IsFiniteSet(Here(v, N, c)) /\ Cardinality(Here(v, N, c)) \in Nat
    <3>1. IsFiniteSet(1 .. N) /\ Here(v, N, c) \subseteq 1 .. N
      BY <1>3, FS_Interval DEF Here
    <3>2. IsFiniteSet(Here(v, N, c))
      BY <3>1, FS_Subset
    <3> QED
      BY <3>2, FS_CardinalityType
  <2>4. ShownAt(before, c, Cardinality(Here(v, N, c)))
    BY <1>1, <2>2 DEF Shown
  <2>5. ShownAt(win, c, Cardinality(Here(v, N, c)))
    BY <1>2, <2>3, <2>4, GradientsShow
  <2>6. Labelled(win, c) => Explained(win, c)
    BY <1>1, <1>7 DEF Shown, Explained
  <2> HIDE DEF c, at
  <2> QED
    BY <2>1, <2>5, <2>6 DEF ShownAt, Labelled, Explained
<1>5. CellsShown(v, win, at)
  <2> HIDE DEF at
  <2> QED
    BY <1>4 DEF CellsShown
<1>6. ASSUME Good(v) # {}
      PROVE  {v.stats.min, v.stats.max} \subseteq LabelledTrips(win)
  <2>1. \A j \in Good(v) : v.points[j].duration \in {v.stats.min, v.stats.max}
                             => v.points[j].duration \in LabelledTrips(win)
    BY <1>1, <1>3, <1>7 DEF Shown, LabelledTrips
  <2>2. Summary(v.stats, v.points, 1, N)
    BY DEF ViewSound, N
  <2>3. \A i \in 1 .. N : i \in Good(v) <=> ~v.points[i].dropped
    BY DEF Good, N
  <2>4. v.stats.good # 0
    BY <1>3, <1>6, <2>2, <2>3 DEF Summary
  <2>5. /\ \E i \in Good(v) : v.points[i].duration = v.stats.min
        /\ \E i \in Good(v) : v.points[i].duration = v.stats.max
    BY <2>2, <2>3, <2>4 DEF Summary
  <2> QED
    BY <2>1, <2>5
<1> QED
  BY <1>5, <1>6 DEF win, LabelledTrips

-----------------------------------------------------------------------------
(* The properties of the frames                                            *)

LEMMA FramesOf ==
  ASSUME GraphInv, Framed \/ FramedLosses, NEW v \in Views
  PROVE  ViewSound(v) /\ Rising(v.scale, v.stats)
<1>1. PICK size \in Sizes, follow \in BOOLEAN : v = View(size, "linear", follow)
  BY DEF Views
<1>2. Drawn
  BY FrameAssumption DEF Framed, FramedLosses, Drawn
<1>3. ViewSound(v) /\ v.scale = "linear"
  BY <1>1, <1>2, ViewFacts
<1>4. v.stats \in StatsType
  BY <1>3 DEF ViewSound
<1> QED
  BY <1>3, <1>4, LinearRises

LEMMA GraphShows ==
  ASSUME GraphInv
  PROVE  PointsAreShown
<1> SUFFICES ASSUME Framed, NEW v \in Windowed
             PROVE  /\ CellsShown(v, Window(v), [i \in Good(v) |-> CellOf(v, i)])
                    /\ Good(v) # {} => {v.stats.min, v.stats.max} \subseteq {l.d : l \in Window(v).labels}
  BY DEF PointsAreShown
<1>1. v \in Views
  BY DEF Windowed
<1>2. ViewSound(v) /\ Rising(v.scale, v.stats)
  BY <1>1, FramesOf
<1> QED
  BY <1>2, WindowShows

(* In whatever order points, bars, labels and gradients come to a cell,    *)
(* a good point is counted there or covered by the text of a label, but    *)
(* for those in the one cell that a label to the left keeps and does not   *)
(* print in; and the best and the worst round trip have their labels, for  *)
(* any size of the terminal, any times, any round trips, any number of     *)
(* points, spans and groups (drawWindow.add, addPoint, addLabel,           *)
(* addGradient, draw).                                                     *)
THEOREM PointsAreShownHolds == Spec => []PointsAreShown
BY GraphInductive, GraphShows, PTL

-----------------------------------------------------------------------------
(* Times run to the right                                                  *)

(* A normalised value does not go up with the value, on a range that is    *)
(* drawn the other way round.                                              *)
LEMMA NormalizedFalls ==
  ASSUME NEW b \in Nat \ {0}, NEW newMin \in Int, NEW newMax \in Int, newMax <= newMin,
         NEW u \in Int, NEW v \in Int, u <= v
  PROVE  /\ Normalized(u, 0, b, newMin, newMax) \in Int
         /\ Normalized(v, 0, b, newMin, newMax) <= Normalized(u, 0, b, newMin, newMax)
<1> DEFINE a == newMax - newMin
           p == a * u
           q == a * v
           d == p \div b
           e == q \div b
<1>1. /\ Normalized(u, 0, b, newMin, newMax) = newMin + d
      /\ Normalized(v, 0, b, newMin, newMax) = newMin + e
  <2>1. b # 0 /\ b - 0 = b /\ u - 0 = u /\ v - 0 = v
    OBVIOUS
  <2> QED
    BY <2>1 DEF Normalized
<1>2. -a \in Nat /\ v - u \in Nat /\ a \in Int
  OBVIOUS
<1> HIDE DEF a
<1>3. (-a) * (v - u) \in Nat
  BY <1>2
<1>4. (-a) * (v - u) = a * u - a * v /\ a * u \in Int /\ a * v \in Int
  BY <1>2
<1>5. p \in Int /\ q \in Int /\ q <= p
  BY <1>3, <1>4
<1> HIDE DEF p, q
<1>6. e \in Int /\ e * b <= q /\ d \in Int
  BY <1>5, DivisionFacts
<1> HIDE DEF e
<1>7. d >= e <=> p >= e * b
  BY <1>5, <1>6, DivisionBounds
<1>8. p >= e * b
  <2>1. e * b \in Int
    BY <1>6
  <2> QED
    BY <1>5, <1>6, <2>1
<1> HIDE DEF d
<1> QED
  BY <1>1, <1>6, <1>7, <1>8

(* A group whose text leaves it a column to begin in has its points        *)
(* between its columns, later ones not further left.                       *)
LEMMA RoomyColumns ==
  ASSUME NEW size, size.w \in Nat, size.w >= 9, NEW axis, PlacedSound(axis, size.w),
         NEW i \in 1 .. Len(axis), axis[i].startX < size.w,
         NEW t \in Int, SpanContains(axis[i].time, t),
         NEW u \in Int, SpanContains(axis[i].time, u), t <= u
  PROVE  /\ GetX(t, axis[i], size) \in axis[i].startX .. axis[i].endX
         /\ GetX(t, axis[i], size) <= GetX(u, axis[i], size)
<1> DEFINE g == axis[i]
           w == size.w
           newMin == MinOf(MaxOf(1, w - 1), g.endX)
           newMax == MaxOf(LabelSize(size), g.startX)
           dur == g.time.duration
           at(s) == GetX(s, g, size)
<1>1. /\ g.startX \in 1 .. w /\ g.endX \in 1 .. w /\ g.startX <= g.endX /\ g.endX >= 8
      /\ g.time.begin \in Int /\ g.time.end \in Int /\ g.time.begin <= g.time.end
      /\ g.time.duration = g.time.end - g.time.begin
      /\ g.startX < w /\ w \in Nat /\ w >= 9
  BY DEF PlacedSound, TimesSound
<1>2. LabelSize(size) \in Nat /\ LabelSize(size) <= 8
  BY DEF LabelSize, MinOf
<1>3. \A s : at(s) = IF g.stats.good <= 1 \/ dur = 0 THEN (newMin + newMax) \div 2
                     ELSE Normalized(g.time.end - s, 0, dur, newMin, newMax)
  BY DEF GetX
<1>4. SpanContains(g.time, t) /\ SpanContains(g.time, u)
  OBVIOUS
<1> HIDE DEF g, w, at
<1>5. newMin \in Int /\ newMax \in Int /\ newMax <= newMin /\ g.startX <= newMax /\ newMin <= g.endX
  BY <1>1, <1>2 DEF MinOf, MaxOf
<1> HIDE DEF newMin, newMax
<1>6. CASE g.stats.good <= 1 \/ dur = 0
  <2>1. at(t) = (newMin + newMax) \div 2 /\ at(u) = at(t)
    BY <1>3, <1>6
  <2>2. at(t) \in newMax .. newMin /\ at(t) \in Int
    BY <1>5, <2>1
  <2>3. at(t) \in g.startX .. g.endX
    BY <1>1, <1>5, <2>2
  <2>4. at(t) <= at(u)
    BY <2>1, <2>2
  <2> QED
    BY <2>3, <2>4 DEF at, g
<1>7. CASE ~(g.stats.good <= 1 \/ dur = 0)
  <2> DEFINE a == g.time.end - t
             b == g.time.end - u
  <2>1. at(t) = Normalized(a, 0, dur, newMin, newMax) /\ at(u) = Normalized(b, 0, dur, newMin, newMax)
    BY <1>3, <1>7
  <2>2. /\ g.time.begin <= t /\ t <= g.time.end
        /\ g.time.begin \in Int /\ g.time.end \in Int /\ dur = g.time.end - g.time.begin
        /\ dur # 0 /\ g.time.begin <= g.time.end
    BY <1>1, <1>4, <1>7 DEF SpanContains
  <2>3. a \in Int /\ b \in Int /\ b <= a /\ 0 <= a /\ a <= dur
    BY <2>2
  <2>4. dur \in Nat \ {0} /\ dur \in Int /\ 0 <= dur /\ 0 # dur
    BY <2>2
  <2> HIDE DEF a, b, dur
  <2>5. at(t) <= at(u)
    <3>1. Normalized(a, 0, dur, newMin, newMax) <= Normalized(b, 0, dur, newMin, newMax)
      BY <1>5, <2>3, <2>4, NormalizedFalls
    <3> QED
      BY <2>1, <3>1
  <2>6. at(t) \in MinOf(newMin, newMax) .. MaxOf(newMin, newMax)
    <3> DEFINE low == 0
    <3>0. low \in Int /\ low <= dur /\ low <= a /\ low # dur /\ low = 0
      BY <2>3, <2>4
    <3> HIDE DEF low
    <3>1. Normalized(a, low, dur, newMin, newMax) \in MinOf(newMin, newMax) .. MaxOf(newMin, newMax)
      BY <1>5, <2>3, <2>4, <3>0, NormalizedFacts
    <3> QED
      BY <2>1, <3>0, <3>1
  <2>7. at(t) \in g.startX .. g.endX
    <3>1. at(t) \in newMax .. newMin
      BY <1>5, <2>6 DEF MinOf, MaxOf
    <3> QED
      BY <1>1, <1>5, <3>1
  <2> QED
    BY <2>5, <2>7 DEF at, g
<1> QED
  BY <1>6, <1>7

(* A group begins where those before it have ended.                        *)
LEMMA GroupsInOrder ==
  ASSUME NEW axis, NEW w \in Nat, PlacedSound(axis, w),
         NEW g \in 1 .. Len(axis), NEW h \in 1 .. Len(axis), g < h
  PROVE  axis[g].endX <= axis[h].startX
<1> DEFINE n == Len(axis)
           T == {k \in Nat : g + 1 + k <= n => axis[g].endX <= axis[g + 1 + k].startX}
<1>1. n \in Nat
  BY DEF PlacedSound, TimesSound
<1>2. /\ \A k \in 1 .. n : /\ axis[k].startX \in Int /\ axis[k].endX \in Int
                           /\ axis[k].startX <= axis[k].endX
      /\ \A k \in 1 .. n - 1 : axis[k + 1].startX = axis[k].endX
  BY DEF PlacedSound
<1> HIDE DEF n
<1>3. g \in 1 .. n /\ h \in 1 .. n /\ g \in 1 .. n - 1
  BY <1>1 DEF n
<1>4. 0 \in T
  BY <1>2, <1>3
<1>5. ASSUME NEW k \in Nat, k \in T
      PROVE  k + 1 \in T
  <2> SUFFICES ASSUME g + 1 + (k + 1) <= n
               PROVE  axis[g].endX <= axis[g + 1 + (k + 1)].startX
    OBVIOUS
  <2> DEFINE j == g + 1 + k
  <2>1. j \in 1 .. n /\ j \in 1 .. n - 1 /\ j + 1 \in 1 .. n /\ g + 1 + (k + 1) = j + 1
    BY <1>1, <1>3
  <2>2. axis[g].endX <= axis[j].startX
    BY <1>5, <2>1
  <2> HIDE DEF j
  <2>3. /\ axis[g].endX \in Int /\ axis[j].startX \in Int /\ axis[j].endX \in Int
        /\ axis[j].startX <= axis[j].endX /\ axis[j + 1].startX = axis[j].endX
    BY <1>2, <1>3, <2>1
  <2> QED
    BY <2>1, <2>2, <2>3
<1>6. \A k \in Nat : k \in T
  <2>1. \A k \in Nat : k \in T => k + 1 \in T
    BY <1>5
  <2> HIDE DEF T
  <2> QED
    BY <1>4, <2>1, NatInductionOnSets
<1> DEFINE k == h - g - 1
<1>7. k \in Nat /\ g + 1 + k = h /\ h <= n
  BY <1>1, <1>3
<1> HIDE DEF k
<1> QED
  BY <1>6, <1>7

LEMMA TimesRunRight ==
  ASSUME NEW v, ViewSound(v), Roomy(v),
         NEW i \in 1 .. Len(v.points), NEW j \in 1 .. Len(v.points), Before(v, i, j)
  PROVE  ColumnOf(v, i) <= ColumnOf(v, j)
<1> DEFINE a == v.place[i]
           b == v.place[j]
           t == v.points[i].time
           u == v.points[j].time
           axis == v.axis
           size == v.size
<1>1. /\ size.w \in Nat /\ size.w >= 9 /\ PlacedSound(axis, size.w)
      /\ a \in 1 .. Len(axis) /\ b \in 1 .. Len(axis)
      /\ SpanContains(axis[a].time, t) /\ SpanContains(axis[b].time, u)
      /\ axis[a].startX < size.w /\ axis[b].startX < size.w
  BY DEF ViewSound, Roomy
<1>2. t \in Int /\ u \in Int
  <2>1. v.points[i] \in PointType /\ v.points[j] \in PointType
    BY DEF ViewSound
  <2> QED
    BY <2>1 DEF PointType
<1>3. ColumnOf(v, i) = GetX(t, axis[a], size) /\ ColumnOf(v, j) = GetX(u, axis[b], size)
  BY DEF ColumnOf, GroupOf
<1>4. a < b \/ (a = b /\ t <= u)
  BY DEF Before
<1> HIDE DEF a, b, t, u, axis, size
<1>5. CASE a < b
  <2>1. GetX(t, axis[a], size) \in axis[a].startX .. axis[a].endX
    <3>1. t <= t
      BY <1>2
    <3> QED
      BY <1>1, <1>2, <3>1, RoomyColumns
  <2>2. GetX(u, axis[b], size) \in axis[b].startX .. axis[b].endX
    <3>1. u <= u
      BY <1>2
    <3> QED
      BY <1>1, <1>2, <3>1, RoomyColumns
  <2>3. axis[a].endX <= axis[b].startX
    BY <1>1, <1>5, GroupsInOrder
  <2>4. axis[a].endX \in Int /\ axis[b].startX \in Int
        /\ axis[a].startX \in Int /\ axis[b].endX \in Int
    BY <1>1 DEF PlacedSound
  <2> QED
    BY <1>3, <2>1, <2>2, <2>3, <2>4
<1>6. CASE a = b /\ t <= u
  BY <1>1, <1>2, <1>3, <1>6, RoomyColumns
<1> QED
  BY <1>4, <1>5, <1>6

LEMMA GraphRunsRight ==
  ASSUME GraphInv
  PROVE  TimeRunsRight
<1> SUFFICES ASSUME Framed, NEW v \in Views, Roomy(v),
                    NEW i \in 1 .. Len(v.points), NEW j \in 1 .. Len(v.points), Before(v, i, j)
             PROVE  ColumnOf(v, i) <= ColumnOf(v, j)
  BY DEF TimeRunsRight
<1>1. ViewSound(v)
  BY FramesOf
<1> QED
  BY <1>1, TimesRunRight

(* A frame with room for its texts is read from left to right, for any     *)
(* size of the terminal, any times in any order, any number of points and  *)
(* groups (getX, computeXAxis).                                            *)
THEOREM TimeRunsRightHolds == Spec => []TimeRunsRight
BY GraphInductive, GraphRunsRight, PTL

-----------------------------------------------------------------------------
(* Every loss is shown                                                     *)

(* Steps end before the other point.                                       *)
LEMMA ShortFacts ==
  ASSUME NEW square \in Nat
  PROVE  LET halves == Root(4 * square)
             short == {k \in 1 .. halves : (2 * k + 1) * (2 * k + 1) < 4 * square}
         IN  \A k \in 1 .. Cardinality(short) : 2 * k + 1 <= halves
<1> DEFINE s == 4 * square
           h == Root(s)
           short == {k \in 1 .. h : (2 * k + 1) * (2 * k + 1) < s}
           M == (h - 1) \div 2
<1>1. h \in Nat /\ s < (h + 1) * (h + 1) /\ s \in Nat
  <2>1. s \in Nat
    OBVIOUS
  <2> HIDE DEF s
  <2>2. h \in 0 .. s /\ s < (h + 1) * (h + 1)
    BY <2>1, RootFacts
  <2> QED
    BY <2>1, <2>2
<1> HIDE DEF s, h
<1>2. ASSUME NEW k \in short
      PROVE  2 * k + 1 <= h
  <2> DEFINE a == 2 * k + 1
             b == h + 1
  <2>1. a \in Nat /\ b \in Nat /\ a * a < s /\ s < b * b
    BY <1>1
  <2>2. CASE a >= b
    <3>1. a - b \in Nat /\ a + b \in Nat
      BY <2>1, <2>2
    <3>2. (a - b) * (a + b) \in Nat
      BY <3>1
    <3>3. (a - b) * (a + b) = a * a - b * b /\ a * a \in Nat /\ b * b \in Nat
      <4> HIDE DEF a, b
      <4> QED
        BY <2>1
    <3> HIDE DEF a, b
    <3> QED
      BY <1>1, <2>1, <3>2, <3>3
  <2> QED
    BY <1>1, <2>1, <2>2
<1>3. M \in Int /\ \A k \in Nat : k <= M <=> 2 * k + 1 <= h
  BY <1>1
<1> HIDE DEF M
<1>4. short \subseteq 1 .. M
  <2>1. \A k \in short : k \in Nat /\ 1 <= k
    BY <1>1
  <2> HIDE DEF short
  <2> QED
    BY <1>2, <1>3, <2>1
<1>5. IsFiniteSet(1 .. M) /\ Cardinality(1 .. M) = IF 1 > M THEN 0 ELSE M - 1 + 1
  BY <1>3, FS_Interval
<1> HIDE DEF short
<1>6. IsFiniteSet(short) /\ Cardinality(short) <= Cardinality(1 .. M)
  BY <1>4, <1>5, FS_Subset
<1>7. Cardinality(short) \in Nat
  BY <1>6, FS_CardinalityType
<1>8. ASSUME NEW k \in 1 .. Cardinality(short)
      PROVE  2 * k + 1 <= h
  <2>1. k \in Nat /\ k <= M
    BY <1>3, <1>5, <1>6, <1>7
  <2> QED
    BY <1>3, <2>1
<1> QED
  BY <1>8 DEF s, h, short

(* A part of the way is between its ends.                                  *)
LEMMA PartFacts ==
  ASSUME NEW from \in Int, NEW to \in Int, NEW k \in Nat, NEW halves \in Nat,
         2 * k + 1 <= halves
  PROVE  PartOf(from, to, k, halves) \in MinOf(from, to) .. MaxOf(from, to)
<1> DEFINE d == to - from
           m == 2 * k + 1
           a == d * m
           q == Quotient(a, halves)
<1>1. PartOf(from, to, k, halves) = from + q
  BY DEF PartOf
<1>2. d \in Int /\ m \in Nat /\ m <= halves /\ halves \in Nat \ {0} /\ 0 \in Int
  OBVIOUS
<1> HIDE DEF m
<1>3. ASSUME NEW e \in Nat
      PROVE  /\ e * m \in Nat /\ (e * m) \div halves \in Int
             /\ (e * m) \div halves >= 0 /\ (e * m) \div halves <= e
  <2> DEFINE b == e * m
  <2>1. b \in Nat /\ b \in Int
    BY <1>2
  <2>2. e * (halves - m) \in Nat
    <3>1. halves - m \in Nat
      BY <1>2
    <3> QED
      BY <3>1
  <2>3. e * (halves - m) = e * halves - e * m /\ e * halves \in Int
        /\ (e + 1) * halves = e * halves + halves
    BY <1>2
  <2>4. b >= 0 * halves /\ b < (e + 1) * halves
    BY <1>2, <2>1, <2>2, <2>3
  <2> HIDE DEF b
  <2>5. b \div halves \in Int
    BY <1>2, <2>1, DivisionFacts
  <2>6. b \div halves >= 0 /\ b \div halves <= e
    BY <1>2, <2>1, <2>4, DivisionBounds
  <2> QED
    BY <2>1, <2>5, <2>6 DEF b
<1>4. CASE d >= 0
  <2>1. d \in Nat
    BY <1>2, <1>4
  <2>2. a \in Nat /\ a \div halves \in Int /\ a \div halves >= 0 /\ a \div halves <= d
    <3> HIDE DEF d
    <3> QED
      BY <1>3, <2>1
  <2>3. q = a \div halves
    <3> HIDE DEF a
    <3> QED
      BY <2>2 DEF Quotient
  <2> DEFINE z == a \div halves
  <2>4. z \in Int /\ z >= 0 /\ z <= d /\ q = z
    BY <2>2, <2>3
  <2> HIDE DEF a, q, z
  <2> QED
    BY <1>1, <2>1, <2>4 DEF MinOf, MaxOf
<1>5. CASE d < 0
  <2> DEFINE e == -d
             b == e * m
             z == b \div halves
  <2>1. e \in Nat
    BY <1>2, <1>5
  <2>2. b \in Nat /\ z \in Int /\ z >= 0 /\ z <= e
    <3> HIDE DEF e
    <3> QED
      BY <1>3, <2>1
  <2>3. b = -a /\ a \in Int
    <3> HIDE DEF d
    <3> QED
      BY <1>2
  <2>4. q = -z
    <3>1. CASE a < 0
      <4>1. -a = b
        BY <2>3
      <4> HIDE DEF a, b
      <4> QED
        BY <3>1, <4>1 DEF Quotient
    <3>2. CASE ~(a < 0)
      <4> HIDE DEF a, b, z, q
      <4>1. a = 0 /\ b = 0
        BY <2>2, <2>3, <3>2
      <4>2. q = 0 \div halves /\ z = 0 \div halves
        BY <4>1 DEF q, z, Quotient
      <4>3. 0 \div halves = 0
        BY <1>2
      <4> QED
        BY <4>2, <4>3
    <3> QED
      BY <3>1, <3>2
  <2> HIDE DEF a, b, q, z
  <2> QED
    BY <1>1, <2>1, <2>2, <2>4 DEF MinOf, MaxOf
<1> QED
  BY <1>2, <1>4, <1>5

(* A step is at some time and round trip between those of its points.      *)
IsBetween(v, i, c, t, d) ==
  /\ t \in MinOf(v.points[i - 1].time, v.points[i].time)
             .. MaxOf(v.points[i - 1].time, v.points[i].time)
  /\ d \in MinOf(v.points[i - 1].duration, v.points[i].duration)
             .. MaxOf(v.points[i - 1].duration, v.points[i].duration)
  /\ c = Translate(v, GoodGroup(v, i), t, d)

LEMMA StepCells ==
  ASSUME NEW v, ViewSound(v), Rising(v.scale, v.stats), NEW i \in Pairs(v),
         NEW k \in 1 .. Len(StepsTo(v, i))
  PROVE  \E t \in Nat, d \in Nat : IsBetween(v, i, StepsTo(v, i)[k], t, d)
<1> DEFINE g == GoodGroup(v, i)
           p == v.points[i - 1]
           q == v.points[i]
<1>1. p \in PointType /\ q \in PointType
  BY PairFacts
<1>2. PICK square \in Nat :
           LET halves == Root(4 * square)
               short == {j \in 1 .. halves : (2 * j + 1) * (2 * j + 1) < 4 * square}
           IN  /\ halves \in Nat /\ IsFiniteSet(short) /\ Cardinality(short) \in 0 .. halves
               /\ IsSteps(v, g, p, q, halves, Cardinality(short), StepsTo(v, i))
  BY StepsToFacts
<1> DEFINE halves == Root(4 * square)
           short == {j \in 1 .. halves : (2 * j + 1) * (2 * j + 1) < 4 * square}
           n == Cardinality(short)
<1>3. \A j \in 1 .. n : 2 * j + 1 <= halves
  BY ShortFacts
<1>4. halves \in Nat /\ n \in 0 .. halves /\ IsSteps(v, g, p, q, halves, n, StepsTo(v, i))
  BY <1>2
<1> HIDE DEF p, q, g, halves, n
<1>5. k \in 1 .. n /\ StepsTo(v, i)[k] = StepOf(v, g, p, q, halves, k)
  BY <1>4 DEF IsSteps
<1>6. k \in Nat /\ 2 * k + 1 <= halves
  BY <1>3, <1>4, <1>5
<1>7. p.time \in Nat /\ q.time \in Nat /\ p.duration \in Nat /\ q.duration \in Nat
  BY <1>1 DEF PointType
<1> DEFINE t == PartOf(p.time, q.time, k, halves)
           d == PartOf(p.duration, q.duration, k, halves)
<1>8. t \in MinOf(p.time, q.time) .. MaxOf(p.time, q.time)
  <2>1. p.time \in Int /\ q.time \in Int
    BY <1>7
  <2> QED
    BY <1>4, <1>6, <2>1, PartFacts
<1>9. d \in MinOf(p.duration, q.duration) .. MaxOf(p.duration, q.duration)
  <2>1. p.duration \in Int /\ q.duration \in Int
    BY <1>7
  <2> QED
    BY <1>4, <1>6, <2>1, PartFacts
<1>10. StepsTo(v, i)[k] = Translate(v, g, t, d)
  BY <1>5 DEF StepOf
<1> HIDE DEF t, d
<1>11. t \in Nat /\ d \in Nat
  BY <1>7, <1>8, <1>9 DEF MinOf, MaxOf
<1>12. IsBetween(v, i, StepsTo(v, i)[k], t, d)
  BY <1>8, <1>9, <1>10 DEF IsBetween, p, q, g
<1> QED
  BY <1>11, <1>12
(* Points of which the times do not go back find the first group of the    *)
(* axis that holds them.                                                   *)
LEMMA FirstOfAll ==
  ASSUME NEW v, ViewSound(v), InOrder(v)
  PROVE  \A i \in 1 .. Len(v.points) : \A g \in 1 .. v.place[i] - 1 :
           ~Holds(v.axis, g, v.points[i].time)
<1> DEFINE N == Len(v.points)
           n == Len(v.axis)
           t(i) == v.points[i].time
           T == {i \in Nat : i + 1 <= N =>
                   \A g \in 1 .. v.place[i + 1] - 1 : ~Holds(v.axis, g, t(i + 1))}
<1>1. /\ N \in Nat \ {0} /\ n \in Nat
      /\ \A i \in 1 .. N : /\ v.place[i] \in 1 .. n /\ From(v.place, i) \in 1 .. v.place[i]
                           /\ Holds(v.axis, v.place[i], t(i))
                           /\ \A g \in From(v.place, i) .. v.place[i] - 1 : ~Holds(v.axis, g, t(i))
  BY DEF ViewSound, PlacedSound, TimesSound, Holds
<1>2. \A i \in 1 .. N : t(i) \in Int
  <2>1. \A i \in 1 .. N : v.points[i] \in PointType
    BY DEF ViewSound
  <2> QED
    BY <2>1 DEF PointType
<1>3. /\ \A i \in 1 .. N - 1 : t(i) <= t(i + 1)
      /\ \A g, h \in 1 .. n : g < h => v.axis[g].time.begin <= v.axis[h].time.begin
      /\ \A g \in 1 .. n : v.axis[g].time.begin \in Int /\ v.axis[g].time.end \in Int
  BY DEF ViewSound, InOrder, BeginInOrder, PlacedSound, TimesSound
<1> HIDE DEF N, n, t
<1>4. 0 \in T
  <2>1. 1 \in 1 .. N /\ 0 + 1 = 1
    BY <1>1
  <2>2. From(v.place, 1) = 1
    BY DEF From
  <2> QED
    BY <1>1, <2>1, <2>2
<1>5. ASSUME NEW k \in Nat, k \in T
      PROVE  k + 1 \in T
  <2> DEFINE i == k + 1
             j == k + 2
  <2> SUFFICES ASSUME j <= N, NEW g \in 1 .. v.place[j] - 1
               PROVE  ~Holds(v.axis, g, t(j))
    <3>1. k + 1 + 1 = j
      OBVIOUS
    <3> QED
      BY <3>1
  <2>1. i \in 1 .. N /\ j \in 1 .. N /\ i \in 1 .. N - 1 /\ j - 1 = i /\ j # 1 /\ i + 1 = j
    BY <1>1
  <2>2. \A h \in 1 .. v.place[i] - 1 : ~Holds(v.axis, h, t(i))
    BY <1>1, <1>5, <2>1
  <2>3. From(v.place, j) = v.place[i]
    BY <2>1 DEF From
  <2> HIDE DEF i, j
  <2>4. v.place[i] \in 1 .. n /\ v.place[j] \in 1 .. n
    BY <1>1, <2>1
  <2>5. CASE v.place[i] <= g
    <3>1. g \in From(v.place, j) .. v.place[j] - 1
      BY <2>3, <2>4, <2>5
    <3> QED
      BY <1>1, <2>1, <3>1
  <2>6. CASE g < v.place[i]
    <3> DEFINE b == v.axis[g].time.begin
               e == v.axis[g].time.end
               c == v.axis[v.place[i]].time.begin
    <3>1. g \in 1 .. n /\ g \in 1 .. v.place[i] - 1
      BY <1>1, <2>4, <2>6
    <3>2. b <= c /\ b \in Int /\ e \in Int /\ c \in Int
      BY <1>3, <2>4, <2>6, <3>1
    <3>3. c <= t(i)
      BY <1>1, <2>1 DEF Holds, SpanContains
    <3>4. ~(b <= t(i) /\ t(i) <= e)
      <4>1. ~Holds(v.axis, g, t(i))
        BY <2>2, <3>1
      <4> QED
        BY <4>1 DEF Holds, SpanContains
    <3>5. t(i) \in Int /\ t(j) \in Int /\ t(i) <= t(j)
      BY <1>2, <1>3, <2>1
    <3> HIDE DEF b, e, c
    <3>6. ~(t(j) <= e)
      BY <3>2, <3>3, <3>4, <3>5
    <3> QED
      BY <3>6 DEF Holds, SpanContains, e
  <2> QED
    BY <2>4, <2>5, <2>6
<1>6. \A k \in Nat : k \in T
  <2>1. \A k \in Nat : k \in T => k + 1 \in T
    BY <1>5
  <2> HIDE DEF T
  <2> QED
    BY <1>4, <2>1, NatInductionOnSets
<1>7. ASSUME NEW i \in 1 .. N, NEW g \in 1 .. v.place[i] - 1
      PROVE  ~Holds(v.axis, g, t(i))
  <2> DEFINE k == i - 1
  <2>1. k \in Nat /\ k + 1 = i /\ i <= N
    BY <1>1
  <2>2. k + 1 <= N => \A h \in 1 .. v.place[k + 1] - 1 : ~Holds(v.axis, h, t(k + 1))
    BY <1>6, <2>1
  <2> HIDE DEF k
  <2> QED
    BY <2>1, <2>2
<1> QED
  BY <1>7 DEF N, t

(* So does drawGradients.                                                  *)
LEMMA GoodGroupIsPlace ==
  ASSUME NEW v, ViewSound(v), InOrder(v), NEW i \in Good(v)
  PROVE  GoodGroup(v, i) = v.place[i]
<1>1. i \in 1 .. Len(v.points)
  BY DEF Good
<1>2. GoodGroup(v, i) \in 1 .. v.place[i] /\ WalkStep(v, i, GoodGroup(v, i - 1), GoodGroup(v, i))
  BY <1>1, GoodGroupFacts
<1>3. Holds(v.axis, GoodGroup(v, i), v.points[i].time)
  BY <1>2 DEF WalkStep, IsFirst
<1>4. v.place[i] \in Int
  <2>1. v.place[i] \in 1 .. Len(v.axis) /\ Len(v.axis) \in Nat
    BY <1>1 DEF ViewSound, PlacedSound, TimesSound
  <2> QED
    BY <2>1
<1>5. GoodGroup(v, i) \notin 1 .. v.place[i] - 1
  BY <1>1, <1>3, FirstOfAll
<1> QED
  BY <1>2, <1>4, <1>5

(* A later point of them is not before an earlier one.                     *)
LEMMA InOrderBefore ==
  ASSUME NEW v, ViewSound(v), InOrder(v),
         NEW i \in 1 .. Len(v.points), NEW j \in 1 .. Len(v.points), i <= j
  PROVE  Before(v, i, j)
<1> DEFINE N == Len(v.points)
           place == v.place
           t == [k \in 1 .. N |-> v.points[k].time]
<1>1. /\ N \in Nat
      /\ \A k \in 1 .. N : v.place[k] \in Int /\ From(v.place, k) <= v.place[k]
  <2>1. /\ N \in Nat /\ Len(v.axis) \in Nat
        /\ \A k \in 1 .. N : v.place[k] \in 1 .. Len(v.axis) /\ From(v.place, k) \in 1 .. v.place[k]
    BY DEF ViewSound, PlacedSound, TimesSound
  <2> QED
    BY <2>1
<1>2. \A k \in 1 .. N : t[k] \in Int
  <2>1. \A k \in 1 .. N : v.points[k] \in PointType
    BY DEF ViewSound
  <2> QED
    BY <2>1 DEF PointType
<1>3. \A k \in 1 .. N - 1 : k \in 1 .. N /\ k + 1 \in 1 .. N
  BY <1>1
<1>4. \A k \in 1 .. N - 1 : t[k] <= t[k + 1]
  BY <1>3 DEF InOrder
<1>5. \A k \in 1 .. N - 1 : place[k] <= place[k + 1]
  <2> TAKE k \in 1 .. N - 1
  <2>1. k + 1 # 1 /\ (k + 1) - 1 = k /\ k + 1 \in 1 .. N
    BY <1>1
  <2> QED
    BY <1>1, <2>1 DEF From
<1>6. t[i] = v.points[i].time /\ t[j] = v.points[j].time
  OBVIOUS
<1>7. \A k \in 1 .. N : place[k] \in Int
  BY <1>1
<1> HIDE DEF t, place, N
<1>8. t[i] <= t[j]
  BY <1>1, <1>2, <1>4, RisesThrough DEF N
<1>9. place[i] <= place[j]
  BY <1>1, <1>5, <1>7, RisesThrough DEF N
<1>10. place[i] \in Int /\ place[j] \in Int
  BY <1>7 DEF N
<1> QED
  BY <1>6, <1>8, <1>9, <1>10 DEF Before, place
(* What a loss can leave in a cell, its bar or what ranks before it.       *)
Standing(win, c) == Has(win, c) /\ win.cells[c].kind \in {"label", "point", "bar"}

(* The cells of the losses up to k, and those between losses in a row.     *)
Barred(v, k, win) ==
  \A i \in Lost(v) : i <= k =>
    /\ \A row \in Rows(v) : Standing(win, <<ColumnOf(v, i), row>>)
    /\ i - 1 \in Lost(v) =>
         \A c \in Between(ColumnOf(v, i - 1), ColumnOf(v, i)) \X Rows(v) : Has(win, c)

(* What is drawn later clears no cell, and takes the place of no bar but   *)
(* with a point or a label.                                                *)
StillStanding(win, new) ==
  \A c : (Has(win, c) => Has(new, c)) /\ (Standing(win, c) => Standing(new, c))

LEMMA PointKeeps ==
  ASSUME NEW win, NEW new, NEW c, IsPoint(win, new, c)
  PROVE  StillStanding(win, new)
<1>1. \A e : e # c => Labelled(new, e) \/ Kept(win, new, e)
  BY DEF IsPoint
<1>2. Standing(new, c)
  BY DEF IsPoint, Standing, Labelled
<1>3. \A e : Labelled(new, e) => Standing(new, e)
  BY DEF Labelled, Standing
<1>4. \A e : Kept(win, new, e) =>
               (Has(win, e) => Has(new, e)) /\ (Standing(win, e) => Standing(new, e))
  BY DEF Kept, Standing
<1>5. \A e : Standing(new, e) => Has(new, e)
  BY DEF Standing
<1>6. \A e : Standing(new, e) \/ Kept(win, new, e)
  BY <1>1, <1>2, <1>3
<1> QED
  BY <1>4, <1>5, <1>6 DEF StillStanding

LEMMA BarKeeps ==
  ASSUME NEW win, NEW new, NEW cs, NEW kind, IsBarred(win, new, cs, kind)
  PROVE  /\ StillStanding(win, new)
         /\ \A c \in cs : Has(new, c) /\ (kind = "bar" => Standing(new, c))
<1>1. \A e : Kept(win, new, e) =>
               (Has(win, e) => Has(new, e)) /\ (Standing(win, e) => Standing(new, e))
  BY DEF Kept, Standing
<1>2. ASSUME NEW c \in cs
      PROVE  /\ Has(new, c) /\ (kind = "bar" => Standing(new, c))
             /\ Kept(win, new, c) \/ ~Standing(win, c)
  <2>1. /\ Has(new, c)
        /\ \/ /\ Kept(win, new, c) /\ new.cells[c].kind \in {"label", "point", "bar", kind}
           \/ /\ new.cells[c].kind = kind /\ new.cells[c].n = 0
              /\ Has(win, c) => win.cells[c].kind \notin {"label", "point", "bar", kind}
    BY DEF IsBarred
  <2> QED
    BY <2>1 DEF Standing
<1>3. \A c : c \notin cs => Kept(win, new, c)
  BY DEF IsBarred
<1>4. \A c : (Has(win, c) => Has(new, c)) /\ (Standing(win, c) => Standing(new, c))
  BY <1>1, <1>2, <1>3
<1> QED
  BY <1>2, <1>4 DEF StillStanding

LEMMA KeepsOn ==
  ASSUME NEW a, NEW b, NEW d, StillStanding(a, b), StillStanding(b, d)
  PROVE  StillStanding(a, d)
BY DEF StillStanding

(* A step of the loop.                                                     *)
LEMMA BarredStep ==
  ASSUME NEW v, ViewSound(v), NEW U, NEW G, NEW win, NEW new,
         NEW k \in 0 .. Len(v.points) - 1, Barred(v, k, win), IsStep(v, U, G, win, new, k + 1)
  PROVE  Barred(v, k + 1, new)
<1> DEFINE i == k + 1
           N == Len(v.points)
<1>1. /\ i \in 1 .. N /\ Lost(v) \subseteq 1 .. N /\ \A j \in Lost(v) : j \notin Good(v)
      /\ \A j \in 1 .. N : (j <= i => j <= k \/ j = i) /\ (j \in Good(v) \/ j \in Lost(v))
  <2>1. N \in Nat
    BY DEF ViewSound
  <2> HIDE DEF N
  <2>2. i \in 1 .. N /\ \A j \in 1 .. N : (j <= i => j <= k \/ j = i)
    BY <2>1 DEF N
  <2> QED
    BY <2>2 DEF Lost, Good, N
<1>2. \A j \in Lost(v) : j <= k =>
        /\ \A row \in Rows(v) : Standing(win, <<ColumnOf(v, j), row>>)
        /\ j - 1 \in Lost(v) =>
             \A c \in Between(ColumnOf(v, j - 1), ColumnOf(v, j)) \X Rows(v) : Has(win, c)
  BY DEF Barred
<1> HIDE DEF i, N
<1>3. CASE i \in Good(v)
  <2>1. IsPoint(win, new, CellOf(v, i))
    BY <1>3 DEF IsStep, i
  <2>2. StillStanding(win, new)
    BY <2>1, PointKeeps
  <2>3. \A j \in Lost(v) : j <= i => j <= k
    BY <1>1, <1>3
  <2> QED
    BY <1>2, <2>2, <2>3 DEF Barred, StillStanding, i
<1>4. CASE i \in Lost(v)
  <2> DEFINE cs == {ColumnOf(v, i)} \X Rows(v)
             ds == Between(ColumnOf(v, i - 1), ColumnOf(v, i)) \X Rows(v)
  <2>1. PICK mid \in WindowType(U, G) :
          /\ IsBarred(win, mid, cs, "bar")
          /\ IF i - 1 \in Lost(v) THEN IsBarred(mid, new, ds, "filler") ELSE new = mid
    BY <1>4 DEF IsStep, i
  <2>2. \A row \in Rows(v) : <<ColumnOf(v, i), row>> \in cs
    OBVIOUS
  <2> HIDE DEF cs, ds
  <2>3. StillStanding(win, mid) /\ \A c \in cs : Standing(mid, c)
    BY <2>1, BarKeeps
  <2>4. StillStanding(mid, new) /\ (i - 1 \in Lost(v) => \A c \in ds : Has(new, c))
    <3>1. CASE i - 1 \in Lost(v)
      <4>1. IsBarred(mid, new, ds, "filler")
        BY <2>1, <3>1
      <4> QED
        BY <4>1, BarKeeps
    <3>2. CASE i - 1 \notin Lost(v)
      BY <2>1, <3>2 DEF StillStanding
    <3> QED
      BY <3>1, <3>2
  <2>5. StillStanding(win, new)
    BY <2>3, <2>4, KeepsOn
  <2>6. /\ \A row \in Rows(v) : Standing(new, <<ColumnOf(v, i), row>>)
        /\ i - 1 \in Lost(v) =>
             \A c \in Between(ColumnOf(v, i - 1), ColumnOf(v, i)) \X Rows(v) : Has(new, c)
    BY <2>2, <2>3, <2>4 DEF StillStanding, ds
  <2>7. \A j \in Lost(v) : j <= i => j <= k \/ j = i
    BY <1>1
  <2>8. \A j \in Lost(v) : j <= k =>
          /\ \A row \in Rows(v) : Standing(new, <<ColumnOf(v, j), row>>)
          /\ j - 1 \in Lost(v) =>
               \A c \in Between(ColumnOf(v, j - 1), ColumnOf(v, j)) \X Rows(v) : Has(new, c)
    BY <1>2, <2>5 DEF StillStanding
  <2>9. \A j \in Lost(v) : j <= i =>
          /\ \A row \in Rows(v) : Standing(new, <<ColumnOf(v, j), row>>)
          /\ j - 1 \in Lost(v) =>
               \A c \in Between(ColumnOf(v, j - 1), ColumnOf(v, j)) \X Rows(v) : Has(new, c)
    BY <2>6, <2>7, <2>8
  <2> QED
    BY <2>9 DEF Barred, i
<1> QED
  BY <1>1, <1>3, <1>4

(* Before there are gradients, every loss has its bar.                     *)
LEMMA PointsBarred ==
  ASSUME NEW v, ViewSound(v), Rising(v.scale, v.stats)
  PROVE  Barred(v, Len(v.points), Points(v))
<1> DEFINE N == Len(v.points)
           U == Int \X Int
           G == {"none"}
<1>1. PICK f : /\ f[0] = NoWindow /\ f[N] = Points(v)
               /\ \A i \in 1 .. N : IsStep(v, U, G, f[i - 1], f[i], i)
  <2>1. "none" \in G /\ Int \X Int \subseteq U
    OBVIOUS
  <2> HIDE DEF U, G
  <2> QED
    BY <2>1, PointsSteps
<1>2. N \in Nat /\ Lost(v) \subseteq 1 .. N
  BY DEF ViewSound, Lost
<1> HIDE DEF N, U, G
<1> DEFINE T == {k \in Nat : k <= N => Barred(v, k, f[k])}
<1>3. 0 \in T
  <2>1. \A i \in Lost(v) : ~(i <= 0)
    BY <1>2
  <2> QED
    BY <2>1 DEF Barred
<1>4. ASSUME NEW k \in Nat, k \in T
      PROVE  k + 1 \in T
  <2> SUFFICES ASSUME k + 1 <= N PROVE Barred(v, k + 1, f[k + 1])
    OBVIOUS
  <2>1. k \in 0 .. N - 1 /\ k + 1 \in 1 .. N /\ (k + 1) - 1 = k /\ Barred(v, k, f[k])
    BY <1>2, <1>4
  <2>2. IsStep(v, U, G, f[k], f[k + 1], k + 1)
    BY <1>1, <2>1
  <2> QED
    BY <2>1, <2>2, BarredStep DEF N
<1>5. \A k \in Nat : k \in T
  <2>1. \A k \in Nat : k \in T => k + 1 \in T
    BY <1>4
  <2> HIDE DEF T
  <2> QED
    BY <1>3, <2>1, NatInductionOnSets
<1>6. Barred(v, N, f[N])
  <2>1. N <= N
    BY <1>2
  <2> QED
    BY <1>2, <1>5, <2>1
<1> QED
  BY <1>1, <1>6 DEF N
(* Where there is a step of a gradient in one of the rows of bars, the     *)
(* good points are in them.                                                *)
LEMMA GoodRows ==
  ASSUME NEW v, ViewSound(v), Rising(v.scale, v.stats), NEW d \in Nat,
         GetY(d, v.stats, v.scale, v.size) \in Rows(v), NEW i \in Good(v)
  PROVE  CellOf(v, i)[2] \in Rows(v)
<1> DEFINE y(e) == GetY(e, v.stats, v.scale, v.size)
           e == v.points[i].duration
           h == v.size.h
<1>1. h \in Nat /\ v.stats \in StatsType /\ h \in Nat \ {0}
      /\ Summary(v.stats, v.points, 1, Len(v.points))
  BY DEF ViewSound
<1>2. i \in 1 .. Len(v.points) /\ ~v.points[i].dropped
  BY DEF Good
<1>3. e \in Nat
  <2>1. v.points[i] \in PointType
    BY <1>2 DEF ViewSound
  <2> QED
    BY <2>1 DEF PointType
<1>4. v.stats.min <= e /\ e <= v.stats.max
  BY <1>1, <1>2 DEF Summary
<1>5. v.stats.min <= v.stats.max
  BY CellFacts
<1>6. h >= 4
  BY <1>1 DEF Rows
<1>7. Ranges(v.scale, v.stats)
  <2> SUFFICES ASSUME ~Ranges(v.scale, v.stats) PROVE FALSE
    OBVIOUS
  <2>1. y(d) = LeastInt
    BY DEF GetY, Normalized, Ranges
  <2>2. LeastInt \notin Rows(v)
    BY <1>1 DEF LeastInt, Rows
  <2> QED
    BY <2>1, <2>2
<1>8. y(e) \in 2 .. h - 2
  BY <1>1, <1>3, <1>4, <1>5, <1>6, <1>7, GetYFacts
<1> QED
  BY <1>8 DEF CellOf, Rows

(* In a frame that is read from left to right, with times that go on, a    *)
(* gradient in the column of a loss ends in it.                            *)
LEMMA GradientBeside ==
  ASSUME NEW v, ViewSound(v), Rising(v.scale, v.stats), Roomy(v), InOrder(v),
         NEW i \in Lost(v), NEW row, <<ColumnOf(v, i), row>> \in GradientCells(v)
  PROVE  /\ \E d \in Nat : row = GetY(d, v.stats, v.scale, v.size)
         /\ \E j \in Good(v) : ColumnOf(v, j) = ColumnOf(v, i)
<1> DEFINE N == Len(v.points)
           x(k) == ColumnOf(v, k)
<1>1. PICK j \in Pairs(v) : \E k \in 1 .. Len(Glyphs(v, j)) : <<x(i), row>> = StepsTo(v, j)[k]
  BY DEF GradientCells
<1>0. PICK k \in 1 .. Len(Glyphs(v, j)) : <<x(i), row>> = StepsTo(v, j)[k]
  BY <1>1
<1>2. k \in 1 .. Len(StepsTo(v, j))
  <2>1. /\ Len(StepsTo(v, j)) \in Nat /\ Len(Glyphs(v, j)) \in Nat
        /\ Len(Glyphs(v, j)) <= Len(StepsTo(v, j))
    BY GlyphsFacts
  <2> QED
    BY <2>1
<1>3. PICK t \in Nat, d \in Nat : IsBetween(v, j, StepsTo(v, j)[k], t, d)
  BY <1>2, StepCells
<1> DEFINE l == j - 1
           g == GoodGroup(v, j)
           a == v.points[l].time
           b == v.points[j].time
<1>4. /\ j \in Good(v) /\ l \in Good(v) /\ j \in 1 .. N /\ l \in 1 .. N
      /\ v.points[l] \in PointType /\ v.points[j] \in PointType
      /\ g \in 1 .. Len(v.axis) /\ GoodGroup(v, l) = g
      /\ Holds(v.axis, g, a) /\ Holds(v.axis, g, b)
  BY PairFacts
<1>5. a \in Int /\ b \in Int /\ t \in Int
  BY <1>4 DEF PointType
<1>6. g = v.place[j] /\ g = v.place[l]
  BY <1>4, GoodGroupIsPlace
<1>7. N \in Nat /\ i \in 1 .. N /\ i \notin Good(v)
  BY DEF ViewSound, Lost
<1>8. row = GetY(d, v.stats, v.scale, v.size) /\ x(i) = GetX(t, v.axis[g], v.size)
  BY <1>0, <1>3 DEF IsBetween, Translate
<1>9. /\ t \in MinOf(a, b) .. MaxOf(a, b)
  BY <1>3 DEF IsBetween
<1>10. a <= b
  <2>1. l \in 1 .. N - 1 /\ l + 1 = j
    BY <1>4, <1>7
  <2> QED
    BY <2>1 DEF InOrder
<1>11. x(l) = GetX(a, v.axis[g], v.size) /\ x(j) = GetX(b, v.axis[g], v.size)
  BY <1>6 DEF ColumnOf, GroupOf
<1>12. \A k1, k2 \in 1 .. N : k1 <= k2 => x(k1) <= x(k2)
  <2> TAKE k1, k2 \in 1 .. N
  <2> HAVE k1 <= k2
  <2>1. Before(v, k1, k2)
    BY InOrderBefore
  <2> QED
    BY <2>1, TimesRunRight
<1>13. \A k1 \in 1 .. N : x(k1) \in Int
  <2>1. \A k1 \in 1 .. N : ColumnOf(v, k1) \in 1 .. v.size.w
    BY CellFacts
  <2>2. v.size.w \in Nat
    BY DEF ViewSound
  <2> QED
    BY <2>1, <2>2
<1>17. l + 1 = j /\ l \in Int
  BY <1>4, <1>7
<1>18. v.axis[g].time.begin \in Int /\ v.axis[g].time.end \in Int
  BY <1>4 DEF ViewSound, PlacedSound, TimesSound
<1> HIDE DEF l, a, b, g, x, N
<1>14. a <= t /\ t <= b
  BY <1>5, <1>9, <1>10 DEF MinOf, MaxOf
<1>15. SpanContains(v.axis[g].time, t)
  BY <1>4, <1>5, <1>14, <1>18 DEF Holds, SpanContains
<1>16. x(l) <= x(i) /\ x(i) <= x(j)
  <2> DEFINE size == v.size
             axis == v.axis
  <2>1. size.w \in Nat /\ size.w >= 9 /\ PlacedSound(axis, size.w) /\ axis[g].startX < size.w
        /\ g \in 1 .. Len(axis)
    BY <1>4 DEF ViewSound, Roomy
  <2>2. SpanContains(axis[g].time, a) /\ SpanContains(axis[g].time, b) /\ SpanContains(axis[g].time, t)
    BY <1>4, <1>15 DEF Holds
  <2>3. x(l) = GetX(a, axis[g], size) /\ x(j) = GetX(b, axis[g], size)
        /\ x(i) = GetX(t, axis[g], size)
    BY <1>8, <1>11
  <2> HIDE DEF size, axis
  <2>4. GetX(a, axis[g], size) <= GetX(t, axis[g], size)
    BY <1>5, <1>14, <2>1, <2>2, RoomyColumns
  <2>5. GetX(t, axis[g], size) <= GetX(b, axis[g], size)
    BY <1>5, <1>14, <2>1, <2>2, RoomyColumns
  <2> QED
    BY <2>3, <2>4, <2>5
<1>19. i # j /\ i # l
  BY <1>4, <1>7
<1>20. CASE i <= l
  <2>1. x(i) <= x(l) /\ x(i) \in Int /\ x(l) \in Int
    BY <1>4, <1>7, <1>12, <1>13, <1>20
  <2>2. x(l) = x(i)
    BY <1>16, <2>1
  <2> QED
    BY <1>4, <1>8, <2>2 DEF x
<1>21. CASE j <= i
  <2>1. x(j) <= x(i) /\ x(i) \in Int /\ x(j) \in Int
    BY <1>4, <1>7, <1>12, <1>13, <1>21
  <2>2. x(j) = x(i)
    BY <1>16, <2>1
  <2> QED
    BY <1>4, <1>8, <2>2 DEF x
<1> QED
  BY <1>4, <1>7, <1>17, <1>19, <1>20, <1>21

(* So a loss is not covered by gradients alone.                            *)
LEMMA WindowBarred ==
  ASSUME NEW v, ViewSound(v), Rising(v.scale, v.stats)
  PROVE  BarsShown(v, Window(v), [i \in 1 .. Len(v.points) |-> ColumnOf(v, i)])
<1> DEFINE N == Len(v.points)
           U == (Int \X Int) \cup GradientCells(v)
           G == {"none"} \cup GlyphsOf(v)
           before == Points(v)
           win == Window(v)
           x == [i \in 1 .. N |-> ColumnOf(v, i)]
           rows == Rows(v)
<1>1. before \in WindowType(U, G) /\ Shown(v, N, before)
  <2>1. "none" \in G /\ Int \X Int \subseteq U
    OBVIOUS
  <2> HIDE DEF U, G
  <2> QED
    BY <2>1, PointsShown
<1>2. IsGradients(before, win, GradientCells(v))
  <2>1. GradientCells(v) \subseteq U /\ GlyphsOf(v) \subseteq G
    OBVIOUS
  <2>2. win = Gradients(v, before)
    BY DEF Window
  <2> HIDE DEF U, G, win, before
  <2> QED
    BY <1>1, <2>1, <2>2, GradientsFacts
<1>3. Barred(v, N, before)
  BY PointsBarred
<1>4. N \in Nat /\ Good(v) \subseteq 1 .. N /\ Lost(v) \subseteq 1 .. N
      /\ \A i \in 1 .. N : i <= N
  <2>1. N \in Nat
    BY DEF ViewSound
  <2> QED
    BY <2>1 DEF Good, Lost
<1>5. \A i \in 1 .. N : x[i] = ColumnOf(v, i)
  OBVIOUS
<1> HIDE DEF U, G, win, before, N, x, rows
<1>6. \A c : (Has(before, c) => Has(win, c)) /\ (Standing(before, c) => win.cells[c].kind # "filler")
  <2> TAKE c
  <2>1. \/ Kept(before, win, c)
        \/ /\ Has(win, c) /\ win.cells[c].kind = "gradient"
           /\ Has(before, c) => before.cells[c].kind \notin {"label", "point"}
    BY <1>2 DEF IsGradients
  <2> QED
    BY <2>1 DEF Kept, Standing
<1>7. ASSUME NEW i \in Lost(v)
      PROVE  /\ \A row \in rows : Standing(before, <<x[i], row>>)
             /\ i - 1 \in Lost(v) => \A c \in Between(x[i - 1], x[i]) \X rows : Has(win, c)
  <2>1. i <= N /\ x[i] = ColumnOf(v, i) /\ (i - 1 \in Lost(v) => x[i - 1] = ColumnOf(v, i - 1))
    BY <1>4, <1>5
  <2> QED
    BY <1>3, <1>6, <2>1 DEF Barred, rows
<1>8. ASSUME NEW i \in Lost(v), Roomy(v), InOrder(v), rows # {},
             \A row \in rows : win.cells[<<x[i], row>>].kind = "gradient"
      PROVE  FALSE
  <2>0. x[i] = ColumnOf(v, i)
    BY <1>4, <1>5
  <2>1. ASSUME NEW row \in rows
        PROVE  ~(Has(before, <<x[i], row>>) /\ before.cells[<<x[i], row>>].kind \in {"label", "point"})
    <3> DEFINE c == <<x[i], row>>
    <3>1. win.cells[c].kind = "gradient"
      BY <1>8
    <3> HIDE DEF c
    <3>2. \/ Kept(before, win, c)
          \/ Has(before, c) => before.cells[c].kind \notin {"label", "point"}
      BY <1>2 DEF IsGradients
    <3>3. ~(Has(before, c) /\ before.cells[c].kind \in {"label", "point"})
      BY <3>1, <3>2 DEF Kept
    <3> QED
      BY <3>3 DEF c
  <2>2. PICK row \in rows : TRUE
    BY <1>8
  <2>3. <<x[i], row>> \in GradientCells(v)
    <3> DEFINE c == <<x[i], row>>
    <3>1. Standing(before, c) /\ win.cells[c].kind = "gradient"
          /\ ~(Has(before, c) /\ before.cells[c].kind \in {"label", "point"})
      BY <1>7, <1>8, <2>1
    <3> HIDE DEF c
    <3>2. c \notin GradientCells(v) => Kept(before, win, c)
      BY <1>2 DEF IsGradients
    <3>3. ~Kept(before, win, c)
      BY <3>1 DEF Kept, Standing
    <3>4. c \in GradientCells(v)
      BY <3>2, <3>3
    <3> QED
      BY <3>4 DEF c
  <2>4. PICK d \in Nat, j \in Good(v) :
          row = GetY(d, v.stats, v.scale, v.size) /\ ColumnOf(v, j) = ColumnOf(v, i)
    <3>1. <<ColumnOf(v, i), row>> \in GradientCells(v)
      BY <2>0, <2>3
    <3>2. /\ \E d \in Nat : row = GetY(d, v.stats, v.scale, v.size)
          /\ \E j \in Good(v) : ColumnOf(v, j) = ColumnOf(v, i)
      BY <1>8, <3>1, GradientBeside
    <3> QED
      BY <3>2
  <2>5. CellOf(v, j)[2] \in rows
    <3>1. GetY(d, v.stats, v.scale, v.size) \in Rows(v)
      BY <2>2, <2>4 DEF rows
    <3> QED
      BY <3>1, GoodRows DEF rows
  <2>6. CellOf(v, j) = <<x[i], CellOf(v, j)[2]>>
    BY <2>0, <2>4 DEF CellOf
  <2> DEFINE c == CellOf(v, j)
  <2>7. Has(before, c) /\ before.cells[c].kind \in {"label", "point"}
    <3>1. j \in Here(v, N, c)
      BY <1>4 DEF Here
    <3>2. ShownAt(before, c, Cardinality(Here(v, N, c)))
      BY <1>1, <3>1 DEF Shown
    <3> QED
      BY <3>2 DEF ShownAt, Labelled
  <2> HIDE DEF c
  <2>8. c = <<x[i], c[2]>> /\ c[2] \in rows
    BY <2>5, <2>6 DEF c
  <2> QED
    BY <2>1, <2>7, <2>8
<1>9. ASSUME NEW i \in Lost(v)
      PROVE  /\ \A row \in rows : Has(win, <<x[i], row>>) /\ win.cells[<<x[i], row>>].kind # "filler"
             /\ Roomy(v) /\ InOrder(v) /\ rows # {} =>
                  \E row \in rows : win.cells[<<x[i], row>>].kind # "gradient"
             /\ i - 1 \in Lost(v) => \A c \in Between(x[i - 1], x[i]) \X rows : Has(win, c)
  <2>1. \A row \in rows : Has(before, <<x[i], row>>)
    BY <1>7 DEF Standing
  <2>2. \A row \in rows : Has(win, <<x[i], row>>) /\ win.cells[<<x[i], row>>].kind # "filler"
    BY <1>6, <1>7, <2>1
  <2>3. Roomy(v) /\ InOrder(v) /\ rows # {} =>
          \E row \in rows : win.cells[<<x[i], row>>].kind # "gradient"
    BY <1>8
  <2> QED
    BY <1>7, <2>2, <2>3
<1>10. BarsShown(v, win, x)
  BY <1>9 DEF BarsShown, rows, Rows
<1> QED
  BY <1>10 DEF win, x, N
LEMMA GraphBarred ==
  ASSUME GraphInv
  PROVE  LossIsShown
<1> SUFFICES ASSUME Framed \/ FramedLosses, NEW v \in Windowed
             PROVE  BarsShown(v, Window(v), [i \in 1 .. Len(v.points) |-> ColumnOf(v, i)])
  BY DEF LossIsShown
<1>1. v \in Views
  BY DEF Windowed
<1>2. ViewSound(v) /\ Rising(v.scale, v.stats)
  BY <1>1, FramesOf
<1> QED
  BY <1>2, WindowBarred

(* Every lost packet is seen: by its bar or by what ranks before it from   *)
(* top to bottom, not by fillers and, while times go on, not by gradients  *)
(* alone; and from one loss to the next no column is left blank, for any   *)
(* size of the terminal, any times and any number of points and groups     *)
(* (drawWindow.addDroppedBar, addGradient, computeFrame).                  *)
THEOREM LossIsShownHolds == Spec => []LossIsShown
BY GraphInductive, GraphBarred, PTL
-----------------------------------------------------------------------------
(* Everything is drawn inside the terminal                                 *)

(* The powers of two.                                                      *)
LEMMA TwoToFacts ==
  ASSUME NEW N \in Nat
  PROVE  /\ TwoTo(0) = 1 /\ \A i \in 0 .. N : TwoTo(i) \in Nat
         /\ \A i \in 1 .. N : TwoTo(i) = 2 * TwoTo(i - 1)
<1> DEFINE step == [z \in Nat \X (1 .. N) |-> 2 * z[1]]
           Solves(h, n) == h = [i \in 0 .. n |-> IF i = 0 THEN 1 ELSE 2 * h[i - 1]]
           one == 1
<1>1. \A n \in Nat : TwoTo(n) = (CHOOSE h : Solves(h, n))[n]
  BY DEF TwoTo
<1>2. step \in [Nat \X (1 .. N) -> Nat] /\ \A m \in Nat, i \in 1 .. N : step[<<m, i>>] = 2 * m
  OBVIOUS
<1> HIDE DEF step
<1>3. PICK f : Iterates(f, N, Nat, one, step)
  <2>1. one \in Nat
    OBVIOUS
  <2> HIDE DEF one
  <2> QED
    BY <1>2, <2>1, Recursion
<1>4. /\ f[0] = 1 /\ \A i \in 0 .. N : f[i] \in Nat
      /\ \A i \in 1 .. N : f[i] = 2 * f[i - 1]
  <2>1. \A i \in 1 .. N : i - 1 \in 0 .. N
    OBVIOUS
  <2> QED
    BY <1>2, <1>3, <2>1 DEF Iterates
<1>5. ASSUME NEW n \in 0 .. N
      PROVE  TwoTo(n) = f[n]
  <2> DEFINE at == CHOOSE h : Solves(h, n)
             g == [i \in 0 .. n |-> f[i]]
  <2>1. \A i \in 0 .. n : i = 0 \/ (i \in 1 .. N /\ i \in 1 .. n /\ i - 1 \in 0 .. n)
    OBVIOUS
  <2>2. Solves(g, n)
    <3>1. \A i \in 0 .. n : g[i] = f[i]
      OBVIOUS
    <3>2. g = [i \in 0 .. n |-> g[i]]
      OBVIOUS
    <3> HIDE DEF g
    <3>3. \A i \in 0 .. n : g[i] = IF i = 0 THEN 1 ELSE 2 * g[i - 1]
      BY <1>4, <2>1, <3>1
    <3> QED
      BY <3>2, <3>3
  <2>3. Solves(at, n)
    <3> HIDE DEF Solves, g
    <3> QED
      BY <2>2
  <2> HIDE DEF at
  <2> DEFINE V == {k \in Nat : k <= n => at[k] = f[k]}
  <2>4. 0 \in V
    BY <1>4, <2>3
  <2>5. ASSUME NEW k \in Nat, k \in V
        PROVE  k + 1 \in V
    <3> SUFFICES ASSUME k + 1 <= n PROVE at[k + 1] = f[k + 1]
      OBVIOUS
    <3>1. k + 1 \in 0 .. n /\ k + 1 \in 1 .. N /\ k + 1 # 0 /\ (k + 1) - 1 = k /\ at[k] = f[k]
      BY <2>5
    <3>2. at[k + 1] = 2 * at[k]
      BY <2>3, <3>1
    <3> QED
      BY <1>4, <3>1, <3>2
  <2>6. at[n] = f[n]
    <3>1. \A k \in Nat : k \in V => k + 1 \in V
      BY <2>5
    <3>2. Nat \subseteq V
      <4> HIDE DEF V
      <4> QED
        BY <2>4, <3>1, NatInductionOnSets
    <3> QED
      BY <3>2
  <2> QED
    BY <1>1, <2>6 DEF at
<1>6. \A i \in 1 .. N : i \in 0 .. N /\ i - 1 \in 0 .. N
  OBVIOUS
<1>7. 0 \in 0 .. N
  OBVIOUS
<1> QED
  BY <1>4, <1>5, <1>6, <1>7

(* They grow, faster than the numbers.                                     *)
LEMMA TwoToGrows ==
  /\ \A n \in Nat : TwoTo(n) \in Nat \ {0} /\ TwoTo(n + 1) = 2 * TwoTo(n) /\ n < TwoTo(n)
  /\ \A m, n \in Nat : m <= n => TwoTo(m) <= TwoTo(n)
<1>1. ASSUME NEW n \in Nat
      PROVE  TwoTo(n) \in Nat /\ TwoTo(n + 1) = 2 * TwoTo(n) /\ TwoTo(0) = 1
  <2>1. n + 1 \in Nat /\ n \in 0 .. n + 1 /\ n + 1 \in 1 .. n + 1 /\ (n + 1) - 1 = n
    OBVIOUS
  <2> DEFINE N == n + 1
  <2>2. /\ TwoTo(0) = 1 /\ \A i \in 0 .. N : TwoTo(i) \in Nat
        /\ \A i \in 1 .. N : TwoTo(i) = 2 * TwoTo(i - 1)
    <3> HIDE DEF N
    <3>1. N \in Nat
      BY <2>1 DEF N
    <3> QED
      BY <3>1, TwoToFacts
  <2> QED
    BY <2>1, <2>2
<1> DEFINE T == {n \in Nat : n < TwoTo(n)}
<1>2. \A n \in Nat : n \in T
  <2>1. 0 \in T
    <3>1. 0 \in Nat
      OBVIOUS
    <3> QED
      BY <1>1, <3>1
  <2>2. ASSUME NEW n \in Nat, n \in T
        PROVE  n + 1 \in T
    <3>1. TwoTo(n) \in Nat /\ TwoTo(n + 1) = 2 * TwoTo(n) /\ n < TwoTo(n)
      BY <1>1, <2>2
    <3> QED
      BY <3>1
  <2>3. \A n \in Nat : n \in T => n + 1 \in T
    BY <2>2
  <2> HIDE DEF T
  <2> QED
    BY <2>1, <2>3, NatInductionOnSets
<1>3. \A n \in Nat : TwoTo(n) \in Nat \ {0} /\ TwoTo(n + 1) = 2 * TwoTo(n) /\ n < TwoTo(n)
  <2> TAKE n \in Nat
  <2>1. TwoTo(n) \in Nat /\ TwoTo(n + 1) = 2 * TwoTo(n) /\ n < TwoTo(n)
    BY <1>1, <1>2
  <2> QED
    BY <2>1
<1>4. ASSUME NEW m \in Nat, NEW n \in Nat, m <= n
      PROVE  TwoTo(m) <= TwoTo(n)
  <2> DEFINE G == {k \in Nat : TwoTo(m) <= TwoTo(m + k)}
  <2>1. 0 \in G
    <3>1. m + 0 = m /\ TwoTo(m) \in Nat
      BY <1>3
    <3> QED
      BY <3>1
  <2>2. ASSUME NEW k \in Nat, k \in G
        PROVE  k + 1 \in G
    <3>1. m + k \in Nat /\ m + (k + 1) = (m + k) + 1
      OBVIOUS
    <3>2. TwoTo(m + k) \in Nat /\ TwoTo((m + k) + 1) = 2 * TwoTo(m + k) /\ TwoTo(m) \in Nat
          /\ TwoTo(m) <= TwoTo(m + k)
      BY <1>3, <2>2, <3>1
    <3>3. TwoTo(m) <= TwoTo((m + k) + 1)
      BY <3>2
    <3> QED
      BY <3>1, <3>3
  <2>3. \A k \in Nat : k \in G
    <3>1. \A k \in Nat : k \in G => k + 1 \in G
      BY <2>2
    <3> HIDE DEF G
    <3> QED
      BY <2>1, <3>1, NatInductionOnSets
  <2>4. n - m \in Nat /\ m + (n - m) = n
    BY <1>4
  <2>5. n - m \in G
    BY <2>3, <2>4
  <2> QED
    BY <2>4, <2>5
<1> QED
  BY <1>3, <1>4
(* The power of two a number is from, and the part of the way to the next. *)
LogIs(n, power, part) ==
  /\ TwoTo(power) <= n /\ n < 2 * TwoTo(power)
  /\ part = (LogUnit * (n - TwoTo(power))) \div TwoTo(power)
  /\ Log(n) = LogUnit * power + part

LEMMA LogFacts ==
  ASSUME NEW n \in Nat \ {0}
  PROVE  \E power \in Nat, part \in 0 .. LogUnit - 1 : LogIs(n, power, part)
<1> DEFINE Is(e) == TwoTo(e) <= n /\ n < TwoTo(e + 1)
           power == CHOOSE e \in 0 .. n : Is(e)
           T == {e \in Nat : n < TwoTo(e + 1)}
<1>1. \E e \in 0 .. n : Is(e)
  <2>1. n \in T
    <3>1. n < TwoTo(n) /\ TwoTo(n + 1) = 2 * TwoTo(n) /\ TwoTo(n) \in Nat
      BY TwoToGrows
    <3> QED
      BY <3>1
  <2>2. PICK e \in T : \A d \in T : e <= d
    <3>1. T \in SUBSET Nat /\ T # {}
      BY <2>1
    <3> HIDE DEF T
    <3> QED
      BY <3>1, LeastNatural
  <2>3. e \in 0 .. n /\ n < TwoTo(e + 1)
    BY <2>1, <2>2
  <2>4. TwoTo(e) <= n
    <3>1. CASE e = 0
      <4>1. TwoTo(0) = 1
        <5>1. 0 \in Nat
          OBVIOUS
        <5> QED
          BY <5>1, TwoToFacts
      <4> QED
        BY <3>1, <4>1
    <3>2. CASE e # 0
      <4>0. e \in Nat /\ e - 1 \in Nat /\ (e - 1) + 1 = e /\ ~(e <= e - 1)
        BY <2>3, <3>2
      <4>1. TwoTo(e) \in Nat
        BY <4>0, TwoToGrows
      <4>2. e - 1 \notin T
        BY <2>2, <4>0
      <4>3. ~(n < TwoTo(e))
        BY <4>0, <4>2
      <4> QED
        BY <4>1, <4>3
    <3> QED
      BY <3>1, <3>2
  <2> QED
    BY <2>3, <2>4
<1>2. power \in 0 .. n /\ Is(power)
  <2> HIDE DEF Is
  <2> QED
    BY <1>1
<1>3. Log(n) = LogUnit * power + (LogUnit * (n - TwoTo(power))) \div TwoTo(power)
  BY DEF Log
<1> HIDE DEF power
<1> DEFINE t == TwoTo(power)
           a == LogUnit * (n - t)
           part == a \div t
<1>4. power \in Nat /\ t \in Nat \ {0} /\ t <= n /\ n < 2 * t
  <2>1. power \in Nat
    BY <1>2
  <2>2. t \in Nat \ {0} /\ TwoTo(power + 1) = 2 * t
    BY <2>1, TwoToGrows
  <2> QED
    BY <1>2, <2>1, <2>2
<1>5. LogUnit \in Nat \ {0}
  BY FrameAssumption
<1>6. part \in 0 .. LogUnit - 1
  <2> HIDE DEF t
  <2> DEFINE c == n - t
             b == t - c
  <2>1. c \in Nat /\ b \in Nat \ {0} /\ c = t - b
    BY <1>4
  <2>2. a = LogUnit * c
    OBVIOUS
  <2> HIDE DEF a, b, c
  <2>3. LogUnit * c \in Nat /\ LogUnit * b \in Nat \ {0} /\ LogUnit * c = LogUnit * t - LogUnit * b
        /\ LogUnit * t \in Nat /\ (LogUnit - 1 + 1) * t = LogUnit * t
    BY <1>4, <1>5, <2>1
  <2>4. a \in Int /\ a >= 0 * t /\ a < (LogUnit - 1 + 1) * t
    BY <1>4, <2>2, <2>3
  <2>5. part \in Int
    BY <1>4, <2>4, DivisionFacts
  <2> DEFINE low == 0
             top == LogUnit - 1
  <2>6. low \in Int /\ top \in Int /\ a >= low * t /\ a < (top + 1) * t /\ low = 0
    BY <1>5, <2>4
  <2> HIDE DEF low, top
  <2>7. part >= low /\ part <= top
    BY <1>4, <2>4, <2>6, DivisionBounds
  <2> HIDE DEF part
  <2> QED
    BY <2>5, <2>6, <2>7 DEF top
<1>7. LogIs(n, power, part)
  BY <1>3, <1>4 DEF LogIs
<1> HIDE DEF part, t
<1> QED
  BY <1>4, <1>6, <1>7

(* A multiple of the unit and a part of it.                                *)
LEMMA MultipleFacts ==
  ASSUME NEW u \in Nat, NEW p \in Nat, NEW q \in Nat, p < q
  PROVE  u * p \in Nat /\ u * q \in Nat /\ u * p + u <= u * q
<1> DEFINE d == q - p - 1
<1>1. d \in Nat /\ q = p + d + 1
  OBVIOUS
<1> HIDE DEF d
<1>2. u * d \in Nat /\ u * p \in Nat
  BY <1>1
<1>3. u * (p + d + 1) = u * p + u * d + u
  BY <1>1
<1> QED
  BY <1>1, <1>2, <1>3

(* Larger numbers have larger logarithms; strictly, if one is double the   *)
(* other or no larger than what logarithms are known so finely for.        *)
LEMMA LogRises ==
  ASSUME NEW m \in Nat \ {0}, NEW n \in Nat \ {0}, m <= n
  PROVE  /\ Log(m) \in Int /\ Log(n) \in Int /\ Log(m) <= Log(n)
         /\ m < n /\ (2 * m <= n \/ m <= LogUnit) => Log(m) < Log(n)
<1> DEFINE u == LogUnit
<1>1. u \in Nat \ {0}
  BY FrameAssumption
<1>2. PICK p \in Nat, r \in 0 .. u - 1 : LogIs(m, p, r)
  BY LogFacts
<1>3. PICK q \in Nat, s \in 0 .. u - 1 : LogIs(n, q, s)
  BY LogFacts
<1> DEFINE a == TwoTo(p)
           b == TwoTo(q)
           x == u * (m - a)
           y == u * (n - b)
<1>4. a <= m /\ m < 2 * a /\ r = x \div a /\ Log(m) = u * p + r
  BY <1>2 DEF LogIs
<1>5. b <= n /\ n < 2 * b /\ s = y \div b /\ Log(n) = u * q + s
  BY <1>3 DEF LogIs
<1>6. a \in Nat \ {0} /\ b \in Nat \ {0} /\ TwoTo(q + 1) = 2 * b
  BY TwoToGrows
<1>7. ~(q < p)
  <2> SUFFICES ASSUME q < p PROVE FALSE
    OBVIOUS
  <2>1. q + 1 <= p /\ q + 1 \in Nat
    OBVIOUS
  <2>2. TwoTo(q + 1) <= a
    BY <2>1, TwoToGrows
  <2> HIDE DEF a, b
  <2> QED
    BY <1>4, <1>5, <1>6, <2>2
<1> HIDE DEF u, a, b, x, y
<1>8. Log(m) \in Int /\ Log(n) \in Int
  <2>1. u * p \in Int /\ u * q \in Int /\ r \in Int /\ s \in Int
    BY <1>1
  <2> QED
    BY <1>4, <1>5, <2>1
<1>9. CASE p < q
  <2>1. u * p \in Nat /\ u * q \in Nat /\ u * p + u <= u * q
    BY <1>1, <1>9, MultipleFacts
  <2>2. r \in Nat /\ r < u /\ s \in Nat
    BY <1>1
  <2> HIDE DEF u
  <2>3. Log(m) < Log(n)
    <3> DEFINE up == u * p
               uq == u * q
    <3>1. up \in Nat /\ uq \in Nat /\ up + u <= uq /\ Log(m) = up + r /\ Log(n) = uq + s
      BY <1>4, <1>5, <2>1
    <3> HIDE DEF up, uq
    <3> QED
      BY <1>1, <2>2, <3>1
  <2> QED
    BY <1>8, <2>3
<1>10. CASE p = q
  <2>1. a = b
    BY <1>10 DEF a, b
  <2> DEFINE c == m - a
             d == n - m
             z == u * d
  <2>2. c \in Nat /\ d \in Nat /\ n - b = c + d /\ m < 2 * a /\ m = a + c /\ n = a + c + d /\ n < 2 * a
    BY <1>4, <1>5, <1>6, <2>1
  <2>3. x = u * c /\ y = u * (c + d)
    BY <2>2 DEF x, y
  <2> HIDE DEF c, d
  <2>4. u * c \in Nat /\ z \in Nat /\ u * (c + d) = u * c + z
    BY <1>1, <2>2
  <2>5. x \in Nat /\ y \in Nat /\ y = x + z
    BY <2>3, <2>4
  <2>6. d # 0 => u <= z
    <3>1. CASE d # 0
      <4>1. d - 1 \in Nat /\ d \in Nat
        BY <2>2, <3>1
      <4>2. u * (d - 1) \in Nat /\ u * (d - 1) = u * d - u
        BY <1>1, <4>1
      <4> QED
        BY <1>1, <2>4, <4>2
    <3> QED
      BY <3>1
  <2> HIDE DEF z
  <2>7. r \in Int /\ r * a <= x /\ s \in Int
    <3>1. x \in Int
      BY <2>5
    <3> QED
      BY <1>1, <1>4, <1>6, <3>1, DivisionFacts
  <2>8. \A k \in Int : s >= k <=> y >= k * a
    <3> TAKE k \in Int
    <3>1. y \in Int
      BY <2>5
    <3> QED
      BY <1>5, <1>6, <2>1, <3>1, DivisionBounds
  <2>9. s >= r
    <3>1. r * a \in Int
      BY <1>6, <2>7
    <3>2. y >= r * a
      BY <2>5, <2>4, <2>7, <3>1
    <3> QED
      BY <2>7, <2>8, <3>2
  <2>10. ASSUME m < n, m <= u
         PROVE  s >= r + 1
    <3>1. d # 0 /\ a <= u
      BY <1>1, <1>4, <1>6, <2>2, <2>10
    <3>2. a <= z
      BY <1>1, <1>6, <2>4, <2>6, <3>1
    <3>3. (r + 1) * a = r * a + a /\ r * a \in Int
      BY <1>6, <2>7
    <3>4. y >= (r + 1) * a
      BY <1>6, <2>4, <2>5, <2>7, <3>2, <3>3
    <3>5. r + 1 \in Int
      BY <2>7
    <3> QED
      BY <2>8, <3>4, <3>5
  <2>11. ~(m < n /\ 2 * m <= n)
    BY <1>4, <1>6, <2>2
  <2>12. u * p \in Int /\ Log(m) = u * p + r /\ Log(n) = u * p + s
    BY <1>1, <1>4, <1>5, <1>10
  <2>13. Log(m) <= Log(n)
    BY <2>7, <2>9, <2>12
  <2>14. m < n /\ (2 * m <= n \/ m <= LogUnit) => Log(m) < Log(n)
    <3>1. ASSUME m < n, m <= LogUnit PROVE Log(m) < Log(n)
      <4>1. s >= r + 1
        BY <2>10, <3>1 DEF u
      <4> QED
        BY <2>7, <2>12, <4>1
    <3> QED
      BY <2>11, <3>1
  <2> QED
    BY <1>8, <2>13, <2>14
<1> QED
  BY <1>7, <1>9, <1>10
(* Both scales rise and tell their bounds apart, the linear one if not all *)
(* round trips are nought, the logarithmic one if none is, nor are all one *)
(* unit; and no row is found if that is not so.                            *)
LEMMA ScalesRise ==
  ASSUME NEW stats \in StatsType, stats.min <= stats.max, stats.min <= LogUnit,
         NEW scale \in Scales, stats.max > 0,
         scale = "logarithmic" => stats.min > 0 /\ stats.max > 1
  PROVE  Rising(scale, stats) /\ Ranges(scale, stats)
<1> DEFINE b == EffectiveYBounds(stats)
<1>1. stats.min \in Nat /\ stats.max \in Nat /\ LogUnit \in Nat
  BY FrameAssumption DEF StatsType
<1>2. /\ b.min \in Nat /\ b.max \in Nat \ {0} /\ b.min < b.max
      /\ 2 * b.min <= b.max \/ b.min <= LogUnit
      /\ scale = "logarithmic" => b.min # 0
  <2>1. CASE stats.min # stats.max
    <3>1. b.min = stats.min /\ b.max = stats.max
      BY <2>1 DEF EffectiveYBounds
    <3> QED
      BY <1>1, <2>1, <3>1
  <2>2. CASE stats.min = stats.max
    <3>1. b.min = stats.min \div 2 /\ b.max = stats.min * 2
      BY <2>2 DEF EffectiveYBounds
    <3>2. \A m \in Nat : m \div 2 \in Nat /\ 2 * (m \div 2) <= m /\ m <= 2 * (m \div 2) + 1
      OBVIOUS
    <3>3. b.min \in Nat /\ 2 * b.min <= stats.min /\ stats.min <= 2 * b.min + 1
      BY <1>1, <3>1, <3>2
    <3>4. stats.min > 0 /\ (scale = "logarithmic" => stats.min > 1)
      BY <1>1, <2>2
    <3> HIDE DEF b
    <3> QED
      BY <1>1, <3>1, <3>3, <3>4
  <2> QED
    BY <2>1, <2>2
<1>3. scale = "linear" \/ scale = "logarithmic"
  BY DEF Scales
<1> HIDE DEF b
<1>4. \A m \in b.min .. b.max : m \in Nat /\ (scale = "logarithmic" => m \in Nat \ {0})
  BY <1>2
<1>5. CASE scale = "linear"
  <2>1. \A m : Scaled(scale, m) = m
    BY <1>5 DEF Scaled
  <2>2. Rising(scale, stats)
    BY <1>4, <2>1 DEF Rising, b
  <2>3. Ranges(scale, stats)
    BY <1>2, <1>5, <2>1 DEF Ranges, b
  <2> QED
    BY <2>2, <2>3
<1>6. CASE scale = "logarithmic"
  <2>1. \A m : Scaled(scale, m) = Log(m)
    BY <1>6 DEF Scaled
  <2>2. ASSUME NEW m \in b.min .. b.max, NEW n \in b.min .. b.max
        PROVE  Log(m) \in Int /\ (m <= n => Log(m) <= Log(n))
    <3>1. m \in Nat \ {0} /\ n \in Nat \ {0} /\ m <= m
      BY <1>4, <1>6
    <3>2. Log(m) \in Int
      BY <3>1, LogRises
    <3>3. m <= n => Log(m) <= Log(n)
      BY <3>1, LogRises
    <3> QED
      BY <3>2, <3>3
  <2>3. Rising(scale, stats)
    BY <2>1, <2>2 DEF Rising, b
  <2>4. b.min <= b.max
    BY <1>2
  <2>5. Log(b.min) < Log(b.max) /\ Log(b.min) \in Int /\ Log(b.max) \in Int
    BY <1>2, <1>6, <2>4, LogRises
  <2>6. Ranges(scale, stats)
    BY <1>2, <1>6, <2>1, <2>5 DEF Ranges, b
  <2> QED
    BY <2>3, <2>6
<1> QED
  BY <1>3, <1>5, <1>6

LEMMA NoRows ==
  ASSUME NEW stats \in StatsType, stats.min <= stats.max, NEW scale \in Scales,
         ~(stats.max > 0 /\ (scale = "logarithmic" => stats.min > 0 /\ stats.max > 1)),
         NEW d, NEW size
  PROVE  GetY(d, stats, scale, size) = LeastInt
<1> DEFINE b == EffectiveYBounds(stats)
<1>1. stats.min \in Nat /\ stats.max \in Nat
  BY DEF StatsType
<1>2. IF stats.min # stats.max THEN b.min = stats.min /\ b.max = stats.max
      ELSE b.min = stats.min \div 2 /\ b.max = stats.min * 2
  BY DEF EffectiveYBounds
<1> HIDE DEF b
<1>3. CASE stats.max > 0
  <2>1. scale = "logarithmic" /\ b.min = 0
    BY <1>1, <1>2, <1>3
  <2> QED
    BY <2>1 DEF GetY, b
<1>4. CASE ~(stats.max > 0)
  <2>1. b.min = 0 /\ b.max = 0
    BY <1>1, <1>2, <1>4
  <2>2. Normalized(Scaled(scale, d), Scaled(scale, b.min), Scaled(scale, b.max),
                   MaxOf(1, size.h - 2), MinOf(2, size.h)) = LeastInt
    BY <2>1 DEF Normalized
  <2> QED
    BY <2>2 DEF GetY, b
<1> QED
  BY <1>3, <1>4

(* Good points keep the round trips they were given, also after a restart. *)
RoundTrips == \A i \in 1 .. Len(points) : points[i].dropped \/ points[i].duration <= LogUnit

LEMMA RoundTripsInductive == Spec => []RoundTrips
<1>1. Init => RoundTrips
  BY DEF Init, RoundTrips
<1>2. GraphInv /\ RoundTrips /\ [Next]_vars => RoundTrips'
  <2> SUFFICES ASSUME GraphInv, RoundTrips, [Next]_vars PROVE RoundTrips'
    OBVIOUS
  <2>0. points \in Seq(PointType)
    BY DEF GraphInv
  <2>1. ASSUME NEW p \in NewPoints, AddPoint(p) PROVE RoundTrips'
    <3>1. points' = Append(points, p) /\ (p.dropped \/ p.duration <= LogUnit)
          /\ p \in PointType
      BY <2>1, NewPointType, FrameAssumption DEF AddPoint
    <3>2. /\ Len(points') = Len(points) + 1 /\ Len(points) \in Nat
          /\ points'[Len(points) + 1] = p
          /\ \A i \in 1 .. Len(points) : points'[i] = points[i]
      BY <2>0, <3>1
    <3>3. \A i \in 1 .. Len(points') : i \in 1 .. Len(points) \/ i = Len(points) + 1
      BY <3>2
    <3> QED
      BY <3>1, <3>2, <3>3 DEF RoundTrips
  <2>2. CASE Reopen
    <3>1. points' = [i \in 1 .. Len(points) |-> Reread(points[i])] /\ Len(points) \in Nat
      BY <2>0, <2>2 DEF Reopen
    <3>2. Len(points') = Len(points)
      BY <3>1
    <3>3. \A i \in 1 .. Len(points) : /\ points'[i].dropped = points[i].dropped
                                       /\ points'[i].duration = points[i].duration
      <4> TAKE i \in 1 .. Len(points)
      <4>1. points[i] \in PointType /\ points'[i] = Reread(points[i])
        BY <2>0, <3>1
      <4> QED
        BY <4>1 DEF Reread, PointType
    <3> QED
      BY <3>2, <3>3 DEF RoundTrips
  <2>3. CASE UNCHANGED vars
    BY <2>3 DEF vars, RoundTrips
  <2> QED
    BY <2>1, <2>2, <2>3 DEF Next
<1> QED
  BY <1>1, <1>2, GraphInductive, PTL DEF Spec

(* What is needed to draw inside the terminal.                             *)
LEMMA InsideFacts ==
  ASSUME NEW v, ViewSound(v),
         Good(v) # {} => Rising(v.scale, v.stats) /\ Ranges(v.scale, v.stats)
  PROVE  DrawnInside(v)
<1> DEFINE size == v.size
           InRow(d) == GetY(d, v.stats, v.scale, size) \in 1 .. size.h
<1>1. /\ v.stats \in StatsType /\ size.h \in Nat \ {0} /\ size.w \in Nat \ {0}
      /\ PlacedSound(v.axis, size.w)
  BY DEF ViewSound
<1>2. /\ \A i \in 1 .. Len(v.points) : ColumnOf(v, i) \in 1 .. size.w
      /\ Len(v.points) \in Nat \ {0} /\ Good(v) \subseteq 1 .. Len(v.points)
  BY ColumnFacts
<1>3. \A i \in Good(v) : /\ v.points[i].time \in Nat /\ v.points[i].duration \in Nat
                         /\ v.stats.min <= v.points[i].duration
                         /\ v.points[i].duration <= v.stats.max
                         /\ v.stats.min <= v.stats.max
  BY ColumnFacts
<1>4. ASSUME NEW d \in Nat, v.stats.min <= d, d <= v.stats.max, Good(v) # {},
             v.stats.min <= v.stats.max
      PROVE  InRow(d)
  BY <1>1, <1>4, GetYFacts
<1>5. \A i \in Lost(v) : ColumnOf(v, i) \in 1 .. size.w
  BY <1>2 DEF Lost
<1> HIDE DEF size, InRow
<1>6. \A i \in Good(v) : CellOf(v, i) \in (1 .. size.w) \X (1 .. size.h)
  <2> TAKE i \in Good(v)
  <2>1. InRow(v.points[i].duration)
    BY <1>3, <1>4
  <2>2. ColumnOf(v, i) \in 1 .. size.w
    BY <1>2
  <2> QED
    BY <2>1, <2>2 DEF CellOf, InRow, size
<1>7. ASSUME NEW i \in Pairs(v), NEW k \in 1 .. Len(StepsTo(v, i))
      PROVE  StepsTo(v, i)[k] \in (1 .. size.w) \X (1 .. size.h)
  <2> DEFINE p == v.points[i - 1]
             q == v.points[i]
             g == GoodGroup(v, i)
  <2>1. /\ i \in Good(v) /\ i - 1 \in Good(v) /\ g \in 1 .. Len(v.axis)
        /\ Holds(v.axis, g, p.time) /\ Holds(v.axis, g, q.time)
    BY PairFacts
  <2>2. Rising(v.scale, v.stats)
    BY <2>1
  <2>3. PICK t \in Nat, d \in Nat : IsBetween(v, i, StepsTo(v, i)[k], t, d)
    BY <2>2, StepCells
  <2>4. /\ p.time \in Nat /\ p.duration \in Nat /\ q.time \in Nat /\ q.duration \in Nat
        /\ v.stats.min <= p.duration /\ p.duration <= v.stats.max
        /\ v.stats.min <= q.duration /\ q.duration <= v.stats.max
        /\ v.stats.min <= v.stats.max /\ v.stats.min \in Nat /\ v.stats.max \in Nat
    BY <1>1, <1>3, <2>1 DEF StatsType
  <2>5. /\ t \in MinOf(p.time, q.time) .. MaxOf(p.time, q.time)
        /\ d \in MinOf(p.duration, q.duration) .. MaxOf(p.duration, q.duration)
        /\ StepsTo(v, i)[k] = Translate(v, g, t, d)
    BY <2>3 DEF IsBetween
  <2>6. v.axis[g].time.begin \in Int /\ v.axis[g].time.end \in Int
    BY <1>1, <2>1 DEF PlacedSound, TimesSound
  <2> HIDE DEF p, q, g
  <2>7. v.stats.min <= d /\ d <= v.stats.max
    BY <2>4, <2>5 DEF MinOf, MaxOf
  <2>8. SpanContains(v.axis[g].time, t)
    <3>1. /\ v.axis[g].time.begin <= p.time /\ p.time <= v.axis[g].time.end
          /\ v.axis[g].time.begin <= q.time /\ q.time <= v.axis[g].time.end
      BY <2>1 DEF Holds, SpanContains
    <3>2. v.axis[g].time.begin <= t /\ t <= v.axis[g].time.end
      BY <2>4, <2>5, <2>6, <3>1 DEF MinOf, MaxOf
    <3> QED
      BY <3>2 DEF SpanContains
  <2>9. InRow(d)
    BY <1>4, <2>1, <2>4, <2>7
  <2>10. GetX(t, v.axis[g], size) \in 1 .. size.w
    <3>1. t \in Int
      OBVIOUS
    <3> QED
      BY <1>1, <2>1, <2>8, <3>1, GetXFacts
  <2> QED
    BY <2>5, <2>9, <2>10 DEF Translate, InRow, size
<1>8. ASSUME NEW i \in Pairs(v)
      PROVE  Range(StepsTo(v, i)) \subseteq (1 .. size.w) \X (1 .. size.h)
  <2>1. DOMAIN StepsTo(v, i) = 1 .. Len(StepsTo(v, i))
    <3>1. i \in Good(v)
      BY PairFacts
    <3>2. Rising(v.scale, v.stats)
      BY <3>1
    <3>3. PICK square \in Nat :
           LET g == GoodGroup(v, i)
               p == v.points[i - 1]
               q == v.points[i]
               halves == Root(4 * square)
               short == {k \in 1 .. halves : (2 * k + 1) * (2 * k + 1) < 4 * square}
           IN  /\ halves \in Nat /\ IsFiniteSet(short) /\ Cardinality(short) \in 0 .. halves
               /\ IsSteps(v, g, p, q, halves, Cardinality(short), StepsTo(v, i))
      BY <3>2, StepsToFacts
    <3>4. \E S : StepsTo(v, i) \in Seq(S)
      BY <3>3 DEF IsSteps
    <3> QED
      BY <3>4
  <2> QED
    BY <1>7, <2>1 DEF Range
<1> QED
  BY <1>5, <1>6, <1>8 DEF DrawnInside, InTerminal, size

(* The scale of a view is a field of it and nothing else depends on it.    *)
LEMMA ScaleOfView ==
  ASSUME NEW size, NEW from, NEW scale, NEW follow, NEW axis, NEW iter
  PROVE  [ViewOf(size, from, follow, axis, iter) EXCEPT !.scale = scale]
           = ViewOf(size, scale, follow, axis, iter)
<1> DEFINE shown == [i \in 1 .. iter.total |-> PointAt(iter, i - 1)]
           place == Places(axis, iter)
           stats == IF follow THEN axis[1].stats ELSE AllStats
           of(s) == [size |-> size, scale |-> s, axis |-> axis, points |-> shown,
                     place |-> place, stats |-> stats]
<1>1. ViewOf(size, from, follow, axis, iter) = of(from)
  BY DEF ViewOf
<1>2. ViewOf(size, scale, follow, axis, iter) = of(scale)
  BY DEF ViewOf
<1>3. [of(from) EXCEPT !.scale = scale] = of(scale)
  <2> HIDE DEF shown, place, stats
  <2> QED
    OBVIOUS
<1> HIDE DEF of
<1> QED
  BY <1>1, <1>2, <1>3

LEMMA GraphInside ==
  ASSUME GraphInv, RoundTrips
  PROVE  InsideTerminal
<1> SUFFICES ASSUME Framed, NEW linear \in Views, NEW scale \in Scales
             PROVE  LET v == [linear EXCEPT !.scale = scale]
                    IN  /\ \A i \in 1 .. Len(v.points) : ColumnOf(v, i) \in 1 .. v.size.w
                        /\ IF HasRows(v) THEN DrawnInside(v)
                           ELSE \A i \in Good(v) : CellOf(v, i)[2] \notin 1 .. v.size.h
  BY DEF InsideTerminal
<1>1. PICK size \in Sizes, follow \in BOOLEAN : linear = View(size, "linear", follow)
  BY DEF Views
<1> DEFINE v == View(size, scale, follow)
<1>2. [linear EXCEPT !.scale = scale] = v
  BY <1>1, ScaleOfView DEF View
<1>3. Drawn
  BY FrameAssumption DEF Framed, Drawn
<1>4. /\ ViewSound(v) /\ v.scale = scale
      /\ \A i \in 1 .. Len(v.points) : \E k \in 1 .. Len(points) : v.points[i] = points[k]
  BY <1>3, ViewFacts
<1> HIDE DEF v
<1>5. /\ v.stats \in StatsType /\ Summary(v.stats, v.points, 1, Len(v.points))
      /\ v.size.h \in Nat
  BY <1>4 DEF ViewSound
<1>6. ASSUME NEW j \in Good(v)
      PROVE  v.stats.min <= v.stats.max /\ v.stats.min <= LogUnit
  <2>1. j \in 1 .. Len(v.points) /\ ~v.points[j].dropped
    BY DEF Good
  <2>2. v.stats.good # 0
    BY <1>5, <2>1 DEF Summary
  <2>3. PICK i \in 1 .. Len(v.points) : ~v.points[i].dropped /\ v.points[i].duration = v.stats.min
    BY <1>5, <2>2 DEF Summary
  <2>4. v.stats.min <= LogUnit
    BY <1>4, <2>3 DEF RoundTrips
  <2>5. v.stats.min <= v.stats.max
    BY <1>4, ColumnFacts
  <2> QED
    BY <2>4, <2>5
<1>7. ASSUME HasRows(v) PROVE DrawnInside(v)
  <2>1. ASSUME Good(v) # {}
        PROVE  Rising(v.scale, v.stats) /\ Ranges(v.scale, v.stats)
    <3>1. /\ v.stats.max > 0
          /\ scale = "logarithmic" => v.stats.min > 0 /\ v.stats.max > 1
      BY <1>4, <1>7 DEF HasRows
    <3>2. v.stats.min <= v.stats.max /\ v.stats.min <= LogUnit
      BY <1>6, <2>1
    <3>3. Rising(scale, v.stats) /\ Ranges(scale, v.stats)
      BY <1>5, <3>1, <3>2, ScalesRise
    <3> QED
      BY <1>4, <3>3
  <2> QED
    BY <1>4, <2>1, InsideFacts
<1>8. ASSUME ~HasRows(v), NEW i \in Good(v)
      PROVE  CellOf(v, i)[2] \notin 1 .. v.size.h
  <2>1. ~(v.stats.max > 0 /\ (scale = "logarithmic" => v.stats.min > 0 /\ v.stats.max > 1))
    BY <1>4, <1>8 DEF HasRows
  <2>2. CellOf(v, i)[2] = LeastInt
    BY <1>4, <1>5, <1>6, <2>1, NoRows DEF CellOf
  <2> QED
    BY <1>5, <2>2 DEF LeastInt
<1>9. \A i \in 1 .. Len(v.points) : ColumnOf(v, i) \in 1 .. v.size.w
  BY <1>4, ColumnFacts
<1> QED
  BY <1>2, <1>7, <1>8, <1>9

(* All points have columns in the terminal, whatever its size, the scale   *)
(* and the points are; good points, losses and the steps of gradients have *)
(* cells in it if the y axis has a length, one datum in a group, equal     *)
(* times and equal round trips included, and if it has none the good       *)
(* points have no row of it: the case in which the check of a frame fails  *)
(* is just that of HasRows (getX, getY, drawGradient).                     *)
THEOREM InsideTerminalHolds == Spec => []InsideTerminal
<1>1. GraphInv /\ RoundTrips => InsideTerminal
  BY GraphInside
<1> QED
  BY <1>1, GraphInductive, RoundTripsInductive, PTL
=============================================================================
