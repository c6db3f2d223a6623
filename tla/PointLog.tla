------------------------------ MODULE PointLog ------------------------------
(***************************************************************************)
(* What graph/data promises: the points are a log.  Adding one appends it  *)
(* and leaves the others, and writing the data to a file and reading it    *)
(* back loses only what a timestamp has below the millisecond.             *)
(***************************************************************************)
EXTENDS PingPoint, Sequences

VARIABLE points

Init == points = <<>>

Add ==
  LET p == points'[Len(points) + 1]
  IN  /\ Len(points') = Len(points) + 1
      /\ p \in RecordedPoint
      /\ points' = Append(points, p)

Reopen == points' = [i \in 1 .. Len(points) |-> Reread(points[i])]

Next == Add \/ Reopen

Spec == Init /\ [][Next]_points
=============================================================================
