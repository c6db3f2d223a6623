------------------------------ MODULE MCFrame --------------------------------
(* The instance of Frame that is model-checked: a terminal without room for *)
(* an axis or a bar, one whose bars have one cell, a small one, one with    *)
(* room for two spans and labels within them.                               *)
EXTENDS Frame

RoundTripsAt ==
  (0 :> {0, 20}) @@ (20 :> {50}) @@ (40 :> {1, 20}) @@ (200 :> {50, 80})

(* Good points at one of four times, good ones of a few round trips: nought *)
(* and one nanosecond, which the y axis may have no length for, and three   *)
(* others, so that one is neither the best nor the worst.                   *)
ThePoints ==
  [time: {0, 20, 40, 200}, duration: {0}, dropped: {TRUE}]
    \cup UNION {[time: {t}, duration: RoundTripsAt[t], dropped: {FALSE}] : t \in DOMAIN RoundTripsAt}

TheSizes ==
  {[w |-> 5, h |-> 3], [w |-> 12, h |-> 4], [w |-> 13, h |-> 6], [w |-> 42, h |-> 8]}
=============================================================================
