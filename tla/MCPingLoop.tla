----------------------------- MODULE MCPingLoop -----------------------------
(* Instances of PingLoop for TLC.                                          *)
EXTENDS PingLoop

CONSTANTS a1, a2, b1

MCFamily == [a \in Addrs |-> IF a = b1 THEN "v6" ELSE "v4"]

(* The resolver answers with two addresses of a family, in one order or in *)
(* any, with one of each family, or with a single one.                     *)
TwoV4    == [v4 |-> <<a1, a2>>, v6 |-> <<>>]
TwoV4Swapped == [v4 |-> <<a2, a1>>, v6 |-> <<>>]
OneV4    == [v4 |-> <<a1>>, v6 |-> <<>>]
OneEach  == [v4 |-> <<a1>>, v6 |-> <<b1>>]

AnswersV4   == {TwoV4}
AnswersBoth == {TwoV4, TwoV4Swapped}
AnswersDual == {OneEach, OneV4}

(* The instances are ones that the theorems of PingLoopProofs speak of.    *)
ASSUME HypothesesHold == AnswersDistinct /\ NumbersSuffice
=============================================================================
