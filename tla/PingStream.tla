----------------------------- MODULE PingStream -----------------------------
(***************************************************************************)
(* What the channel returned by CreateChannel and CreateFlexibleChannel    *)
(* promises its reader (ping/api.go): every ping that is started puts one  *)
(* result on the channel, and no other ping starts before that; between    *)
(* two pings there may be reports of a failed resolution; results come out *)
(* in the order they went in; the channel is closed once, only after the   *)
(* context is done and never with a ping unreported, and nothing follows.  *)
(***************************************************************************)
EXTENDS Naturals, Sequences

CONSTANTS
  Outcomes,   (* the results a ping may have                               *)
  Unresolved, (* the result that reports a failed resolution               *)
  Capacity    (* of the channel                                            *)

VARIABLES
  stream,     (* the results sent and not yet read                         *)
  started,    (* whether a ping is started and unreported                  *)
  done,       (* whether the context is done                               *)
  ended       (* whether the channel is closed                             *)

vars == <<stream, started, done, ended>>

Init ==
  /\ stream = <<>>
  /\ started = FALSE /\ done = FALSE /\ ended = FALSE

Start ==
  /\ ~started /\ ~ended
  /\ started' = TRUE
  /\ UNCHANGED <<stream, done, ended>>

(* A result reaches the reader through the buffer, or directly when the    *)
(* channel has none.                                                       *)
Put(r) ==
  IF Capacity = 0
  THEN UNCHANGED stream
  ELSE Len(stream) < Capacity /\ stream' = Append(stream, r)

(* A ping that fails before a request is sent is started and decided in    *)
(* one step, and reported in a later one like any other.                   *)
Report(r) ==
  /\ started /\ ~ended
  /\ Put(r)
  /\ started' = FALSE
  /\ UNCHANGED <<done, ended>>

ReportUnresolved ==
  /\ ~started /\ ~ended
  /\ Put(Unresolved)
  /\ UNCHANGED <<started, done, ended>>

Take ==
  /\ stream # <<>>
  /\ stream' = Tail(stream)
  /\ UNCHANGED <<started, done, ended>>

Finish ==
  /\ done /\ ~started /\ ~ended
  /\ ended' = TRUE
  /\ UNCHANGED <<stream, started, done>>

Cancel ==
  /\ ~done
  /\ done' = TRUE
  /\ UNCHANGED <<stream, started, ended>>

Next ==
  \/ Start \/ ReportUnresolved \/ Take \/ Finish \/ Cancel
  \/ \E r \in Outcomes : Report(r)

Spec == Init /\ [][Next]_vars
=============================================================================
