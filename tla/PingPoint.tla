------------------------------ MODULE PingPoint ------------------------------
(***************************************************************************)
(* The points that are recorded: ping.PingResults as graph/data keeps them *)
(* in memory and in a file.                                                *)
(***************************************************************************)
EXTENDS Integers

CONSTANTS
  IPs,        (* addresses, as naturals in the order of ipOrdering         *)
  Resolution  (* one millisecond, in units of a timestamp                  *)

ASSUME PointAssumption ==
  /\ IPs \subseteq Nat \ {0}
  /\ Resolution \in Nat \ {0}

NilIP == -1    (* a PingResults without an address, as a DNS failure has   *)
ZeroIP == 0    (* net.IPv6zero                                             *)

(* A dropped point has a DropReason; its duration is zero.                 *)
Point == [ip: IPs \cup {NilIP}, time: Nat, duration: Nat, dropped: BOOLEAN]

(* Network.AddPoint: an address is kept in its 16 byte form, its absence   *)
(* as the zero address.                                                    *)
To16(ip) == IF ip = NilIP THEN ZeroIP ELSE ip

Recorded(p) == [p EXCEPT !.ip = To16(p.ip)]
RecordedPoint == [ip: IPs \cup {ZeroIP}, time: Nat, duration: Nat, dropped: BOOLEAN]

(* writeTime: a timestamp loses what is below the millisecond; a duration  *)
(* is written exactly.                                                     *)
OnDisk(t) == t - (t % Resolution)
Reread(p) == [p EXCEPT !.time = OnDisk(p.time)]
=============================================================================
