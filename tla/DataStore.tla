----------------------------- MODULE DataStore ------------------------------
(***************************************************************************)
(* The record of a session, data.Data of graph/data/data.go.  The points   *)
(* are kept in one block per address; InsertOrder says in which order they *)
(* came, Network which block an address has.  Header, Runs and the headers *)
(* of the blocks are statistics kept up to date with every point.          *)
(*                                                                         *)
(* A session ends and another goes on with the same file: Reopen is the    *)
(* AsCompact of one program and the FromCompact and migrate of the next,   *)
(* the first of any version of the format.                                 *)
(* Indexes are 0-based as in the code.                                     *)
(***************************************************************************)
EXTENDS PingPoint, Statistics, Sequences, FiniteSets

CONSTANTS
  Times,      (* bound: the timestamps of new points                       *)
  Durations,  (* bound: the round trips                                    *)
  MaxPoints   (* bound: how many points are recorded                       *)

ASSUME StoreAssumption ==
  Times \subseteq Nat /\ Durations \subseteq Nat /\ MaxPoints \in Nat

VARIABLES
  ips,      (* Network.IPs                                                 *)
  indexes,  (* Network.BlockIndexes                                        *)
  cur,      (* Network.curBlockIndex                                       *)
  blocks,   (* Blocks                                                      *)
  order,    (* InsertOrder                                                 *)
  total,    (* TotalCount                                                  *)
  header,   (* Header                                                      *)
  runs      (* Runs                                                        *)

vars == <<ips, indexes, cur, blocks, order, total, header, runs>>

NewPoints ==
  [ip: IPs \cup {NilIP}, time: Times, duration: Durations, dropped: {FALSE}]
    \cup [ip: IPs \cup {NilIP}, time: Times, duration: {0}, dropped: {TRUE}]

-----------------------------------------------------------------------------
(* The network: a sorted sequence of addresses and the block of each.      *)

(* slices.BinarySearchFunc, on a sorted sequence.                          *)
Position(ip) == Cardinality({i \in 1 .. Len(ips) : ips[i] < ip})
Found(ip) == \E i \in 1 .. Len(ips) : ips[i] = ip

(* Mutant: a new address is put last, as if they came in order.            *)
InsertedLast(s, i, x) == Append(s, x)

Inserted(s, i, x) ==
  [j \in 1 .. Len(s) + 1 |-> IF j <= i THEN s[j] ELSE IF j = i + 1 THEN x ELSE s[j - 1]]

(* Mutant: the position of an address is taken for its block.              *)
BlockAtPosition(ip) == IF Found(ip) THEN Position(ip) ELSE cur

(* Network.AddPoint: the block of the address, which is one past the last  *)
(* block for an address not seen before.                                   *)
BlockOf(ip) == IF Found(ip) THEN indexes[Position(ip) + 1] ELSE cur

NetworkAdd(ip) ==
  IF Found(ip)
  THEN UNCHANGED <<ips, indexes, cur>>
  ELSE /\ ips' = Inserted(ips, Position(ip), ip)
       /\ indexes' = Inserted(indexes, Position(ip), cur)
       /\ cur' = cur + 1

(* Data.Get *)
Get(i) == blocks[order[i].block + 1].raw[order[i].raw + 1]

(* slices.Index, for an element that is there.                             *)
FirstPlace(s, x) ==
  CHOOSE j \in 1 .. Len(s) : s[j] = x /\ \A m \in 1 .. j - 1 : s[m] # x

(* Mutant: a block is taken for the position of its address.               *)
IPAtBlock(block) == ips[block + 1]

(* Data.GetFull: the address is found back through the network.            *)
IPOf(block) == ips[FirstPlace(indexes, block)]

GetFull(i) ==
  [ip |-> IPOf(order[i].block),
   time |-> Get(i).time, duration |-> Get(i).duration, dropped |-> Get(i).dropped]

Points == [i \in 1 .. Len(order) |-> GetFull(i)]

-----------------------------------------------------------------------------
NewBlock == [header |-> NoHeader, raw |-> <<>>]

Init ==
  /\ ips = <<>> /\ indexes = <<>> /\ cur = 0
  /\ blocks = <<>> /\ order = <<>> /\ total = 0
  /\ header = NoHeader /\ runs = NoRuns

(* Block.AddPoint *)
DataOf(p) == [time |-> p.time, duration |-> p.duration, dropped |-> p.dropped]
BlockAdd(b, p) == [header |-> HeaderAdd(b.header, p), raw |-> Append(b.raw, DataOf(p))]

(* The blocks, with a new one if the address is in none of them.           *)
Grown(b) == IF b >= Len(blocks) THEN Append(blocks, NewBlock) ELSE blocks

(* Data.AddPoint *)
AddTo(b, p) ==
  /\ blocks' = [Grown(b) EXCEPT ![b + 1] = BlockAdd(@, p)]
  /\ order' = Append(order, [block |-> b, raw |-> Len(Grown(b)[b + 1].raw)])

Add(p) ==
  /\ total < MaxPoints
  /\ NetworkAdd(To16(p.ip))
  /\ AddTo(BlockOf(To16(p.ip)), p)
  /\ header' = HeaderAdd(header, p)
  /\ runs' = RunsAdd(runs, total, p)
  /\ total' = total + 1

(* The versions of the format.                                             *)
Versions == {"noRuns", "runsWithNoIndex", "current"}

(* migrate: the runs of every point, in insertion order.                   *)
Recomputed ==
  LET upTo[n \in 0 .. total] ==
        IF n = 0 THEN NoRuns ELSE RunsAdd(upTo[n - 1], n - 1, Get(n))
  IN  upTo[total]

Migrated(v) == IF v = "current" THEN runs ELSE Recomputed

HeaderOnDisk(h) ==
  [h EXCEPT !.span = [begin |-> OnDisk(@.begin), end |-> OnDisk(@.end), duration |-> @.duration]]

(* What a file gives back of the blocks.                                   *)
BlocksOnDisk ==
  [b \in 1 .. Len(blocks) |->
     [header |-> HeaderOnDisk(blocks[b].header),
      raw |-> [i \in 1 .. Len(blocks[b].raw) |-> Reread(blocks[b].raw[i])]]]

Reopen(v) ==
  /\ blocks' = BlocksOnDisk
  /\ header' = HeaderOnDisk(header)
  /\ runs' = Migrated(v)
  /\ UNCHANGED <<ips, indexes, cur, order, total>>

Next ==
  \/ \E p \in NewPoints : Add(p)
  \/ \E v \in Versions : Reopen(v)

Spec == Init /\ [][Next]_vars

-----------------------------------------------------------------------------
(* Properties                                                              *)

Stats == [min: Nat, max: Nat, sum: Nat, good: Nat, dropped: Nat]
Header == [stats: Stats, span: [begin: Nat, end: Nat, duration: Nat]]
Run == [longest: Nat, current: Nat, lastIndex: Nat]
Raw == [time: Nat, duration: Nat, dropped: BOOLEAN]
StoredIPs == IPs \cup {ZeroIP}

(* The fields of data.Data (graph/data/data.go:22) have their types.       *)
TypeOK ==
  /\ ips \in Seq(StoredIPs) /\ indexes \in Seq(Nat) /\ cur \in Nat
  /\ blocks \in Seq([header: Header, raw: Seq(Raw)])
  /\ order \in Seq([block: Nat, raw: Nat]) /\ total \in Nat
  /\ header \in Header /\ runs \in [good: Run, dropped: Run]

(* The binary search of the network is sound, for ever after any sequence  *)
(* of insertions: the addresses are sorted, each has a block of its own,   *)
(* every block has an address, and the next block to be handed out is the  *)
(* one addBlock appends (Network.AddPoint, Data.AddPoint).                 *)
NetworkSound ==
  /\ Len(indexes) = Len(ips) /\ cur = Len(ips) /\ Len(blocks) = Len(ips)
  /\ \A i, j \in 1 .. Len(ips) : i < j => ips[i] < ips[j]
  /\ \A i \in 1 .. Len(indexes) : indexes[i] < cur
  /\ \A i, j \in 1 .. Len(indexes) : i # j => indexes[i] # indexes[j]
  /\ \A b \in 0 .. cur - 1 : \E i \in 1 .. Len(indexes) : indexes[i] = b

Log == INSTANCE PointLog WITH points <- Points

(* The blocks, the network and the insertion order, hidden, are the log    *)
(* they stand for: no point is ever lost, overwritten, reordered or given  *)
(* to another address, however those of several addresses interleave and   *)
(* however often the file is reopened.                                     *)
KeepsLog == Log!Spec

(* The log grows by the point that was given, with its own address, which  *)
(* the binary search must not have found another block for                 *)
(* (Network.AddPoint, Data.AddPoint, Data.GetFull).                        *)
RecordsWhatArrives ==
  [][\A p \in NewPoints : Add(p) => Points' = Append(Points, Recorded(p))]_vars

(* h describes the points of s: counts and extremes; from the first good   *)
(* one on, its span is the smallest that covers them, and its duration is  *)
(* that of the span but for what a file loses of its ends.                 *)
Describes(h, s) ==
  LET good == {i \in 1 .. Len(s) : ~s[i].dropped}
      times == {s[i].time : i \in {j \in 1 .. Len(s) : \E g \in good : g <= j}}
      durations == {s[i].duration : i \in good}
      off == h.span.duration - (h.span.end - h.span.begin)
  IN  /\ h.stats.good = Cardinality(good)
      /\ h.stats.dropped = Len(s) - Cardinality(good)
      /\ good # {} =>
           /\ h.stats.min \in durations /\ \A d \in durations : h.stats.min <= d
           /\ h.stats.max \in durations /\ \A d \in durations : d <= h.stats.max
           /\ h.span.begin \in times /\ \A t \in times : h.span.begin <= t
           /\ h.span.end \in times /\ \A t \in times : t <= h.span.end
      /\ off < Resolution /\ -off < Resolution

(* The statistics kept up to date point by point, for the session and for  *)
(* each block, are those of the points, also after points were added to a  *)
(* reopened file (Header.AddPoint, Stats.AddPoint, TimeSpan.AddTimestamp). *)
StatisticsAgree ==
  /\ Describes(header, Points)
  /\ \A b \in 1 .. Len(blocks) : Describes(blocks[b].header, blocks[b].raw)

(* r describes the streaks of points whose dropped flag is kind: the       *)
(* longest, where it first ended, and the one going on.                    *)
RunDescribes(r, kind) ==
  LET streak(i, n) == n <= i /\ \A j \in i - n + 1 .. i : Points[j].dropped = kind
      n == Len(order)
  IN  /\ streak(n, r.current) /\ ~streak(n, r.current + 1)
      /\ r.longest > 0 => streak(r.lastIndex + 1, r.longest)
      /\ \A i \in 1 .. n : ~streak(i, r.longest + 1)
      /\ \A i \in 1 .. r.lastIndex : r.longest > 0 => ~streak(i, r.longest)

(* The streaks kept up to date point by point and those a migration        *)
(* recomputes from the blocks are both the streaks of the points (Run.Inc, *)
(* Runs.AddPoint, migrate).                                                *)
RunsAgree == RunDescribes(runs.good, FALSE) /\ RunDescribes(runs.dropped, TRUE)
=============================================================================
