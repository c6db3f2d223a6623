----------------------------- MODULE SessionFile -----------------------------
(***************************************************************************)
(* The bytes of a session's file: what graph/data writes for the record of *)
(* DataStore, what it makes of any file it is given, and what              *)
(* files.LoadOrCreateFile accepts.  A file is a sequence of bytes; an      *)
(* integer is IntLen digits of base Base, least significant first, as 8    *)
(* digits of base 256 are in the code.  An address, 16 bytes in the code,  *)
(* is one byte.                                                            *)
(*                                                                         *)
(* The fixed part of a file holds every length, the variable part follows  *)
(* and ends with the URL.  A session writes its file over the one it read, *)
(* from the start and in one go; a crash leaves the first bytes of the new *)
(* file and the last of the old one.                                       *)
(***************************************************************************)
EXTENDS DataStore, SequencesExt

CONSTANTS
  Base, IntLen,  (* an integer is IntLen digits of base Base               *)
  URL,           (* the bytes of the address that is pinged                *)
  FilePoints     (* bound: how many points the files looked at have        *)

ASSUME FileAssumption ==
  /\ Base \in Nat \ {0, 1} /\ IntLen \in Nat \ {0} /\ FilePoints \in Nat
  /\ URL \in Seq(Nat) /\ URL # <<>>

(* How many values an integer of a file has: it holds every number of a    *)
(* record of so many points, their sum of durations included.              *)
Limit ==
  LET power[d \in 0 .. IntLen] == IF d = 0 THEN 1 ELSE Base * power[d - 1]
  IN  power[IntLen]

ASSUME NumbersFit ==
  /\ FilePoints < Limit /\ Len(URL) < Limit /\ \A t \in Times : t < Limit
  /\ \A d \in Durations : d < Limit /\ FilePoints * d < Limit

(* The identifiers that open a record, and the byte of a version.          *)
ID == [TimeSpan |-> 1, Stats |-> 2, Block |-> 3, Header |-> 4,
       Data |-> 5, Network |-> 6, Runs |-> 7]
VersionByte == [noRuns |-> 1, runsWithNoIndex |-> 2, current |-> 3]

(* What each element of a sequence is written as, or read as.              *)
Each(Op(_), s) == [i \in 1 .. Len(s) |-> Op(s[i])]

-----------------------------------------------------------------------------
(* Writing.  A record is written field by field.                           *)

Num(n) ==
  LET rest[d \in 0 .. IntLen] == IF d = 0 THEN n ELSE rest[d - 1] \div Base
  IN  [d \in 1 .. IntLen |-> rest[d - 1] % Base]
Time(t) == Num(t \div Resolution)
Float == Num(0)   (* a statistic that is not modelled                      *)

SpanFields(span) ==
  <<<<ID.TimeSpan>>, Time(span.begin), Time(span.end), Num(span.duration)>>

StatsFields(s) ==
  <<<<ID.Stats>>, Num(s.min), Num(s.max), Num(s.sum), Num(s.good),
    Float, Float, Num(s.dropped), Float>>

HeaderFields(h) == <<<<ID.Header>>>> \o StatsFields(h.stats) \o SpanFields(h.span)

IPBytes(ip) == <<ip>>
NetworkData == FlattenSeq(Each(IPBytes, ips)) \o FlattenSeq(Each(Num, indexes))

BlockFields(b) == <<<<ID.Block>>, Num(Len(b.raw))>> \o HeaderFields(b.header)
BlockHeader(b) == FlattenSeq(BlockFields(b))

(* Mutant: the fields of a point are written in another order.             *)
RawBytesTimeFirst(p) ==
  FlattenSeq(<<Time(p.time), Num(p.duration), <<IF p.dropped THEN 1 ELSE 0>>>>)

(* writePingDataPoint                                                      *)
RawBytes(p) ==
  FlattenSeq(<<Num(p.duration), Time(p.time), <<IF p.dropped THEN 1 ELSE 0>>>>)
BlockData(b) == FlattenSeq(Each(RawBytes, b.raw))

(* The streaks, of which the first version had none.                       *)
RunsFields(v) ==
  CASE v = "noRuns" -> <<>>
    [] v = "runsWithNoIndex" ->
         <<<<ID.Runs>>, Num(runs.good.longest), Num(runs.good.current),
           Num(runs.dropped.longest), Num(runs.dropped.current)>>
    [] v = "current" ->
         <<<<ID.Runs>>, Num(runs.good.lastIndex), Num(runs.good.longest), Num(runs.good.current),
           Num(runs.dropped.lastIndex), Num(runs.dropped.longest), Num(runs.dropped.current)>>

IndexBytes(o) == FlattenSeq(<<Num(o.block), Num(o.raw)>>)

(* Lens in bytes, as serialisation.go adds them up.                        *)
TimeSpanLen == 1 + 3 * IntLen
StatsLen == 1 + 8 * IntLen
HeaderLen == 1 + TimeSpanLen + StatsLen
PointLen == 2 * IntLen + 1
RunsLen == 1 + 6 * IntLen
SliceLen(s, len) == IntLen + Len(s) * len
BlockLen(b) == 1 + HeaderLen + SliceLen(b.raw, PointLen)
BlockHeaderLen == 1 + HeaderLen + IntLen
NetworkLen == SliceLen(ips, 1) + SliceLen(indexes, IntLen) + IntLen + 1

(* Data.byteLen: the buffer Data.write fills.                              *)
ByteLen ==
  LET blocksLen[b \in 0 .. Len(blocks)] ==
        IF b = 0 THEN IntLen ELSE blocksLen[b - 1] + BlockLen(blocks[b])
  IN  1 + 1 + IntLen + RunsLen + HeaderLen + NetworkLen + IntLen + blocksLen[Len(blocks)]
        + SliceLen(order, 2 * IntLen) + SliceLen(URL, 1)

(* Data.write, and what the programs of older versions wrote.              *)
OpeningFields(v) == <<<<ID.Data>>, <<VersionByte[v]>>>>
LengthFields ==
  <<Num(Len(order)), Num(total), <<ID.Network>>, Num(cur), Num(Len(ips)), Num(Len(indexes)),
    Num(BlockHeaderLen), Num(Len(blocks))>>

Phase1(v) ==
  FlattenSeq(OpeningFields(v)) \o FlattenSeq(LengthFields)
    \o FlattenSeq(Each(BlockHeader, blocks)) \o Num(Len(URL))
    \o FlattenSeq(RunsFields(v)) \o FlattenSeq(HeaderFields(header))
Phase2 ==
  FlattenSeq(Each(IndexBytes, order)) \o NetworkData
    \o FlattenSeq(Each(BlockData, blocks)) \o URL
File(v) == Phase1(v) \o Phase2

-----------------------------------------------------------------------------
(* Reading.  A record is laid out once for all: the kinds of its fields,   *)
(* the place of each and its size.                                         *)

Width(kind) == IF kind \in {"int", "time"} THEN IntLen ELSE 1

Layout(kinds) ==
  LET at[i \in 0 .. Len(kinds)] == IF i = 0 THEN 0 ELSE at[i - 1] + Width(kinds[i])
  IN  [kinds |-> kinds, at |-> at, size |-> at[Len(kinds)]]

TimeSpanKinds == <<"TimeSpan", "time", "time", "int">>
StatsKinds == <<"Stats", "int", "int", "int", "int", "int", "int", "int", "int">>
HeaderKinds == <<"Header">> \o StatsKinds \o TimeSpanKinds

Opening == Layout(<<"Data", "byte">>)
Lengths == Layout(<<"int", "int", "Network", "int", "int", "int", "int", "int">>)
BlockRecord == Layout(<<"Block", "int">> \o HeaderKinds)
IntRecord == Layout(<<"int">>)
ByteRecord == Layout(<<"byte">>)
RunsRecord ==
  <<Layout(<<>>), Layout(<<"Runs", "int", "int", "int", "int">>),
    Layout(<<"Runs", "int", "int", "int", "int", "int", "int">>)>>
HeaderRecord == Layout(HeaderKinds)
PairRecord == Layout(<<"int", "int">>)
PointRecord == Layout(<<"int", "time", "byte">>)

(* readID of every record: it is in the file with its identifiers.  What   *)
(* is past the end or has another identifier is an error or a panic.       *)
Holds(f, at, record) ==
  /\ at + record.size <= Len(f)
  /\ \A i \in 1 .. Len(record.kinds) :
       record.kinds[i] \in DOMAIN ID => f[at + record.at[i - 1] + 1] = ID[record.kinds[i]]

Digits(f, at) ==
  LET first[d \in 0 .. IntLen] ==
        IF d = 0 THEN 0 ELSE Base * first[d - 1] + f[at + IntLen + 1 - d]
  IN  first[IntLen]

(* readInt, readTime, readByte, readIP                                     *)
Value(f, at, kind) ==
  CASE kind = "int"  -> Digits(f, at)
    [] kind = "time" -> Digits(f, at) * Resolution
    [] OTHER         -> f[at + 1]

Values(f, at, record) ==
  [i \in 1 .. Len(record.kinds) |-> Value(f, at + record.at[i - 1], record.kinds[i])]

(* n records that follow each other.                                       *)
AllHold(f, at, record, n) == \A i \in 0 .. n - 1 : Holds(f, at + i * record.size, record)
AllValues(f, at, record, n) == [i \in 1 .. n |-> Values(f, at + (i - 1) * record.size, record)]

(* The values of a record as the code names them, identifiers left out.    *)
HeaderFrom(v) ==
  [stats |-> [min |-> v[3], max |-> v[4], sum |-> v[5], good |-> v[6], dropped |-> v[9]],
   span  |-> [begin |-> v[12], end |-> v[13], duration |-> v[14]]]
PairFrom(v) == [block |-> v[1], raw |-> v[2]]
RawFrom(v) == [duration |-> v[1], time |-> v[2], dropped |-> v[3] # 0]
RunFrom(v) == [lastIndex |-> v[1], longest |-> v[2], current |-> v[3]]
LengthsFrom(v) ==
  [order |-> v[1], total |-> v[2], cur |-> v[4], ips |-> v[5], indexes |-> v[6], blocks |-> v[8]]

(* Where the parts of a file begin, of which the fixed part says how many  *)
(* there are in the variable part.                                         *)
Places(n, version) ==
  LET blocksAt == Opening.size + Lengths.size
      urlAt    == blocksAt + n.blocks * BlockRecord.size
      runsAt   == urlAt + IntRecord.size
      headerAt == runsAt + RunsRecord[version].size
      orderAt  == headerAt + HeaderRecord.size
      ipsAt    == orderAt + n.order * PairRecord.size
      indexesAt == ipsAt + n.ips * ByteRecord.size
  IN  [blocks |-> blocksAt, url |-> urlAt, runs |-> runsAt, header |-> headerAt,
       order |-> orderAt, ips |-> ipsAt, indexes |-> indexesAt,
       raws |-> indexesAt + n.indexes * IntRecord.size]

(* The points of each block, and after them the URL.                       *)
RawsAt(heads, from) ==
  LET at[b \in 0 .. Len(heads)] ==
        IF b = 0 THEN from ELSE at[b - 1] + heads[b][2] * PointRecord.size
  IN  at

(* Data.FromCompact: the version says how the fixed part is read.          *)
FixedHolds(f, n, at) ==
  /\ AllHold(f, at.blocks, BlockRecord, n.blocks) /\ Holds(f, at.url, IntRecord)
  /\ Holds(f, at.runs, RunsRecord[f[2]]) /\ Holds(f, at.header, HeaderRecord)

(* The URL is cut from a buffer that goes on after the end of the file,    *)
(* with zeros.                                                             *)
Text(f, at, len) == [i \in 1 .. len |-> IF at + i <= Len(f) THEN f[at + i] ELSE 0]

Read(f) ==
  LET n      == LengthsFrom(Values(f, Opening.size, Lengths))
      at     == Places(n, f[2])
      heads  == AllValues(f, at.blocks, BlockRecord, n.blocks)
      rawsAt == RawsAt(heads, at.raws)
      textAt == rawsAt[n.blocks]
      urlLen == Digits(f, at.url)
      First(v) == v[1]
      Block(b) == [header |-> HeaderFrom(Tail(Tail(heads[b]))),
                   raw |-> Each(RawFrom, AllValues(f, rawsAt[b - 1], PointRecord, heads[b][2]))]
  IN  IF /\ Holds(f, 0, Opening) /\ f[2] \in DOMAIN RunsRecord
         /\ Holds(f, Opening.size, Lengths) /\ FixedHolds(f, n, at) /\ textAt <= Len(f)
      THEN [ok |-> TRUE, length |-> textAt + urlLen, url |-> Text(f, textAt, urlLen),
            total   |-> n.total, cur |-> n.cur,
            ips     |-> Each(First, AllValues(f, at.ips, ByteRecord, n.ips)),
            indexes |-> Each(First, AllValues(f, at.indexes, IntRecord, n.indexes)),
            order   |-> Each(PairFrom, AllValues(f, at.order, PairRecord, n.order)),
            blocks  |-> [b \in 1 .. n.blocks |-> Block(b)],
            header  |-> HeaderFrom(Values(f, at.header, HeaderRecord)),
            streaks |-> Values(f, at.runs, RunsRecord[f[2]])]
      ELSE [ok |-> FALSE]

(* Mutant: the URL of the file is not looked at.                           *)
AcceptedAnyURL(f) == Read(f).ok

(* files.LoadOrCreateFile: a file that is read, with another URL, is a     *)
(* failed check.                                                           *)
Accepted(f) == LET d == Read(f) IN d.ok /\ d.url = URL

-----------------------------------------------------------------------------
(* Properties                                                              *)

(* What is read of a file is all of the record that Reopen keeps.          *)
IsTheRecord(d, v) ==
  /\ d.ok /\ d.url = URL
  /\ d.ips = ips /\ d.indexes = indexes /\ d.cur = cur
  /\ d.order = order /\ d.total = total
  /\ d.blocks = BlocksOnDisk /\ d.header = HeaderOnDisk(header)
  /\ v = "current" => /\ RunFrom(SubSeq(d.streaks, 2, 4)) = runs.good
                      /\ RunFrom(SubSeq(d.streaks, 5, 7)) = runs.dropped

(* A file of any version, read by the current program, is the record, to   *)
(* its last byte; and the buffer the current one allocates is filled       *)
(* exactly (Data.write, Data.byteLen, Data.FromCompact).                   *)
FileReadsBack ==
  total <= FilePoints =>
    /\ Len(File("current")) = ByteLen
    /\ \A v \in Versions : \A d \in {Read(File(v))} :
         IsTheRecord(d, v) /\ d.length = Len(File(v))

(* What a crash can leave of a file written over another one.              *)
Torn(new, old) ==
  {SubSeq(new, 1, k) \o SubSeq(old, k + 1, Len(old)) :
     k \in {j \in 1 .. Len(new) - 1 : j > Len(old) \/ new[j] # old[j]}}

(* The file a crash leaves while a session that has recorded a point, or   *)
(* migrated an older file, writes it, is the old file, or the new one, or  *)
(* is refused: never a record that mixes the two.  There is no checksum;   *)
(* it rests on the lengths being first and the URL last                    *)
(* (Data.AsCompact over the old file, Data.FromCompact, LoadOrCreateFile). *)
TornIsRefused ==
  [][total' <= FilePoints =>
       \A new \in {File("current")'}, old \in {File(v) : v \in Versions} \cup {<<>>} :
         \A f \in Torn(new, old) : f = old \/ ~Accepted(f)]_vars
=============================================================================
