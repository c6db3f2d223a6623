--------------------------- MODULE DataStoreProofs ---------------------------
(***************************************************************************)
(* Proofs about the record of a session (DataStore) and about its file     *)
(* (SessionFile), for every set of addresses, every resolution, any times  *)
(* and durations, any number of points and integers of any length.         *)
(*                                                                         *)
(* The first part is about DataStore alone and uses nothing of the file.   *)
(* In the second the parts of a file stand one after the other, so that    *)
(* what is read at the place of a part is what was written there; the      *)
(* places are those the lengths of the file say. What an integer holds is  *)
(* bounded (FileFits), and NumbersInv says that the record stays within.   *)
(***************************************************************************)
EXTENDS SessionFile, LeastElement, SequenceTheorems

-----------------------------------------------------------------------------
(* Lemmas on sequences and on the search of the network.                   *)

(* slices.Insert: what is in a sequence of T after an insertion.           *)
IsInsertion(T, s, i, x) ==
  /\ Inserted(s, i, x) \in Seq(T)
  /\ Len(Inserted(s, i, x)) = Len(s) + 1
  /\ \A j \in 1 .. i : Inserted(s, i, x)[j] = s[j]
  /\ Inserted(s, i, x)[i + 1] = x
  /\ \A j \in i + 1 .. Len(s) : Inserted(s, i, x)[j + 1] = s[j]

(* An insertion between two elements, or at an end, is one.                *)
LEMMA InsertedFacts ==
  ASSUME NEW T, NEW s \in Seq(T), NEW i \in 0 .. Len(s), NEW x \in T
  PROVE  IsInsertion(T, s, i, x)
<1> DEFINE e(j) == IF j <= i THEN s[j] ELSE IF j = i + 1 THEN x ELSE s[j - 1]
<1>1. Len(s) \in Nat /\ i \in Nat
  OBVIOUS
<1>2. \A j \in 1 .. Len(s) + 1 : e(j) \in T
  <2> TAKE j \in 1 .. Len(s) + 1
  <2>1. CASE j <= i
    <3>1. j \in 1 .. Len(s)
      BY <1>1, <2>1
    <3> QED
      BY <3>1, <2>1
  <2>2. CASE j = i + 1
    BY <1>1, <2>2
  <2>3. CASE j > i + 1
    <3>1. j - 1 \in 1 .. Len(s)
      BY <1>1, <2>3
    <3> QED
      BY <1>1, <3>1, <2>3
  <2> QED
    BY <1>1, <2>1, <2>2, <2>3
<1>3. Inserted(s, i, x) = [j \in 1 .. Len(s) + 1 |-> e(j)]
  BY DEF Inserted
<1>4. Inserted(s, i, x) \in Seq(T) /\ Len(Inserted(s, i, x)) = Len(s) + 1
  BY <1>1, <1>2, <1>3
<1>5. \A j \in 1 .. i : e(j) = s[j] /\ j \in 1 .. Len(s) + 1
  BY <1>1
<1>6. e(i + 1) = x /\ i + 1 \in 1 .. Len(s) + 1
  BY <1>1
<1>7. \A j \in i + 1 .. Len(s) : e(j + 1) = s[j] /\ j + 1 \in 1 .. Len(s) + 1
  BY <1>1
<1> HIDE DEF e
<1> QED
  BY <1>3, <1>4, <1>5, <1>6, <1>7 DEF IsInsertion

(* The binary search stops after the addresses below the one looked for    *)
(* and before the others.                                                  *)
LEMMA PositionSplits ==
  ASSUME ips \in Seq(Nat), \A i, j \in 1 .. Len(ips) : i < j => ips[i] < ips[j],
         NEW ip \in Nat
  PROVE  /\ Position(ip) \in 0 .. Len(ips)
         /\ \A j \in 1 .. Position(ip) : ips[j] < ip
         /\ \A j \in Position(ip) + 1 .. Len(ips) : ip <= ips[j]
<1> DEFINE n == Len(ips)
           S == {m \in 1 .. n + 1 : m = n + 1 \/ ip <= ips[m]}
<1>1. n \in Nat /\ \A i \in 1 .. n : ips[i] \in Nat
  OBVIOUS
<1>2. S \in SUBSET Nat /\ n + 1 \in S
  BY <1>1
<1> HIDE DEF S
<1>3. PICK m \in S : \A j \in S : m <= j
  BY <1>2, LeastNatural
<1> USE DEF S
<1>4. m \in 1 .. n + 1
  BY <1>3
<1>5. \A j \in 1 .. m - 1 : ips[j] < ip
  <2> TAKE j \in 1 .. m - 1
  <2>1. j \notin S /\ j \in 1 .. n
    BY <1>1, <1>3, <1>4
  <2> QED
    BY <1>1, <2>1
<1>6. \A j \in m .. n : ip <= ips[j]
  <2> TAKE j \in m .. n
  <2>1. m \in 1 .. n /\ ip <= ips[m]
    BY <1>1, <1>3, <1>4
  <2> QED
    BY <1>1, <1>4, <2>1
<1>7. {i \in 1 .. n : ips[i] < ip} = 1 .. m - 1
  <2>1. ASSUME NEW i \in 1 .. n, ips[i] < ip
        PROVE  i \in 1 .. m - 1
    BY <1>1, <1>4, <1>6, <2>1
  <2>2. 1 .. m - 1 \subseteq 1 .. n
    BY <1>1, <1>4
  <2> QED
    BY <1>5, <2>1, <2>2
<1>8. Position(ip) = m - 1
  <2>1. Cardinality(1 .. m - 1) = m - 1
    BY <1>1, <1>4, FS_Interval
  <2> QED
    BY <1>7, <2>1 DEF Position
<1> QED
  BY <1>1, <1>4, <1>5, <1>6, <1>8

(* ... and right before it if it is there.                                 *)
LEMMA FoundAtPosition ==
  ASSUME ips \in Seq(Nat), \A i, j \in 1 .. Len(ips) : i < j => ips[i] < ips[j],
         NEW ip \in Nat, Found(ip)
  PROVE  Position(ip) + 1 \in 1 .. Len(ips) /\ ips[Position(ip) + 1] = ip
<1>1. /\ Position(ip) \in 0 .. Len(ips)
      /\ \A j \in 1 .. Position(ip) : ips[j] < ip
      /\ \A j \in Position(ip) + 1 .. Len(ips) : ip <= ips[j]
  BY PositionSplits
<1>2. PICK i \in 1 .. Len(ips) : ips[i] = ip
  BY DEF Found
<1>3. Len(ips) \in Nat /\ \A j \in 1 .. Len(ips) : ips[j] \in Nat
  OBVIOUS
<1>4. i >= Position(ip) + 1
  BY <1>1, <1>2, <1>3
<1>5. Position(ip) + 1 \in 1 .. Len(ips)
  BY <1>1, <1>3, <1>4
<1>6. ip <= ips[Position(ip) + 1]
  BY <1>1, <1>3, <1>5
<1>7. ~(Position(ip) + 1 < i)
  BY <1>2, <1>3, <1>5, <1>6
<1> QED
  BY <1>1, <1>2, <1>3, <1>4, <1>5, <1>7

(* slices.Index: the first place of a block is its only one.               *)
LEMMA FirstIsOnly ==
  ASSUME NEW s, Len(s) \in Nat, NEW k \in 1 .. Len(s),
         \A i, j \in 1 .. Len(s) : i # j => s[i] # s[j]
  PROVE  FirstPlace(s, s[k]) = k
<1>1. \A m \in 1 .. k - 1 : s[m] # s[k]
  <2> TAKE m \in 1 .. k - 1
  <2>1. m \in 1 .. Len(s) /\ m # k
    OBVIOUS
  <2> QED
    BY <2>1
<1> QED
  BY <1>1 DEF FirstPlace

-----------------------------------------------------------------------------
(* The inductive invariant: the types of everything but the streaks, the   *)
(* network's soundness, and an insertion order that stays in the blocks.   *)

AnyBlock == [header: Header, raw: Seq(Raw)]

Shape ==
  /\ ips \in Seq(StoredIPs) /\ indexes \in Seq(Nat) /\ cur \in Nat
  /\ blocks \in Seq(AnyBlock)
  /\ order \in Seq([block: Nat, raw: Nat])
  /\ header \in Header

OrderSound ==
  /\ total = Len(order)
  /\ \A i \in 1 .. Len(order) : /\ order[i].block < Len(blocks)
                                /\ order[i].raw < Len(blocks[order[i].block + 1].raw)

IInv == Shape /\ NetworkSound /\ OrderSound

-----------------------------------------------------------------------------
(* Types of the statistics.                                                *)

(* TimeSpan.AddTimestamp keeps a span one of natural numbers.              *)
LEMMA SpanAddType ==
  ASSUME NEW span \in [begin: Nat, end: Nat, duration: Nat], NEW t \in Nat
  PROVE  SpanAdd(span, t) \in [begin: Nat, end: Nat, duration: Nat]
<1>1. /\ MinOf(span.begin, t) \in Nat /\ MinOf(span.begin, t) <= t
      /\ MaxOf(span.end, t) \in Nat /\ t <= MaxOf(span.end, t)
  BY DEF MinOf, MaxOf
<1>2. MaxOf(span.end, t) - MinOf(span.begin, t) \in Nat
  BY <1>1
<1> QED
  BY <1>1, <1>2 DEF SpanAdd

(* Stats.AddPoint and AddDroppedPacket keep the statistics ones.           *)
LEMMA StatsAddType ==
  ASSUME NEW s \in Stats, NEW p \in Raw
  PROVE  StatsAdd(s, p) \in Stats
<1>1. p.duration \in Nat
  BY DEF Raw
<1>2. /\ s.min \in Nat /\ s.max \in Nat /\ s.sum \in Nat /\ s.good \in Nat
      /\ s.dropped \in Nat
  BY DEF Stats
<1>3. /\ MinOf(s.min, p.duration) \in Nat /\ MaxOf(s.max, p.duration) \in Nat
      /\ s.sum + p.duration \in Nat /\ s.good + 1 \in Nat /\ s.dropped + 1 \in Nat
  BY <1>1, <1>2 DEF MinOf, MaxOf
<1> QED
  BY <1>1, <1>2, <1>3 DEF StatsAdd, Stats

(* Header.AddPoint keeps a header one.                                     *)
LEMMA HeaderAddType ==
  ASSUME NEW h \in Header, NEW p \in Raw
  PROVE  HeaderAdd(h, p) \in Header
<1>1. h.stats \in Stats /\ h.span \in [begin: Nat, end: Nat, duration: Nat] /\ p.time \in Nat
  BY DEF Header, Raw
<1>2. StatsAdd(h.stats, p) \in Stats
  BY <1>1, StatsAddType
<1>3. SpanAdd(h.span, p.time) \in [begin: Nat, end: Nat, duration: Nat]
  BY <1>1, SpanAddType
<1>4. SpanFrom(p.time) \in [begin: Nat, end: Nat, duration: Nat]
  BY <1>1 DEF SpanFrom
<1> QED
  BY <1>2, <1>3, <1>4 DEF HeaderAdd, Header

(* HeaderAdd reads of a point only what a block keeps of it.               *)
LEMMA HeaderAddOfPoint ==
  ASSUME NEW h, NEW p \in NewPoints
  PROVE  /\ DataOf(p) \in Raw
         /\ HeaderAdd(h, DataOf(p)) = HeaderAdd(h, p)
<1>1. p.time \in Nat /\ p.duration \in Nat /\ p.dropped \in BOOLEAN
  <2>1. CASE p \in [ip: IPs \cup {NilIP}, time: Times, duration: Durations, dropped: {FALSE}]
    BY <2>1, StoreAssumption
  <2>2. CASE p \in [ip: IPs \cup {NilIP}, time: Times, duration: {0}, dropped: {TRUE}]
    <3>1. p.time \in Times /\ p.duration = 0
      BY <2>2
    <3>2. p.dropped \in BOOLEAN
      BY <2>2
    <3>3. p.duration \in Nat
      BY <3>1
    <3>4. p.time \in Nat
      BY <3>1, StoreAssumption
    <3> QED
      BY <3>2, <3>3, <3>4
  <2> QED
    BY <2>1, <2>2 DEF NewPoints
<1>2. DataOf(p) \in Raw
  BY <1>1 DEF DataOf, Raw
<1>3. HeaderAdd(h, DataOf(p)) = HeaderAdd(h, p)
  BY DEF HeaderAdd, StatsAdd, DataOf
<1> QED
  BY <1>2, <1>3

(* A new header is one.                                                    *)
LEMMA NoHeaderType == NoHeader \in Header
BY DEF NoHeader, Header, NoStats, Stats, SpanFrom

(* writeTime: the millisecond a timestamp is in.                           *)
LEMMA OnDiskFacts ==
  ASSUME NEW t \in Nat
  PROVE  /\ OnDisk(t) \in Nat /\ OnDisk(t) <= t /\ t < OnDisk(t) + Resolution
         /\ OnDisk(t) = Resolution * (t \div Resolution) /\ t \div Resolution \in Nat
<1>1. Resolution \in Nat /\ Resolution > 0
  BY PointAssumption
<1>2. t % Resolution \in 0 .. Resolution - 1
  BY <1>1
<1>3. t = Resolution * (t \div Resolution) + (t % Resolution)
  BY <1>1
<1>4. t \div Resolution \in Nat
  BY <1>1
<1>5. Resolution * (t \div Resolution) \in Nat
  BY <1>1, <1>4
<1> QED
  BY <1>1, <1>2, <1>3, <1>4, <1>5 DEF OnDisk

(* A header that is written and read back is one.                          *)
LEMMA HeaderOnDiskFacts ==
  ASSUME NEW h \in Header
  PROVE  HeaderOnDisk(h) \in Header
<1>1. h.span.begin \in Nat /\ h.span.end \in Nat /\ h.span.duration \in Nat
  BY DEF Header
<1>2. OnDisk(h.span.begin) \in Nat /\ OnDisk(h.span.end) \in Nat
  BY <1>1, OnDiskFacts
<1> QED
  BY <1>1, <1>2 DEF HeaderOnDisk, Header

-----------------------------------------------------------------------------
(* Types of the streaks.                                                   *)

AllRuns == [good: Run, dropped: Run]

(* Runs.AddPoint keeps the streaks ones.                                   *)
LEMMA RunsAddType ==
  ASSUME NEW r \in AllRuns, NEW i \in Nat, NEW p
  PROVE  RunsAdd(r, i, p) \in AllRuns
<1>1. r.good \in Run /\ r.dropped \in Run
  BY DEF AllRuns
<1>2. ASSUME NEW q \in Run
      PROVE  RunInc(q, i) \in Run /\ RunReset(q) \in Run
  <2>1. q.longest \in Nat /\ q.current \in Nat /\ q.lastIndex \in Nat /\ q.current + 1 \in Nat
    BY DEF Run
  <2> QED
    BY <2>1 DEF RunInc, RunReset, Run
<1> QED
  BY <1>1, <1>2 DEF RunsAdd, AllRuns

(* New streaks are streaks.                                                *)
LEMMA NoRunsType == NoRuns \in AllRuns
BY DEF NoRuns, NoRun, AllRuns, Run

-----------------------------------------------------------------------------
(* Network.AddPoint.                                                       *)

(* Addresses are numbers, the zero address among them.                     *)
LEMMA StoredIPsAreNatural == StoredIPs \subseteq Nat
BY PointAssumption DEF StoredIPs, ZeroIP

(* The block an address is given is one of the network's afterwards, at    *)
(* the place of the address; those of the other addresses are as before.   *)
LEMMA NetworkStep ==
  ASSUME Shape, NetworkSound, NEW ip \in StoredIPs, NetworkAdd(ip)
  PROVE  /\ BlockOf(ip) \in 0 .. cur
         /\ cur' = IF BlockOf(ip) = cur THEN cur + 1 ELSE cur
         /\ ips' \in Seq(StoredIPs) /\ indexes' \in Seq(Nat) /\ cur' \in Nat
         /\ Len(ips') = cur' /\ Len(indexes') = cur'
         /\ \A i, j \in 1 .. cur' : i < j => ips'[i] < ips'[j]
         /\ \A i \in 1 .. cur' : indexes'[i] < cur'
         /\ \A i, j \in 1 .. cur' : i # j => indexes'[i] # indexes'[j]
         /\ \A c \in 0 .. cur' - 1 : \E i \in 1 .. cur' : indexes'[i] = c
         /\ \E k \in 1 .. cur' : indexes'[k] = BlockOf(ip) /\ ips'[k] = ip
         /\ \A j \in 1 .. cur : \E k \in 1 .. cur' :
              indexes'[k] = indexes[j] /\ ips'[k] = ips[j]
<1> DEFINE P == Position(ip)
<1>1. /\ ips \in Seq(StoredIPs) /\ indexes \in Seq(Nat) /\ cur \in Nat
      /\ Len(ips) = cur /\ Len(indexes) = cur
  BY DEF Shape, NetworkSound
<1>2. /\ \A i, j \in 1 .. cur : i < j => ips[i] < ips[j]
      /\ \A i \in 1 .. cur : indexes[i] < cur
      /\ \A i, j \in 1 .. cur : i # j => indexes[i] # indexes[j]
      /\ \A c \in 0 .. cur - 1 : \E i \in 1 .. cur : indexes[i] = c
  BY <1>1 DEF NetworkSound
<1>3. /\ ips \in Seq(Nat) /\ ip \in Nat
      /\ \A i \in 1 .. cur : ips[i] \in Nat /\ indexes[i] \in Nat
  <2>1. \A i \in 1 .. Len(ips) : ips[i] \in StoredIPs
    BY <1>1
  <2>2. ips \in Seq(Nat)
    BY <1>1, StoredIPsAreNatural, SeqMonotonic
  <2> QED
    BY <1>1, <2>1, <2>2, StoredIPsAreNatural
<1>4. CASE Found(ip)
  <2>1. P + 1 \in 1 .. cur /\ ips[P + 1] = ip
    BY <1>1, <1>2, <1>3, <1>4, FoundAtPosition
  <2>2. BlockOf(ip) = indexes[P + 1] /\ UNCHANGED <<ips, indexes, cur>>
    BY <1>4 DEF BlockOf, NetworkAdd
  <2>3. BlockOf(ip) \in 0 .. cur - 1
    BY <1>1, <1>2, <1>3, <2>1, <2>2
  <2> HIDE DEF P
  <2> QED
    BY <1>1, <1>2, <2>1, <2>2, <2>3
<1>5. CASE ~Found(ip)
  <2>1. /\ P \in 0 .. cur
        /\ \A j \in 1 .. P : ips[j] < ip
        /\ \A j \in P + 1 .. cur : ip <= ips[j]
    BY <1>1, <1>2, <1>3, PositionSplits
  <2>2. /\ BlockOf(ip) = cur /\ cur' = cur + 1
        /\ ips' = Inserted(ips, P, ip) /\ indexes' = Inserted(indexes, P, cur)
    BY <1>5 DEF BlockOf, NetworkAdd
  <2> HIDE DEF P
  <2>3. /\ ips' \in Seq(StoredIPs) /\ Len(ips') = cur'
        /\ \A j \in 1 .. P : ips'[j] = ips[j]
        /\ ips'[P + 1] = ip
        /\ \A j \in P + 1 .. cur : ips'[j + 1] = ips[j]
    <3>1. P \in 0 .. Len(ips) /\ ips \in Seq(StoredIPs) /\ ip \in StoredIPs
      BY <1>1, <2>1
    <3>2. IsInsertion(StoredIPs, ips, P, ip)
      BY <3>1, InsertedFacts
    <3> QED
      BY <1>1, <2>2, <3>2 DEF IsInsertion
  <2>4. /\ indexes' \in Seq(Nat) /\ Len(indexes') = cur'
        /\ \A j \in 1 .. P : indexes'[j] = indexes[j]
        /\ indexes'[P + 1] = cur
        /\ \A j \in P + 1 .. cur : indexes'[j + 1] = indexes[j]
    <3>1. P \in 0 .. Len(indexes) /\ indexes \in Seq(Nat) /\ cur \in Nat
      BY <1>1, <2>1
    <3>2. IsInsertion(Nat, indexes, P, cur)
      BY <3>1, InsertedFacts
    <3> QED
      BY <1>1, <2>2, <3>2 DEF IsInsertion
  <2>5. \A j \in 1 .. cur : ips[j] # ip
    BY <1>1, <1>5 DEF Found
  <2> DEFINE at(j) == IF j <= P THEN j ELSE j + 1
  <2>6. \A j \in 1 .. cur : /\ at(j) \in 1 .. cur' /\ at(j) # P + 1
                            /\ ips'[at(j)] = ips[j] /\ indexes'[at(j)] = indexes[j]
    BY <1>1, <2>1, <2>2, <2>3, <2>4
  <2>7. \A k \in 1 .. cur' : k # P + 1 => \E j \in 1 .. cur : k = at(j)
    <3> TAKE k \in 1 .. cur'
    <3>1. CASE k <= P
      <4>1. k \in 1 .. cur /\ k = at(k)
        BY <1>1, <2>1, <2>2, <3>1
      <4> QED
        BY <4>1
    <3>2. CASE k > P + 1
      <4>1. k - 1 \in 1 .. cur /\ k = at(k - 1)
        BY <1>1, <2>1, <2>2, <3>2
      <4> QED
        BY <4>1
    <3> QED
      BY <1>1, <2>1, <2>2, <3>1, <3>2
  <2>8. \A i, j \in 1 .. cur : at(i) < at(j) => i < j
    BY <1>1, <2>1
  <2>9. \A j \in 1 .. cur : /\ at(j) < P + 1 => ips[j] < ip
                            /\ P + 1 < at(j) => ip < ips[j]
    <3> TAKE j \in 1 .. cur
    <3>1. CASE j <= P
      BY <1>1, <2>1, <3>1
    <3>2. CASE j > P
      <4>1. j \in P + 1 .. cur
        BY <1>1, <2>1, <3>2
      <4>2. ip <= ips[j] /\ ips[j] # ip
        BY <2>1, <2>5, <4>1
      <4> QED
        BY <1>3, <2>1, <3>2, <4>2
    <3> QED
      BY <1>1, <2>1, <3>1, <3>2
  <2> HIDE DEF at
  <2>10. \A i, j \in 1 .. cur' : i < j => ips'[i] < ips'[j]
    <3> SUFFICES ASSUME NEW i \in 1 .. cur', NEW j \in 1 .. cur', i < j
                 PROVE  ips'[i] < ips'[j]
      OBVIOUS
    <3>1. CASE i = P + 1
      <4>1. PICK m \in 1 .. cur : j = at(m)
        BY <2>2, <1>1, <2>7, <3>1
      <4> QED
        BY <2>3, <2>6, <2>9, <3>1, <4>1
    <3>2. CASE j = P + 1
      <4>1. PICK m \in 1 .. cur : i = at(m)
        BY <2>2, <1>1, <2>7, <3>2
      <4>2. ips'[i] = ips[m] /\ at(m) < P + 1
        BY <2>6, <3>2, <4>1
      <4>3. ips[m] < ip
        BY <2>9, <4>2
      <4> QED
        BY <2>3, <3>2, <4>2, <4>3
    <3>3. CASE i # P + 1 /\ j # P + 1
      <4>1. PICK m \in 1 .. cur : i = at(m)
        BY <2>7, <3>3
      <4>2. PICK n \in 1 .. cur : j = at(n)
        BY <2>7, <3>3
      <4>3. m < n
        BY <2>8, <4>1, <4>2
      <4> QED
        BY <1>2, <2>6, <4>1, <4>2, <4>3
    <3> QED
      BY <3>1, <3>2, <3>3
  <2>11. \A i \in 1 .. cur' : indexes'[i] < cur'
    <3> TAKE i \in 1 .. cur'
    <3>1. CASE i = P + 1
      BY <1>1, <2>2, <2>4, <3>1
    <3>2. CASE i # P + 1
      <4>1. PICK m \in 1 .. cur : i = at(m)
        BY <2>7, <3>2
      <4> QED
        BY <1>1, <1>2, <1>3, <2>2, <2>6, <4>1
    <3> QED
      BY <3>1, <3>2
  <2>12. \A i, j \in 1 .. cur' : i # j => indexes'[i] # indexes'[j]
    <3> SUFFICES ASSUME NEW i \in 1 .. cur', NEW j \in 1 .. cur', i # j
                 PROVE  indexes'[i] # indexes'[j]
      OBVIOUS
    <3>1. ASSUME NEW k \in 1 .. cur', k # P + 1
          PROVE  indexes'[k] < cur
      <4>1. PICK m \in 1 .. cur : k = at(m)
        BY <2>7, <3>1
      <4> QED
        BY <1>2, <2>6, <4>1
    <3>2. CASE i = P + 1 \/ j = P + 1
      BY <1>1, <2>4, <3>1, <3>2
    <3>3. CASE i # P + 1 /\ j # P + 1
      <4>1. PICK m \in 1 .. cur : i = at(m)
        BY <2>7, <3>3
      <4>2. PICK n \in 1 .. cur : j = at(n)
        BY <2>7, <3>3
      <4> QED
        BY <1>2, <2>6, <4>1, <4>2
    <3> QED
      BY <3>2, <3>3
  <2>13. P + 1 \in 1 .. cur'
    BY <1>1, <2>1, <2>2
  <2>14. \A c \in 0 .. cur' - 1 : \E i \in 1 .. cur' : indexes'[i] = c
    <3> TAKE c \in 0 .. cur' - 1
    <3>1. CASE c = cur
      BY <2>4, <2>13, <3>1
    <3>2. CASE c # cur
      <4>1. c \in 0 .. cur - 1
        BY <1>1, <2>2, <3>2
      <4>2. PICK m \in 1 .. cur : indexes[m] = c
        BY <1>2, <4>1
      <4> QED
        BY <2>6, <4>2
    <3> QED
      BY <3>1, <3>2
  <2>15. \E k \in 1 .. cur' : indexes'[k] = BlockOf(ip) /\ ips'[k] = ip
    BY <2>2, <2>3, <2>4, <2>13
  <2>16. \A j \in 1 .. cur : \E k \in 1 .. cur' :
            indexes'[k] = indexes[j] /\ ips'[k] = ips[j]
    BY <2>6
  <2> QED
    BY <1>1, <2>2, <2>3, <2>4, <2>10, <2>11, <2>12, <2>14, <2>15, <2>16
<1> QED
  BY <1>4, <1>5

(* The address of a block is where the network has the block.              *)
LEMMA IPOfIs ==
  ASSUME NetworkSound, NEW k \in 1 .. cur, cur \in Nat
  PROVE  IPOf(indexes[k]) = ips[k]
<1>1. Len(indexes) = cur
  BY DEF NetworkSound
<1>2. \A i, j \in 1 .. cur : i # j => indexes[i] # indexes[j]
  BY <1>1 DEF NetworkSound
<1> QED
  BY <1>1, <1>2, FirstIsOnly DEF IPOf

-----------------------------------------------------------------------------
(* Data.AddPoint.                                                          *)

(* What a new point is as it is recorded.                                  *)
LEMMA NewPointFacts ==
  ASSUME NEW p \in NewPoints
  PROVE  /\ To16(p.ip) \in StoredIPs
         /\ Recorded(p) = [ip |-> To16(p.ip), time |-> p.time,
                           duration |-> p.duration, dropped |-> p.dropped]
         /\ Recorded(p) \in RecordedPoint
<1>1. p.ip \in IPs \cup {NilIP}
  BY DEF NewPoints
<1>2. To16(p.ip) \in StoredIPs
  BY <1>1 DEF To16, StoredIPs
<1>3. Recorded(p) = [ip |-> To16(p.ip), time |-> p.time,
                     duration |-> p.duration, dropped |-> p.dropped]
  <2>1. CASE p \in [ip: IPs \cup {NilIP}, time: Times, duration: Durations, dropped: {FALSE}]
    BY <2>1 DEF Recorded
  <2>2. CASE p \in [ip: IPs \cup {NilIP}, time: Times, duration: {0}, dropped: {TRUE}]
    BY <2>2 DEF Recorded
  <2> QED
    BY <2>1, <2>2 DEF NewPoints
<1>4. p.time \in Nat /\ p.duration \in Nat /\ p.dropped \in BOOLEAN
  BY HeaderAddOfPoint DEF DataOf, Raw
<1> QED
  BY <1>2, <1>3, <1>4 DEF RecordedPoint, StoredIPs

(* Block.AddPoint: one block has the point more and its header with it.    *)
LEMMA HeadersStep ==
  ASSUME blocks \in Seq(AnyBlock), NEW p \in NewPoints,
         NEW b \in 0 .. Len(blocks), AddTo(b, p)
  PROVE  /\ blocks' \in Seq(AnyBlock) /\ Len(blocks') = Len(Grown(b)) /\ b + 1 \in 1 .. Len(blocks')
         /\ Grown(b) \in Seq(AnyBlock)
         /\ Grown(b)[b + 1] \in AnyBlock
         /\ blocks'[b + 1].header = HeaderAdd(Grown(b)[b + 1].header, p)
         /\ blocks'[b + 1].raw = Append(Grown(b)[b + 1].raw, DataOf(p))
         /\ \A k \in 1 .. Len(blocks') : k # b + 1 => k \in 1 .. Len(blocks) /\ blocks'[k] = blocks[k]
         /\ b + 1 \in 1 .. Len(blocks) => Grown(b)[b + 1] = blocks[b + 1]
         /\ b + 1 \notin 1 .. Len(blocks) => Grown(b)[b + 1] = NewBlock
<1> DEFINE G == Grown(b)
           B == G[b + 1]
<1>1. Len(blocks) \in Nat /\ b \in Nat
  OBVIOUS
<1>2. NewBlock \in AnyBlock
  BY NoHeaderType DEF NewBlock, AnyBlock
<1>3. /\ G \in Seq(AnyBlock) /\ b + 1 \in 1 .. Len(G)
      /\ Len(G) = IF b = Len(blocks) THEN Len(blocks) + 1 ELSE Len(blocks)
      /\ \A k \in 1 .. Len(blocks) : G[k] = blocks[k]
      /\ b = Len(blocks) => B = NewBlock
  BY <1>1, <1>2 DEF Grown
<1>4. B \in AnyBlock
  BY <1>3
<1>5. B.header \in Header /\ B.raw \in Seq(Raw)
  BY <1>4 DEF AnyBlock
<1>6. blocks' = [G EXCEPT ![b + 1] = BlockAdd(B, p)]
  BY DEF AddTo
<1>7. DataOf(p) \in Raw /\ HeaderAdd(B.header, p) \in Header
  BY <1>5, HeaderAddOfPoint, HeaderAddType
<1>8. /\ BlockAdd(B, p) \in AnyBlock /\ BlockAdd(B, p).raw = Append(B.raw, DataOf(p))
      /\ BlockAdd(B, p).header = HeaderAdd(B.header, p)
  BY <1>5, <1>7 DEF BlockAdd, AnyBlock
<1> HIDE DEF G, B
<1>9. /\ blocks' \in Seq(AnyBlock) /\ Len(blocks') = Len(G)
      /\ blocks'[b + 1] = BlockAdd(B, p)
      /\ \A k \in 1 .. Len(G) : k # b + 1 => blocks'[k] = G[k]
  BY <1>3, <1>6, <1>8
<1>10. \A k \in 1 .. Len(G) : k # b + 1 => k \in 1 .. Len(blocks) /\ blocks'[k] = blocks[k]
  <2> SUFFICES ASSUME NEW k \in 1 .. Len(G), k # b + 1
               PROVE  k \in 1 .. Len(blocks) /\ blocks'[k] = blocks[k]
    OBVIOUS
  <2>1. k \in 1 .. Len(blocks)
    BY <1>1, <1>3
  <2> QED
    BY <1>3, <1>9, <2>1
<1>11. /\ b + 1 \in 1 .. Len(blocks) => B = blocks[b + 1]
       /\ b + 1 \notin 1 .. Len(blocks) => B = NewBlock
  <2>1. b + 1 \in 1 .. Len(blocks) => B = blocks[b + 1]
    BY <1>3 DEF B
  <2>2. b + 1 \notin 1 .. Len(blocks) => b = Len(blocks)
    BY <1>1
  <2> QED
    BY <1>3, <2>1, <2>2
<1> QED
  BY <1>3, <1>4, <1>8, <1>9, <1>10, <1>11 DEF G, B

(* The blocks after a point: the one of its address has it at its end, the *)
(* others are as they were.                                                *)
LEMMA BlocksStep ==
  ASSUME blocks \in Seq(AnyBlock), NEW p \in NewPoints,
         NEW b \in 0 .. Len(blocks), AddTo(b, p)
  PROVE  /\ blocks' \in Seq(AnyBlock)
         /\ Len(blocks') = IF b = Len(blocks) THEN Len(blocks) + 1 ELSE Len(blocks)
         /\ order' = Append(order, [block |-> b, raw |-> Len(blocks'[b + 1].raw) - 1])
         /\ Len(blocks'[b + 1].raw) \in Nat \ {0}
         /\ blocks'[b + 1].raw[Len(blocks'[b + 1].raw)] = DataOf(p)
         /\ \A k \in 1 .. Len(blocks) :
              /\ Len(blocks[k].raw) <= Len(blocks'[k].raw)
              /\ \A r \in 1 .. Len(blocks[k].raw) : blocks'[k].raw[r] = blocks[k].raw[r]
<1> DEFINE B == Grown(b)[b + 1]
<1>1. Len(blocks) \in Nat /\ b \in Nat
  OBVIOUS
<1>2. /\ blocks' \in Seq(AnyBlock) /\ Len(blocks') = Len(Grown(b)) /\ b + 1 \in 1 .. Len(blocks')
      /\ B \in AnyBlock
      /\ blocks'[b + 1].raw = Append(B.raw, DataOf(p))
      /\ \A k \in 1 .. Len(blocks') : k # b + 1 => k \in 1 .. Len(blocks) /\ blocks'[k] = blocks[k]
      /\ b + 1 \in 1 .. Len(blocks) => B = blocks[b + 1]
  BY HeadersStep
<1>3. order' = Append(order, [block |-> b, raw |-> Len(B.raw)])
  BY DEF AddTo
<1>4. Len(blocks') = IF b = Len(blocks) THEN Len(blocks) + 1 ELSE Len(blocks)
  BY <1>1, <1>2 DEF Grown
<1> HIDE DEF B
<1>5. B.raw \in Seq(Raw) /\ DataOf(p) \in Raw
  BY <1>2, HeaderAddOfPoint DEF AnyBlock
<1>6. /\ Len(B.raw) \in Nat
      /\ Len(blocks'[b + 1].raw) = Len(B.raw) + 1
      /\ blocks'[b + 1].raw[Len(B.raw) + 1] = DataOf(p)
      /\ \A r \in 1 .. Len(B.raw) : blocks'[b + 1].raw[r] = B.raw[r]
  BY <1>2, <1>5
<1>7. ASSUME NEW k \in 1 .. Len(blocks)
      PROVE  /\ Len(blocks[k].raw) <= Len(blocks'[k].raw)
             /\ \A r \in 1 .. Len(blocks[k].raw) : blocks'[k].raw[r] = blocks[k].raw[r]
  <2>1. CASE k = b + 1
    BY <1>2, <1>6, <2>1
  <2>2. CASE k # b + 1
    <3>1. k \in 1 .. Len(blocks')
      BY <1>1, <1>4
    <3>2. blocks'[k] = blocks[k]
      BY <1>2, <2>2, <3>1
    <3>3. Len(blocks[k].raw) \in Nat
      BY DEF AnyBlock
    <3> QED
      BY <3>2, <3>3
  <2> QED
    BY <2>1, <2>2
<1>8. order' = Append(order, [block |-> b, raw |-> Len(blocks'[b + 1].raw) - 1])
  <2>1. Len(blocks'[b + 1].raw) - 1 = Len(B.raw)
    BY <1>6
  <2> QED
    BY <1>3, <2>1
<1>9. /\ Len(blocks'[b + 1].raw) \in Nat \ {0}
      /\ blocks'[b + 1].raw[Len(blocks'[b + 1].raw)] = DataOf(p)
  BY <1>6
<1> QED
  BY <1>2, <1>4, <1>7, <1>8, <1>9

(* A new point keeps the invariant, and the log grows by it.               *)
LEMMA AddStep ==
  ASSUME IInv, NEW p \in NewPoints, Add(p)
  PROVE  IInv' /\ Points' = Append(Points, Recorded(p))
<1> DEFINE ip == To16(p.ip)
           b == BlockOf(ip)
           last == Len(blocks'[b + 1].raw) - 1
<1>0. PICK n \in Nat : n = Len(order)
  BY DEF IInv, Shape
<1>1. /\ Shape /\ NetworkSound /\ OrderSound
      /\ ip \in StoredIPs /\ NetworkAdd(ip) /\ AddTo(b, p)
      /\ header' = HeaderAdd(header, p) /\ total' = total + 1
  BY NewPointFacts DEF IInv, Add
<1>2. /\ blocks \in Seq(AnyBlock) /\ Len(blocks) = cur /\ cur \in Nat
      /\ Len(ips) = cur /\ Len(indexes) = cur
      /\ order \in Seq([block: Nat, raw: Nat]) /\ n \in Nat
      /\ header \in Header /\ total = n /\ Len(order) = n
      /\ \A i \in 1 .. n :
           order[i].block < cur /\ order[i].raw < Len(blocks[order[i].block + 1].raw)
  BY <1>0, <1>1 DEF Shape, NetworkSound, OrderSound
<1>3. /\ b \in 0 .. cur
      /\ cur' = IF b = cur THEN cur + 1 ELSE cur
      /\ ips' \in Seq(StoredIPs) /\ indexes' \in Seq(Nat) /\ cur' \in Nat
      /\ Len(ips') = cur' /\ Len(indexes') = cur'
      /\ \A i, j \in 1 .. cur' : i < j => ips'[i] < ips'[j]
      /\ \A i \in 1 .. cur' : indexes'[i] < cur'
      /\ \A i, j \in 1 .. cur' : i # j => indexes'[i] # indexes'[j]
      /\ \A c \in 0 .. cur' - 1 : \E i \in 1 .. cur' : indexes'[i] = c
      /\ \E k \in 1 .. cur' : indexes'[k] = b /\ ips'[k] = ip
      /\ \A j \in 1 .. cur : \E k \in 1 .. cur' :
           indexes'[k] = indexes[j] /\ ips'[k] = ips[j]
  BY <1>1, NetworkStep
<1>4. /\ blocks' \in Seq(AnyBlock)
      /\ Len(blocks') = IF b = Len(blocks) THEN Len(blocks) + 1 ELSE Len(blocks)
      /\ order' = Append(order, [block |-> b, raw |-> last])
      /\ Len(blocks'[b + 1].raw) \in Nat \ {0}
      /\ blocks'[b + 1].raw[Len(blocks'[b + 1].raw)] = DataOf(p)
      /\ \A k \in 1 .. Len(blocks) :
           /\ Len(blocks[k].raw) <= Len(blocks'[k].raw)
           /\ \A r \in 1 .. Len(blocks[k].raw) : blocks'[k].raw[r] = blocks[k].raw[r]
  BY <1>1, <1>2, <1>3, BlocksStep
<1>5. /\ Len(blocks') = cur' /\ b < cur' /\ cur <= cur'
      /\ Len(blocks) = cur /\ cur \in Nat /\ cur' \in Nat
  BY <1>2, <1>3, <1>4
<1>6. last \in Nat /\ last + 1 = Len(blocks'[b + 1].raw)
  BY <1>4
<1> HIDE DEF b, last, ip
<1>7. /\ order' \in Seq([block: Nat, raw: Nat]) /\ Len(order') = n + 1
      /\ \A i \in 1 .. n : order'[i] = order[i]
      /\ order'[n + 1].block = b /\ order'[n + 1].raw = last
  <2>1. [block |-> b, raw |-> last] \in [block: Nat, raw: Nat]
    BY <1>3, <1>6
  <2> QED
    BY <1>2, <1>4, <2>1
<1>8. HeaderAdd(header, p) \in Header
  BY <1>2, HeaderAddOfPoint, HeaderAddType
<1>9. Shape'
  BY <1>1, <1>3, <1>4, <1>7, <1>8 DEF Shape
<1>10. NetworkSound'
  BY <1>3, <1>5 DEF NetworkSound
<1>11. \A i \in 1 .. n :
         /\ order[i].block \in 0 .. cur - 1 /\ order[i].raw \in Nat
         /\ order[i].block + 1 \in 1 .. Len(blocks)
         /\ Len(blocks[order[i].block + 1].raw) \in Nat
         /\ Len(blocks'[order[i].block + 1].raw) \in Nat
  <2> TAKE i \in 1 .. n
  <2>1. order[i] \in [block: Nat, raw: Nat]
    BY <1>2, ElementOfSeq
  <2>2. order[i].block \in 0 .. cur - 1 /\ order[i].raw \in Nat
    BY <1>2, <2>1
  <2>3. order[i].block + 1 \in 1 .. Len(blocks) /\ order[i].block + 1 \in 1 .. Len(blocks')
    BY <1>5, <2>2
  <2>4. blocks[order[i].block + 1] \in AnyBlock /\ blocks'[order[i].block + 1] \in AnyBlock
    BY <1>2, <1>4, <2>3, ElementOfSeq
  <2>5. /\ blocks[order[i].block + 1].raw \in Seq(Raw)
        /\ blocks'[order[i].block + 1].raw \in Seq(Raw)
    BY <2>4 DEF AnyBlock
  <2>6. /\ Len(blocks[order[i].block + 1].raw) \in Nat
        /\ Len(blocks'[order[i].block + 1].raw) \in Nat
    BY <2>5
  <2> QED
    BY <2>2, <2>3, <2>6
<1>12. OrderSound'
  <2>1. \A i \in 1 .. n + 1 :
          /\ order'[i].block < Len(blocks')
          /\ order'[i].raw < Len(blocks'[order'[i].block + 1].raw)
    <3> TAKE i \in 1 .. n + 1
    <3>1. CASE i = n + 1
      BY <1>5, <1>6, <1>7, <3>1
    <3>2. CASE i \in 1 .. n
      <4>1. order'[i] = order[i]
        BY <1>7, <3>2
      <4>2. order[i].raw < Len(blocks[order[i].block + 1].raw)
        BY <1>2, <3>2
      <4>3. Len(blocks[order[i].block + 1].raw) <= Len(blocks'[order[i].block + 1].raw)
        BY <1>4, <1>11, <3>2
      <4>4. order[i].raw < Len(blocks'[order[i].block + 1].raw)
        <5>1. /\ order[i].raw \in Nat /\ Len(blocks[order[i].block + 1].raw) \in Nat
              /\ Len(blocks'[order[i].block + 1].raw) \in Nat
          BY <1>11, <3>2
        <5>2. \A x, y, z \in Nat : x < y /\ y <= z => x < z
          OBVIOUS
        <5> QED
          BY <4>2, <4>3, <5>1, <5>2, Zenon
      <4>5. order[i].block < Len(blocks')
        BY <1>5, <1>11, <3>2
      <4> QED
        BY <4>1, <4>4, <4>5
    <3> QED
      BY <1>2, <3>1, <3>2
  <2> QED
    BY <1>1, <1>2, <1>7, <2>1 DEF OrderSound
<1>13. \A k \in 1 .. cur' : FirstPlace(indexes', indexes'[k]) = k
  <2> TAKE k \in 1 .. cur'
  <2>1. Len(indexes') \in Nat /\ k \in 1 .. Len(indexes')
    BY <1>3
  <2>2. \A i, j \in 1 .. Len(indexes') : i # j => indexes'[i] # indexes'[j]
    BY <1>3
  <2> QED
    BY <2>1, <2>2, FirstIsOnly
<1>14. ASSUME NEW i \in 1 .. n
       PROVE  GetFull(i)' = GetFull(i)
  <2>1. order'[i] = order[i]
    BY <1>7
  <2>2. order[i].raw + 1 \in 1 .. Len(blocks[order[i].block + 1].raw)
    BY <1>2, <1>11
  <2>3. Get(i)' = Get(i)
    BY <1>4, <1>11, <2>1, <2>2 DEF Get
  <2>4. PICK j \in 1 .. cur : indexes[j] = order[i].block
    BY <1>1, <1>2, <1>11 DEF NetworkSound
  <2>5. PICK k \in 1 .. cur' : indexes'[k] = indexes[j] /\ ips'[k] = ips[j]
    BY <1>3
  <2>6. IPOf(order[i].block) = ips[j]
    BY <1>1, <1>2, <2>4, IPOfIs
  <2>7. IPOf(order[i].block)' = ips'[k]
    <3>1. indexes'[k] = order'[i].block
      BY <2>1, <2>4, <2>5
    <3>2. FirstPlace(indexes', order'[i].block) = k
      BY <1>13, <2>5, <3>1
    <3> QED
      BY <3>2 DEF IPOf
  <2> QED
    BY <2>1, <2>3, <2>5, <2>6, <2>7 DEF GetFull
<1>15. GetFull(n + 1)' = Recorded(p)
  <2>1. Get(n + 1)' = DataOf(p)
    BY <1>4, <1>6, <1>7 DEF Get
  <2>2. PICK k \in 1 .. cur' : indexes'[k] = b /\ ips'[k] = ip
    BY <1>3
  <2>3. IPOf(order[n + 1].block)' = ip
    <3>1. FirstPlace(indexes', order'[n + 1].block) = k
      BY <1>13, <1>7, <2>2
    <3> QED
      BY <2>2, <3>1 DEF IPOf
  <2> QED
    BY <2>1, <2>3, NewPointFacts DEF GetFull, DataOf, ip
<1>16. Points' = Append(Points, Recorded(p))
  <2> DEFINE T == {GetFull(i) : i \in 1 .. n}
  <2>1. Points = [i \in 1 .. n |-> GetFull(i)] /\ Points' = [i \in 1 .. n + 1 |-> GetFull(i)']
    BY <1>2, <1>7 DEF Points
  <2>2. Points \in Seq(T) /\ Len(Points) = n
    <3>1. \A i \in 1 .. n : GetFull(i) \in T
      OBVIOUS
    <3> HIDE DEF T
    <3> QED
      BY <1>2, <2>1, <3>1
  <2>3. Append(Points, Recorded(p)) =
          [i \in 1 .. n + 1 |-> IF i = n + 1 THEN Recorded(p) ELSE GetFull(i)]
    BY <1>2, <2>1, <2>2
  <2>4. \A i \in 1 .. n + 1 :
          GetFull(i)' = IF i = n + 1 THEN Recorded(p) ELSE GetFull(i)
    BY <1>2, <1>14, <1>15
  <2> QED
    BY <2>1, <2>3, <2>4
<1> QED
  BY <1>9, <1>10, <1>12, <1>16 DEF IInv

-----------------------------------------------------------------------------
(* A file written and read back.                                           *)

(* The invariant is kept, and every point loses what the file does not     *)
(* keep of its time, no more.                                              *)
LEMMA ReopenStep ==
  ASSUME IInv, NEW v \in Versions, Reopen(v)
  PROVE  IInv' /\ Points' = [i \in 1 .. Len(Points) |-> Reread(Points[i])]
<1> DEFINE block(k) == [header |-> HeaderOnDisk(blocks[k].header),
                        raw |-> [i \in 1 .. Len(blocks[k].raw) |-> Reread(blocks[k].raw[i])]]
<1>1. /\ Shape /\ NetworkSound /\ OrderSound
      /\ blocks' = [k \in 1 .. Len(blocks) |-> block(k)]
      /\ header' = HeaderOnDisk(header)
      /\ UNCHANGED <<ips, indexes, cur, order, total>>
  BY DEF IInv, Reopen, BlocksOnDisk
<1>2. /\ blocks \in Seq(AnyBlock) /\ Len(blocks) \in Nat
      /\ order \in Seq([block: Nat, raw: Nat]) /\ Len(order) \in Nat
      /\ header \in Header
  BY <1>1 DEF Shape
<1>3. ASSUME NEW k \in 1 .. Len(blocks)
      PROVE  /\ block(k) \in AnyBlock
             /\ block(k).raw = [i \in 1 .. Len(blocks[k].raw) |-> Reread(blocks[k].raw[i])]
             /\ Len(blocks[k].raw) \in Nat
             /\ Len(block(k).raw) = Len(blocks[k].raw)
  <2>1. blocks[k] \in AnyBlock
    BY <1>2, ElementOfSeq
  <2>2. /\ blocks[k].header \in Header /\ blocks[k].raw \in Seq(Raw)
        /\ Len(blocks[k].raw) \in Nat
    BY <2>1 DEF AnyBlock
  <2>3. \A i \in 1 .. Len(blocks[k].raw) : Reread(blocks[k].raw[i]) \in Raw
    <3> TAKE i \in 1 .. Len(blocks[k].raw)
    <3>1. blocks[k].raw[i] \in Raw
      BY <2>2, ElementOfSeq
    <3>2. OnDisk(blocks[k].raw[i].time) \in Nat
      BY <3>1, OnDiskFacts DEF Raw
    <3> QED
      BY <3>1, <3>2 DEF Reread, Raw
  <2>4. /\ block(k).raw \in Seq(Raw)
        /\ Len(block(k).raw) = Len(blocks[k].raw)
    BY <2>2, <2>3
  <2>5. HeaderOnDisk(blocks[k].header) \in Header
    BY <2>2, HeaderOnDiskFacts
  <2> QED
    BY <2>2, <2>4, <2>5 DEF AnyBlock
<1> HIDE DEF block
<1>4. /\ blocks' \in Seq(AnyBlock) /\ Len(blocks') = Len(blocks)
      /\ \A k \in 1 .. Len(blocks) : blocks'[k] = block(k)
  <2>1. \A k \in 1 .. Len(blocks) : block(k) \in AnyBlock
    BY <1>3
  <2>2. blocks' = [k \in 1 .. Len(blocks) |-> block(k)]
    BY <1>1
  <2> QED
    BY <1>2, <2>1, <2>2
<1>5. Shape'
  BY <1>1, <1>4, <1>2, HeaderOnDiskFacts DEF Shape
<1>6. NetworkSound'
  BY <1>1, <1>4 DEF NetworkSound
<1>7. ASSUME NEW i \in 1 .. Len(order)
      PROVE  /\ order[i].block + 1 \in 1 .. Len(blocks)
             /\ order[i].raw + 1 \in 1 .. Len(blocks[order[i].block + 1].raw)
  <2>1. order[i] \in [block: Nat, raw: Nat]
    BY <1>2, ElementOfSeq
  <2>2. order[i].block + 1 \in 1 .. Len(blocks) /\ order[i].raw \in Nat
    BY <1>1, <1>2, <2>1 DEF OrderSound
  <2>3. order[i].raw < Len(blocks[order[i].block + 1].raw)
    BY <1>1 DEF OrderSound
  <2> QED
    BY <1>3, <2>2, <2>3
<1>8. OrderSound'
  <2>1. ASSUME NEW i \in 1 .. Len(order)
        PROVE  /\ order[i].block < Len(blocks')
               /\ order[i].raw < Len(blocks'[order[i].block + 1].raw)
    <3>1. Len(blocks'[order[i].block + 1].raw) = Len(blocks[order[i].block + 1].raw)
      BY <1>3, <1>4, <1>7
    <3> QED
      BY <1>1, <1>4, <3>1 DEF OrderSound
  <2> QED
    BY <1>1, <2>1 DEF OrderSound
<1>9. ASSUME NEW i \in 1 .. Len(order)
      PROVE  GetFull(i)' = Reread(GetFull(i))
  <2>1. Get(i)' = Reread(Get(i))
    <3>1. Get(i)' = block(order[i].block + 1).raw[order[i].raw + 1]
      BY <1>1, <1>4, <1>7 DEF Get
    <3> QED
      BY <1>3, <1>7, <3>1 DEF Get
  <2>2. IPOf(order[i].block)' = IPOf(order[i].block)
    BY <1>1 DEF IPOf
  <2>3. Get(i) \in Raw
    <3>1. blocks[order[i].block + 1] \in AnyBlock
      BY <1>2, <1>7, ElementOfSeq
    <3>2. blocks[order[i].block + 1].raw \in Seq(Raw)
      BY <3>1 DEF AnyBlock
    <3> QED
      BY <1>7, <3>2, ElementOfSeq DEF Get
  <2>4. /\ Get(i)'.time = OnDisk(Get(i).time)
        /\ Get(i)'.duration = Get(i).duration /\ Get(i)'.dropped = Get(i).dropped
    BY <2>1, <2>3 DEF Reread, Raw
  <2> QED
    BY <1>1, <2>2, <2>4 DEF GetFull, Reread
<1>10. Points' = [i \in 1 .. Len(Points) |-> Reread(Points[i])]
  <2>1. Len(Points) = Len(order) /\ \A i \in 1 .. Len(order) : Points[i] = GetFull(i)
    BY <1>2 DEF Points
  <2>2. Points' = [i \in 1 .. Len(order) |-> GetFull(i)']
    BY <1>1 DEF Points
  <2> QED
    BY <1>9, <2>1, <2>2
<1> QED
  BY <1>5, <1>6, <1>8, <1>10 DEF IInv

-----------------------------------------------------------------------------
(* The invariant of the blocks, the network and the order.                 *)

(* The invariant holds of an empty record.                                 *)
LEMMA InitInvariant == Init => IInv /\ Points = <<>>
<1> SUFFICES ASSUME Init
             PROVE  IInv /\ Points = <<>>
  OBVIOUS
<1>1. /\ ips = <<>> /\ indexes = <<>> /\ cur = 0
      /\ blocks = <<>> /\ order = <<>> /\ total = 0
  BY DEF Init
<1>2. Shape
  BY <1>1, NoHeaderType DEF Init, Shape
<1>3. NetworkSound
  BY <1>1 DEF NetworkSound
<1>4. OrderSound
  BY <1>1 DEF OrderSound
<1>5. Points = <<>>
  BY <1>1 DEF Points
<1> QED
  BY <1>2, <1>3, <1>4, <1>5 DEF IInv

(* Every operation keeps it.                                               *)
LEMMA NextInvariant == IInv /\ [Next]_vars => IInv'
<1> SUFFICES ASSUME IInv, [Next]_vars
             PROVE  IInv'
  OBVIOUS
<1>1. ASSUME NEW p \in NewPoints, Add(p)
      PROVE  IInv'
  BY <1>1, AddStep
<1>2. ASSUME NEW v \in Versions, Reopen(v)
      PROVE  IInv'
  BY <1>2, ReopenStep
<1>3. CASE UNCHANGED vars
  BY <1>3 DEF vars, IInv, Shape, NetworkSound, OrderSound
<1> QED
  BY <1>1, <1>2, <1>3 DEF Next

(* So it holds of every behaviour.                                         *)
LEMMA Invariant == Spec => []IInv
<1>1. Init => IInv
  BY InitInvariant
<1> QED
  BY <1>1, NextInvariant, PTL DEF Spec

-----------------------------------------------------------------------------
(* The streaks: the inductive invariant RunsInv.                           *)

(* The n-th of the points, and the n - 1 or fewer before it, are a streak  *)
(* of k points of a kind.                                                  *)
IsStreak(d, kind, i, k) == k <= i /\ \A j \in i - k + 1 .. i : d[j] = kind

(* r describes the streaks of a kind among the n flags of d, and no streak *)
(* it knows of has its end still to come.                                  *)
RunIs(r, d, n, kind) ==
  /\ IsStreak(d, kind, n, r.current) /\ ~IsStreak(d, kind, n, r.current + 1)
  /\ r.longest > 0 => r.lastIndex < n /\ IsStreak(d, kind, r.lastIndex + 1, r.longest)
  /\ r.longest = 0 => r.lastIndex = 0
  /\ \A i \in 1 .. n : ~IsStreak(d, kind, i, r.longest + 1)
  /\ \A i \in 1 .. r.lastIndex : r.longest > 0 => ~IsStreak(d, kind, i, r.longest)

RunsAre(r, d, n) == RunIs(r.good, d, n, FALSE) /\ RunIs(r.dropped, d, n, TRUE)

(* No points have no streaks.                                              *)
LEMMA NoRunsAre == \A d : RunsAre(NoRuns, d, 0)
BY DEF RunsAre, RunIs, IsStreak, NoRuns, NoRun

(* A streak is made of the flags it spans, and its end is one too.         *)
LEMMA StreakFacts ==
  ASSUME NEW d, NEW kind, NEW i \in Nat, NEW k \in Nat
  PROVE  /\ IsStreak(d, kind, i, k + 1) => IsStreak(d, kind, i, k)
         /\ IsStreak(d, kind, i + 1, k + 1) <=> IsStreak(d, kind, i, k) /\ d[i + 1] = kind
         /\ IsStreak(d, kind, i, 0)
<1>1. IsStreak(d, kind, i, k + 1) => IsStreak(d, kind, i, k)
  BY DEF IsStreak
<1>2. ASSUME IsStreak(d, kind, i + 1, k + 1)
      PROVE  IsStreak(d, kind, i, k) /\ d[i + 1] = kind
  BY <1>2 DEF IsStreak
<1>3. ASSUME IsStreak(d, kind, i, k), d[i + 1] = kind
      PROVE  IsStreak(d, kind, i + 1, k + 1)
  BY <1>3 DEF IsStreak
<1>4. IsStreak(d, kind, i, 0)
  BY DEF IsStreak
<1> QED
  BY <1>1, <1>2, <1>3, <1>4

(* A streak is one of any flags that agree with its own.                   *)
LEMMA StreakOfSame ==
  ASSUME NEW d, NEW e, NEW kind, NEW n \in Nat, \A j \in 1 .. n : e[j] = d[j],
         NEW i \in 0 .. n, NEW k \in Nat
  PROVE  IsStreak(e, kind, i, k) <=> IsStreak(d, kind, i, k)
BY DEF IsStreak

(* A shorter streak is there where a longer one is.                        *)
LEMMA ShorterStreak ==
  ASSUME NEW d, NEW kind, NEW i \in Nat, NEW k \in Nat, NEW m \in Nat, m <= k,
         IsStreak(d, kind, i, k)
  PROVE  IsStreak(d, kind, i, m)
BY DEF IsStreak

(* Run.Inc: one more point of the kind.                                    *)
LEMMA RunIncFacts ==
  ASSUME NEW r \in Run, NEW d, NEW n \in Nat, NEW kind, RunIs(r, d, n, kind),
         NEW e, \A j \in 1 .. n : e[j] = d[j], e[n + 1] = kind
  PROVE  RunIs(RunInc(r, n), e, n + 1, kind)
<1> DEFINE q == RunInc(r, n)
           In(i, k) == IsStreak(e, kind, i, k)
<1>1. r.longest \in Nat /\ r.current \in Nat /\ r.lastIndex \in Nat
  BY DEF Run
<1>2. /\ In(n, r.current) /\ ~In(n, r.current + 1)
      /\ r.longest > 0 => r.lastIndex < n /\ In(r.lastIndex + 1, r.longest)
      /\ \A i \in 1 .. n : ~In(i, r.longest + 1)
      /\ \A i \in 1 .. r.lastIndex : r.longest > 0 => ~In(i, r.longest)
  <2>1. \A i \in 0 .. n, k \in Nat : In(i, k) <=> IsStreak(d, kind, i, k)
    BY StreakOfSame
  <2>2. r.longest > 0 => \A i \in 0 .. r.lastIndex + 1 : i \in 0 .. n
    BY <1>1 DEF RunIs
  <2>3. r.longest + 1 \in Nat /\ r.current + 1 \in Nat /\ n \in 0 .. n
    BY <1>1
  <2>4. In(n, r.current) /\ ~In(n, r.current + 1)
    BY <1>1, <2>1, <2>3 DEF RunIs
  <2>5. r.longest > 0 => r.lastIndex < n /\ In(r.lastIndex + 1, r.longest)
    BY <1>1, <2>1, <2>2, <2>3 DEF RunIs
  <2>6. ASSUME NEW i \in 1 .. n
        PROVE  ~In(i, r.longest + 1)
    <3>1. i \in 0 .. n
      OBVIOUS
    <3> QED
      BY <2>1, <2>3, <3>1 DEF RunIs
  <2>7. ASSUME NEW i \in 1 .. r.lastIndex, r.longest > 0
        PROVE  ~In(i, r.longest)
    <3>1. i \in 0 .. n
      BY <1>1, <2>2, <2>7
    <3> QED
      BY <1>1, <2>1, <2>7, <3>1 DEF RunIs
  <2> QED
    BY <2>4, <2>5, <2>6, <2>7
<1>3. In(n + 1, r.current + 1) /\ ~In(n + 1, r.current + 2)
  <2>1. r.current + 1 \in Nat /\ r.current + 2 = (r.current + 1) + 1
    BY <1>1
  <2>2. In(n + 1, r.current + 1)
    BY <1>1, <1>2, StreakFacts
  <2>3. ~In(n + 1, (r.current + 1) + 1)
    <3>1. In(n + 1, (r.current + 1) + 1) => In(n, r.current + 1)
      BY <2>1, StreakFacts
    <3> QED
      BY <1>2, <3>1
  <2> QED
    BY <2>1, <2>2, <2>3
<1>4. r.current <= r.longest
  <2>1. CASE n = 0
    BY <1>1, <1>2, <2>1 DEF IsStreak
  <2>2. CASE n # 0 /\ r.longest + 1 <= r.current
    <3>1. r.longest + 1 \in Nat /\ n \in 1 .. n
      BY <1>1, <2>2
    <3>2. In(n, r.longest + 1)
      BY <1>1, <1>2, <2>2, <3>1, ShorterStreak
    <3> QED
      BY <1>2, <3>1, <3>2
  <2> QED
    BY <1>1, <2>1, <2>2
<1>5. CASE r.current + 1 > r.longest
  <2>1. /\ q.longest = r.current + 1 /\ q.current = r.current + 1 /\ q.lastIndex = n
        /\ r.current = r.longest
    BY <1>1, <1>4, <1>5 DEF RunInc
  <2>2. \A i \in 1 .. n : ~In(i, r.current + 1)
    BY <1>2, <2>1
  <2>3. \A i \in 1 .. n + 1 : ~In(i, r.current + 2)
    <3> TAKE i \in 1 .. n + 1
    <3>1. CASE i = n + 1
      BY <1>3, <3>1
    <3>2. CASE i \in 1 .. n
      <4>1. r.current + 1 \in Nat /\ r.current + 2 \in Nat /\ i \in Nat
            /\ r.current + 1 <= r.current + 2
        BY <1>1, <3>2
      <4>2. In(i, r.current + 2) => In(i, r.current + 1)
        BY <4>1, ShorterStreak
      <4> QED
        BY <2>2, <3>2, <4>1, <4>2
    <3> QED
      BY <3>1, <3>2
  <2>4. q.current + 1 = r.current + 2 /\ q.longest + 1 = r.current + 2
    BY <1>1, <2>1
  <2>5. n < n + 1
    OBVIOUS
  <2> HIDE DEF q, In
  <2>6. /\ In(n + 1, q.current) /\ ~In(n + 1, q.current + 1)
        /\ q.longest > 0 => q.lastIndex < n + 1 /\ In(q.lastIndex + 1, q.longest)
        /\ \A i \in 1 .. n + 1 : ~In(i, q.longest + 1)
        /\ \A i \in 1 .. q.lastIndex : q.longest > 0 => ~In(i, q.longest)
    BY <1>3, <2>1, <2>2, <2>3, <2>4, <2>5
  <2>7. q.longest = 0 => q.lastIndex = 0
    BY <1>1, <2>1
  <2> QED
    BY <2>6, <2>7 DEF RunIs, In, q
<1>6. CASE ~(r.current + 1 > r.longest)
  <2>1. q.longest = r.longest /\ q.current = r.current + 1 /\ q.lastIndex = r.lastIndex
    BY <1>6 DEF RunInc, Run
  <2>2. ~In(n + 1, r.longest + 1)
    <3>1. r.current + 2 \in Nat /\ r.longest + 1 \in Nat /\ r.current + 2 <= r.longest + 1
          /\ n + 1 \in Nat
      BY <1>1, <1>6
    <3> QED
      BY <1>3, <3>1, ShorterStreak
  <2>3. \A i \in 1 .. n + 1 : ~In(i, r.longest + 1)
    <3> TAKE i \in 1 .. n + 1
    <3>1. i = n + 1 \/ i \in 1 .. n
      OBVIOUS
    <3> QED
      BY <1>2, <2>2, <3>1
  <2>4. q.current + 1 = r.current + 2
    BY <1>1, <2>1
  <2>5. r.longest > 0 => r.lastIndex < n + 1
    BY <1>1, <1>2
  <2>7. q.longest = 0 => q.lastIndex = 0
    BY <2>1 DEF RunIs
  <2> HIDE DEF q, In
  <2>6. /\ In(n + 1, q.current) /\ ~In(n + 1, q.current + 1)
        /\ q.longest > 0 => q.lastIndex < n + 1 /\ In(q.lastIndex + 1, q.longest)
        /\ \A i \in 1 .. n + 1 : ~In(i, q.longest + 1)
        /\ \A i \in 1 .. q.lastIndex : q.longest > 0 => ~In(i, q.longest)
    BY <1>2, <1>3, <2>1, <2>3, <2>4, <2>5
  <2> QED
    BY <2>6, <2>7 DEF RunIs, In, q
<1> QED
  BY <1>5, <1>6

(* Run.Reset: a point of the other kind.                                   *)
LEMMA RunResetFacts ==
  ASSUME NEW r \in Run, NEW d, NEW n \in Nat, NEW kind, RunIs(r, d, n, kind),
         NEW e, \A j \in 1 .. n : e[j] = d[j], e[n + 1] # kind
  PROVE  RunIs(RunReset(r), e, n + 1, kind)
<1> DEFINE q == RunReset(r)
           In(i, k) == IsStreak(e, kind, i, k)
<1>1. r.longest \in Nat /\ r.current \in Nat /\ r.lastIndex \in Nat
  BY DEF Run
<1>2. \A i \in 0 .. n, k \in Nat : In(i, k) <=> IsStreak(d, kind, i, k)
  BY StreakOfSame
<1>3. \A k \in Nat : ~In(n + 1, k + 1)
  BY StreakFacts
<1>4. q.longest = r.longest /\ q.current = 0 /\ q.lastIndex = r.lastIndex
  BY DEF RunReset, Run
<1>5. In(n + 1, 0) /\ ~In(n + 1, 0 + 1)
  <2>1. n + 1 \in Nat /\ 0 \in Nat
    OBVIOUS
  <2>2. In(n + 1, 0)
    BY <2>1, StreakFacts
  <2> QED
    BY <1>3, <2>1, <2>2
<1>6. r.longest > 0 => r.lastIndex < n + 1 /\ In(r.lastIndex + 1, r.longest)
  <2> HAVE r.longest > 0
  <2>1. r.lastIndex < n /\ r.lastIndex + 1 \in 0 .. n
    BY <1>1 DEF RunIs
  <2>2. IsStreak(d, kind, r.lastIndex + 1, r.longest)
    BY <1>1 DEF RunIs
  <2>3. r.lastIndex < n + 1
    BY <1>1, <2>1
  <2> QED
    BY <1>1, <1>2, <2>1, <2>2, <2>3
<1>7. \A i \in 1 .. n + 1 : ~In(i, r.longest + 1)
  <2> TAKE i \in 1 .. n + 1
  <2>1. CASE i = n + 1
    BY <1>1, <1>3, <2>1
  <2>2. CASE i \in 1 .. n
    <3>1. i \in 0 .. n /\ r.longest + 1 \in Nat
      BY <1>1, <2>2
    <3>2. ~IsStreak(d, kind, i, r.longest + 1)
      BY <2>2 DEF RunIs
    <3> QED
      BY <1>2, <3>1, <3>2
  <2> QED
    BY <2>1, <2>2
<1>8. \A i \in 1 .. r.lastIndex : r.longest > 0 => ~In(i, r.longest)
  <2> SUFFICES ASSUME NEW i \in 1 .. r.lastIndex, r.longest > 0
               PROVE  ~In(i, r.longest)
    OBVIOUS
  <2>1. i \in 0 .. n
    BY <1>1 DEF RunIs
  <2>2. ~IsStreak(d, kind, i, r.longest)
    BY DEF RunIs
  <2> QED
    BY <1>1, <1>2, <2>1, <2>2
<1>10. q.longest = 0 => q.lastIndex = 0
  BY <1>4 DEF RunIs
<1> HIDE DEF q, In
<1>9. /\ In(n + 1, q.current) /\ ~In(n + 1, q.current + 1)
      /\ q.longest > 0 => q.lastIndex < n + 1 /\ In(q.lastIndex + 1, q.longest)
      /\ \A i \in 1 .. n + 1 : ~In(i, q.longest + 1)
      /\ \A i \in 1 .. q.lastIndex : q.longest > 0 => ~In(i, q.longest)
  BY <1>4, <1>5, <1>6, <1>7, <1>8
<1> QED
  BY <1>9, <1>10 DEF RunIs, In, q

(* Runs.AddPoint: one more point.                                          *)
LEMMA RunsAddFacts ==
  ASSUME NEW r \in AllRuns, NEW d, NEW n \in Nat, RunsAre(r, d, n),
         NEW e, \A j \in 1 .. n : e[j] = d[j],
         NEW p, p.dropped \in BOOLEAN, e[n + 1] = p.dropped
  PROVE  RunsAre(RunsAdd(r, n, p), e, n + 1)
<1>1. r.good \in Run /\ r.dropped \in Run
  BY DEF AllRuns
<1>2. RunIs(r.good, d, n, FALSE) /\ RunIs(r.dropped, d, n, TRUE)
  BY DEF RunsAre
<1>3. CASE p.dropped = TRUE
  <2>1. RunIs(RunReset(r.good), e, n + 1, FALSE)
    BY <1>1, <1>2, <1>3, RunResetFacts
  <2>2. RunIs(RunInc(r.dropped, n), e, n + 1, TRUE)
    BY <1>1, <1>2, <1>3, RunIncFacts
  <2> QED
    BY <1>3, <2>1, <2>2 DEF RunsAre, RunsAdd
<1>4. CASE p.dropped = FALSE
  <2>1. RunIs(RunReset(r.dropped), e, n + 1, TRUE)
    BY <1>1, <1>2, <1>4, RunResetFacts
  <2>2. RunIs(RunInc(r.good, n), e, n + 1, FALSE)
    BY <1>1, <1>2, <1>4, RunIncFacts
  <2> QED
    BY <1>4, <2>1, <2>2 DEF RunsAre, RunsAdd
<1> QED
  BY <1>3, <1>4

(* The recursive function a migration computes: it exists, by induction on *)
(* its domain, and takes the points one by one.                            *)
LEMMA RecomputedSteps ==
  ASSUME total \in Nat
  PROVE  \E upTo :
           /\ upTo[0] = NoRuns
           /\ \A n \in 0 .. total - 1 : upTo[n + 1] = RunsAdd(upTo[n], n, Get(n + 1))
           /\ Recomputed = upTo[total]
<1> DEFINE value(f, n) == IF n = 0 THEN NoRuns ELSE RunsAdd(f[n - 1], n - 1, Get(n))
           Solves(f, n) == f = [m \in 0 .. n |-> value(f, m)]
           S == {n \in Nat : \E f : Solves(f, n)}
<1>1. 0 \in S
  <2> DEFINE f == [m \in 0 .. 0 |-> NoRuns]
  <2>1. Solves(f, 0)
    <3>1. \A m \in 0 .. 0 : value(f, m) = NoRuns
      OBVIOUS
    <3> QED
      BY <3>1
  <2> QED
    BY <2>1
<1>2. \A n \in Nat : n \in S => n + 1 \in S
  <2> SUFFICES ASSUME NEW n \in Nat, n \in S
               PROVE  n + 1 \in S
    OBVIOUS
  <2>1. PICK f : Solves(f, n)
    OBVIOUS
  <2> DEFINE g == [m \in 0 .. n + 1 |-> IF m <= n THEN f[m] ELSE RunsAdd(f[n], n, Get(n + 1))]
  <2>2. ASSUME NEW m \in 0 .. n + 1
        PROVE  g[m] = value(g, m)
    <3>1. CASE m = 0
      <4>1. f[0] = NoRuns
        BY <2>1
      <4> QED
        BY <3>1, <4>1
    <3>2. CASE m \in 1 .. n
      <4>1. m \in 0 .. n /\ m - 1 \in 0 .. n + 1 /\ m - 1 <= n /\ m # 0
        BY <3>2
      <4>2. f[m] = RunsAdd(f[m - 1], m - 1, Get(m))
        BY <2>1, <4>1
      <4>3. g[m] = f[m] /\ g[m - 1] = f[m - 1]
        BY <4>1
      <4> QED
        BY <4>1, <4>2, <4>3
    <3>3. CASE m = n + 1
      <4>1. g[m] = RunsAdd(f[n], n, Get(n + 1)) /\ g[n] = f[n] /\ m - 1 = n /\ m # 0
        BY <3>3
      <4> QED
        BY <3>3, <4>1
    <3> QED
      BY <3>1, <3>2, <3>3
  <2>3. g = [m \in 0 .. n + 1 |-> g[m]]
    OBVIOUS
  <2>4. Solves(g, n + 1)
    <3> HIDE DEF g
    <3> QED
      BY <2>2, <2>3
  <2> HIDE DEF g, Solves
  <2> QED
    BY <2>4
<1>3. \E f : Solves(f, total)
  <2> HIDE DEF S
  <2>1. Nat \subseteq S
    BY <1>1, <1>2, NatInductionOnSets
  <2> QED
    BY <2>1 DEF S
<1> DEFINE upTo == CHOOSE f : Solves(f, total)
<1>4. Solves(upTo, total)
  <2> HIDE DEF Solves
  <2> QED
    BY <1>3
<1>5. Recomputed = upTo[total]
  BY DEF Recomputed
<1> HIDE DEF upTo
<1>6. upTo[0] = NoRuns
  BY <1>4
<1>7. \A n \in 0 .. total - 1 : upTo[n + 1] = RunsAdd(upTo[n], n, Get(n + 1))
  BY <1>4
<1> QED
  BY <1>5, <1>6, <1>7

(* The streaks a migration recomputes are those of the points in the       *)
(* blocks, in insertion order.                                             *)
LEMMA RecomputedFacts ==
  ASSUME total \in Nat, NEW d,
         \A i \in 1 .. total : d[i] = Get(i).dropped /\ Get(i).dropped \in BOOLEAN
  PROVE  Recomputed \in AllRuns /\ RunsAre(Recomputed, d, total)
<1>1. PICK upTo : /\ upTo[0] = NoRuns
                  /\ \A n \in 0 .. total - 1 : upTo[n + 1] = RunsAdd(upTo[n], n, Get(n + 1))
                  /\ Recomputed = upTo[total]
  BY RecomputedSteps
<1> DEFINE T == {n \in Nat : n <= total => upTo[n] \in AllRuns /\ RunsAre(upTo[n], d, n)}
<1>2. 0 \in T
  BY <1>1, NoRunsType, NoRunsAre
<1>3. \A n \in Nat : n \in T => n + 1 \in T
  <2> SUFFICES ASSUME NEW n \in Nat, n \in T, n + 1 <= total
               PROVE  upTo[n + 1] \in AllRuns /\ RunsAre(upTo[n + 1], d, n + 1)
    OBVIOUS
  <2>1. upTo[n] \in AllRuns /\ RunsAre(upTo[n], d, n)
    OBVIOUS
  <2>2. upTo[n + 1] = RunsAdd(upTo[n], n, Get(n + 1))
    BY <1>1
  <2>3. upTo[n + 1] \in AllRuns
    BY <2>1, <2>2, RunsAddType
  <2>4. d[n + 1] = Get(n + 1).dropped /\ Get(n + 1).dropped \in BOOLEAN
    OBVIOUS
  <2>5. RunsAre(RunsAdd(upTo[n], n, Get(n + 1)), d, n + 1)
    BY <2>1, <2>4, RunsAddFacts
  <2> QED
    BY <2>2, <2>3, <2>5
<1>4. total \in T
  <2> HIDE DEF T
  <2> QED
    BY <1>2, <1>3, NatInductionOnSets
<1> QED
  BY <1>1, <1>4

(* The points with one more.                                               *)
LEMMA AppendedPoints ==
  ASSUME NEW n \in Nat, NEW s, s = [i \in 1 .. n |-> s[i]], NEW x
  PROVE  (\A i \in 1 .. n : Append(s, x)[i] = s[i]) /\ Append(s, x)[n + 1] = x
<1> DEFINE T == {s[i] : i \in 1 .. n}
<1>1. \A i \in 1 .. n : s[i] \in T
  OBVIOUS
<1> HIDE DEF T
<1>2. s \in Seq(T) /\ Len(s) = n
  BY <1>1
<1> QED
  BY <1>2

(* The flags of the points.                                                *)
Flags == [i \in 1 .. Len(order) |-> Points[i].dropped]

RunsInv == runs \in AllRuns /\ RunsAre(runs, Flags, Len(order))

(* What a point of the log is made of.                                     *)
LEMMA PointFacts ==
  ASSUME IInv, NEW i \in 1 .. Len(order)
  PROVE  /\ Get(i) \in Raw /\ Points[i] = GetFull(i)
         /\ Points[i].time = Get(i).time /\ Points[i].duration = Get(i).duration
         /\ Points[i].dropped = Get(i).dropped /\ Flags[i] = Get(i).dropped
<1>1. /\ blocks \in Seq(AnyBlock) /\ order \in Seq([block: Nat, raw: Nat])
      /\ order[i].block < Len(blocks)
      /\ order[i].raw < Len(blocks[order[i].block + 1].raw)
  BY DEF IInv, Shape, OrderSound
<1>2. order[i] \in [block: Nat, raw: Nat]
  BY <1>1, ElementOfSeq
<1>3. order[i].block + 1 \in 1 .. Len(blocks) /\ order[i].raw \in Nat
  BY <1>1, <1>2
<1>4. blocks[order[i].block + 1] \in AnyBlock
  BY <1>1, <1>3, ElementOfSeq
<1>5. blocks[order[i].block + 1].raw \in Seq(Raw)
  BY <1>4 DEF AnyBlock
<1>6. order[i].raw + 1 \in 1 .. Len(blocks[order[i].block + 1].raw)
  <2>1. Len(blocks[order[i].block + 1].raw) \in Nat
    BY <1>5
  <2>2. \A m, l \in Nat : m < l => m + 1 \in 1 .. l
    OBVIOUS
  <2> QED
    BY <1>1, <1>3, <2>1, <2>2, Zenon
<1>7. Get(i) \in Raw
  BY <1>5, <1>6, ElementOfSeq DEF Get
<1>8. Points[i] = GetFull(i)
  BY DEF Points
<1> QED
  BY <1>7, <1>8 DEF Flags, GetFull

(* The streaks kept up to date and those recomputed are the streaks of the *)
(* points.                                                                 *)
LEMMA RunsInductive == Spec => [](IInv /\ RunsInv)
<1>1. Init => RunsInv
  <2> SUFFICES ASSUME Init
               PROVE  RunsInv
    OBVIOUS
  <2>1. Len(order) = 0 /\ runs = NoRuns
    BY DEF Init
  <2> QED
    BY <2>1, NoRunsType, NoRunsAre DEF RunsInv
<1>2. ASSUME IInv, RunsInv, [Next]_vars
      PROVE  RunsInv'
  <2> DEFINE n == Len(order)
  <2>1. total = n /\ n \in Nat /\ IInv'
    BY <1>2, NextInvariant DEF IInv, OrderSound, Shape
  <2>2. ASSUME NEW p \in NewPoints, Add(p)
        PROVE  RunsInv'
    <3>1. Points' = Append(Points, Recorded(p)) /\ runs' = RunsAdd(runs, n, p)
      BY <1>2, <2>1, <2>2, AddStep DEF Add
    <3>2. n' = n + 1
      BY <2>1, <2>2 DEF Add, IInv, OrderSound
    <3>3. \A i \in 1 .. n : Flags'[i] = Flags[i]
      <4> TAKE i \in 1 .. n
      <4>1. Points'[i] = Points[i]
        <5>1. Points = [j \in 1 .. n |-> GetFull(j)]
          BY DEF Points
        <5> QED
          BY <2>1, <3>1, <5>1, AppendedPoints
      <4>2. i \in 1 .. n'
        BY <2>1, <3>2
      <4> QED
        BY <4>1, <4>2 DEF Flags
    <3>4. Flags'[n + 1] = p.dropped /\ p.dropped \in BOOLEAN
      <4>1. Points'[n + 1] = Recorded(p)
        BY <2>1, <3>1, AppendedPoints DEF Points
      <4>2. Recorded(p).dropped = p.dropped /\ Recorded(p).dropped \in BOOLEAN
        BY NewPointFacts DEF RecordedPoint
      <4>3. n + 1 \in 1 .. n'
        BY <2>1, <3>2
      <4> QED
        BY <4>1, <4>2, <4>3 DEF Flags
    <3>5. RunsAre(RunsAdd(runs, n, p), Flags', n + 1)
      BY <1>2, <2>1, <3>3, <3>4, RunsAddFacts DEF RunsInv
    <3>6. RunsAdd(runs, n, p) \in AllRuns
      BY <1>2, <2>1, RunsAddType DEF RunsInv
    <3> QED
      BY <3>1, <3>2, <3>5, <3>6 DEF RunsInv
  <2>3. ASSUME NEW v \in Versions, Reopen(v)
        PROVE  RunsInv'
    <3>1. Points' = [i \in 1 .. Len(Points) |-> Reread(Points[i])] /\ order' = order
      BY <1>2, <2>3, ReopenStep DEF Reopen
    <3>2. Flags' = Flags
      <4>1. Len(Points) = n /\ \A i \in 1 .. n : Points[i] = GetFull(i)
        BY <2>1 DEF Points
      <4>2. \A i \in 1 .. n : Reread(Points[i]).dropped = Points[i].dropped
        BY <4>1 DEF Reread, GetFull
      <4> QED
        BY <2>1, <3>1, <4>1, <4>2 DEF Flags
    <3>3. Recomputed \in AllRuns /\ RunsAre(Recomputed, Flags, n)
      <4>1. \A i \in 1 .. n : Flags[i] = Get(i).dropped /\ Get(i).dropped \in BOOLEAN
        BY <1>2, PointFacts DEF Raw
      <4> QED
        BY <2>1, <4>1, RecomputedFacts
    <3>4. runs' = runs \/ runs' = Recomputed
      BY <2>3 DEF Reopen, Migrated
    <3> QED
      BY <1>2, <3>1, <3>2, <3>3, <3>4 DEF RunsInv
  <2>4. CASE UNCHANGED vars
    <3>1. Flags' = Flags
      BY <2>4 DEF vars, Flags, Points, GetFull, Get, IPOf
    <3> QED
      BY <1>2, <2>4, <3>1 DEF RunsInv, vars
  <2> QED
    BY <1>2, <2>2, <2>3, <2>4 DEF Next
<1>3. Init => IInv
  BY InitInvariant
<1>4. ASSUME IInv /\ RunsInv, [Next]_vars
      PROVE  (IInv /\ RunsInv)'
  BY <1>2, <1>4, NextInvariant
<1> QED
  BY <1>1, <1>3, <1>4, PTL DEF Spec

-----------------------------------------------------------------------------
(* The headers: the inductive invariant StatsInv.                          *)

(* What the statistics are taken from: the good points, the times from the *)
(* first of them on, and their round trips.                                *)
GoodOf(s) == {i \in 1 .. Len(s) : ~s[i].dropped}
TimesOf(s) == {s[i].time : i \in {j \in 1 .. Len(s) : \E g \in GoodOf(s) : g <= j}}
DurationsOf(s) == {s[i].duration : i \in GoodOf(s)}

(* A span covers times from end to end.                                    *)
Covers(span, times) ==
  /\ span.begin \in times /\ \A t \in times : span.begin <= t
  /\ span.end \in times /\ \A t \in times : t <= span.end

(* The extremes of the durations.                                          *)
Extremes(stats, durations) ==
  /\ stats.min \in durations /\ \A d \in durations : stats.min <= d
  /\ stats.max \in durations /\ \A d \in durations : d <= stats.max

(* The duration of a span is the one of its ends, or both ends come from a *)
(* file and lose nothing more.                                             *)
SpanExact(span) == span.duration = span.end - span.begin
SpanFromFile(span) ==
  /\ OnDisk(span.begin) = span.begin /\ OnDisk(span.end) = span.end
  /\ span.duration - (span.end - span.begin) < Resolution
  /\ -(span.duration - (span.end - span.begin)) < Resolution

(* A header describes the points: what StatisticsAgree asks, and where the *)
(* duration of the span comes from.                                        *)
HeaderIs(h, s) ==
  /\ h.stats.good = Cardinality(GoodOf(s))
  /\ h.stats.dropped = Len(s) - Cardinality(GoodOf(s))
  /\ GoodOf(s) # {} => Extremes(h.stats, DurationsOf(s)) /\ Covers(h.span, TimesOf(s))
  /\ SpanExact(h.span) \/ SpanFromFile(h.span)

(* What the statistics read of points.                                     *)
PointsOf(s) ==
  /\ Len(s) \in Nat
  /\ \A i \in 1 .. Len(s) :
       s[i].time \in Nat /\ s[i].duration \in Nat /\ s[i].dropped \in BOOLEAN

(* A header that is the one of the points describes them.                 *)
LEMMA HeaderDescribes ==
  ASSUME NEW h \in Header, NEW s, HeaderIs(h, s)
  PROVE  Describes(h, s)
<1>1. h.span.begin \in Nat /\ h.span.end \in Nat /\ h.span.duration \in Nat
  BY DEF Header
<1>2. Resolution \in Nat /\ Resolution > 0
  BY PointAssumption
<1>3. /\ h.span.duration - (h.span.end - h.span.begin) < Resolution
      /\ -(h.span.duration - (h.span.end - h.span.begin)) < Resolution
  BY <1>1, <1>2 DEF HeaderIs, SpanExact, SpanFromFile
<1> QED
  BY <1>3 DEF Describes, HeaderIs, Extremes, Covers, GoodOf, TimesOf, DurationsOf

(* The good points can be counted.                                        *)
LEMMA GoodIsFinite ==
  ASSUME NEW s, Len(s) \in Nat
  PROVE  /\ IsFiniteSet(GoodOf(s)) /\ Cardinality(GoodOf(s)) \in Nat
         /\ GoodOf(s) \subseteq 1 .. Len(s)
         /\ Cardinality(GoodOf(s)) = 0 <=> GoodOf(s) = {}
<1>1. IsFiniteSet(1 .. Len(s))
  BY FS_Interval
<1>2. GoodOf(s) \subseteq 1 .. Len(s)
  BY DEF GoodOf
<1>3. IsFiniteSet(GoodOf(s))
  BY <1>1, <1>2, FS_Subset
<1> QED
  BY <1>2, <1>3, FS_CardinalityType, FS_EmptySet

(* No points have a header of zeroes.                                      *)
LEMMA NoHeaderIs == HeaderIs(NoHeader, <<>>)
<1>1. GoodOf(<<>>) = {}
  BY DEF GoodOf
<1>2. Cardinality(GoodOf(<<>>)) = 0
  BY <1>1, FS_EmptySet
<1>3. NoHeader.stats.good = 0 /\ NoHeader.stats.dropped = 0 /\ SpanExact(NoHeader.span)
  BY DEF NoHeader, NoStats, SpanFrom, SpanExact
<1> QED
  BY <1>1, <1>2, <1>3 DEF HeaderIs

(* A span with one more time still covers them all.                        *)
LEMMA SpanAddCovers ==
  ASSUME NEW span \in [begin: Nat, end: Nat, duration: Nat], NEW times \in SUBSET Nat,
         Covers(span, times), NEW t \in Nat
  PROVE  Covers(SpanAdd(span, t), times \cup {t}) /\ SpanExact(SpanAdd(span, t))
<1>1. span.begin \in Nat /\ span.end \in Nat
  OBVIOUS
<1> DEFINE b == MinOf(span.begin, t)
           e == MaxOf(span.end, t)
<1>2. /\ b \in {span.begin, t} /\ b <= span.begin /\ b <= t /\ b \in Nat
      /\ e \in {span.end, t} /\ span.end <= e /\ t <= e /\ e \in Nat
  BY <1>1 DEF MinOf, MaxOf
<1>3. SpanAdd(span, t) = [begin |-> b, end |-> e, duration |-> e - b]
  BY DEF SpanAdd
<1> HIDE DEF b, e
<1>4. b \in times \cup {t} /\ e \in times \cup {t}
  BY <1>2 DEF Covers
<1>5. \A u \in times \cup {t} : b <= u /\ u <= e
  <2> TAKE u \in times \cup {t}
  <2>1. CASE u = t
    BY <1>2, <2>1
  <2>2. CASE u \in times
    <3>1. span.begin <= u /\ u <= span.end /\ u \in Nat
      BY <2>2 DEF Covers
    <3> QED
      BY <1>1, <1>2, <3>1
  <2> QED
    BY <2>1, <2>2
<1> QED
  BY <1>3, <1>4, <1>5 DEF Covers, SpanExact

(* Stats.AddPoint keeps the extremes.                                      *)
LEMMA StatsAddExtremes ==
  ASSUME NEW stats \in Stats, NEW durations \in SUBSET Nat,
         stats.good = 0 => durations = {},
         stats.good # 0 => Extremes(stats, durations),
         NEW p, p.duration \in Nat, ~p.dropped
  PROVE  Extremes(StatsAdd(stats, p), durations \cup {p.duration})
<1>1. stats.min \in Nat /\ stats.max \in Nat /\ stats.good \in Nat
  BY DEF Stats
<1> DEFINE b == IF stats.good = 0 THEN p.duration ELSE MinOf(stats.min, p.duration)
           e == IF stats.good = 0 THEN p.duration ELSE MaxOf(stats.max, p.duration)
<1>2. StatsAdd(stats, p).min = b /\ StatsAdd(stats, p).max = e
  BY DEF StatsAdd, Stats
<1>3. CASE stats.good = 0
  BY <1>2, <1>3 DEF Extremes
<1>4. CASE stats.good # 0
  <2>1. /\ b \in {stats.min, p.duration} /\ b <= stats.min /\ b <= p.duration /\ b \in Nat
        /\ e \in {stats.max, p.duration} /\ stats.max <= e /\ p.duration <= e /\ e \in Nat
    BY <1>1, <1>4 DEF MinOf, MaxOf
  <2> HIDE DEF b, e
  <2>2. b \in durations \cup {p.duration} /\ e \in durations \cup {p.duration}
    BY <1>4, <2>1 DEF Extremes
  <2>3. \A u \in durations \cup {p.duration} : b <= u /\ u <= e
    <3> TAKE u \in durations \cup {p.duration}
    <3>1. CASE u = p.duration
      BY <2>1, <3>1
    <3>2. CASE u \in durations
      <4>1. stats.min <= u /\ u <= stats.max /\ u \in Nat
        BY <1>4, <3>2 DEF Extremes
      <4> QED
        BY <1>1, <2>1, <4>1
    <3> QED
      BY <3>1, <3>2
  <2> QED
    BY <1>2, <2>2, <2>3 DEF Extremes
<1> QED
  BY <1>3, <1>4

(* Header.AddPoint: the header of the points with one more.                *)
LEMMA HeaderAddIs ==
  ASSUME NEW h \in Header, NEW s, PointsOf(s), HeaderIs(h, s),
         NEW p, NEW t, PointsOf(t), Len(t) = Len(s) + 1,
         \A i \in 1 .. Len(s) : t[i] = s[i],
         /\ t[Len(s) + 1].time = p.time /\ t[Len(s) + 1].duration = p.duration
         /\ t[Len(s) + 1].dropped = p.dropped
  PROVE  HeaderIs(HeaderAdd(h, p), t)
<1> DEFINE n == Len(s)
           k == HeaderAdd(h, p)
           G == GoodOf(s)
           c == Cardinality(G)
<1>1. /\ n \in Nat /\ n + 1 \in 1 .. Len(t) /\ p.time \in Nat /\ p.duration \in Nat
      /\ p.dropped \in BOOLEAN
  BY DEF PointsOf
<1>2. /\ h.stats \in Stats /\ h.span \in [begin: Nat, end: Nat, duration: Nat]
      /\ h.stats.good = c /\ h.stats.dropped = n - c /\ c \in Nat
      /\ G \subseteq 1 .. n /\ IsFiniteSet(G) /\ (c = 0 <=> G = {})
  BY <1>1, GoodIsFinite DEF Header, HeaderIs
<1>3. /\ k.stats = StatsAdd(h.stats, p)
      /\ k.span = IF c = 0 THEN SpanFrom(p.time) ELSE SpanAdd(h.span, p.time)
  BY <1>2 DEF HeaderAdd
<1>4. GoodOf(t) = IF p.dropped THEN G ELSE G \cup {n + 1}
  BY <1>1 DEF GoodOf
<1>5. /\ Cardinality(GoodOf(t)) = IF p.dropped THEN c ELSE c + 1
      /\ GoodOf(t) # {} => \A g \in GoodOf(t) : g <= n + 1
  <2>1. n + 1 \notin G
    BY <1>1, <1>2
  <2>2. Cardinality(G \cup {n + 1}) = c + 1
    BY <1>2, <2>1, FS_AddElement
  <2> QED
    BY <1>1, <1>2, <1>4, <2>2
<1>6. k.stats.good = Cardinality(GoodOf(t)) /\ k.stats.dropped = Len(t) - Cardinality(GoodOf(t))
  <2>1. CASE p.dropped
    <3>1. k.stats.good = h.stats.good /\ k.stats.dropped = h.stats.dropped + 1
      BY <1>2, <1>3, <2>1 DEF StatsAdd, Stats
    <3> HIDE DEF k, c, G
    <3> QED
      BY <1>1, <1>2, <1>5, <2>1, <3>1
  <2>2. CASE ~p.dropped
    <3>1. k.stats.good = h.stats.good + 1 /\ k.stats.dropped = h.stats.dropped
      BY <1>2, <1>3, <2>2 DEF StatsAdd, Stats
    <3> HIDE DEF k, c, G
    <3> QED
      BY <1>1, <1>2, <1>5, <2>2, <3>1
  <2> QED
    BY <2>1, <2>2
<1>7. /\ DurationsOf(s) \in SUBSET Nat /\ TimesOf(s) \in SUBSET Nat
      /\ G = {} => DurationsOf(s) = {} /\ TimesOf(s) = {}
  BY DEF DurationsOf, TimesOf, GoodOf, PointsOf
<1>8. DurationsOf(t) = IF p.dropped THEN DurationsOf(s) ELSE DurationsOf(s) \cup {p.duration}
  BY <1>1, <1>2, <1>4 DEF DurationsOf
<1>9. GoodOf(t) # {} => TimesOf(t) = TimesOf(s) \cup {p.time}
  <2> SUFFICES ASSUME GoodOf(t) # {}
               PROVE  TimesOf(t) = TimesOf(s) \cup {p.time}
    OBVIOUS
  <2> DEFINE From(x) == {j \in 1 .. Len(x) : \E g \in GoodOf(x) : g <= j}
  <2>1. n + 1 \in From(t)
    BY <1>1, <1>5
  <2>2. \A j \in 1 .. n : j \in From(t) <=> j \in From(s)
    <3> TAKE j \in 1 .. n
    <3>1. j \in 1 .. Len(t) /\ ~(n + 1 <= j)
      BY <1>1
    <3> QED
      BY <1>4, <3>1
  <2>3. From(s) \subseteq 1 .. n /\ From(t) \subseteq 1 .. n + 1
    OBVIOUS
  <2>4. \A j \in From(t) : j = n + 1 \/ j \in 1 .. n
    BY <1>1, <2>3
  <2>5. From(t) = From(s) \cup {n + 1}
    <3> HIDE DEF From
    <3> QED
      BY <2>1, <2>2, <2>3, <2>4
  <2>6. TimesOf(t) = {t[i].time : i \in From(t)} /\ TimesOf(s) = {s[i].time : i \in From(s)}
    BY DEF TimesOf
  <2> HIDE DEF From
  <2>7. \A i \in From(s) : t[i].time = s[i].time
    BY <2>3
  <2> QED
    BY <2>5, <2>6, <2>7
<1>10. ASSUME GoodOf(t) # {}
       PROVE  Extremes(k.stats, DurationsOf(t))
  <2>1. CASE p.dropped
    <3>1. k.stats.min = h.stats.min /\ k.stats.max = h.stats.max
      BY <1>2, <1>3, <2>1 DEF StatsAdd, Stats
    <3>2. Extremes(h.stats, DurationsOf(s))
      BY <1>4, <1>10, <2>1 DEF HeaderIs
    <3> QED
      BY <1>8, <2>1, <3>1, <3>2 DEF Extremes
  <2>2. CASE ~p.dropped
    <3>1. h.stats.good # 0 => Extremes(h.stats, DurationsOf(s))
      BY <1>2 DEF HeaderIs
    <3>2. h.stats.good = 0 => DurationsOf(s) = {}
      BY <1>2, <1>7
    <3>3. Extremes(StatsAdd(h.stats, p), DurationsOf(s) \cup {p.duration})
      BY <1>1, <1>2, <1>7, <2>2, <3>1, <3>2, StatsAddExtremes
    <3> QED
      BY <1>3, <1>8, <2>2, <3>3
  <2> QED
    BY <2>1, <2>2
<1>11. GoodOf(t) # {} => Covers(k.span, TimesOf(t))
  <2> HAVE GoodOf(t) # {}
  <2>1. CASE c = 0
    <3>1. TimesOf(t) = {p.time}
      BY <1>2, <1>7, <1>9, <2>1
    <3>2. k.span.begin = p.time /\ k.span.end = p.time
      BY <1>3, <2>1 DEF SpanFrom
    <3> QED
      BY <1>1, <3>1, <3>2 DEF Covers
  <2>2. CASE c # 0
    <3>1. Covers(h.span, TimesOf(s))
      BY <1>2, <2>2 DEF HeaderIs
    <3>2. Covers(SpanAdd(h.span, p.time), TimesOf(s) \cup {p.time})
      BY <1>1, <1>2, <1>7, <3>1, SpanAddCovers
    <3> QED
      BY <1>3, <1>9, <2>2, <3>2
  <2> QED
    BY <2>1, <2>2
<1>12. SpanExact(k.span)
  <2>1. SpanExact(SpanFrom(p.time))
    BY <1>1 DEF SpanExact, SpanFrom
  <2>2. SpanExact(SpanAdd(h.span, p.time))
    BY DEF SpanExact, SpanAdd
  <2> QED
    BY <1>3, <2>1, <2>2
<1> HIDE DEF k
<1> QED
  BY <1>6, <1>10, <1>11, <1>12 DEF HeaderIs, k

(* A multiple that is less is less by the factor.                          *)
LEMMA MultiplesApart ==
  ASSUME NEW r \in Nat, NEW a \in Nat, NEW b \in Nat, a < b
  PROVE  r * a + r <= r * b
<1>1. PICK d \in Nat : b = a + 1 + d
  <2>1. b - a - 1 \in Nat /\ b = a + 1 + (b - a - 1)
    OBVIOUS
  <2> QED
    BY <2>1
<1>2. r * b = r * a + r + r * d
  BY <1>1
<1>3. r * d \in Nat /\ r * a \in Nat
  OBVIOUS
<1> QED
  BY <1>2, <1>3

(* The order of timestamps is kept.                                        *)
LEMMA OnDiskMonotone ==
  ASSUME NEW t \in Nat, NEW u \in Nat, t <= u
  PROVE  OnDisk(t) <= OnDisk(u)
<1>1. Resolution \in Nat /\ Resolution > 0
  BY PointAssumption
<1> DEFINE a == t \div Resolution
           b == u \div Resolution
<1>2. /\ a \in Nat /\ b \in Nat /\ OnDisk(t) = Resolution * a /\ OnDisk(u) = Resolution * b
      /\ OnDisk(t) \in Nat /\ OnDisk(u) \in Nat
      /\ OnDisk(t) <= t /\ u < OnDisk(u) + Resolution
  BY OnDiskFacts
<1> HIDE DEF a, b
<1>3. CASE b < a
  <2>1. OnDisk(u) + Resolution <= OnDisk(t)
    BY <1>1, <1>2, <1>3, MultiplesApart
  <2> QED
    BY <1>1, <1>2, <2>1
<1>4. CASE a = b
  BY <1>2, <1>4
<1>5. CASE a < b
  <2>1. OnDisk(t) + Resolution <= OnDisk(u)
    BY <1>1, <1>2, <1>5, MultiplesApart
  <2> QED
    BY <1>1, <1>2, <2>1
<1> QED
  BY <1>2, <1>3, <1>4, <1>5

(* Nothing more is lost the second time.                                   *)
LEMMA OnDiskTwice ==
  ASSUME NEW t \in Nat
  PROVE  OnDisk(OnDisk(t)) = OnDisk(t)
<1>1. Resolution \in Nat /\ Resolution > 0
  BY PointAssumption
<1> DEFINE u == OnDisk(t)
           a == t \div Resolution
           b == u \div Resolution
<1>2. u \in Nat /\ u = Resolution * a /\ a \in Nat
  BY OnDiskFacts
<1>3. /\ OnDisk(u) \in Nat /\ OnDisk(u) <= u /\ u < OnDisk(u) + Resolution
      /\ OnDisk(u) = Resolution * b /\ b \in Nat
  BY <1>2, OnDiskFacts
<1> HIDE DEF u, a, b
<1>4. CASE b < a
  <2>1. OnDisk(u) + Resolution <= u
    BY <1>1, <1>2, <1>3, <1>4, MultiplesApart
  <2> QED
    BY <1>1, <1>2, <1>3, <2>1
<1>5. CASE a < b
  <2>1. u + Resolution <= OnDisk(u)
    BY <1>1, <1>2, <1>3, <1>5, MultiplesApart
  <2> QED
    BY <1>1, <1>2, <1>3, <2>1
<1>6. CASE a = b
  BY <1>2, <1>3, <1>6 DEF u
<1> QED
  BY <1>2, <1>3, <1>4, <1>5, <1>6

(* A header and points that are written and read back still fit.           *)
LEMMA HeaderOnDiskIs ==
  ASSUME NEW h \in Header, NEW s, PointsOf(s), HeaderIs(h, s),
         NEW t, Len(t) = Len(s),
         \A i \in 1 .. Len(s) : /\ t[i].time = OnDisk(s[i].time)
                                /\ t[i].duration = s[i].duration
                                /\ t[i].dropped = s[i].dropped
  PROVE  HeaderIs(HeaderOnDisk(h), t)
<1> DEFINE k == HeaderOnDisk(h)
<1>1. /\ h.span.begin \in Nat /\ h.span.end \in Nat /\ h.span.duration \in Nat
      /\ Resolution \in Nat /\ Resolution > 0
  BY PointAssumption DEF Header
<1>2. /\ k.stats = h.stats
      /\ k.span = [begin |-> OnDisk(h.span.begin), end |-> OnDisk(h.span.end),
                   duration |-> h.span.duration]
  BY DEF HeaderOnDisk, Header
<1>3. GoodOf(t) = GoodOf(s) /\ DurationsOf(t) = DurationsOf(s)
  <2>1. GoodOf(t) = GoodOf(s)
    BY DEF GoodOf
  <2>2. GoodOf(s) \subseteq 1 .. Len(s)
    BY DEF GoodOf
  <2> QED
    BY <2>1, <2>2 DEF DurationsOf
<1>4. TimesOf(s) \in SUBSET Nat /\ TimesOf(t) = {OnDisk(u) : u \in TimesOf(s)}
  <2> DEFINE F == {j \in 1 .. Len(s) : \E g \in GoodOf(s) : g <= j}
  <2>1. TimesOf(s) = {s[i].time : i \in F} /\ TimesOf(t) = {t[i].time : i \in F}
    BY <1>3 DEF TimesOf
  <2>2. F \subseteq 1 .. Len(s)
    OBVIOUS
  <2> HIDE DEF F
  <2>3. \A i \in F : t[i].time = OnDisk(s[i].time) /\ s[i].time \in Nat
    BY <2>2 DEF PointsOf
  <2> QED
    BY <2>1, <2>3
<1>5. ASSUME GoodOf(s) # {}
      PROVE  Covers(k.span, TimesOf(t))
  <2>1. Covers(h.span, TimesOf(s))
    BY <1>5 DEF HeaderIs
  <2>2. k.span.begin \in TimesOf(t) /\ k.span.end \in TimesOf(t)
    BY <1>2, <1>4, <2>1 DEF Covers
  <2>3. ASSUME NEW u \in TimesOf(s)
        PROVE  OnDisk(h.span.begin) <= OnDisk(u) /\ OnDisk(u) <= OnDisk(h.span.end)
    <3>1. u \in Nat /\ h.span.begin <= u /\ u <= h.span.end
      BY <1>4, <2>1 DEF Covers
    <3> QED
      BY <1>1, <3>1, OnDiskMonotone
  <2> QED
    BY <1>2, <1>4, <2>2, <2>3 DEF Covers
<1>6. SpanFromFile(k.span)
  <2> DEFINE b == h.span.begin
             e == h.span.end
             d == h.span.duration
  <2>1. OnDisk(OnDisk(b)) = OnDisk(b) /\ OnDisk(OnDisk(e)) = OnDisk(e)
    BY <1>1, OnDiskTwice
  <2>2. /\ OnDisk(b) \in Nat /\ OnDisk(b) <= b /\ b < OnDisk(b) + Resolution
        /\ OnDisk(e) \in Nat /\ OnDisk(e) <= e /\ e < OnDisk(e) + Resolution
    BY <1>1, OnDiskFacts
  <2>3. d - (OnDisk(e) - OnDisk(b)) < Resolution /\ -(d - (OnDisk(e) - OnDisk(b))) < Resolution
    <3>1. CASE SpanExact(h.span)
      <4>1. d = e - b
        BY <3>1 DEF SpanExact
      <4> HIDE DEF d, e, b
      <4>2. e \in Nat /\ b \in Nat
        BY <1>1 DEF e, b
      <4> QED
        BY <1>1, <2>2, <4>1, <4>2
    <3>2. CASE SpanFromFile(h.span)
      BY <3>2 DEF SpanFromFile
    <3> QED
      BY <3>1, <3>2 DEF HeaderIs
  <2> QED
    BY <1>2, <2>1, <2>3 DEF SpanFromFile
<1> HIDE DEF k
<1> QED
  BY <1>2, <1>3, <1>5, <1>6 DEF HeaderIs, k

-----------------------------------------------------------------------------
(* The headers of the session and of the blocks.                           *)

BlocksAre == \A b \in 1 .. Len(blocks) : HeaderIs(blocks[b].header, blocks[b].raw)

StatsInv == HeaderIs(header, Points) /\ BlocksAre

(* A block keeps of its points what the statistics read.                   *)
LEMMA RawIsRead == \A s \in Seq(Raw) : PointsOf(s)
<1> TAKE s \in Seq(Raw)
<1>1. Len(s) \in Nat /\ \A i \in 1 .. Len(s) : s[i] \in Raw
  OBVIOUS
<1> QED
  BY <1>1 DEF PointsOf, Raw

(* Points and the contents of blocks are what the statistics read.         *)
LEMMA PointsAreRead ==
  ASSUME IInv
  PROVE  PointsOf(Points) /\ \A b \in 1 .. Len(blocks) : PointsOf(blocks[b].raw)
<1>1. Len(order) \in Nat /\ Len(Points) = Len(order) /\ blocks \in Seq(AnyBlock)
  BY DEF IInv, Shape, Points
<1>2. PointsOf(Points)
  <2>1. ASSUME NEW i \in 1 .. Len(order)
        PROVE  /\ Points[i].time \in Nat /\ Points[i].duration \in Nat
               /\ Points[i].dropped \in BOOLEAN
    BY PointFacts DEF Raw
  <2> QED
    BY <1>1, <2>1 DEF PointsOf
<1>3. ASSUME NEW b \in 1 .. Len(blocks)
      PROVE  PointsOf(blocks[b].raw)
  <2>1. blocks[b] \in AnyBlock
    BY <1>1, ElementOfSeq
  <2>2. blocks[b].raw \in Seq(Raw)
    BY <2>1 DEF AnyBlock
  <2> QED
    BY <2>2, RawIsRead
<1> QED
  BY <1>2, <1>3

(* Data.AddPoint keeps the headers.                                        *)
LEMMA AddStatistics ==
  ASSUME IInv, StatsInv, NEW p \in NewPoints, Add(p)
  PROVE  StatsInv'
<1> DEFINE n == Len(order)
           b == BlockOf(To16(p.ip))
           B == Grown(b)[b + 1]
<1>1. IInv' /\ Points' = Append(Points, Recorded(p)) /\ header' = HeaderAdd(header, p)
  BY AddStep DEF Add
<1>2. n \in Nat /\ Len(Points) = n /\ Points = [i \in 1 .. n |-> Points[i]] /\ header \in Header
      /\ blocks \in Seq(AnyBlock)
  BY DEF IInv, Shape, Points
<1>3. PointsOf(Points) /\ \A k \in 1 .. Len(blocks) : PointsOf(blocks[k].raw)
  BY PointsAreRead
<1>4. HeaderIs(header', Points')
  <2>1. /\ \A i \in 1 .. n : Points'[i] = Points[i]
        /\ Points'[n + 1] = Recorded(p)
    BY <1>1, <1>2, AppendedPoints
  <2>2. Len(Points') = n + 1
    <3>1. Len(Points') = Len(order') /\ Len(order') = Len(order) + 1
      BY <1>1, <1>2 DEF Points, IInv, Shape, Add, AddTo
    <3> QED
      BY <3>1
  <2>3. /\ Recorded(p).time = p.time /\ Recorded(p).duration = p.duration
        /\ Recorded(p).dropped = p.dropped
    BY NewPointFacts
  <2>4. PointsOf(Points')
    <3>1. ASSUME NEW i \in 1 .. n + 1
          PROVE  /\ Points'[i].time \in Nat /\ Points'[i].duration \in Nat
                 /\ Points'[i].dropped \in BOOLEAN
      <4>1. CASE i = n + 1
        BY <2>1, <4>1, NewPointFacts DEF RecordedPoint
      <4>2. CASE i \in 1 .. n
        BY <1>2, <1>3, <2>1, <4>2 DEF PointsOf
      <4> QED
        BY <1>2, <4>1, <4>2
    <3> QED
      BY <1>2, <2>2, <3>1 DEF PointsOf
  <2>5. HeaderIs(header, Points)
    BY DEF StatsInv
  <2>6. /\ Points'[n + 1].time = p.time /\ Points'[n + 1].duration = p.duration
        /\ Points'[n + 1].dropped = p.dropped
    BY <2>1, <2>3
  <2>7. HeaderIs(HeaderAdd(header, p), Points')
    BY <1>2, <1>3, <2>1, <2>2, <2>4, <2>5, <2>6, HeaderAddIs
  <2> QED
    BY <1>1, <2>7
<1>5. b \in 0 .. Len(blocks) /\ AddTo(b, p)
  <2>1. To16(p.ip) \in StoredIPs /\ NetworkAdd(To16(p.ip)) /\ AddTo(b, p)
    BY NewPointFacts DEF Add
  <2>2. b \in 0 .. cur
    BY <2>1, NetworkStep DEF IInv
  <2>3. cur = Len(blocks)
    BY DEF IInv, NetworkSound
  <2> QED
    BY <2>1, <2>2, <2>3
<1> HIDE DEF b
<1>6. /\ b + 1 \in 1 .. Len(blocks')
      /\ B \in AnyBlock
      /\ blocks'[b + 1].header = HeaderAdd(B.header, p)
      /\ blocks'[b + 1].raw = Append(B.raw, DataOf(p))
      /\ \A k \in 1 .. Len(blocks') : k # b + 1 => k \in 1 .. Len(blocks) /\ blocks'[k] = blocks[k]
      /\ b + 1 \in 1 .. Len(blocks) => B = blocks[b + 1]
      /\ b + 1 \notin 1 .. Len(blocks) => B = NewBlock
  BY <1>2, <1>5, HeadersStep
<1> HIDE DEF B
<1>7. HeaderIs(B.header, B.raw) /\ PointsOf(B.raw) /\ B.header \in Header /\ B.raw \in Seq(Raw)
  <2>1. CASE b + 1 \in 1 .. Len(blocks)
    BY <1>3, <1>6, <2>1 DEF StatsInv, BlocksAre, AnyBlock
  <2>2. CASE b + 1 \notin 1 .. Len(blocks)
    <3>1. B = [header |-> NoHeader, raw |-> <<>>]
      BY <1>6, <2>2 DEF NewBlock
    <3> QED
      BY <3>1, NoHeaderIs, NoHeaderType DEF PointsOf
  <2> QED
    BY <2>1, <2>2
<1>8. HeaderIs(blocks'[b + 1].header, blocks'[b + 1].raw)
  <2>1. DataOf(p) \in Raw
    BY HeaderAddOfPoint
  <2>2. /\ Len(blocks'[b + 1].raw) = Len(B.raw) + 1
        /\ \A i \in 1 .. Len(B.raw) : blocks'[b + 1].raw[i] = B.raw[i]
        /\ blocks'[b + 1].raw[Len(B.raw) + 1] = DataOf(p)
    BY <1>6, <1>7, <2>1
  <2>3. /\ DataOf(p).time = p.time /\ DataOf(p).duration = p.duration
        /\ DataOf(p).dropped = p.dropped
    BY DEF DataOf
  <2>4. PointsOf(blocks'[b + 1].raw)
    <3>1. blocks'[b + 1].raw \in Seq(Raw)
      BY <1>6, <1>7, <2>1
    <3> QED
      BY <3>1, RawIsRead
  <2> DEFINE t == blocks'[b + 1].raw
  <2>5. /\ t[Len(B.raw) + 1].time = p.time /\ t[Len(B.raw) + 1].duration = p.duration
        /\ t[Len(B.raw) + 1].dropped = p.dropped
    BY <2>2, <2>3
  <2>6. HeaderIs(HeaderAdd(B.header, p), t)
    BY <1>7, <2>2, <2>4, <2>5, HeaderAddIs
  <2> QED
    BY <1>6, <2>6
<1>9. BlocksAre'
  <2>1. ASSUME NEW k \in 1 .. Len(blocks')
        PROVE  HeaderIs(blocks'[k].header, blocks'[k].raw)
    <3>1. CASE k = b + 1
      BY <1>8, <3>1
    <3>2. CASE k # b + 1
      BY <1>6, <3>2 DEF StatsInv, BlocksAre
    <3> QED
      BY <3>1, <3>2
  <2> QED
    BY <2>1 DEF BlocksAre
<1> QED
  BY <1>4, <1>9 DEF StatsInv

(* So do writing and reading a file.                                       *)
LEMMA ReopenStatistics ==
  ASSUME IInv, StatsInv, NEW v \in Versions, Reopen(v)
  PROVE  StatsInv'
<1>1. /\ Points' = [i \in 1 .. Len(Points) |-> Reread(Points[i])]
      /\ header' = HeaderOnDisk(header) /\ blocks' = BlocksOnDisk
  BY ReopenStep DEF Reopen
<1>2. header \in Header /\ blocks \in Seq(AnyBlock) /\ Len(blocks) \in Nat /\ Len(order) \in Nat
      /\ Len(Points) = Len(order) /\ \A i \in 1 .. Len(order) : Points[i] = GetFull(i)
  BY DEF IInv, Shape, Points
<1>3. PointsOf(Points) /\ \A k \in 1 .. Len(blocks) : PointsOf(blocks[k].raw)
  BY PointsAreRead
<1>4. HeaderIs(header', Points')
  <2>1. Len(Points') = Len(Points)
    BY <1>1, <1>2
  <2>2. ASSUME NEW i \in 1 .. Len(Points)
        PROVE  /\ Points'[i].time = OnDisk(Points[i].time)
               /\ Points'[i].duration = Points[i].duration
               /\ Points'[i].dropped = Points[i].dropped
    <3>1. Points'[i] = Reread(Points[i]) /\ Points[i] = GetFull(i)
      BY <1>1, <1>2
    <3> QED
      BY <3>1 DEF Reread, GetFull
  <2> QED
    BY <1>1, <1>2, <1>3, <2>1, <2>2, HeaderOnDiskIs DEF StatsInv
<1>5. ASSUME NEW k \in 1 .. Len(blocks')
      PROVE  HeaderIs(blocks'[k].header, blocks'[k].raw)
  <2> DEFINE s == blocks[k].raw
             t == [i \in 1 .. Len(s) |-> Reread(s[i])]
  <2>1. k \in 1 .. Len(blocks)
    BY <1>1, <1>2, <1>5 DEF BlocksOnDisk
  <2>2. blocks'[k] = [header |-> HeaderOnDisk(blocks[k].header), raw |-> t]
    BY <1>1, <2>1 DEF BlocksOnDisk
  <2>3. blocks[k] \in AnyBlock
    BY <1>2, <2>1, ElementOfSeq
  <2>4. blocks[k].header \in Header /\ s \in Seq(Raw)
    BY <2>3 DEF AnyBlock
  <2>5. Len(t) = Len(s)
    BY <2>4
  <2>6. ASSUME NEW i \in 1 .. Len(s)
        PROVE  /\ t[i].time = OnDisk(s[i].time) /\ t[i].duration = s[i].duration
               /\ t[i].dropped = s[i].dropped
    <3>1. t[i] = Reread(s[i]) /\ s[i] \in Raw
      BY <2>4, ElementOfSeq
    <3> QED
      BY <3>1 DEF Reread, Raw
  <2>7. HeaderIs(blocks[k].header, s) /\ PointsOf(s)
    BY <1>3, <2>1 DEF StatsInv, BlocksAre
  <2> HIDE DEF s, t
  <2>8. HeaderIs(HeaderOnDisk(blocks[k].header), t)
    BY <2>4, <2>5, <2>6, <2>7, HeaderOnDiskIs
  <2> QED
    BY <2>2, <2>8
<1> QED
  BY <1>4, <1>5 DEF StatsInv, BlocksAre

(* The headers are those of the points in every state.                     *)
LEMMA StatsInductive == Spec => [](IInv /\ StatsInv)
<1>1. Init => IInv /\ StatsInv
  <2> SUFFICES ASSUME Init
               PROVE  IInv /\ StatsInv
    OBVIOUS
  <2>1. IInv /\ Points = <<>> /\ Len(blocks) = 0 /\ header = NoHeader
    BY InitInvariant DEF Init
  <2> QED
    BY <2>1, NoHeaderIs DEF StatsInv, BlocksAre
<1>2. ASSUME IInv /\ StatsInv, [Next]_vars
      PROVE  (IInv /\ StatsInv)'
  <2>1. ASSUME NEW p \in NewPoints, Add(p)
        PROVE  StatsInv'
    BY <1>2, <2>1, AddStatistics
  <2>2. ASSUME NEW v \in Versions, Reopen(v)
        PROVE  StatsInv'
    BY <1>2, <2>2, ReopenStatistics
  <2>3. CASE UNCHANGED vars
    <3>1. Points' = Points
      BY <2>3 DEF vars, Points, GetFull, Get, IPOf
    <3>2. blocks' = blocks /\ header' = header
      BY <2>3 DEF vars
    <3>3. HeaderIs(header', Points')
      BY <1>2, <3>1, <3>2 DEF StatsInv
    <3>4. BlocksAre'
      BY <1>2, <3>2 DEF StatsInv, BlocksAre
    <3> QED
      BY <1>2, <3>3, <3>4, NextInvariant DEF StatsInv
  <2> QED
    BY <1>2, <2>1, <2>2, <2>3, NextInvariant DEF Next
<1> QED
  BY <1>1, <1>2, PTL DEF Spec

-----------------------------------------------------------------------------
(* The theorems.                                                           *)

(* The network of data.Data, its sorted addresses and the blocks they are  *)
(* given, is sound for every sequence of points and reopenings.            *)
THEOREM NetworkIsSound == Spec => []NetworkSound
<1>1. IInv => NetworkSound
  BY DEF IInv
<1> QED
  BY <1>1, Invariant, PTL

(* The fields of data.Data have their types, the streaks a migration       *)
(* recomputes with a recursive function included.                          *)
THEOREM TypeCorrect == Spec => []TypeOK
<1>1. IInv /\ RunsInv => TypeOK
  BY DEF IInv, RunsInv, Shape, OrderSound, TypeOK, AllRuns, AnyBlock
<1> QED
  BY <1>1, RunsInductive, PTL

(* The log grows by exactly the point it was given: the binary search      *)
(* never finds another block for an address.                               *)
THEOREM RecordsArrivals == Spec => RecordsWhatArrives
<1>1. IInv => \A p \in NewPoints : Add(p) => Points' = Append(Points, Recorded(p))
  BY AddStep
<1> QED
  BY <1>1, Invariant, PTL DEF RecordsWhatArrives

(* data.Data with its blocks, network and insertion order implements the   *)
(* log of PointLog.                                                        *)
THEOREM ImplementsLog == Spec => KeepsLog
<1>1. Init => Log!Init
  BY InitInvariant DEF Log!Init
<1>2. ASSUME IInv, [Next]_vars
      PROVE  [Log!Next]_Points
  <2>1. ASSUME NEW p \in NewPoints, Add(p)
        PROVE  Log!Next
    <3>1. Points' = Append(Points, Recorded(p))
      BY <1>2, <2>1, AddStep
    <3>2. Recorded(p) \in RecordedPoint
      BY NewPointFacts
    <3>3. PICK n \in Nat : n = Len(Points)
      BY <1>2 DEF IInv, Shape, Points
    <3>4. Points \in Seq({Points[i] : i \in 1 .. n})
      <4> DEFINE T == {Points[i] : i \in 1 .. n}
      <4>1. Points = [i \in 1 .. n |-> Points[i]] /\ \A i \in 1 .. n : Points[i] \in T
        BY <1>2, <3>3 DEF IInv, Shape, Points
      <4> HIDE DEF T
      <4> QED
        BY <3>3, <4>1
    <3>5. Len(Points') = n + 1 /\ Points'[n + 1] = Recorded(p)
      BY <3>1, <3>3, <3>4
    <3>6. Recorded(p) \in Log!RecordedPoint
      BY <3>2 DEF Log!RecordedPoint, RecordedPoint, Log!ZeroIP, ZeroIP
    <3>7. Log!Add
      BY <3>1, <3>3, <3>5, <3>6 DEF Log!Add
    <3> QED
      BY <3>7 DEF Log!Next
  <2>2. ASSUME NEW v \in Versions, Reopen(v)
        PROVE  Log!Next
    BY <1>2, <2>2, ReopenStep DEF Log!Next, Log!Reopen, Log!Reread, Reread, Log!OnDisk, OnDisk
  <2>3. CASE UNCHANGED vars
    <3>1. UNCHANGED Points
      BY <2>3 DEF vars, Points, GetFull, Get, IPOf
    <3> QED
      BY <3>1
  <2> QED
    BY <1>2, <2>1, <2>2, <2>3 DEF Next
<1> QED
  BY <1>1, <1>2, Invariant, PTL DEF Spec, KeepsLog, Log!Spec

(* The streaks of the session and those a migration recomputes are both    *)
(* the streaks of its points, for any number of points.                    *)
THEOREM RunsAgreeHolds == Spec => []RunsAgree
<1>1. ASSUME IInv, RunsInv
      PROVE  RunsAgree
  <2> DEFINE streak(kind, i, n) == n <= i /\ \A j \in i - n + 1 .. i : Points[j].dropped = kind
  <2>1. ASSUME NEW i \in 0 .. Len(order), NEW n \in Nat, NEW kind
        PROVE  streak(kind, i, n) <=> IsStreak(Flags, kind, i, n)
    <3>1. \A j \in 1 .. Len(order) : Flags[j] = Points[j].dropped
      BY DEF Flags
    <3>2. n <= i => \A j \in i - n + 1 .. i : j \in 1 .. Len(order)
      BY <1>1 DEF IInv, Shape
    <3> QED
      BY <3>1, <3>2 DEF IsStreak
  <2>2. ASSUME NEW r \in Run, NEW kind, RunIs(r, Flags, Len(order), kind)
        PROVE  RunDescribes(r, kind)
    <3>1. /\ r.longest \in Nat /\ r.current \in Nat /\ r.lastIndex \in Nat
          /\ r.longest + 1 \in Nat /\ r.current + 1 \in Nat /\ Len(order) \in 0 .. Len(order)
      BY <1>1 DEF Run, IInv, Shape
    <3>2. streak(kind, Len(order), r.current) /\ ~streak(kind, Len(order), r.current + 1)
      BY <2>1, <2>2, <3>1 DEF RunIs
    <3>3. r.longest > 0 =>
            r.lastIndex + 1 \in 0 .. Len(order) /\ streak(kind, r.lastIndex + 1, r.longest)
      <4> HAVE r.longest > 0
      <4>1. r.lastIndex + 1 \in 0 .. Len(order)
        BY <2>2, <3>1 DEF RunIs
      <4> QED
        BY <2>1, <2>2, <3>1, <4>1 DEF RunIs
    <3>4. \A i \in 1 .. Len(order) : ~streak(kind, i, r.longest + 1)
      <4> TAKE i \in 1 .. Len(order)
      <4>1. i \in 0 .. Len(order)
        OBVIOUS
      <4> QED
        BY <2>1, <2>2, <3>1, <4>1 DEF RunIs
    <3>5. \A i \in 1 .. r.lastIndex : r.longest > 0 => ~streak(kind, i, r.longest)
      <4> SUFFICES ASSUME NEW i \in 1 .. r.lastIndex, r.longest > 0
                   PROVE  ~streak(kind, i, r.longest)
        OBVIOUS
      <4>1. i \in 0 .. Len(order)
        BY <3>1, <3>3
      <4> QED
        BY <2>1, <2>2, <3>1, <4>1 DEF RunIs
    <3> QED
      BY <3>2, <3>3, <3>4, <3>5 DEF RunDescribes
  <2> QED
    BY <1>1, <2>2 DEF RunsAgree, RunsInv, RunsAre, AllRuns
<1> QED
  BY <1>1, RunsInductive, PTL

(* The statistics kept up to date point by point, for the session and for  *)
(* each block, are those of the points, for any number of points and of    *)
(* reopenings in between (Header.AddPoint).                                *)
THEOREM StatisticsAgreeHolds == Spec => []StatisticsAgree
<1>1. ASSUME IInv, StatsInv
      PROVE  StatisticsAgree
  <2>1. header \in Header /\ blocks \in Seq(AnyBlock)
    BY <1>1 DEF IInv, Shape
  <2>2. Describes(header, Points)
    BY <1>1, <2>1, HeaderDescribes DEF StatsInv
  <2>3. ASSUME NEW b \in 1 .. Len(blocks)
        PROVE  Describes(blocks[b].header, blocks[b].raw)
    <3>1. blocks[b].header \in Header
      <4>1. blocks[b] \in AnyBlock
        BY <2>1, ElementOfSeq
      <4> QED
        BY <4>1 DEF AnyBlock
    <3> QED
      BY <1>1, <3>1, HeaderDescribes DEF StatsInv, BlocksAre
  <2> QED
    BY <2>2, <2>3 DEF StatisticsAgree
<1> QED
  BY <1>1, StatsInductive, PTL

-----------------------------------------------------------------------------
(* The integers of a file.                                                 *)

(* The powers of the base.                                                 *)
LEMMA LimitSteps ==
  \E power :
    /\ power \in [0 .. IntLen -> Nat] /\ power[0] = 1 /\ Limit = power[IntLen]
    /\ \A d \in 1 .. IntLen : power[d] = Base * power[d - 1]
<1> DEFINE step == [x \in Nat \X (1 .. IntLen) |-> Base * x[1]]
           Solves(f) == f = [d \in 0 .. IntLen |-> IF d = 0 THEN 1 ELSE Base * f[d - 1]]
           power == CHOOSE f : Solves(f)
<1>1. Base \in Nat /\ IntLen \in Nat /\ 1 \in Nat
  BY FileAssumption
<1>2. Limit = power[IntLen]
  BY DEF Limit
<1>3. step \in [Nat \X (1 .. IntLen) -> Nat]
  <2>1. \A x \in Nat \X (1 .. IntLen) : Base * x[1] \in Nat
    BY <1>1
  <2> QED
    BY <2>1
<1>4. \A x \in Nat, d \in 1 .. IntLen : step[<<x, d>>] = Base * x
  OBVIOUS
<1> HIDE DEF step
<1>5. PICK f : Iterates(f, IntLen, Nat, 1, step)
  BY <1>1, <1>3, Recursion
<1>6. \A d \in 1 .. IntLen : d - 1 \in 0 .. IntLen /\ d \in 0 .. IntLen /\ d # 0
  BY <1>1
<1>7. \A d \in 1 .. IntLen : f[d] = Base * f[d - 1]
  BY <1>4, <1>5, <1>6 DEF Iterates
<1>8. Solves(f)
  <2>1. \A d \in 0 .. IntLen : d = 0 \/ d \in 1 .. IntLen
    BY <1>1
  <2> QED
    BY <1>5, <1>7, <2>1 DEF Iterates
<1>9. Solves(power)
  <2> HIDE DEF Solves
  <2> QED
    BY <1>8
<1> HIDE DEF power
<1>10. power[0] = 1 /\ \A d \in 1 .. IntLen : power[d] = Base * power[d - 1]
  BY <1>1, <1>6, <1>9
<1>11. \A d \in 0 .. IntLen : power[d] = f[d]
  <2>1. power[0] = f[0] /\ \A d \in 1 .. IntLen : power[d - 1] = f[d - 1] => power[d] = f[d]
    BY <1>5, <1>7, <1>10 DEF Iterates
  <2> QED
    BY <1>1, <2>1, SameSteps
<1>12. IntLen \in 0 .. IntLen
  BY <1>1
<1> QED
  BY <1>2, <1>5, <1>7, <1>11, <1>12 DEF Iterates

(* Reading an integer: the digits from the most significant one on.        *)
LEMMA DigitsSteps ==
  ASSUME NEW f, NEW a \in Nat, \A j \in 1 .. IntLen : f[a + j] \in Nat
  PROVE  \E first :
           /\ first \in [0 .. IntLen -> Nat] /\ first[0] = 0 /\ Digits(f, a) = first[IntLen]
           /\ \A d \in 1 .. IntLen : first[d] = Base * first[d - 1] + f[a + IntLen + 1 - d]
<1> DEFINE step == [x \in Nat \X (1 .. IntLen) |-> Base * x[1] + f[a + IntLen + 1 - x[2]]]
           Solves(h) == h = [d \in 0 .. IntLen |->
                               IF d = 0 THEN 0 ELSE Base * h[d - 1] + f[a + IntLen + 1 - d]]
           first == CHOOSE h : Solves(h)
<1>1. Base \in Nat /\ IntLen \in Nat /\ 0 \in Nat
  BY FileAssumption
<1>2. Digits(f, a) = first[IntLen]
  BY DEF Digits
<1>3. step \in [Nat \X (1 .. IntLen) -> Nat]
  <2>1. ASSUME NEW x \in Nat \X (1 .. IntLen)
        PROVE  Base * x[1] + f[a + IntLen + 1 - x[2]] \in Nat
    <3>1. x[1] \in Nat /\ x[2] \in 1 .. IntLen
      OBVIOUS
    <3>2. IntLen + 1 - x[2] \in 1 .. IntLen /\ a + IntLen + 1 - x[2] = a + (IntLen + 1 - x[2])
      BY <1>1, <3>1
    <3>3. f[a + IntLen + 1 - x[2]] \in Nat
      BY <3>2
    <3>4. Base * x[1] \in Nat
      BY <1>1, <3>1
    <3> QED
      BY <3>3, <3>4
  <2> QED
    BY <2>1
<1>4. \A x \in Nat, d \in 1 .. IntLen : step[<<x, d>>] = Base * x + f[a + IntLen + 1 - d]
  OBVIOUS
<1> HIDE DEF step
<1>5. PICK h : Iterates(h, IntLen, Nat, 0, step)
  BY <1>1, <1>3, Recursion
<1>6. \A d \in 1 .. IntLen : d - 1 \in 0 .. IntLen /\ d \in 0 .. IntLen /\ d # 0
  BY <1>1
<1>7. \A d \in 1 .. IntLen : h[d] = Base * h[d - 1] + f[a + IntLen + 1 - d]
  BY <1>4, <1>5, <1>6 DEF Iterates
<1>8. Solves(h)
  <2>1. \A d \in 0 .. IntLen : d = 0 \/ d \in 1 .. IntLen
    BY <1>1
  <2> QED
    BY <1>5, <1>7, <2>1 DEF Iterates
<1>9. Solves(first)
  <2> HIDE DEF Solves
  <2> QED
    BY <1>8
<1> HIDE DEF first
<1>10. first[0] = 0 /\ \A d \in 1 .. IntLen : first[d] = Base * first[d - 1] + f[a + IntLen + 1 - d]
  BY <1>1, <1>6, <1>9
<1>11. \A d \in 0 .. IntLen : first[d] = h[d]
  <2>1. first[0] = h[0] /\ \A d \in 1 .. IntLen : first[d - 1] = h[d - 1] => first[d] = h[d]
    BY <1>5, <1>7, <1>10 DEF Iterates
  <2> QED
    BY <1>1, <2>1, SameSteps
<1>12. IntLen \in 0 .. IntLen
  BY <1>1
<1> QED
  BY <1>2, <1>5, <1>7, <1>11, <1>12 DEF Iterates

(* Writing an integer: its digits, the least significant one first.        *)
LEMMA NumSteps ==
  ASSUME NEW n \in Nat
  PROVE  /\ Num(n) \in Seq(Nat) /\ Len(Num(n)) = IntLen
         /\ \E rest :
              /\ rest \in [0 .. IntLen -> Nat] /\ rest[0] = n
              /\ \A d \in 1 .. IntLen : /\ rest[d] = rest[d - 1] \div Base
                                       /\ Num(n)[d] = rest[d - 1] % Base
<1> DEFINE step == [x \in Nat \X (1 .. IntLen) |-> x[1] \div Base]
           Solves(h) == h = [d \in 0 .. IntLen |-> IF d = 0 THEN n ELSE h[d - 1] \div Base]
           rest == CHOOSE h : Solves(h)
<1>1. Base \in Nat /\ Base > 0 /\ IntLen \in Nat
  BY FileAssumption
<1>2. Num(n) = [d \in 1 .. IntLen |-> rest[d - 1] % Base]
  BY DEF Num
<1>3. step \in [Nat \X (1 .. IntLen) -> Nat]
  <2>1. \A x \in Nat : x \div Base \in Nat
    BY <1>1
  <2> QED
    BY <2>1
<1>4. \A x \in Nat, d \in 1 .. IntLen : step[<<x, d>>] = x \div Base
  OBVIOUS
<1> HIDE DEF step
<1>5. PICK h : Iterates(h, IntLen, Nat, n, step)
  BY <1>1, <1>3, Recursion
<1>6. \A d \in 1 .. IntLen : d - 1 \in 0 .. IntLen /\ d \in 0 .. IntLen /\ d # 0
  BY <1>1
<1>7. \A d \in 1 .. IntLen : h[d] = h[d - 1] \div Base
  BY <1>4, <1>5, <1>6 DEF Iterates
<1>8. Solves(h)
  <2>1. \A d \in 0 .. IntLen : d = 0 \/ d \in 1 .. IntLen
    BY <1>1
  <2> QED
    BY <1>5, <1>7, <2>1 DEF Iterates
<1>9. Solves(rest)
  <2> HIDE DEF Solves
  <2> QED
    BY <1>8
<1> HIDE DEF rest
<1>10. rest[0] = n /\ \A d \in 1 .. IntLen : rest[d] = rest[d - 1] \div Base
  BY <1>1, <1>6, <1>9
<1>11. \A d \in 0 .. IntLen : rest[d] = h[d]
  <2>1. rest[0] = h[0] /\ \A d \in 1 .. IntLen : rest[d - 1] = h[d - 1] => rest[d] = h[d]
    BY <1>5, <1>7, <1>10 DEF Iterates
  <2> QED
    BY <1>1, <2>1, SameSteps
<1>12. \A d \in 1 .. IntLen : Num(n)[d] = h[d - 1] % Base /\ Num(n)[d] \in Nat
  <2>1. \A x \in Nat : x % Base \in Nat
    BY <1>1
  <2>2. \A d \in 1 .. IntLen : h[d - 1] \in Nat
    BY <1>5, <1>6 DEF Iterates
  <2> QED
    BY <1>2, <1>6, <1>11, <2>1, <2>2
<1>13. Num(n) \in Seq(Nat) /\ Len(Num(n)) = IntLen
  <2>1. Num(n) \in [1 .. IntLen -> Nat]
    BY <1>2, <1>12
  <2> QED
    BY <1>1, <2>1
<1> QED
  BY <1>5, <1>7, <1>12, <1>13 DEF Iterates

(* The bytes s stand in f from the offset a on.                            *)
At(f, a, s) == a + Len(s) <= Len(f) /\ \A j \in 1 .. Len(s) : f[a + j] = s[j]

(* The quotient and the rest of a division by the base.                    *)
LEMMA QuotientOf ==
  ASSUME NEW x \in Nat
  PROVE  x = Base * (x \div Base) + (x % Base) /\ x \div Base \in Nat /\ x % Base \in 0 .. Base - 1
BY FileAssumption

(* A division by the base leaves one digit less.                           *)
LEMMA QuotientFits ==
  ASSUME NEW x \in Nat, NEW p \in Nat, x < Base * p
  PROVE  x \div Base < p
<1>1. Base \in Nat /\ Base > 0
  BY FileAssumption
<1> DEFINE q == x \div Base
<1>2. q \in Nat /\ x = Base * q + (x % Base) /\ x % Base \in 0 .. Base - 1
  BY <1>1
<1> HIDE DEF q
<1>3. CASE q >= p
  <2>1. PICK k \in Nat : q = p + k
    <3>1. q - p \in Nat /\ q = p + (q - p)
      BY <1>2, <1>3
    <3> QED
      BY <3>1
  <2>2. Base * q = Base * p + Base * k /\ Base * k \in Nat /\ Base * p \in Nat
    BY <1>1, <2>1
  <2>3. FALSE
    BY <1>2, <2>2
  <2> QED
    BY <2>3
<1> QED
  BY <1>2, <1>3 DEF q

(* An integer that fits is read back.                                      *)
LEMMA DigitsOfNum ==
  ASSUME NEW n \in Nat, n < Limit, NEW f, NEW a \in Nat, At(f, a, Num(n))
  PROVE  Digits(f, a) = n
<1>1. Base \in Nat /\ Base > 0 /\ IntLen \in Nat
  BY FileAssumption
<1>2. PICK power :
        /\ power \in [0 .. IntLen -> Nat] /\ power[0] = 1 /\ Limit = power[IntLen]
        /\ \A d \in 1 .. IntLen : power[d] = Base * power[d - 1]
  BY LimitSteps
<1>3. /\ Num(n) \in Seq(Nat) /\ Len(Num(n)) = IntLen
      /\ \E rest :
           /\ rest \in [0 .. IntLen -> Nat] /\ rest[0] = n
           /\ \A d \in 1 .. IntLen : /\ rest[d] = rest[d - 1] \div Base
                                    /\ Num(n)[d] = rest[d - 1] % Base
  BY NumSteps
<1>4. PICK rest :
        /\ rest \in [0 .. IntLen -> Nat] /\ rest[0] = n
        /\ \A d \in 1 .. IntLen : /\ rest[d] = rest[d - 1] \div Base
                                 /\ Num(n)[d] = rest[d - 1] % Base
  BY <1>3
<1>5. \A j \in 1 .. IntLen : f[a + j] = Num(n)[j] /\ f[a + j] \in Nat
  <2>1. \A j \in 1 .. IntLen : Num(n)[j] \in Nat
    BY <1>3, ElementOfSeq
  <2> QED
    BY <1>3, <2>1 DEF At
<1>6. \A j \in 1 .. IntLen : f[a + j] \in Nat
  BY <1>5
<1>12. PICK first :
        /\ first \in [0 .. IntLen -> Nat] /\ first[0] = 0 /\ Digits(f, a) = first[IntLen]
        /\ \A d \in 1 .. IntLen : first[d] = Base * first[d - 1] + f[a + IntLen + 1 - d]
  BY <1>6, DigitsSteps
<1>7. rest[IntLen] = 0
  <2> DEFINE T == {d \in Nat : d <= IntLen => rest[d] < power[IntLen - d]}
  <2>1. 0 \in T
    BY <1>1, <1>2, <1>4
  <2>2. \A d \in Nat : d \in T => d + 1 \in T
    <3> SUFFICES ASSUME NEW d \in Nat, d \in T, d + 1 <= IntLen
                 PROVE  rest[d + 1] < power[IntLen - (d + 1)]
      OBVIOUS
    <3>1. /\ d \in 0 .. IntLen /\ d + 1 \in 1 .. IntLen /\ (d + 1) - 1 = d /\ IntLen - d \in 1 .. IntLen
          /\ IntLen - (d + 1) \in 0 .. IntLen /\ (IntLen - d) - 1 = IntLen - (d + 1)
      BY <1>1
    <3>2. rest[d] < power[IntLen - d]
      BY <3>1
    <3>3. rest[d + 1] = rest[d] \div Base /\ power[IntLen - d] = Base * power[IntLen - (d + 1)]
      BY <1>2, <1>4, <3>1
    <3>4. rest[d] \in Nat /\ power[IntLen - (d + 1)] \in Nat
      BY <1>2, <1>4, <3>1
    <3>5. rest[d] \div Base < power[IntLen - (d + 1)]
      BY <3>2, <3>3, <3>4, QuotientFits
    <3> QED
      BY <3>3, <3>5
  <2>3. IntLen \in T
    <3> HIDE DEF T
    <3> QED
      BY <1>1, <2>1, <2>2, NatInductionOnSets
  <2>4. rest[IntLen] < power[0] /\ rest[IntLen] \in Nat
    BY <1>1, <1>4, <2>3
  <2> QED
    BY <1>2, <2>4
<1> DEFINE back == [k \in 0 .. IntLen |-> rest[IntLen - k]]
<1>8. \A k \in 0 .. IntLen : back[k] = rest[IntLen - k]
  OBVIOUS
<1> HIDE DEF back
<1>9. first[0] = back[0]
  BY <1>1, <1>12, <1>7, <1>8
<1>10. ASSUME NEW k \in 1 .. IntLen, first[k - 1] = back[k - 1]
       PROVE  first[k] = back[k]
  <2> DEFINE d == IntLen + 1 - k
  <2>1. /\ d \in 1 .. IntLen /\ d - 1 = IntLen - k /\ d = IntLen - (k - 1)
        /\ k \in 0 .. IntLen /\ k - 1 \in 0 .. IntLen /\ d - 1 \in 0 .. IntLen
        /\ a + IntLen + 1 - k = a + d
    BY <1>1
  <2> HIDE DEF d
  <2>2. rest[d] = rest[d - 1] \div Base /\ f[a + d] = rest[d - 1] % Base
    BY <1>4, <1>5, <2>1
  <2>3. first[k] = Base * rest[d] + (rest[d - 1] % Base)
    <3>1. first[k] = Base * first[k - 1] + f[a + IntLen + 1 - k]
      BY <1>12
    <3>2. first[k - 1] = rest[d]
      BY <1>8, <1>10, <2>1
    <3>3. f[a + IntLen + 1 - k] = rest[d - 1] % Base
      BY <2>1, <2>2
    <3> QED
      BY <3>1, <3>2, <3>3
  <2>4. rest[d - 1] \in Nat
    BY <1>4, <2>1
  <2>5. rest[d - 1] = Base * (rest[d - 1] \div Base) + (rest[d - 1] % Base)
    BY <2>4, QuotientOf
  <2>6. back[k] = rest[d - 1]
    BY <1>8, <2>1
  <2> QED
    BY <2>2, <2>3, <2>5, <2>6
<1>11. \A k \in 0 .. IntLen : first[k] = back[k]
  <2>1. \A k \in 1 .. IntLen : first[k - 1] = back[k - 1] => first[k] = back[k]
    BY <1>10
  <2>2. IntLen \in Nat
    BY <1>1
  <2> QED
    BY <1>9, <2>1, <2>2, SameSteps
<1>13. IntLen \in 0 .. IntLen /\ IntLen - IntLen = 0
  BY <1>1
<1>14. back[IntLen] = n
  BY <1>4, <1>8, <1>13
<1> QED
  BY <1>11, <1>12, <1>13, <1>14

(* The same digits are the same integer.                                   *)
LEMMA SameDigits ==
  ASSUME NEW f, NEW a \in Nat, NEW g, NEW b \in Nat,
         \A j \in 1 .. IntLen : f[a + j] = g[b + j] /\ g[b + j] \in Nat
  PROVE  Digits(f, a) = Digits(g, b) /\ Digits(g, b) \in Nat
<1>1. IntLen \in Nat
  BY FileAssumption
<1>2. PICK first :
        /\ first \in [0 .. IntLen -> Nat] /\ first[0] = 0 /\ Digits(f, a) = first[IntLen]
        /\ \A d \in 1 .. IntLen : first[d] = Base * first[d - 1] + f[a + IntLen + 1 - d]
  BY DigitsSteps
<1>3. PICK other :
        /\ other \in [0 .. IntLen -> Nat] /\ other[0] = 0 /\ Digits(g, b) = other[IntLen]
        /\ \A d \in 1 .. IntLen : other[d] = Base * other[d - 1] + g[b + IntLen + 1 - d]
  BY DigitsSteps
<1>4. ASSUME NEW d \in 1 .. IntLen, first[d - 1] = other[d - 1]
      PROVE  first[d] = other[d]
  <2>1. /\ IntLen + 1 - d \in 1 .. IntLen
        /\ a + IntLen + 1 - d = a + (IntLen + 1 - d) /\ b + IntLen + 1 - d = b + (IntLen + 1 - d)
    BY <1>1
  <2>2. f[a + IntLen + 1 - d] = g[b + IntLen + 1 - d]
    BY <2>1
  <2> QED
    BY <1>2, <1>3, <1>4, <2>2
<1>5. \A d \in 0 .. IntLen : first[d] = other[d]
  <2>1. \A d \in 1 .. IntLen : first[d - 1] = other[d - 1] => first[d] = other[d]
    BY <1>4
  <2>2. first[0] = other[0]
    BY <1>2, <1>3
  <2> QED
    BY <1>1, <2>1, <2>2, SameSteps
<1> QED
  BY <1>1, <1>2, <1>3, <1>5

-----------------------------------------------------------------------------
(* Parts of a file that follow each other.                                 *)

(* What stands somewhere, its two halves stand there.                      *)
LEMMA AtSplit ==
  ASSUME NEW f \in Seq(Nat), NEW a \in Nat, NEW s \in Seq(Nat), NEW t \in Seq(Nat),
         At(f, a, s \o t)
  PROVE  At(f, a, s) /\ At(f, a + Len(s), t) /\ a + Len(s) \in Nat
<1>1. Len(s) \in Nat /\ Len(t) \in Nat /\ Len(f) \in Nat /\ Len(s \o t) = Len(s) + Len(t)
  OBVIOUS
<1>2. \A j \in 1 .. Len(s) : (s \o t)[j] = s[j] /\ j \in 1 .. Len(s \o t)
  OBVIOUS
<1>3. ASSUME NEW j \in 1 .. Len(t)
      PROVE  /\ (s \o t)[Len(s) + j] = t[j] /\ Len(s) + j \in 1 .. Len(s \o t)
             /\ a + (Len(s) + j) = (a + Len(s)) + j
  OBVIOUS
<1>4. a + Len(s \o t) <= Len(f) /\ \A j \in 1 .. Len(s \o t) : f[a + j] = (s \o t)[j]
  BY DEF At
<1>5. At(f, a, s)
  <2>1. a + Len(s) <= Len(f)
    BY <1>1, <1>4
  <2>2. \A j \in 1 .. Len(s) : f[a + j] = s[j]
    BY <1>2, <1>4
  <2> QED
    BY <2>1, <2>2 DEF At
<1>6. At(f, a + Len(s), t)
  <2>1. (a + Len(s)) + Len(t) <= Len(f)
    BY <1>1, <1>4
  <2>2. ASSUME NEW j \in 1 .. Len(t)
        PROVE  f[(a + Len(s)) + j] = t[j]
    <3>1. f[a + (Len(s) + j)] = (s \o t)[Len(s) + j]
      BY <1>3, <1>4
    <3> QED
      BY <1>3, <3>1
  <2> QED
    BY <2>1, <2>2 DEF At
<1> QED
  BY <1>1, <1>5, <1>6

(* The parts of a sequence of parts are put together one by one.           *)
LEMMA FlattenSteps ==
  ASSUME NEW seqs, seqs \in Seq(Seq(Nat))
  PROVE  \E flat : /\ flat \in [0 .. Len(seqs) -> Seq(Nat)]
                   /\ flat[0] = <<>> /\ FlattenSeq(seqs) = flat[Len(seqs)]
                   /\ \A i \in 1 .. Len(seqs) : flat[i] = flat[i - 1] \o seqs[i]
<1> DEFINE n == Len(seqs)
           step == [x \in Seq(Nat) \X (1 .. n) |-> x[1] \o seqs[x[2]]]
           Solves(h) == h = [i \in 1 .. n |-> IF i = 1 THEN seqs[i] ELSE h[i - 1] \o seqs[i]]
           flatten == CHOOSE h : Solves(h)
<1>1. n \in Nat /\ <<>> \in Seq(Nat) /\ \A i \in 1 .. n : seqs[i] \in Seq(Nat)
  BY ElementOfSeq
<1>2. FlattenSeq(seqs) = IF n = 0 THEN seqs ELSE flatten[n]
  BY DEF FlattenSeq
<1>3. n = 0 => seqs = <<>>
  OBVIOUS
<1> HIDE DEF n
<1>4. step \in [Seq(Nat) \X (1 .. n) -> Seq(Nat)]
  <2>1. ASSUME NEW x \in Seq(Nat) \X (1 .. n)
        PROVE  x[1] \o seqs[x[2]] \in Seq(Nat)
    <3>1. x[1] \in Seq(Nat) /\ seqs[x[2]] \in Seq(Nat)
      BY <1>1
    <3> QED
      BY <3>1
  <2> QED
    BY <2>1
<1>5. \A x \in Seq(Nat), i \in 1 .. n : step[<<x, i>>] = x \o seqs[i]
  OBVIOUS
<1> HIDE DEF step
<1>6. PICK f : Iterates(f, n, Seq(Nat), <<>>, step)
  BY <1>1, <1>4, Recursion
<1>7. \A i \in 1 .. n : i - 1 \in 0 .. n /\ i \in 0 .. n /\ (i # 1 => i - 1 \in 1 .. n)
  BY <1>1
<1>8. \A i \in 0 .. n : f[i] \in Seq(Nat)
  BY <1>6 DEF Iterates
<1>9. \A i \in 1 .. n : f[i] = f[i - 1] \o seqs[i]
  BY <1>5, <1>6, <1>7, <1>8 DEF Iterates
<1>10. f[0] = <<>> /\ f \in [0 .. n -> Seq(Nat)]
  BY <1>6 DEF Iterates
<1>11. FlattenSeq(seqs) = f[n]
  <2>1. CASE n = 0
    BY <1>2, <1>3, <1>10, <2>1
  <2>2. CASE n # 0
    <3> DEFINE h == [i \in 1 .. n |-> f[i]]
    <3>1. \A i \in 1 .. n : h[i] = f[i]
      OBVIOUS
    <3>2. h = [i \in 1 .. n |-> h[i]]
      OBVIOUS
    <3> HIDE DEF h
    <3>3. ASSUME NEW i \in 1 .. n
          PROVE  h[i] = IF i = 1 THEN seqs[i] ELSE h[i - 1] \o seqs[i]
      <4>1. CASE i = 1
        <5>1. f[1] = f[0] \o seqs[1] /\ seqs[1] \in Seq(Nat)
          <6>1. 1 - 1 = 0
            OBVIOUS
          <6> QED
            BY <1>1, <1>9, <4>1, <6>1
        <5>2. <<>> \o seqs[1] = seqs[1]
          BY <5>1, ConcatEmptySeq
        <5> QED
          BY <1>10, <3>1, <4>1, <5>1, <5>2
      <4>2. CASE i # 1
        BY <1>7, <1>9, <3>1, <4>2
      <4> QED
        BY <4>1, <4>2
    <3>4. Solves(h)
      BY <3>2, <3>3
    <3>5. Solves(flatten)
      <4> HIDE DEF Solves
      <4> QED
        BY <3>4
    <3> HIDE DEF flatten
    <3>6. \A i \in 1 .. n : flatten[i] = IF i = 1 THEN seqs[i] ELSE flatten[i - 1] \o seqs[i]
      BY <3>5
    <3> DEFINE g == [i \in 0 .. n |-> IF i = 0 THEN f[0] ELSE flatten[i]]
    <3>7. g[0] = f[0] /\ \A i \in 1 .. n : g[i] = flatten[i]
      BY <1>1
    <3> HIDE DEF g
    <3>8. ASSUME NEW i \in 1 .. n, f[i - 1] = g[i - 1]
          PROVE  f[i] = g[i]
      <4>1. CASE i = 1
        BY <3>1, <3>3, <3>6, <3>7, <4>1
      <4>2. CASE i # 1
        <5>1. f[i - 1] = flatten[i - 1]
          BY <1>7, <3>7, <3>8, <4>2
        <5>2. flatten[i] = flatten[i - 1] \o seqs[i]
          BY <3>6, <4>2
        <5> QED
          BY <1>9, <3>7, <5>1, <5>2
      <4> QED
        BY <4>1, <4>2
    <3>9. \A i \in 0 .. n : f[i] = g[i]
      <4>1. f[0] = g[0] /\ \A i \in 1 .. n : f[i - 1] = g[i - 1] => f[i] = g[i]
        BY <3>7, <3>8
      <4> QED
        BY <1>1, <4>1, SameSteps
    <3>10. n \in 0 .. n /\ n \in 1 .. n
      BY <1>1, <2>2
    <3> QED
      BY <1>2, <2>2, <3>7, <3>9, <3>10
  <2> QED
    BY <2>1, <2>2
<1> QED
  BY <1>9, <1>10, <1>11 DEF n

(* Where the parts of a sequence of parts are.                             *)
Offsets(seqs, off) ==
  /\ off \in [0 .. Len(seqs) -> Nat] /\ off[0] = 0
  /\ \A i \in 1 .. Len(seqs) : off[i] = off[i - 1] + Len(seqs[i])
  /\ Len(FlattenSeq(seqs)) = off[Len(seqs)]
  /\ \A f \in Seq(Nat), a \in Nat :
       At(f, a, FlattenSeq(seqs)) => \A i \in 1 .. Len(seqs) : At(f, a + off[i - 1], seqs[i])

(* Each part is where those before it end.                                 *)
LEMMA FlattenAt ==
  ASSUME NEW seqs, seqs \in Seq(Seq(Nat))
  PROVE  FlattenSeq(seqs) \in Seq(Nat) /\ \E off : Offsets(seqs, off)
<1> DEFINE n == Len(seqs)
<1>1. n \in Nat /\ \A i \in 1 .. n : seqs[i] \in Seq(Nat)
  BY ElementOfSeq
<1>2. PICK flat : /\ flat \in [0 .. n -> Seq(Nat)]
                  /\ flat[0] = <<>> /\ FlattenSeq(seqs) = flat[n]
                  /\ \A i \in 1 .. n : flat[i] = flat[i - 1] \o seqs[i]
  BY FlattenSteps
<1> HIDE DEF n
<1> DEFINE off == [i \in 0 .. n |-> Len(flat[i])]
<1>3. \A i \in 0 .. n : flat[i] \in Seq(Nat)
  BY <1>2
<1>4. off \in [0 .. n -> Nat] /\ \A i \in 0 .. n : off[i] = Len(flat[i])
  BY <1>3
<1> HIDE DEF off
<1>5. \A i \in 1 .. n : i - 1 \in 0 .. n /\ i \in 0 .. n
  BY <1>1
<1>6. 0 \in 0 .. n /\ n \in 0 .. n
  BY <1>1
<1>7. off[0] = 0 /\ Len(FlattenSeq(seqs)) = off[n] /\ FlattenSeq(seqs) \in Seq(Nat)
  BY <1>2, <1>3, <1>4, <1>6
<1>8. \A i \in 1 .. n : off[i] = off[i - 1] + Len(seqs[i])
  <2> TAKE i \in 1 .. n
  <2>1. flat[i] = flat[i - 1] \o seqs[i] /\ flat[i - 1] \in Seq(Nat) /\ seqs[i] \in Seq(Nat)
    BY <1>1, <1>2, <1>3, <1>5
  <2>2. Len(flat[i - 1] \o seqs[i]) = Len(flat[i - 1]) + Len(seqs[i])
    BY <2>1
  <2> QED
    BY <1>4, <1>5, <2>1, <2>2
<1>9. ASSUME NEW f \in Seq(Nat), NEW a \in Nat, At(f, a, FlattenSeq(seqs))
      PROVE  \A i \in 1 .. n : At(f, a + off[i - 1], seqs[i])
  <2> DEFINE T == {k \in Nat : k <= n => At(f, a, flat[n - k])}
  <2>1. 0 \in T
    <3>1. n - 0 = n
      BY <1>1
    <3> QED
      BY <1>2, <1>9, <3>1
  <2>2. \A k \in Nat : k \in T => k + 1 \in T
    <3> SUFFICES ASSUME NEW k \in Nat, k \in T, k + 1 <= n
                 PROVE  At(f, a, flat[n - (k + 1)])
      OBVIOUS
    <3>1. n - k \in 1 .. n /\ (n - k) - 1 = n - (k + 1) /\ k <= n
      BY <1>1
    <3>2. At(f, a, flat[n - k])
      BY <3>1
    <3>3. flat[n - k] = flat[n - (k + 1)] \o seqs[n - k]
      BY <1>2, <3>1
    <3>4. flat[n - (k + 1)] \in Seq(Nat) /\ seqs[n - k] \in Seq(Nat)
      BY <1>1, <1>3, <1>5, <3>1
    <3> QED
      BY <3>2, <3>3, <3>4, AtSplit
  <2>3. Nat \subseteq T
    <3> HIDE DEF T
    <3> QED
      BY <2>1, <2>2, NatInductionOnSets
  <2> TAKE i \in 1 .. n
  <2>4. n - i \in Nat /\ n - i <= n /\ n - (n - i) = i
    BY <1>1
  <2>5. At(f, a, flat[i])
    <3>1. n - i \in T
      BY <2>3, <2>4
    <3> QED
      BY <2>4, <3>1
  <2> HIDE DEF T
  <2>6. flat[i] = flat[i - 1] \o seqs[i] /\ flat[i - 1] \in Seq(Nat) /\ seqs[i] \in Seq(Nat)
    BY <1>1, <1>2, <1>3, <1>5
  <2>7. At(f, a + Len(flat[i - 1]), seqs[i])
    BY <2>5, <2>6, AtSplit
  <2> QED
    BY <1>4, <1>5, <2>7
<1>10. Offsets(seqs, off)
  BY <1>4, <1>7, <1>8, <1>9 DEF Offsets, n
<1> QED
  BY <1>7, <1>10

-----------------------------------------------------------------------------
(* Records.                                                                *)

Kinds == DOMAIN ID \cup {"int", "time", "byte"}

(* The bytes of a part are read as a value of its kind.                    *)
Encodes(part, kind, value) ==
  /\ part \in Seq(Nat) /\ Len(part) = Width(kind)
  /\ \A f \in Seq(Nat), a \in Nat :
       At(f, a, part) => /\ Value(f, a, kind) = value
                         /\ kind \in DOMAIN ID => f[a + 1] = ID[kind]

(* The fields of a record are read as values of their kinds.               *)
Encode(parts, kinds, values) ==
  /\ parts \in Seq(Seq(Nat)) /\ kinds \in Seq(Kinds) /\ values \in Seq(Nat)
  /\ Len(kinds) = Len(parts) /\ Len(values) = Len(parts)
  /\ \A i \in 1 .. Len(parts) : Encodes(parts[i], kinds[i], values[i])

(* The bytes of a record are read as the values of its fields.             *)
IsRecord(s, record, values) ==
  /\ s \in Seq(Nat) /\ record.size = Len(s)
  /\ \A f \in Seq(Nat), a \in Nat :
       At(f, a, s) => Holds(f, a, record) /\ Values(f, a, record) = values

(* A record is laid out field by field.                                    *)
LEMMA LayoutSteps ==
  ASSUME NEW kinds, kinds \in Seq(Kinds)
  PROVE  LET at == Layout(kinds).at IN
         /\ Layout(kinds).kinds = kinds /\ Layout(kinds).size = at[Len(kinds)]
         /\ at \in [0 .. Len(kinds) -> Nat] /\ at[0] = 0
         /\ \A i \in 1 .. Len(kinds) : at[i] = at[i - 1] + Width(kinds[i])
<1> DEFINE n == Len(kinds)
           step == [x \in Nat \X (1 .. n) |-> x[1] + Width(kinds[x[2]])]
           Solves(h) == h = [i \in 0 .. n |-> IF i = 0 THEN 0 ELSE h[i - 1] + Width(kinds[i])]
           places == CHOOSE h : Solves(h)
<1>1. n \in Nat /\ 0 \in Nat /\ \A kind : Width(kind) \in Nat
  BY FileAssumption DEF Width
<1>2. Layout(kinds) = [kinds |-> kinds, at |-> places, size |-> places[n]]
  BY DEF Layout
<1> HIDE DEF n
<1>3. step \in [Nat \X (1 .. n) -> Nat]
  <2>1. \A x \in Nat \X (1 .. n) : x[1] + Width(kinds[x[2]]) \in Nat
    BY <1>1
  <2> QED
    BY <2>1
<1>4. \A x \in Nat, i \in 1 .. n : step[<<x, i>>] = x + Width(kinds[i])
  OBVIOUS
<1> HIDE DEF step
<1>5. PICK h : Iterates(h, n, Nat, 0, step)
  BY <1>1, <1>3, Recursion
<1>6. \A i \in 1 .. n : i - 1 \in 0 .. n /\ i \in 0 .. n /\ i # 0
  BY <1>1
<1>7. \A i \in 1 .. n : h[i] = h[i - 1] + Width(kinds[i])
  BY <1>4, <1>5, <1>6 DEF Iterates
<1>8. Solves(h)
  <2>1. \A i \in 0 .. n : i = 0 \/ i \in 1 .. n
    BY <1>1
  <2> QED
    BY <1>5, <1>7, <2>1 DEF Iterates
<1>9. Solves(places)
  <2> HIDE DEF Solves
  <2> QED
    BY <1>8
<1> HIDE DEF places
<1>10. places[0] = 0 /\ \A i \in 1 .. n : places[i] = places[i - 1] + Width(kinds[i])
  BY <1>1, <1>6, <1>9
<1>11. \A i \in 0 .. n : places[i] = h[i]
  <2>1. places[0] = h[0] /\ \A i \in 1 .. n : places[i - 1] = h[i - 1] => places[i] = h[i]
    BY <1>5, <1>7, <1>10 DEF Iterates
  <2> QED
    BY <1>1, <2>1, SameSteps
<1>12. places \in [0 .. n -> Nat]
  <2>1. \A i \in 0 .. n : h[i] \in Nat
    BY <1>5 DEF Iterates
  <2>2. places = [i \in 0 .. n |-> places[i]]
    BY <1>9
  <2> QED
    BY <1>11, <2>1, <2>2
<1> QED
  BY <1>2, <1>10, <1>12 DEF n

(* A record whose fields are read as values is read as those values.       *)
LEMMA RecordOf ==
  ASSUME NEW parts, NEW kinds, NEW values, Encode(parts, kinds, values)
  PROVE  IsRecord(FlattenSeq(parts), Layout(kinds), values)
<1> DEFINE record == Layout(kinds)
           places == record.at
           n == Len(parts)
<1>1. /\ parts \in Seq(Seq(Nat)) /\ kinds \in Seq(Kinds) /\ values \in Seq(Nat)
      /\ Len(kinds) = n /\ Len(values) = n /\ n \in Nat
      /\ \A i \in 1 .. n : Encodes(parts[i], kinds[i], values[i])
  BY DEF Encode
<1>2. FlattenSeq(parts) \in Seq(Nat) /\ \E off : Offsets(parts, off)
  BY <1>1, FlattenAt
<1>3. PICK off : Offsets(parts, off)
  BY <1>2
<1>4. /\ off[0] = 0 /\ off \in [0 .. n -> Nat]
      /\ \A i \in 1 .. n : off[i] = off[i - 1] + Len(parts[i])
      /\ Len(FlattenSeq(parts)) = off[n]
      /\ \A f \in Seq(Nat), a \in Nat :
           At(f, a, FlattenSeq(parts)) => \A i \in 1 .. n : At(f, a + off[i - 1], parts[i])
  BY <1>3 DEF Offsets
<1>5. /\ record.kinds = kinds /\ record.size = places[Len(kinds)] /\ places[0] = 0
      /\ \A i \in 1 .. Len(kinds) : places[i] = places[i - 1] + Width(kinds[i])
  BY <1>1, LayoutSteps
<1> HIDE DEF record, places, n
<1>6. \A i \in 0 .. n : off[i] = places[i]
  <2>1. \A i \in 1 .. n : Len(parts[i]) = Width(kinds[i])
    BY <1>1 DEF Encodes
  <2>2. off[0] = places[0] /\ \A i \in 1 .. n : off[i - 1] = places[i - 1] => off[i] = places[i]
    BY <1>1, <1>4, <1>5, <2>1
  <2> QED
    BY <1>1, <2>2, SameSteps
<1>7. record.size = Len(FlattenSeq(parts))
  <2>1. n \in 0 .. n
    BY <1>1
  <2> QED
    BY <1>1, <1>4, <1>5, <1>6, <2>1
<1>8. ASSUME NEW f \in Seq(Nat), NEW a \in Nat, At(f, a, FlattenSeq(parts))
      PROVE  Holds(f, a, record) /\ Values(f, a, record) = values
  <2>1. ASSUME NEW i \in 1 .. n
        PROVE  /\ Value(f, a + places[i - 1], kinds[i]) = values[i]
               /\ kinds[i] \in DOMAIN ID => f[a + places[i - 1] + 1] = ID[kinds[i]]
    <3>1. i - 1 \in 0 .. n
      BY <1>1
    <3>2. At(f, a + off[i - 1], parts[i]) /\ off[i - 1] \in Nat
      BY <1>4, <1>8, <3>1
    <3>3. At(f, a + places[i - 1], parts[i]) /\ a + places[i - 1] \in Nat
      BY <1>6, <3>1, <3>2
    <3>4. Encodes(parts[i], kinds[i], values[i])
      BY <1>1
    <3> QED
      BY <3>3, <3>4 DEF Encodes
  <2>2. a + record.size <= Len(f)
    BY <1>7, <1>8 DEF At
  <2>3. Holds(f, a, record)
    <3>1. \A i \in 1 .. Len(record.kinds) : record.kinds[i] \in DOMAIN ID =>
            f[a + record.at[i - 1] + 1] = ID[record.kinds[i]]
      BY <1>1, <1>5, <2>1 DEF places
    <3> QED
      BY <2>2, <3>1 DEF Holds
  <2>4. Values(f, a, record) = values
    <3>1. Values(f, a, record) = [i \in 1 .. n |-> values[i]]
      BY <1>1, <1>5, <2>1 DEF Values, places
    <3> QED
      BY <1>1, <3>1
  <2> QED
    BY <2>3, <2>4
<1> QED
  BY <1>2, <1>7, <1>8 DEF IsRecord, record

(* A multiple and the next one.                                            *)
LEMMA NextMultiple ==
  ASSUME NEW i \in Nat, NEW size \in Nat
  PROVE  i * size \in Nat /\ (i + 1) * size = i * size + size /\ 0 * size = 0
OBVIOUS

(* Records of one kind.                                                    *)
AreRecords(seqs, record, all) ==
  /\ seqs \in Seq(Seq(Nat)) /\ record.size \in Nat
  /\ Len(all) = Len(seqs) /\ all = [i \in 1 .. Len(seqs) |-> all[i]]
  /\ \A i \in 1 .. Len(seqs) : IsRecord(seqs[i], record, all[i])

(* They are read one by one, each a record further than the one before.    *)
LEMMA RecordsOf ==
  ASSUME NEW seqs, NEW record, NEW all, AreRecords(seqs, record, all)
  PROVE  /\ FlattenSeq(seqs) \in Seq(Nat)
         /\ Len(FlattenSeq(seqs)) = Len(seqs) * record.size
         /\ \A f \in Seq(Nat), a \in Nat : At(f, a, FlattenSeq(seqs)) =>
              AllHold(f, a, record, Len(seqs)) /\ AllValues(f, a, record, Len(seqs)) = all
<1> DEFINE n == Len(seqs)
           size == record.size
<1>1. /\ seqs \in Seq(Seq(Nat)) /\ size \in Nat /\ n \in Nat
      /\ Len(all) = n /\ all = [i \in 1 .. n |-> all[i]]
      /\ \A i \in 1 .. n : IsRecord(seqs[i], record, all[i])
  BY DEF AreRecords
<1>2. FlattenSeq(seqs) \in Seq(Nat) /\ \E off : Offsets(seqs, off)
  BY <1>1, FlattenAt
<1>3. PICK off : Offsets(seqs, off)
  BY <1>2
<1>4. /\ off[0] = 0
      /\ \A i \in 1 .. n : off[i] = off[i - 1] + Len(seqs[i])
      /\ Len(FlattenSeq(seqs)) = off[n]
      /\ \A f \in Seq(Nat), a \in Nat :
           At(f, a, FlattenSeq(seqs)) => \A i \in 1 .. n : At(f, a + off[i - 1], seqs[i])
  BY <1>3 DEF Offsets
<1> HIDE DEF n
<1>5. \A i \in 1 .. n : Len(seqs[i]) = size
  BY <1>1 DEF IsRecord
<1> HIDE DEF size
<1> DEFINE g == [i \in 0 .. n |-> i * size]
<1>6. \A i \in 0 .. n : g[i] = i * size
  OBVIOUS
<1> HIDE DEF g
<1>7. \A i \in 0 .. n : off[i] = g[i]
  <2>1. ASSUME NEW i \in 1 .. n, off[i - 1] = g[i - 1]
        PROVE  off[i] = g[i]
    <3>1. i - 1 \in Nat /\ i - 1 \in 0 .. n /\ i \in 0 .. n /\ (i - 1) + 1 = i
      BY <1>1
    <3>2. ((i - 1) + 1) * size = (i - 1) * size + size
      BY <1>1, <3>1, NextMultiple
    <3> QED
      BY <1>4, <1>5, <1>6, <2>1, <3>1, <3>2
  <2>2. off[0] = g[0]
    <3>1. 0 * size = 0 /\ 0 \in 0 .. n
      BY <1>1, NextMultiple
    <3> QED
      BY <1>4, <1>6, <3>1
  <2>3. \A i \in 1 .. n : off[i - 1] = g[i - 1] => off[i] = g[i]
    BY <2>1
  <2> QED
    BY <1>1, <2>2, <2>3, SameSteps
<1>8. Len(FlattenSeq(seqs)) = n * size
  <2>1. n \in 0 .. n
    BY <1>1
  <2> QED
    BY <1>4, <1>6, <1>7, <2>1
<1>9. ASSUME NEW f \in Seq(Nat), NEW a \in Nat, At(f, a, FlattenSeq(seqs))
      PROVE  AllHold(f, a, record, n) /\ AllValues(f, a, record, n) = all
  <2>1. ASSUME NEW i \in 1 .. n
        PROVE  /\ Holds(f, a + (i - 1) * size, record)
               /\ Values(f, a + (i - 1) * size, record) = all[i]
    <3>1. i - 1 \in 0 .. n /\ i - 1 \in Nat
      BY <1>1
    <3>2. At(f, a + (i - 1) * size, seqs[i])
      BY <1>4, <1>6, <1>7, <1>9, <3>1
    <3>3. a + (i - 1) * size \in Nat
      BY <1>1, <3>1, NextMultiple
    <3>4. IsRecord(seqs[i], record, all[i])
      BY <1>1
    <3> QED
      BY <3>2, <3>3, <3>4 DEF IsRecord
  <2>2. AllHold(f, a, record, n)
    <3>1. ASSUME NEW i \in 0 .. n - 1
          PROVE  Holds(f, a + i * size, record)
      <4>1. i + 1 \in 1 .. n /\ (i + 1) - 1 = i
        BY <1>1
      <4> QED
        BY <2>1, <4>1
    <3> QED
      BY <3>1 DEF AllHold, size
  <2>3. AllValues(f, a, record, n) = [i \in 1 .. n |-> all[i]]
    BY <2>1 DEF AllValues, size
  <2> QED
    BY <1>1, <2>2, <2>3
<1> QED
  BY <1>2, <1>8, <1>9 DEF n, size

(* writeInt and readInt                                                    *)
LEMMA NumEncodes ==
  ASSUME NEW n \in Nat, n < Limit
  PROVE  Encodes(Num(n), "int", n)
<1>1. Num(n) \in Seq(Nat) /\ Len(Num(n)) = Width("int")
  BY NumSteps DEF Width
<1>2. "int" \notin DOMAIN ID
  BY DEF ID
<1>3. ASSUME NEW f \in Seq(Nat), NEW a \in Nat, At(f, a, Num(n))
      PROVE  Value(f, a, "int") = n
  BY <1>3, DigitsOfNum DEF Value
<1> QED
  BY <1>1, <1>2, <1>3 DEF Encodes

(* An integer too large is written and read as some other.                 *)
LEMMA AnyNumEncodes ==
  ASSUME NEW n \in Nat
  PROVE  \E x \in Nat : Encodes(Num(n), "int", x)
<1> DEFINE low == 0
           x == Digits(Num(n), low)
<1>1. Num(n) \in Seq(Nat) /\ Len(Num(n)) = Width("int") /\ Len(Num(n)) = IntLen
  BY NumSteps DEF Width
<1>2. "int" \notin DOMAIN ID
  BY DEF ID
<1>3. low \in Nat /\ \A j \in 1 .. IntLen : low + j = j /\ Num(n)[j] \in Nat
  <2>1. \A j \in 1 .. IntLen : Num(n)[j] \in Nat
    BY <1>1, ElementOfSeq
  <2> QED
    BY <2>1
<1> HIDE DEF low
<1>4. \A j \in 1 .. IntLen : Num(n)[low + j] = Num(n)[j] /\ Num(n)[low + j] \in Nat
  BY <1>3
<1>5. x \in Nat
  BY <1>3, <1>4, SameDigits
<1>6. ASSUME NEW f \in Seq(Nat), NEW a \in Nat, At(f, a, Num(n))
      PROVE  Value(f, a, "int") = x
  <2>1. \A j \in 1 .. IntLen : f[a + j] = Num(n)[low + j] /\ Num(n)[low + j] \in Nat
    BY <1>1, <1>3, <1>4, <1>6 DEF At
  <2>2. Digits(f, a) = Digits(Num(n), low)
    BY <1>3, <2>1, SameDigits
  <2> QED
    BY <2>2 DEF Value
<1> QED
  BY <1>1, <1>2, <1>5, <1>6 DEF Encodes

(* writeTime and readTime                                                  *)
LEMMA TimeEncodes ==
  ASSUME NEW t \in Nat, t < Limit
  PROVE  Encodes(Time(t), "time", OnDisk(t))
<1> DEFINE n == t \div Resolution
<1>1. /\ OnDisk(t) \in Nat /\ OnDisk(t) <= t /\ n \in Nat /\ OnDisk(t) = Resolution * n
  BY OnDiskFacts
<1>2. Resolution \in Nat /\ Resolution >= 1
  BY PointAssumption
<1>3. Time(t) = Num(n)
  BY DEF Time
<1> HIDE DEF n
<1>4. n <= OnDisk(t) /\ Resolution * n = n * Resolution
  <2>1. PICK k \in Nat : Resolution = 1 + k
    <3>1. Resolution - 1 \in Nat /\ Resolution = 1 + (Resolution - 1)
      BY <1>2
    <3> QED
      BY <3>1
  <2>2. Resolution * n = n + k * n /\ k * n \in Nat
    BY <1>1, <2>1
  <2>3. Resolution * n = n * Resolution
    BY <1>1, <1>2
  <2>4. n <= Resolution * n
    BY <1>1, <2>2
  <2> QED
    BY <1>1, <2>3, <2>4
<1>5. n < Limit
  <2>1. Limit \in Nat
    <3>1. PICK power : /\ power \in [0 .. IntLen -> Nat] /\ Limit = power[IntLen]
      BY LimitSteps
    <3> QED
      BY <3>1, FileAssumption
  <2> QED
    BY <1>1, <1>4, <2>1
<1>6. Num(n) \in Seq(Nat) /\ Len(Num(n)) = Width("time")
  BY <1>1, NumSteps DEF Width
<1>7. "time" \notin DOMAIN ID
  BY DEF ID
<1>8. ASSUME NEW f \in Seq(Nat), NEW a \in Nat, At(f, a, Num(n))
      PROVE  Value(f, a, "time") = OnDisk(t)
  <2>1. Digits(f, a) = n
    BY <1>1, <1>5, <1>8, DigitsOfNum
  <2>2. Value(f, a, "time") = Digits(f, a) * Resolution
    BY DEF Value
  <2> QED
    BY <1>1, <1>4, <2>1, <2>2
<1> QED
  BY <1>3, <1>6, <1>7, <1>8 DEF Encodes

(* One byte: an identifier, a version, an address or a flag.               *)
LEMMA ByteEncodes ==
  ASSUME NEW x \in Nat, NEW kind, kind \notin {"int", "time"},
         kind \in DOMAIN ID => x = ID[kind]
  PROVE  Encodes(<<x>>, kind, x)
<1>1. <<x>> \in Seq(Nat) /\ Len(<<x>>) = 1 /\ <<x>>[1] = x
  OBVIOUS
<1>2. Width(kind) = 1
  BY DEF Width
<1>3. ASSUME NEW f \in Seq(Nat), NEW a \in Nat, At(f, a, <<x>>)
      PROVE  Value(f, a, kind) = x /\ (kind \in DOMAIN ID => f[a + 1] = ID[kind])
  <2>1. f[a + 1] = x
    BY <1>1, <1>3 DEF At
  <2>2. Value(f, a, kind) = f[a + 1]
    BY DEF Value
  <2> QED
    BY <2>1, <2>2
<1> QED
  BY <1>1, <1>2, <1>3 DEF Encodes

(* Two sequences, one after the other.                                     *)
LEMMA ConcatFacts ==
  ASSUME NEW T, NEW s, NEW t, s \in Seq(T), t \in Seq(T),
         NEW n, NEW m, Len(s) = n, Len(t) = m
  PROVE  /\ s \o t \in Seq(T) /\ Len(s \o t) = n + m
         /\ \A i \in 1 .. n + m : (s \o t)[i] = IF i <= n THEN s[i] ELSE t[i - n]
BY ConcatProperties

LEMMA ConcatNumbers ==
  ASSUME NEW s \in Seq(Nat), NEW t \in Seq(Nat), NEW n, NEW m, Len(s) = n, Len(t) = m
  PROVE  /\ s \o t \in Seq(Nat) /\ Len(s \o t) = n + m
         /\ \A i \in 1 .. n + m : (s \o t)[i] = IF i <= n THEN s[i] ELSE t[i - n]
OBVIOUS

(* The fields of two records, one after the other.                         *)
LEMMA EncodeBoth ==
  ASSUME NEW parts, NEW kinds, NEW values, Encode(parts, kinds, values),
         NEW parts2, NEW kinds2, NEW values2, Encode(parts2, kinds2, values2)
  PROVE  Encode(parts \o parts2, kinds \o kinds2, values \o values2)
<1> DEFINE n == Len(parts)
           m == Len(parts2)
<1>1. /\ parts \in Seq(Seq(Nat)) /\ kinds \in Seq(Kinds) /\ values \in Seq(Nat)
      /\ Len(kinds) = n /\ Len(values) = n
      /\ \A i \in 1 .. n : Encodes(parts[i], kinds[i], values[i])
  BY DEF Encode
<1>2. /\ parts2 \in Seq(Seq(Nat)) /\ kinds2 \in Seq(Kinds) /\ values2 \in Seq(Nat)
      /\ Len(kinds2) = m /\ Len(values2) = m
      /\ \A i \in 1 .. m : Encodes(parts2[i], kinds2[i], values2[i])
  BY DEF Encode
<1>3. n \in Nat /\ m \in Nat
  BY <1>1, <1>2
<1> HIDE DEF n, m
<1>4. /\ parts \o parts2 \in Seq(Seq(Nat)) /\ Len(parts \o parts2) = n + m
      /\ \A i \in 1 .. n + m : (parts \o parts2)[i] = IF i <= n THEN parts[i] ELSE parts2[i - n]
  BY <1>1, <1>2, ConcatFacts DEF n, m
<1>5. /\ kinds \o kinds2 \in Seq(Kinds) /\ Len(kinds \o kinds2) = n + m
      /\ \A i \in 1 .. n + m : (kinds \o kinds2)[i] = IF i <= n THEN kinds[i] ELSE kinds2[i - n]
  BY <1>1, <1>2, ConcatFacts
<1>6. /\ values \o values2 \in Seq(Nat) /\ Len(values \o values2) = n + m
      /\ \A i \in 1 .. n + m : (values \o values2)[i] = IF i <= n THEN values[i] ELSE values2[i - n]
  BY <1>1, <1>2, ConcatNumbers
<1>7. ASSUME NEW i \in 1 .. n + m
      PROVE  Encodes((parts \o parts2)[i], (kinds \o kinds2)[i], (values \o values2)[i])
  <2>1. CASE i <= n
    <3>1. i \in 1 .. n
      BY <1>3, <2>1
    <3> QED
      BY <1>1, <1>4, <1>5, <1>6, <2>1, <3>1
  <2>2. CASE ~(i <= n)
    <3>1. i - n \in 1 .. m
      BY <1>3, <2>2
    <3> QED
      BY <1>2, <1>4, <1>5, <1>6, <2>2, <3>1
  <2> QED
    BY <2>1, <2>2
<1> QED
  BY <1>4, <1>5, <1>6, <1>7 DEF Encode

-----------------------------------------------------------------------------
(* The records of a file.                                                  *)

(* The numbers of a header fit in integers of the file.                    *)
HeaderFits(h) ==
  /\ h.stats.min < Limit /\ h.stats.max < Limit /\ h.stats.sum < Limit
  /\ h.stats.good < Limit /\ h.stats.dropped < Limit
  /\ h.span.begin < Limit /\ h.span.end < Limit /\ h.span.duration < Limit

StatsValues(s) == <<ID.Stats, s.min, s.max, s.sum, s.good, 0, 0, s.dropped, 0>>
SpanValues(span) == <<ID.TimeSpan, OnDisk(span.begin), OnDisk(span.end), span.duration>>
HeaderValues(h) == <<ID.Header>> \o StatsValues(h.stats) \o SpanValues(h.span)

LEMMA KindsAre ==
  /\ "int" \in Kinds /\ "time" \in Kinds /\ "byte" \in Kinds /\ "TimeSpan" \in Kinds
  /\ "Stats" \in Kinds /\ "Block" \in Kinds /\ "Header" \in Kinds /\ "Data" \in Kinds
  /\ "Network" \in Kinds /\ "Runs" \in Kinds
BY DEF Kinds, ID

(* Integers have a value at least.                                         *)
LEMMA LimitIs == Limit \in Nat /\ 0 < Limit
<1>1. PICK power : /\ power \in [0 .. IntLen -> Nat] /\ Limit = power[IntLen]
  BY LimitSteps
<1>2. Limit \in Nat
  BY <1>1, FileAssumption
<1> QED
  BY <1>2, FileAssumption, NumbersFit

(* Stats                                                                   *)
LEMMA StatsEncode ==
  ASSUME NEW s \in Stats, s.min < Limit, s.max < Limit, s.sum < Limit,
         s.good < Limit, s.dropped < Limit
  PROVE  Encode(StatsFields(s), StatsKinds, StatsValues(s))
<1>1. ID.Stats \in Nat /\ Encodes(<<ID.Stats>>, "Stats", ID.Stats)
  <2>1. ID.Stats \in Nat /\ "Stats" \notin {"int", "time"} /\ ID["Stats"] = ID.Stats
    BY DEF ID
  <2> QED
    BY <2>1, ByteEncodes
<1>2. /\ s.min \in Nat /\ s.max \in Nat /\ s.sum \in Nat /\ s.good \in Nat /\ s.dropped \in Nat
      /\ 0 \in Nat /\ 0 < Limit
  BY LimitIs DEF Stats
<1>3. /\ Encodes(Num(s.min), "int", s.min) /\ Encodes(Num(s.max), "int", s.max)
      /\ Encodes(Num(s.sum), "int", s.sum) /\ Encodes(Num(s.good), "int", s.good)
      /\ Encodes(Num(s.dropped), "int", s.dropped) /\ Encodes(Num(0), "int", 0)
  BY <1>2, NumEncodes
<1>4. /\ <<ID.Stats>> \in Seq(Nat) /\ Num(s.min) \in Seq(Nat) /\ Num(s.max) \in Seq(Nat)
      /\ Num(s.sum) \in Seq(Nat) /\ Num(s.good) \in Seq(Nat) /\ Num(s.dropped) \in Seq(Nat)
      /\ Num(0) \in Seq(Nat)
  BY <1>1, <1>3 DEF Encodes
<1> DEFINE parts == StatsFields(s)
           kinds == StatsKinds
           values == StatsValues(s)
<1>5. parts \in Seq(Seq(Nat)) /\ Len(parts) = 9
  BY <1>4 DEF StatsFields, Float
<1>6. kinds \in Seq(Kinds) /\ Len(kinds) = 9
  BY KindsAre DEF StatsKinds
<1>7. values \in Seq(Nat) /\ Len(values) = 9
  BY <1>1, <1>2 DEF StatsValues
<1>8. ASSUME NEW i \in 1 .. 9
      PROVE  Encodes(parts[i], kinds[i], values[i])
  <2>1. i \in {1, 2, 3, 4, 5, 6, 7, 8, 9}
    OBVIOUS
  <2> QED
    BY <1>1, <1>3, <2>1 DEF StatsFields, StatsKinds, StatsValues, Float
<1> QED
  BY <1>5, <1>6, <1>7, <1>8 DEF Encode

(* TimeSpan                                                                *)
LEMMA SpanEncode ==
  ASSUME NEW span \in [begin: Nat, end: Nat, duration: Nat],
         span.begin < Limit, span.end < Limit, span.duration < Limit
  PROVE  Encode(SpanFields(span), TimeSpanKinds, SpanValues(span))
<1>1. ID.TimeSpan \in Nat /\ Encodes(<<ID.TimeSpan>>, "TimeSpan", ID.TimeSpan)
  <2>1. ID.TimeSpan \in Nat /\ "TimeSpan" \notin {"int", "time"} /\ ID["TimeSpan"] = ID.TimeSpan
    BY DEF ID
  <2> QED
    BY <2>1, ByteEncodes
<1>2. span.begin \in Nat /\ span.end \in Nat /\ span.duration \in Nat
  OBVIOUS
<1>3. /\ Encodes(Time(span.begin), "time", OnDisk(span.begin))
      /\ Encodes(Time(span.end), "time", OnDisk(span.end))
      /\ OnDisk(span.begin) \in Nat /\ OnDisk(span.end) \in Nat
  BY <1>2, TimeEncodes, OnDiskFacts
<1>4. Encodes(Num(span.duration), "int", span.duration)
  BY <1>2, NumEncodes
<1>5. /\ <<ID.TimeSpan>> \in Seq(Nat) /\ Time(span.begin) \in Seq(Nat)
      /\ Time(span.end) \in Seq(Nat) /\ Num(span.duration) \in Seq(Nat)
  BY <1>1, <1>3, <1>4 DEF Encodes
<1> DEFINE parts == SpanFields(span)
           kinds == TimeSpanKinds
           values == SpanValues(span)
<1>6. parts \in Seq(Seq(Nat)) /\ Len(parts) = 4
  BY <1>5 DEF SpanFields
<1>7. kinds \in Seq(Kinds) /\ Len(kinds) = 4
  BY KindsAre DEF TimeSpanKinds
<1>8. values \in Seq(Nat) /\ Len(values) = 4
  BY <1>1, <1>2, <1>3 DEF SpanValues
<1>9. ASSUME NEW i \in 1 .. 4
      PROVE  Encodes(parts[i], kinds[i], values[i])
  <2>1. i \in {1, 2, 3, 4}
    OBVIOUS
  <2> QED
    BY <1>1, <1>3, <1>4, <2>1 DEF SpanFields, TimeSpanKinds, SpanValues
<1> QED
  BY <1>6, <1>7, <1>8, <1>9 DEF Encode

(* One field.                                                              *)
LEMMA EncodeOne ==
  ASSUME NEW part, NEW kind \in Kinds, NEW value \in Nat, Encodes(part, kind, value)
  PROVE  Encode(<<part>>, <<kind>>, <<value>>)
<1>1. part \in Seq(Nat)
  BY DEF Encodes
<1>2. <<part>> \in Seq(Seq(Nat)) /\ Len(<<part>>) = 1 /\ <<part>>[1] = part
  BY <1>1
<1>3. <<kind>> \in Seq(Kinds) /\ Len(<<kind>>) = 1 /\ <<kind>>[1] = kind
  OBVIOUS
<1>4. <<value>> \in Seq(Nat) /\ Len(<<value>>) = 1 /\ <<value>>[1] = value
  OBVIOUS
<1>5. \A i \in 1 .. 1 : i = 1
  OBVIOUS
<1> QED
  BY <1>2, <1>3, <1>4, <1>5 DEF Encode

(* Header                                                                  *)
LEMMA HeaderEncode ==
  ASSUME NEW h \in Header, HeaderFits(h)
  PROVE  Encode(HeaderFields(h), HeaderKinds, HeaderValues(h))
<1>1. /\ h.stats \in Stats /\ h.span \in [begin: Nat, end: Nat, duration: Nat]
      /\ h.stats.min < Limit /\ h.stats.max < Limit /\ h.stats.sum < Limit
      /\ h.stats.good < Limit /\ h.stats.dropped < Limit
      /\ h.span.begin < Limit /\ h.span.end < Limit /\ h.span.duration < Limit
  BY DEF Header, HeaderFits
<1>2. Encode(StatsFields(h.stats), StatsKinds, StatsValues(h.stats))
  BY <1>1, StatsEncode
<1>3. Encode(SpanFields(h.span), TimeSpanKinds, SpanValues(h.span))
  BY <1>1, SpanEncode
<1>4. Encode(<<<<ID.Header>>>>, <<"Header">>, <<ID.Header>>)
  <2>1. /\ ID.Header \in Nat /\ "Header" \notin {"int", "time"} /\ ID["Header"] = ID.Header
        /\ "Header" \in Kinds
    BY KindsAre DEF ID
  <2>2. Encodes(<<ID.Header>>, "Header", ID.Header)
    BY <2>1, ByteEncodes
  <2> QED
    BY <2>1, <2>2, EncodeOne
<1>5. Encode(<<<<ID.Header>>>> \o StatsFields(h.stats), <<"Header">> \o StatsKinds,
             <<ID.Header>> \o StatsValues(h.stats))
  BY <1>2, <1>4, EncodeBoth
<1>6. Encode((<<<<ID.Header>>>> \o StatsFields(h.stats)) \o SpanFields(h.span),
             (<<"Header">> \o StatsKinds) \o TimeSpanKinds,
             (<<ID.Header>> \o StatsValues(h.stats)) \o SpanValues(h.span))
  BY <1>3, <1>5, EncodeBoth
<1> QED
  BY <1>6 DEF HeaderFields, HeaderKinds, HeaderValues

(* Two and three fields.                                                   *)
LEMMA EncodeTwo ==
  ASSUME NEW p1, NEW k1 \in Kinds, NEW v1 \in Nat, Encodes(p1, k1, v1),
         NEW p2, NEW k2 \in Kinds, NEW v2 \in Nat, Encodes(p2, k2, v2)
  PROVE  Encode(<<p1, p2>>, <<k1, k2>>, <<v1, v2>>)
<1>1. p1 \in Seq(Nat) /\ p2 \in Seq(Nat)
  BY DEF Encodes
<1>2. <<p1, p2>> \in Seq(Seq(Nat)) /\ Len(<<p1, p2>>) = 2
  BY <1>1
<1>3. <<k1, k2>> \in Seq(Kinds) /\ Len(<<k1, k2>>) = 2
  OBVIOUS
<1>4. <<v1, v2>> \in Seq(Nat) /\ Len(<<v1, v2>>) = 2
  OBVIOUS
<1>5. ASSUME NEW i \in 1 .. 2
      PROVE  Encodes(<<p1, p2>>[i], <<k1, k2>>[i], <<v1, v2>>[i])
  <2>1. i \in {1, 2}
    OBVIOUS
  <2> QED
    BY <2>1
<1> QED
  BY <1>2, <1>3, <1>4, <1>5 DEF Encode

LEMMA EncodeThree ==
  ASSUME NEW p1, NEW k1 \in Kinds, NEW v1 \in Nat, Encodes(p1, k1, v1),
         NEW p2, NEW k2 \in Kinds, NEW v2 \in Nat, Encodes(p2, k2, v2),
         NEW p3, NEW k3 \in Kinds, NEW v3 \in Nat, Encodes(p3, k3, v3)
  PROVE  Encode(<<p1, p2, p3>>, <<k1, k2, k3>>, <<v1, v2, v3>>)
<1>1. p1 \in Seq(Nat) /\ p2 \in Seq(Nat) /\ p3 \in Seq(Nat)
  BY DEF Encodes
<1>2. <<p1, p2, p3>> \in Seq(Seq(Nat)) /\ Len(<<p1, p2, p3>>) = 3
  BY <1>1
<1>3. <<k1, k2, k3>> \in Seq(Kinds) /\ Len(<<k1, k2, k3>>) = 3
  OBVIOUS
<1>4. <<v1, v2, v3>> \in Seq(Nat) /\ Len(<<v1, v2, v3>>) = 3
  OBVIOUS
<1>5. ASSUME NEW i \in 1 .. 3
      PROVE  Encodes(<<p1, p2, p3>>[i], <<k1, k2, k3>>[i], <<v1, v2, v3>>[i])
  <2>1. i \in {1, 2, 3}
    OBVIOUS
  <2> QED
    BY <2>1
<1> QED
  BY <1>2, <1>3, <1>4, <1>5 DEF Encode

(* One part is what it is.                                                 *)
LEMMA FlattenOne ==
  ASSUME NEW part, part \in Seq(Nat)
  PROVE  FlattenSeq(<<part>>) = part
<1> DEFINE seqs == <<part>>
<1>1. seqs \in Seq(Seq(Nat)) /\ Len(seqs) = 1 /\ seqs[1] = part
  OBVIOUS
<1>2. FlattenSeq(seqs) = FlattenSeq(<<part>>)
  OBVIOUS
<1> HIDE DEF seqs
<1>3. PICK flat : /\ flat \in [0 .. Len(seqs) -> Seq(Nat)]
                  /\ flat[0] = <<>> /\ FlattenSeq(seqs) = flat[Len(seqs)]
                  /\ \A i \in 1 .. Len(seqs) : flat[i] = flat[i - 1] \o seqs[i]
  BY <1>1, FlattenSteps
<1>4. flat[1] = flat[0] \o seqs[1]
  <2>1. 1 - 1 = 0 /\ 1 \in 1 .. 1
    OBVIOUS
  <2> QED
    BY <1>1, <1>3, <2>1
<1>5. <<>> \o part = part
  BY ConcatEmptySeq
<1> QED
  BY <1>1, <1>2, <1>3, <1>4, <1>5

(* An integer and a byte on their own.                                     *)
LEMMA IntIs ==
  ASSUME NEW n \in Nat, n < Limit
  PROVE  IsRecord(Num(n), IntRecord, <<n>>)
<1>1. Encodes(Num(n), "int", n) /\ "int" \in Kinds
  BY NumEncodes, KindsAre
<1>2. Encode(<<Num(n)>>, <<"int">>, <<n>>)
  BY <1>1, EncodeOne
<1>3. Num(n) \in Seq(Nat)
  BY <1>1 DEF Encodes
<1>4. FlattenSeq(<<Num(n)>>) = Num(n)
  BY <1>3, FlattenOne
<1>5. IsRecord(FlattenSeq(<<Num(n)>>), Layout(<<"int">>), <<n>>)
  BY <1>2, RecordOf
<1> QED
  BY <1>4, <1>5 DEF IntRecord

LEMMA ByteIs ==
  ASSUME NEW x \in Nat
  PROVE  IsRecord(<<x>>, ByteRecord, <<x>>)
<1>1. "byte" \notin {"int", "time"} /\ "byte" \notin DOMAIN ID /\ "byte" \in Kinds
  BY KindsAre DEF ID
<1>2. Encodes(<<x>>, "byte", x)
  BY <1>1, ByteEncodes
<1>3. Encode(<<<<x>>>>, <<"byte">>, <<x>>)
  BY <1>1, <1>2, EncodeOne
<1>4. <<x>> \in Seq(Nat)
  OBVIOUS
<1>5. FlattenSeq(<<<<x>>>>) = <<x>>
  BY <1>4, FlattenOne
<1>6. IsRecord(FlattenSeq(<<<<x>>>>), Layout(<<"byte">>), <<x>>)
  BY <1>3, RecordOf
<1> QED
  BY <1>5, <1>6 DEF ByteRecord

(* Header, Block, and the index of a point in the blocks.                  *)
LEMMA HeaderRecordIs ==
  ASSUME NEW h \in Header, HeaderFits(h)
  PROVE  IsRecord(FlattenSeq(HeaderFields(h)), HeaderRecord, HeaderValues(h))
<1>1. Encode(HeaderFields(h), HeaderKinds, HeaderValues(h))
  BY HeaderEncode
<1> QED
  BY <1>1, RecordOf DEF HeaderRecord

BlockValues(b) == <<ID.Block, Len(b.raw)>> \o HeaderValues(b.header)

LEMMA BlockRecordIs ==
  ASSUME NEW b \in AnyBlock, HeaderFits(b.header), Len(b.raw) < Limit
  PROVE  IsRecord(BlockHeader(b), BlockRecord, BlockValues(b))
<1>1. b.header \in Header /\ Len(b.raw) \in Nat
  BY DEF AnyBlock
<1>2. Encode(HeaderFields(b.header), HeaderKinds, HeaderValues(b.header))
  BY <1>1, HeaderEncode
<1>3. Encode(<<<<ID.Block>>, Num(Len(b.raw))>>, <<"Block", "int">>, <<ID.Block, Len(b.raw)>>)
  <2>1. /\ ID.Block \in Nat /\ "Block" \notin {"int", "time"} /\ ID["Block"] = ID.Block
        /\ "Block" \in Kinds /\ "int" \in Kinds
    BY KindsAre DEF ID
  <2>2. Encodes(<<ID.Block>>, "Block", ID.Block)
    BY <2>1, ByteEncodes
  <2>3. Encodes(Num(Len(b.raw)), "int", Len(b.raw))
    BY <1>1, NumEncodes
  <2> QED
    BY <1>1, <2>1, <2>2, <2>3, EncodeTwo
<1>4. Encode(<<<<ID.Block>>, Num(Len(b.raw))>> \o HeaderFields(b.header),
             <<"Block", "int">> \o HeaderKinds,
             <<ID.Block, Len(b.raw)>> \o HeaderValues(b.header))
  BY <1>2, <1>3, EncodeBoth
<1>5. Encode(BlockFields(b), <<"Block", "int">> \o HeaderKinds, BlockValues(b))
  BY <1>4 DEF BlockFields, BlockValues
<1> QED
  BY <1>5, RecordOf DEF BlockRecord, BlockHeader

LEMMA PairRecordIs ==
  ASSUME NEW o \in [block: Nat, raw: Nat], o.block < Limit, o.raw < Limit
  PROVE  IsRecord(IndexBytes(o), PairRecord, <<o.block, o.raw>>)
<1>1. o.block \in Nat /\ o.raw \in Nat /\ "int" \in Kinds
  BY KindsAre
<1>2. Encodes(Num(o.block), "int", o.block) /\ Encodes(Num(o.raw), "int", o.raw)
  BY <1>1, NumEncodes
<1>3. Encode(<<Num(o.block), Num(o.raw)>>, <<"int", "int">>, <<o.block, o.raw>>)
  BY <1>1, <1>2, EncodeTwo
<1> QED
  BY <1>3, RecordOf DEF PairRecord, IndexBytes

(* PingDataPoint                                                           *)
RawValues(p) == <<p.duration, OnDisk(p.time), IF p.dropped THEN 1 ELSE 0>>

LEMMA PointRecordIs ==
  ASSUME NEW p \in Raw, p.duration < Limit, p.time < Limit
  PROVE  /\ IsRecord(RawBytes(p), PointRecord, RawValues(p))
         /\ RawFrom(RawValues(p)) = Reread(p)
<1> DEFINE flag == IF p.dropped THEN 1 ELSE 0
<1>1. /\ p.duration \in Nat /\ p.time \in Nat /\ flag \in Nat
      /\ "int" \in Kinds /\ "time" \in Kinds /\ "byte" \in Kinds
      /\ "byte" \notin {"int", "time"} /\ "byte" \notin DOMAIN ID
  BY KindsAre DEF Raw, ID
<1>2. RawBytes(p) = FlattenSeq(<<Num(p.duration), Time(p.time), <<flag>>>>)
  BY DEF RawBytes
<1>3. RawValues(p) = <<p.duration, OnDisk(p.time), flag>>
  BY DEF RawValues
<1>4. RawFrom(RawValues(p)) = Reread(p)
  <2>1. p = [time |-> p.time, duration |-> p.duration, dropped |-> p.dropped] /\ p.dropped \in BOOLEAN
    BY DEF Raw
  <2>2. (flag # 0) = p.dropped
    BY <2>1
  <2> HIDE DEF flag
  <2>3. RawFrom(RawValues(p)) = [duration |-> p.duration, time |-> OnDisk(p.time), dropped |-> p.dropped]
    BY <1>3, <2>2 DEF RawFrom
  <2>4. Reread(p) = [time |-> OnDisk(p.time), duration |-> p.duration, dropped |-> p.dropped]
    BY <2>1 DEF Reread
  <2> QED
    BY <2>3, <2>4
<1> HIDE DEF flag
<1>5. Encodes(Num(p.duration), "int", p.duration)
  BY <1>1, NumEncodes
<1>6. Encodes(Time(p.time), "time", OnDisk(p.time)) /\ OnDisk(p.time) \in Nat
  BY <1>1, TimeEncodes, OnDiskFacts
<1>7. Encodes(<<flag>>, "byte", flag)
  BY <1>1, ByteEncodes
<1>8. Encode(<<Num(p.duration), Time(p.time), <<flag>>>>, <<"int", "time", "byte">>,
             <<p.duration, OnDisk(p.time), flag>>)
  BY <1>1, <1>5, <1>6, <1>7, EncodeThree
<1> QED
  BY <1>2, <1>3, <1>4, <1>8, RecordOf DEF PointRecord

(* The identifier and the version a file begins with.                      *)
LEMMA OpeningIs ==
  ASSUME NEW v \in Versions
  PROVE  /\ VersionByte[v] \in 1 .. 3
         /\ IsRecord(FlattenSeq(OpeningFields(v)), Opening, <<ID.Data, VersionByte[v]>>)
<1>1. VersionByte[v] \in 1 .. 3
  BY DEF Versions, VersionByte
<1>2. /\ ID.Data \in Nat /\ "Data" \notin {"int", "time"} /\ ID["Data"] = ID.Data
      /\ "Data" \in Kinds /\ "byte" \in Kinds
      /\ "byte" \notin {"int", "time"} /\ "byte" \notin DOMAIN ID
  BY KindsAre DEF ID
<1> DEFINE x == VersionByte[v]
<1>3. x \in Nat
  BY <1>1
<1> HIDE DEF x
<1>4. Encodes(<<ID.Data>>, "Data", ID.Data) /\ Encodes(<<x>>, "byte", x)
  BY <1>2, <1>3, ByteEncodes
<1>5. Encode(<<<<ID.Data>>, <<x>>>>, <<"Data", "byte">>, <<ID.Data, x>>)
  BY <1>2, <1>3, <1>4, EncodeTwo
<1>6. IsRecord(FlattenSeq(<<<<ID.Data>>, <<x>>>>), Layout(<<"Data", "byte">>), <<ID.Data, x>>)
  BY <1>5, RecordOf
<1> QED
  BY <1>1, <1>6 DEF Opening, OpeningFields, x

(* The lengths; the one of a block's header is read past.                  *)
LengthValues(x) ==
  <<Len(order), total, ID.Network, cur, Len(ips), Len(indexes), x, Len(blocks)>>

LEMMA LengthsAre ==
  ASSUME IInv, Len(order) < Limit, cur < Limit
  PROVE  \E x \in Nat : IsRecord(FlattenSeq(LengthFields), Lengths, LengthValues(x))
<1>1. /\ Len(order) \in Nat /\ total = Len(order) /\ cur \in Nat
      /\ Len(ips) = cur /\ Len(indexes) = cur /\ Len(blocks) = cur
  BY DEF IInv, Shape, NetworkSound, OrderSound
<1>2. BlockHeaderLen \in Nat
  BY FileAssumption DEF BlockHeaderLen, HeaderLen, TimeSpanLen, StatsLen
<1>3. PICK x \in Nat : Encodes(Num(BlockHeaderLen), "int", x)
  BY <1>2, AnyNumEncodes
<1>4. Encodes(Num(Len(order)), "int", Len(order)) /\ Encodes(Num(cur), "int", cur)
  BY <1>1, NumEncodes
<1>5. ID.Network \in Nat /\ Encodes(<<ID.Network>>, "Network", ID.Network)
  <2>1. ID.Network \in Nat /\ "Network" \notin {"int", "time"} /\ ID["Network"] = ID.Network
    BY DEF ID
  <2> QED
    BY <2>1, ByteEncodes
<1>6. /\ Num(Len(order)) \in Seq(Nat) /\ Num(cur) \in Seq(Nat)
      /\ Num(BlockHeaderLen) \in Seq(Nat) /\ <<ID.Network>> \in Seq(Nat)
  BY <1>3, <1>4, <1>5 DEF Encodes
<1> DEFINE parts == LengthFields
           kinds == <<"int", "int", "Network", "int", "int", "int", "int", "int">>
           values == LengthValues(x)
<1>7. parts \in Seq(Seq(Nat)) /\ Len(parts) = 8
  BY <1>1, <1>6 DEF LengthFields
<1>8. kinds \in Seq(Kinds) /\ Len(kinds) = 8
  BY KindsAre
<1>9. values \in Seq(Nat) /\ Len(values) = 8
  BY <1>1, <1>3, <1>5 DEF LengthValues
<1>10. ASSUME NEW i \in 1 .. 8
       PROVE  Encodes(parts[i], kinds[i], values[i])
  <2>1. i \in {1, 2, 3, 4, 5, 6, 7, 8}
    OBVIOUS
  <2> QED
    BY <1>1, <1>3, <1>4, <1>5, <2>1 DEF LengthFields, LengthValues
<1>11. Encode(parts, kinds, values)
  BY <1>7, <1>8, <1>9, <1>10 DEF Encode
<1>12. IsRecord(FlattenSeq(parts), Layout(kinds), values)
  BY <1>11, RecordOf
<1> QED
  BY <1>12 DEF Lengths

(* Runs                                                                    *)
RunFits(r) == r.lastIndex < Limit /\ r.longest < Limit /\ r.current < Limit

RunsValues(v) ==
  CASE v = "noRuns" -> <<>>
    [] v = "runsWithNoIndex" -> <<ID.Runs, runs.good.longest, runs.good.current,
                                  runs.dropped.longest, runs.dropped.current>>
    [] v = "current" -> <<ID.Runs,
                          runs.good.lastIndex, runs.good.longest, runs.good.current,
                          runs.dropped.lastIndex, runs.dropped.longest, runs.dropped.current>>

LEMMA RunsRecordIs ==
  ASSUME runs \in AllRuns, RunFits(runs.good), RunFits(runs.dropped), NEW v \in Versions
  PROVE  IsRecord(FlattenSeq(RunsFields(v)), RunsRecord[VersionByte[v]], RunsValues(v))
<1> DEFINE g == runs.good
           d == runs.dropped
<1>1. /\ g.lastIndex \in Nat /\ g.longest \in Nat /\ g.current \in Nat
      /\ d.lastIndex \in Nat /\ d.longest \in Nat /\ d.current \in Nat
  BY DEF AllRuns, Run
<1>2. /\ Encodes(Num(g.lastIndex), "int", g.lastIndex) /\ Encodes(Num(g.longest), "int", g.longest)
      /\ Encodes(Num(g.current), "int", g.current)
      /\ Encodes(Num(d.lastIndex), "int", d.lastIndex) /\ Encodes(Num(d.longest), "int", d.longest)
      /\ Encodes(Num(d.current), "int", d.current)
  BY <1>1, NumEncodes DEF RunFits
<1>3. ID.Runs \in Nat /\ Encodes(<<ID.Runs>>, "Runs", ID.Runs)
  <2>1. ID.Runs \in Nat /\ "Runs" \notin {"int", "time"} /\ ID["Runs"] = ID.Runs
    BY DEF ID
  <2> QED
    BY <2>1, ByteEncodes
<1>4. /\ <<ID.Runs>> \in Seq(Nat) /\ Num(g.lastIndex) \in Seq(Nat) /\ Num(g.longest) \in Seq(Nat)
      /\ Num(g.current) \in Seq(Nat) /\ Num(d.lastIndex) \in Seq(Nat)
      /\ Num(d.longest) \in Seq(Nat) /\ Num(d.current) \in Seq(Nat)
  BY <1>2, <1>3 DEF Encodes
<1> HIDE DEF g, d
<1> DEFINE parts == RunsFields(v)
           kinds == IF v = "noRuns" THEN <<>>
                    ELSE IF v = "runsWithNoIndex" THEN <<"Runs", "int", "int", "int", "int">>
                    ELSE <<"Runs", "int", "int", "int", "int", "int", "int">>
           values == RunsValues(v)
<1>5. RunsRecord[VersionByte[v]] = Layout(kinds)
  BY DEF Versions, VersionByte, RunsRecord
<1>6. Encode(parts, kinds, values)
  <2>1. CASE v = "noRuns"
    <3>1. parts = <<>> /\ kinds = <<>> /\ values = <<>>
      BY <2>1 DEF RunsFields, RunsValues
    <3>2. /\ <<>> \in Seq(Seq(Nat)) /\ <<>> \in Seq(Kinds) /\ <<>> \in Seq(Nat)
          /\ Len(<<>>) = 0 /\ 1 .. 0 = {}
      OBVIOUS
    <3> HIDE DEF parts, kinds, values
    <3> QED
      BY <3>1, <3>2 DEF Encode
  <2>2. CASE v = "runsWithNoIndex"
    <3>1. parts = <<<<ID.Runs>>, Num(g.longest), Num(g.current), Num(d.longest), Num(d.current)>>
      BY <2>2 DEF RunsFields, g, d
    <3>2. kinds = <<"Runs", "int", "int", "int", "int">>
      BY <2>2
    <3>3. values = <<ID.Runs, g.longest, g.current, d.longest, d.current>>
      BY <2>2 DEF RunsValues, g, d
    <3> HIDE DEF parts, kinds, values
    <3>4. parts \in Seq(Seq(Nat)) /\ Len(parts) = 5
      BY <1>4, <3>1
    <3>5. kinds \in Seq(Kinds) /\ Len(kinds) = 5
      BY <3>2, KindsAre
    <3>6. values \in Seq(Nat) /\ Len(values) = 5
      BY <1>1, <1>3, <3>3
    <3>7. ASSUME NEW i \in 1 .. 5
          PROVE  Encodes(parts[i], kinds[i], values[i])
      <4>1. i \in {1, 2, 3, 4, 5}
        OBVIOUS
      <4> QED
        BY <1>2, <1>3, <3>1, <3>2, <3>3, <4>1
    <3> QED
      BY <3>4, <3>5, <3>6, <3>7 DEF Encode
  <2>3. CASE v = "current"
    <3>1. parts = <<<<ID.Runs>>, Num(g.lastIndex), Num(g.longest), Num(g.current),
                    Num(d.lastIndex), Num(d.longest), Num(d.current)>>
      BY <2>3 DEF RunsFields, g, d
    <3>2. kinds = <<"Runs", "int", "int", "int", "int", "int", "int">>
      BY <2>3
    <3>3. values = <<ID.Runs, g.lastIndex, g.longest, g.current, d.lastIndex, d.longest, d.current>>
      BY <2>3 DEF RunsValues, g, d
    <3> HIDE DEF parts, kinds, values
    <3>4. parts \in Seq(Seq(Nat)) /\ Len(parts) = 7
      BY <1>4, <3>1
    <3>5. kinds \in Seq(Kinds) /\ Len(kinds) = 7
      BY <3>2, KindsAre
    <3>6. values \in Seq(Nat) /\ Len(values) = 7
      BY <1>1, <1>3, <3>3
    <3>7. ASSUME NEW i \in 1 .. 7
          PROVE  Encodes(parts[i], kinds[i], values[i])
      <4>1. i \in {1, 2, 3, 4, 5, 6, 7}
        OBVIOUS
      <4> QED
        BY <1>2, <1>3, <3>1, <3>2, <3>3, <4>1
    <3> QED
      BY <3>4, <3>5, <3>6, <3>7 DEF Encode
  <2> QED
    BY <2>1, <2>2, <2>3 DEF Versions
<1> HIDE DEF parts, kinds, values
<1>7. IsRecord(FlattenSeq(parts), Layout(kinds), values)
  BY <1>6, RecordOf
<1> QED
  BY <1>5, <1>7 DEF parts, values

-----------------------------------------------------------------------------
(* Sizes.                                                                  *)

(* The sizes of the parts of a record add up.                              *)
LEMMA SizeOfBoth ==
  ASSUME NEW k1, k1 \in Seq(Kinds), NEW k2, k2 \in Seq(Kinds)
  PROVE  Layout(k1 \o k2).size = Layout(k1).size + Layout(k2).size
<1> DEFINE n == Len(k1)
           m == Len(k2)
           at1 == Layout(k1).at
           at2 == Layout(k2).at
           both == Layout(k1 \o k2).at
<1>1. /\ n \in Nat /\ m \in Nat /\ k1 \o k2 \in Seq(Kinds) /\ Len(k1 \o k2) = n + m
      /\ \A i \in 1 .. n + m : (k1 \o k2)[i] = IF i <= n THEN k1[i] ELSE k2[i - n]
  BY ConcatFacts
<1>2. /\ Layout(k1).size = at1[n] /\ at1[0] = 0 /\ at1 \in [0 .. n -> Nat]
      /\ \A i \in 1 .. n : at1[i] = at1[i - 1] + Width(k1[i])
  BY LayoutSteps
<1>3. /\ Layout(k2).size = at2[m] /\ at2[0] = 0 /\ at2 \in [0 .. m -> Nat]
      /\ \A i \in 1 .. m : at2[i] = at2[i - 1] + Width(k2[i])
  BY LayoutSteps
<1>4. /\ Layout(k1 \o k2).size = both[n + m] /\ both[0] = 0
      /\ \A i \in 1 .. n + m : both[i] = both[i - 1] + Width((k1 \o k2)[i])
  BY <1>1, LayoutSteps
<1>5. \A kind : Width(kind) \in Nat
  BY FileAssumption DEF Width
<1> HIDE DEF n, m, at1, at2, both
<1>6. \A i \in 0 .. n : both[i] = at1[i]
  <2>1. \A i \in 1 .. n : i \in 1 .. n + m /\ i <= n
    BY <1>1
  <2>2. both[0] = at1[0] /\ \A i \in 1 .. n : both[i - 1] = at1[i - 1] => both[i] = at1[i]
    BY <1>1, <1>2, <1>4, <2>1
  <2>3. n \in Nat
    BY <1>1
  <2> QED
    BY <2>2, <2>3, SameSteps
<1> DEFINE rest == [i \in 0 .. m |-> both[n + i]]
           sum == [i \in 0 .. m |-> at1[n] + at2[i]]
<1>7. \A i \in 0 .. m : rest[i] = both[n + i] /\ sum[i] = at1[n] + at2[i]
  OBVIOUS
<1> HIDE DEF rest, sum
<1>8. rest[0] = sum[0]
  <2>1. 0 \in 0 .. m /\ n \in 0 .. n /\ n + 0 = n /\ at1[n] \in Nat
    BY <1>1, <1>2
  <2>2. at1[n] + 0 = at1[n]
    BY <2>1
  <2> QED
    BY <1>3, <1>6, <1>7, <2>1, <2>2
<1>9. ASSUME NEW i \in 1 .. m, rest[i - 1] = sum[i - 1]
      PROVE  rest[i] = sum[i]
  <2>1. /\ n + i \in 1 .. n + m /\ ~(n + i <= n) /\ (n + i) - n = i /\ (n + i) - 1 = n + (i - 1)
        /\ i \in 0 .. m /\ i - 1 \in 0 .. m /\ n \in 0 .. n
    BY <1>1
  <2>2. both[n + i] = both[n + (i - 1)] + Width(k2[i])
    BY <1>1, <1>4, <2>1
  <2>3. at2[i] = at2[i - 1] + Width(k2[i])
    BY <1>3
  <2>4. at1[n] \in Nat /\ at2[i - 1] \in Nat /\ Width(k2[i]) \in Nat
    BY <1>2, <1>3, <1>5, <2>1
  <2>5. both[n + (i - 1)] = at1[n] + at2[i - 1]
    BY <1>7, <1>9, <2>1
  <2>6. both[n + i] = at1[n] + at2[i]
    BY <2>2, <2>3, <2>4, <2>5
  <2> QED
    BY <1>7, <2>1, <2>6
<1>10. \A i \in 0 .. m : rest[i] = sum[i]
  <2>1. rest[0] = sum[0] /\ \A i \in 1 .. m : rest[i - 1] = sum[i - 1] => rest[i] = sum[i]
    BY <1>8, <1>9
  <2>2. m \in Nat
    BY <1>1
  <2> QED
    BY <2>1, <2>2, SameSteps
<1>11. m \in 0 .. m
  BY <1>1
<1>12. both[n + m] = at1[n] + at2[m]
  BY <1>7, <1>10, <1>11
<1> QED
  BY <1>2, <1>3, <1>4, <1>12

(* The size of each.                                                       *)
LEMMA StatsSize == Layout(StatsKinds).size = StatsLen
<1> DEFINE kinds == <<"Stats", "int", "int", "int", "int", "int", "int", "int", "int">>
           at == Layout(kinds).at
<1>1. kinds \in Seq(Kinds) /\ Len(kinds) = 9
  BY KindsAre
<1>2. IntLen \in Nat
  BY FileAssumption
<1>3. /\ Width(kinds[1]) = 1
      /\ Width(kinds[2]) = IntLen
      /\ Width(kinds[3]) = IntLen
      /\ Width(kinds[4]) = IntLen
      /\ Width(kinds[5]) = IntLen
      /\ Width(kinds[6]) = IntLen
      /\ Width(kinds[7]) = IntLen
      /\ Width(kinds[8]) = IntLen
      /\ Width(kinds[9]) = IntLen
  BY DEF Width
<1> HIDE DEF kinds
<1>4. /\ Layout(kinds).size = at[9] /\ at[0] = 0
      /\ \A i \in 1 .. 9 : at[i] = at[i - 1] + Width(kinds[i])
  BY <1>1, LayoutSteps
<1> HIDE DEF at
<1>5. /\ at[1] = at[0] + Width(kinds[1])
      /\ at[2] = at[1] + Width(kinds[2])
      /\ at[3] = at[2] + Width(kinds[3])
      /\ at[4] = at[3] + Width(kinds[4])
      /\ at[5] = at[4] + Width(kinds[5])
      /\ at[6] = at[5] + Width(kinds[6])
      /\ at[7] = at[6] + Width(kinds[7])
      /\ at[8] = at[7] + Width(kinds[8])
      /\ at[9] = at[8] + Width(kinds[9])
  BY <1>4
<1>6. at[9] = 1 + 8 * IntLen
  BY <1>2, <1>3, <1>4, <1>5
<1> QED
  BY <1>4, <1>6, <1>2 DEF kinds, StatsKinds, StatsLen

LEMMA TimeSpanSize == Layout(TimeSpanKinds).size = TimeSpanLen
<1> DEFINE kinds == <<"TimeSpan", "time", "time", "int">>
           at == Layout(kinds).at
<1>1. kinds \in Seq(Kinds) /\ Len(kinds) = 4
  BY KindsAre
<1>2. IntLen \in Nat
  BY FileAssumption
<1>3. /\ Width(kinds[1]) = 1
      /\ Width(kinds[2]) = IntLen
      /\ Width(kinds[3]) = IntLen
      /\ Width(kinds[4]) = IntLen
  BY DEF Width
<1> HIDE DEF kinds
<1>4. /\ Layout(kinds).size = at[4] /\ at[0] = 0
      /\ \A i \in 1 .. 4 : at[i] = at[i - 1] + Width(kinds[i])
  BY <1>1, LayoutSteps
<1> HIDE DEF at
<1>5. /\ at[1] = at[0] + Width(kinds[1])
      /\ at[2] = at[1] + Width(kinds[2])
      /\ at[3] = at[2] + Width(kinds[3])
      /\ at[4] = at[3] + Width(kinds[4])
  BY <1>4
<1>6. at[4] = 1 + 3 * IntLen
  BY <1>2, <1>3, <1>4, <1>5
<1> QED
  BY <1>4, <1>6, <1>2 DEF kinds, TimeSpanKinds, TimeSpanLen

LEMMA OpeningSize == Opening.size = 2
<1> DEFINE kinds == <<"Data", "byte">>
           at == Layout(kinds).at
<1>1. kinds \in Seq(Kinds) /\ Len(kinds) = 2
  BY KindsAre
<1>2. IntLen \in Nat
  BY FileAssumption
<1>3. /\ Width(kinds[1]) = 1
      /\ Width(kinds[2]) = 1
  BY DEF Width
<1> HIDE DEF kinds
<1>4. /\ Layout(kinds).size = at[2] /\ at[0] = 0
      /\ \A i \in 1 .. 2 : at[i] = at[i - 1] + Width(kinds[i])
  BY <1>1, LayoutSteps
<1> HIDE DEF at
<1>5. /\ at[1] = at[0] + Width(kinds[1])
      /\ at[2] = at[1] + Width(kinds[2])
  BY <1>4
<1>6. at[2] = 2 + 0 * IntLen
  BY <1>2, <1>3, <1>4, <1>5
<1> QED
  BY <1>4, <1>6, <1>2 DEF kinds, Opening

LEMMA LengthsSize == Lengths.size = 1 + 7 * IntLen
<1> DEFINE kinds == <<"int", "int", "Network", "int", "int", "int", "int", "int">>
           at == Layout(kinds).at
<1>1. kinds \in Seq(Kinds) /\ Len(kinds) = 8
  BY KindsAre
<1>2. IntLen \in Nat
  BY FileAssumption
<1>3. /\ Width(kinds[1]) = IntLen
      /\ Width(kinds[2]) = IntLen
      /\ Width(kinds[3]) = 1
      /\ Width(kinds[4]) = IntLen
      /\ Width(kinds[5]) = IntLen
      /\ Width(kinds[6]) = IntLen
      /\ Width(kinds[7]) = IntLen
      /\ Width(kinds[8]) = IntLen
  BY DEF Width
<1> HIDE DEF kinds
<1>4. /\ Layout(kinds).size = at[8] /\ at[0] = 0
      /\ \A i \in 1 .. 8 : at[i] = at[i - 1] + Width(kinds[i])
  BY <1>1, LayoutSteps
<1> HIDE DEF at
<1>5. /\ at[1] = at[0] + Width(kinds[1])
      /\ at[2] = at[1] + Width(kinds[2])
      /\ at[3] = at[2] + Width(kinds[3])
      /\ at[4] = at[3] + Width(kinds[4])
      /\ at[5] = at[4] + Width(kinds[5])
      /\ at[6] = at[5] + Width(kinds[6])
      /\ at[7] = at[6] + Width(kinds[7])
      /\ at[8] = at[7] + Width(kinds[8])
  BY <1>4
<1>6. at[8] = 1 + 7 * IntLen
  BY <1>2, <1>3, <1>4, <1>5
<1> QED
  BY <1>4, <1>6 DEF kinds, Lengths

LEMMA PairSize == PairRecord.size = 2 * IntLen
<1> DEFINE kinds == <<"int", "int">>
           at == Layout(kinds).at
<1>1. kinds \in Seq(Kinds) /\ Len(kinds) = 2
  BY KindsAre
<1>2. IntLen \in Nat
  BY FileAssumption
<1>3. /\ Width(kinds[1]) = IntLen
      /\ Width(kinds[2]) = IntLen
  BY DEF Width
<1> HIDE DEF kinds
<1>4. /\ Layout(kinds).size = at[2] /\ at[0] = 0
      /\ \A i \in 1 .. 2 : at[i] = at[i - 1] + Width(kinds[i])
  BY <1>1, LayoutSteps
<1> HIDE DEF at
<1>5. /\ at[1] = at[0] + Width(kinds[1])
      /\ at[2] = at[1] + Width(kinds[2])
  BY <1>4
<1>6. at[2] = 0 + 2 * IntLen
  BY <1>2, <1>3, <1>4, <1>5
<1> QED
  BY <1>4, <1>6, <1>2 DEF kinds, PairRecord

LEMMA PointSize == PointRecord.size = PointLen
<1> DEFINE kinds == <<"int", "time", "byte">>
           at == Layout(kinds).at
<1>1. kinds \in Seq(Kinds) /\ Len(kinds) = 3
  BY KindsAre
<1>2. IntLen \in Nat
  BY FileAssumption
<1>3. /\ Width(kinds[1]) = IntLen
      /\ Width(kinds[2]) = IntLen
      /\ Width(kinds[3]) = 1
  BY DEF Width
<1> HIDE DEF kinds
<1>4. /\ Layout(kinds).size = at[3] /\ at[0] = 0
      /\ \A i \in 1 .. 3 : at[i] = at[i - 1] + Width(kinds[i])
  BY <1>1, LayoutSteps
<1> HIDE DEF at
<1>5. /\ at[1] = at[0] + Width(kinds[1])
      /\ at[2] = at[1] + Width(kinds[2])
      /\ at[3] = at[2] + Width(kinds[3])
  BY <1>4
<1>6. at[3] = 1 + 2 * IntLen
  BY <1>2, <1>3, <1>4, <1>5
<1> QED
  BY <1>4, <1>6, <1>2 DEF kinds, PointRecord, PointLen

LEMMA IntSize == IntRecord.size = IntLen
<1> DEFINE kinds == <<"int">>
           at == Layout(kinds).at
<1>1. kinds \in Seq(Kinds) /\ Len(kinds) = 1
  BY KindsAre
<1>2. IntLen \in Nat
  BY FileAssumption
<1>3. /\ Width(kinds[1]) = IntLen
  BY DEF Width
<1> HIDE DEF kinds
<1>4. /\ Layout(kinds).size = at[1] /\ at[0] = 0
      /\ \A i \in 1 .. 1 : at[i] = at[i - 1] + Width(kinds[i])
  BY <1>1, LayoutSteps
<1> HIDE DEF at
<1>5. /\ at[1] = at[0] + Width(kinds[1])
  BY <1>4
<1>6. at[1] = 0 + 1 * IntLen
  BY <1>2, <1>3, <1>4, <1>5
<1> QED
  BY <1>4, <1>6, <1>2 DEF kinds, IntRecord

LEMMA ByteSize == ByteRecord.size = 1
<1> DEFINE kinds == <<"byte">>
           at == Layout(kinds).at
<1>1. kinds \in Seq(Kinds) /\ Len(kinds) = 1
  BY KindsAre
<1>2. IntLen \in Nat
  BY FileAssumption
<1>3. /\ Width(kinds[1]) = 1
  BY DEF Width
<1> HIDE DEF kinds
<1>4. /\ Layout(kinds).size = at[1] /\ at[0] = 0
      /\ \A i \in 1 .. 1 : at[i] = at[i - 1] + Width(kinds[i])
  BY <1>1, LayoutSteps
<1> HIDE DEF at
<1>5. /\ at[1] = at[0] + Width(kinds[1])
  BY <1>4
<1>6. at[1] = 1 + 0 * IntLen
  BY <1>2, <1>3, <1>4, <1>5
<1> QED
  BY <1>4, <1>6, <1>2 DEF kinds, ByteRecord

LEMMA RunsSize == RunsRecord[3].size = RunsLen
<1> DEFINE kinds == <<"Runs", "int", "int", "int", "int", "int", "int">>
           at == Layout(kinds).at
<1>1. kinds \in Seq(Kinds) /\ Len(kinds) = 7
  BY KindsAre
<1>2. IntLen \in Nat
  BY FileAssumption
<1>3. /\ Width(kinds[1]) = 1
      /\ Width(kinds[2]) = IntLen
      /\ Width(kinds[3]) = IntLen
      /\ Width(kinds[4]) = IntLen
      /\ Width(kinds[5]) = IntLen
      /\ Width(kinds[6]) = IntLen
      /\ Width(kinds[7]) = IntLen
  BY DEF Width
<1> HIDE DEF kinds
<1>4. /\ Layout(kinds).size = at[7] /\ at[0] = 0
      /\ \A i \in 1 .. 7 : at[i] = at[i - 1] + Width(kinds[i])
  BY <1>1, LayoutSteps
<1> HIDE DEF at
<1>5. /\ at[1] = at[0] + Width(kinds[1])
      /\ at[2] = at[1] + Width(kinds[2])
      /\ at[3] = at[2] + Width(kinds[3])
      /\ at[4] = at[3] + Width(kinds[4])
      /\ at[5] = at[4] + Width(kinds[5])
      /\ at[6] = at[5] + Width(kinds[6])
      /\ at[7] = at[6] + Width(kinds[7])
  BY <1>4
<1>6. at[7] = 1 + 6 * IntLen
  BY <1>2, <1>3, <1>4, <1>5
<1> QED
  BY <1>4, <1>6, <1>2 DEF kinds, RunsRecord, RunsLen

LEMMA HeaderIdSize == Layout(<<"Header">>).size = 1
<1> DEFINE kinds == <<"Header">>
           at == Layout(kinds).at
<1>1. kinds \in Seq(Kinds) /\ Len(kinds) = 1
  BY KindsAre
<1>2. IntLen \in Nat
  BY FileAssumption
<1>3. /\ Width(kinds[1]) = 1
  BY DEF Width
<1> HIDE DEF kinds
<1>4. /\ Layout(kinds).size = at[1] /\ at[0] = 0
      /\ \A i \in 1 .. 1 : at[i] = at[i - 1] + Width(kinds[i])
  BY <1>1, LayoutSteps
<1> HIDE DEF at
<1>5. /\ at[1] = at[0] + Width(kinds[1])
  BY <1>4
<1>6. at[1] = 1 + 0 * IntLen
  BY <1>2, <1>3, <1>4, <1>5
<1> QED
  BY <1>4, <1>6, <1>2 DEF kinds

LEMMA BlockIdSize == Layout(<<"Block", "int">>).size = 1 + IntLen
<1> DEFINE kinds == <<"Block", "int">>
           at == Layout(kinds).at
<1>1. kinds \in Seq(Kinds) /\ Len(kinds) = 2
  BY KindsAre
<1>2. IntLen \in Nat
  BY FileAssumption
<1>3. /\ Width(kinds[1]) = 1
      /\ Width(kinds[2]) = IntLen
  BY DEF Width
<1> HIDE DEF kinds
<1>4. /\ Layout(kinds).size = at[2] /\ at[0] = 0
      /\ \A i \in 1 .. 2 : at[i] = at[i - 1] + Width(kinds[i])
  BY <1>1, LayoutSteps
<1> HIDE DEF at
<1>5. /\ at[1] = at[0] + Width(kinds[1])
      /\ at[2] = at[1] + Width(kinds[2])
  BY <1>4
<1>6. at[2] = 1 + 1 * IntLen
  BY <1>2, <1>3, <1>4, <1>5
<1> QED
  BY <1>4, <1>6, <1>2 DEF kinds

LEMMA HeaderSize == HeaderRecord.size = HeaderLen
<1>1. /\ <<"Header">> \in Seq(Kinds) /\ StatsKinds \in Seq(Kinds) /\ TimeSpanKinds \in Seq(Kinds)
  BY KindsAre DEF StatsKinds, TimeSpanKinds
<1>2. <<"Header">> \o StatsKinds \in Seq(Kinds)
  BY <1>1
<1>3. Layout(<<"Header">> \o StatsKinds).size = 1 + StatsLen
  BY <1>1, SizeOfBoth, HeaderIdSize, StatsSize
<1>4. HeaderRecord.size = (1 + StatsLen) + TimeSpanLen
  BY <1>1, <1>2, <1>3, SizeOfBoth, TimeSpanSize DEF HeaderRecord, HeaderKinds
<1>5. StatsLen \in Nat /\ TimeSpanLen \in Nat
  BY FileAssumption DEF StatsLen, TimeSpanLen
<1> QED
  BY <1>4, <1>5 DEF HeaderLen

LEMMA BlockSize == BlockRecord.size = BlockHeaderLen
<1>1. <<"Block", "int">> \in Seq(Kinds)
  BY KindsAre
<1>2. HeaderKinds \in Seq(Kinds)
  <2>1. /\ <<"Header">> \in Seq(Kinds) /\ StatsKinds \in Seq(Kinds) /\ TimeSpanKinds \in Seq(Kinds)
    BY KindsAre DEF StatsKinds, TimeSpanKinds
  <2>2. <<"Header">> \o StatsKinds \in Seq(Kinds)
    BY <2>1
  <2> QED
    BY <2>1, <2>2 DEF HeaderKinds
<1>3. BlockRecord.size = (1 + IntLen) + HeaderLen
  BY <1>1, <1>2, SizeOfBoth, BlockIdSize, HeaderSize DEF BlockRecord, HeaderRecord
<1>4. IntLen \in Nat /\ HeaderLen \in Nat
  BY FileAssumption DEF HeaderLen, StatsLen, TimeSpanLen
<1> QED
  BY <1>3, <1>4 DEF BlockHeaderLen

-----------------------------------------------------------------------------
(* The sequences of a file.                                                *)

(* Every number of the record fits in an integer of the file.              *)
BlockFits(b) ==
  /\ HeaderFits(b.header) /\ Len(b.raw) < Limit
  /\ \A i \in 1 .. Len(b.raw) : b.raw[i].duration < Limit /\ b.raw[i].time < Limit

FileFits ==
  /\ Len(order) < Limit /\ cur < Limit
  /\ HeaderFits(header) /\ RunFits(runs.good) /\ RunFits(runs.dropped)
  /\ \A b \in 1 .. Len(blocks) : BlockFits(blocks[b])
  /\ \A i \in 1 .. Len(order) : order[i].block < Limit /\ order[i].raw < Limit
  /\ \A i \in 1 .. Len(indexes) : indexes[i] < Limit

(* What they are read as.                                                  *)
OrderValues == [i \in 1 .. Len(order) |-> <<order[i].block, order[i].raw>>]
IPValues == [i \in 1 .. Len(ips) |-> <<ips[i]>>]
IndexValues == [i \in 1 .. Len(indexes) |-> <<indexes[i]>>]
HeadValues == [b \in 1 .. Len(blocks) |-> BlockValues(blocks[b])]
PointValues(b) == [i \in 1 .. Len(b.raw) |-> RawValues(b.raw[i])]

(* Records that are written one by one.                                    *)
LEMMA RecordsFrom ==
  ASSUME NEW n \in Nat, NEW seqs, seqs = [i \in 1 .. n |-> seqs[i]],
         NEW all, all = [i \in 1 .. n |-> all[i]], NEW record, record.size \in Nat,
         \A i \in 1 .. n : IsRecord(seqs[i], record, all[i])
  PROVE  AreRecords(seqs, record, all)
<1>1. \A i \in 1 .. n : seqs[i] \in Seq(Nat)
  BY DEF IsRecord
<1>2. seqs \in Seq(Seq(Nat)) /\ Len(seqs) = n
  BY <1>1
<1>3. Len(all) = n
  OBVIOUS
<1> QED
  BY <1>2, <1>3 DEF AreRecords

LEMMA OrderAre ==
  ASSUME IInv, FileFits
  PROVE  AreRecords(Each(IndexBytes, order), PairRecord, OrderValues)
<1> DEFINE seqs == [i \in 1 .. Len(order) |-> IndexBytes(order[i])]
           all == OrderValues
<1>1. order \in Seq([block: Nat, raw: Nat]) /\ Len(order) \in Nat
  BY DEF IInv, Shape
<1>2. PairRecord.size \in Nat
  BY PairSize, FileAssumption
<1>3. /\ seqs = [i \in 1 .. Len(order) |-> seqs[i]] /\ all = [i \in 1 .. Len(order) |-> all[i]]
      /\ \A i \in 1 .. Len(order) : /\ seqs[i] = IndexBytes(order[i])
                                    /\ all[i] = <<order[i].block, order[i].raw>>
  BY DEF OrderValues
<1>4. ASSUME NEW i \in 1 .. Len(order)
      PROVE  IsRecord(seqs[i], PairRecord, all[i])
  <2>1. order[i] \in [block: Nat, raw: Nat] /\ order[i].block < Limit /\ order[i].raw < Limit
    BY <1>1, ElementOfSeq DEF FileFits
  <2> QED
    BY <1>3, <2>1, PairRecordIs
<1> HIDE DEF seqs, all
<1>5. AreRecords(seqs, PairRecord, all)
  BY <1>1, <1>2, <1>3, <1>4, RecordsFrom
<1> QED
  BY <1>5 DEF Each, seqs, all

LEMMA IPsAre ==
  ASSUME IInv
  PROVE  AreRecords(Each(IPBytes, ips), ByteRecord, IPValues)
<1> DEFINE seqs == [i \in 1 .. Len(ips) |-> IPBytes(ips[i])]
           all == IPValues
<1>1. ips \in Seq(StoredIPs) /\ Len(ips) \in Nat
  BY DEF IInv, Shape
<1>2. ByteRecord.size \in Nat
  BY ByteSize
<1>3. /\ seqs = [i \in 1 .. Len(ips) |-> seqs[i]] /\ all = [i \in 1 .. Len(ips) |-> all[i]]
      /\ \A i \in 1 .. Len(ips) : seqs[i] = <<ips[i]>> /\ all[i] = <<ips[i]>>
  BY DEF IPValues, IPBytes
<1>4. ASSUME NEW i \in 1 .. Len(ips)
      PROVE  IsRecord(seqs[i], ByteRecord, all[i])
  <2>1. ips[i] \in Nat
    BY <1>1, ElementOfSeq, StoredIPsAreNatural
  <2> QED
    BY <1>3, <2>1, ByteIs
<1> HIDE DEF seqs, all
<1>5. AreRecords(seqs, ByteRecord, all)
  BY <1>1, <1>2, <1>3, <1>4, RecordsFrom
<1> QED
  BY <1>5 DEF Each, seqs, all

LEMMA IndexesAre ==
  ASSUME IInv, FileFits
  PROVE  AreRecords(Each(Num, indexes), IntRecord, IndexValues)
<1> DEFINE seqs == [i \in 1 .. Len(indexes) |-> Num(indexes[i])]
           all == IndexValues
<1>1. indexes \in Seq(Nat) /\ Len(indexes) \in Nat
  BY DEF IInv, Shape
<1>2. IntRecord.size \in Nat
  BY IntSize, FileAssumption
<1>3. /\ seqs = [i \in 1 .. Len(indexes) |-> seqs[i]] /\ all = [i \in 1 .. Len(indexes) |-> all[i]]
      /\ \A i \in 1 .. Len(indexes) : seqs[i] = Num(indexes[i]) /\ all[i] = <<indexes[i]>>
  BY DEF IndexValues
<1>4. ASSUME NEW i \in 1 .. Len(indexes)
      PROVE  IsRecord(seqs[i], IntRecord, all[i])
  <2>1. indexes[i] \in Nat /\ indexes[i] < Limit
    BY <1>1, ElementOfSeq DEF FileFits
  <2> QED
    BY <1>3, <2>1, IntIs
<1> HIDE DEF seqs, all
<1>5. AreRecords(seqs, IntRecord, all)
  BY <1>1, <1>2, <1>3, <1>4, RecordsFrom
<1> QED
  BY <1>5 DEF Each, seqs, all

LEMMA HeadsAre ==
  ASSUME IInv, FileFits
  PROVE  AreRecords(Each(BlockHeader, blocks), BlockRecord, HeadValues)
<1> DEFINE seqs == [b \in 1 .. Len(blocks) |-> BlockHeader(blocks[b])]
           all == HeadValues
<1>1. blocks \in Seq(AnyBlock) /\ Len(blocks) \in Nat
  BY DEF IInv, Shape
<1>2. BlockRecord.size \in Nat
  BY BlockSize, FileAssumption DEF BlockHeaderLen, HeaderLen, StatsLen, TimeSpanLen
<1>3. /\ seqs = [b \in 1 .. Len(blocks) |-> seqs[b]] /\ all = [b \in 1 .. Len(blocks) |-> all[b]]
      /\ \A b \in 1 .. Len(blocks) : /\ seqs[b] = BlockHeader(blocks[b])
                                     /\ all[b] = BlockValues(blocks[b])
  BY DEF HeadValues
<1>4. ASSUME NEW b \in 1 .. Len(blocks)
      PROVE  IsRecord(seqs[b], BlockRecord, all[b])
  <2>1. blocks[b] \in AnyBlock /\ HeaderFits(blocks[b].header) /\ Len(blocks[b].raw) < Limit
    BY <1>1, ElementOfSeq DEF FileFits, BlockFits
  <2> QED
    BY <1>3, <2>1, BlockRecordIs
<1> HIDE DEF seqs, all
<1>5. AreRecords(seqs, BlockRecord, all)
  BY <1>1, <1>2, <1>3, <1>4, RecordsFrom
<1> QED
  BY <1>5 DEF Each, seqs, all

LEMMA PointsOfBlockAre ==
  ASSUME NEW b \in AnyBlock, BlockFits(b)
  PROVE  AreRecords(Each(RawBytes, b.raw), PointRecord, PointValues(b))
<1> DEFINE seqs == [i \in 1 .. Len(b.raw) |-> RawBytes(b.raw[i])]
           all == PointValues(b)
<1>1. b.raw \in Seq(Raw) /\ Len(b.raw) \in Nat
  BY DEF AnyBlock
<1>2. PointRecord.size \in Nat
  BY PointSize, FileAssumption DEF PointLen
<1>3. /\ seqs = [i \in 1 .. Len(b.raw) |-> seqs[i]] /\ all = [i \in 1 .. Len(b.raw) |-> all[i]]
      /\ \A i \in 1 .. Len(b.raw) : seqs[i] = RawBytes(b.raw[i]) /\ all[i] = RawValues(b.raw[i])
  BY DEF PointValues
<1>4. ASSUME NEW i \in 1 .. Len(b.raw)
      PROVE  IsRecord(seqs[i], PointRecord, all[i])
  <2>1. b.raw[i] \in Raw /\ b.raw[i].duration < Limit /\ b.raw[i].time < Limit
    BY <1>1, ElementOfSeq DEF BlockFits
  <2> QED
    BY <1>3, <2>1, PointRecordIs
<1> HIDE DEF seqs, all
<1>5. AreRecords(seqs, PointRecord, all)
  BY <1>1, <1>2, <1>3, <1>4, RecordsFrom
<1> QED
  BY <1>5 DEF Each, seqs, all

(* The elements of two sequences, one after the other.                     *)
LEMMA ConcatElements ==
  ASSUME NEW s \in Seq(Nat), NEW t \in Seq(Nat)
  PROVE  /\ s \o t \in Seq(Nat) /\ Len(s \o t) = Len(s) + Len(t)
         /\ \A i \in 1 .. Len(s) : (s \o t)[i] = s[i]
         /\ \A i \in 1 .. Len(t) : (s \o t)[Len(s) + i] = t[i]
OBVIOUS

(* A header is read back, but for what its span loses.                     *)
LEMMA HeaderFromValues ==
  ASSUME NEW h \in Header, HeaderFits(h)
  PROVE  HeaderValues(h) \in Seq(Nat) /\ HeaderFrom(HeaderValues(h)) = HeaderOnDisk(h)
<1> DEFINE id == <<ID.Header>>
           s == StatsValues(h.stats)
           t == SpanValues(h.span)
           u == id \o s
           v == u \o t
<1>1. /\ h.stats \in Stats /\ h.span \in [begin: Nat, end: Nat, duration: Nat]
      /\ h.stats.min < Limit /\ h.stats.max < Limit /\ h.stats.sum < Limit
      /\ h.stats.good < Limit /\ h.stats.dropped < Limit
      /\ h.span.begin < Limit /\ h.span.end < Limit /\ h.span.duration < Limit
  BY DEF Header, HeaderFits
<1>2. HeaderValues(h) = v
  BY DEF HeaderValues
<1>3. id \in Seq(Nat) /\ Len(id) = 1
  BY DEF ID
<1>4. s \in Seq(Nat) /\ Len(s) = 9
  <2>1. s \in Seq(Nat)
    BY <1>1, StatsEncode DEF Encode
  <2> QED
    BY <2>1 DEF StatsValues
<1>5. t \in Seq(Nat) /\ Len(t) = 4
  <2>1. t \in Seq(Nat)
    BY <1>1, SpanEncode DEF Encode
  <2> QED
    BY <2>1 DEF SpanValues
<1>6. /\ s[2] = h.stats.min /\ s[3] = h.stats.max /\ s[4] = h.stats.sum /\ s[5] = h.stats.good
      /\ s[8] = h.stats.dropped
  BY DEF StatsValues
<1>7. t[2] = OnDisk(h.span.begin) /\ t[3] = OnDisk(h.span.end) /\ t[4] = h.span.duration
  BY DEF SpanValues
<1> HIDE DEF id, s, t
<1>8. /\ u \in Seq(Nat) /\ Len(u) = 10
      /\ u[3] = s[2] /\ u[4] = s[3] /\ u[5] = s[4] /\ u[6] = s[5] /\ u[9] = s[8]
  <2>1. /\ u \in Seq(Nat) /\ Len(u) = Len(id) + Len(s)
        /\ \A i \in 1 .. Len(s) : u[Len(id) + i] = s[i]
    BY <1>3, <1>4, ConcatElements
  <2> HIDE DEF u
  <2>2. Len(u) = 10 /\ \A i \in 1 .. 9 : u[1 + i] = s[i]
    BY <1>3, <1>4, <2>1
  <2>3. u[1 + 2] = s[2] /\ u[1 + 3] = s[3] /\ u[1 + 4] = s[4] /\ u[1 + 5] = s[5] /\ u[1 + 8] = s[8]
    BY <2>2
  <2>4. 1 + 2 = 3 /\ 1 + 3 = 4 /\ 1 + 4 = 5 /\ 1 + 5 = 6 /\ 1 + 8 = 9
    OBVIOUS
  <2>5. u[3] = s[2] /\ u[4] = s[3] /\ u[5] = s[4] /\ u[6] = s[5] /\ u[9] = s[8]
    BY <2>3, <2>4, Zenon
  <2>6. u \in Seq(Nat)
    BY <2>1
  <2>7. Len(u) = 10
    BY <2>2
  <2> QED
    BY <2>5, <2>6, <2>7, Zenon
<1> HIDE DEF u
<1>9. /\ v \in Seq(Nat)
      /\ v[3] = u[3] /\ v[4] = u[4] /\ v[5] = u[5] /\ v[6] = u[6] /\ v[9] = u[9]
      /\ v[12] = t[2] /\ v[13] = t[3] /\ v[14] = t[4]
  <2>1. /\ v \in Seq(Nat) /\ \A i \in 1 .. Len(u) : v[i] = u[i]
        /\ \A i \in 1 .. Len(t) : v[Len(u) + i] = t[i]
    BY <1>5, <1>8, ConcatElements
  <2> HIDE DEF v
  <2>2. \A i \in 1 .. 10 : v[i] = u[i]
    BY <1>8, <2>1
  <2>3. \A i \in 1 .. 4 : v[10 + i] = t[i]
    BY <1>5, <1>8, <2>1
  <2>4. v[10 + 2] = t[2] /\ v[10 + 3] = t[3] /\ v[10 + 4] = t[4]
    BY <2>3
  <2> QED
    BY <2>1, <2>2, <2>4
<1> HIDE DEF v
<1>10. HeaderFrom(v) = [stats |-> [min |-> h.stats.min, max |-> h.stats.max, sum |-> h.stats.sum,
                                   good |-> h.stats.good, dropped |-> h.stats.dropped],
                        span |-> [begin |-> OnDisk(h.span.begin), end |-> OnDisk(h.span.end),
                                  duration |-> h.span.duration]]
  BY <1>6, <1>7, <1>8, <1>9 DEF HeaderFrom
<1>11. h.stats = [min |-> h.stats.min, max |-> h.stats.max, sum |-> h.stats.sum,
                  good |-> h.stats.good, dropped |-> h.stats.dropped]
  BY <1>1 DEF Stats
<1>12. HeaderOnDisk(h) = [stats |-> h.stats,
                          span |-> [begin |-> OnDisk(h.span.begin), end |-> OnDisk(h.span.end),
                                    duration |-> h.span.duration]]
  BY DEF HeaderOnDisk, Header
<1> QED
  BY <1>2, <1>9, <1>10, <1>11, <1>12

(* What stands after the first two of a block's values.                    *)
LEMMA BlockValuesAre ==
  ASSUME NEW b \in AnyBlock, BlockFits(b)
  PROVE  BlockValues(b)[2] = Len(b.raw) /\ Tail(Tail(BlockValues(b))) = HeaderValues(b.header)
<1> DEFINE s == <<ID.Block, Len(b.raw)>>
           t == HeaderValues(b.header)
           v == s \o t
<1>1. b.header \in Header /\ Len(b.raw) \in Nat /\ HeaderFits(b.header)
  BY DEF AnyBlock, BlockFits
<1>2. s \in Seq(Nat) /\ Len(s) = 2 /\ s[2] = Len(b.raw)
  BY <1>1 DEF ID
<1>3. t \in Seq(Nat)
  BY <1>1, HeaderFromValues
<1>4. BlockValues(b) = v
  BY DEF BlockValues
<1> HIDE DEF s, t
<1>5. Len(t) \in Nat /\ v \in Seq(Nat) /\ Len(v) = 2 + Len(t) /\ v[2] = s[2]
      /\ \A i \in 1 .. Len(t) : v[i + 2] = t[i]
  <2>0. Len(t) \in Nat
    BY <1>3
  <2>4. /\ v \in Seq(Nat) /\ Len(v) = Len(s) + Len(t)
        /\ \A i \in 1 .. Len(s) : v[i] = s[i]
        /\ \A i \in 1 .. Len(t) : v[Len(s) + i] = t[i]
    BY <1>2, <1>3, ConcatElements
  <2>1. /\ Len(t) \in Nat /\ v \in Seq(Nat) /\ Len(v) = Len(s) + Len(t)
        /\ \A i \in 1 .. Len(s) : v[i] = s[i]
        /\ \A i \in 1 .. Len(t) : v[Len(s) + i] = t[i]
    BY <2>0, <2>4, Zenon
  <2> HIDE DEF v
  <2>2. \A i \in 1 .. Len(t) : Len(s) + i = i + 2
    BY <1>2
  <2>3. v[2] = s[2]
    BY <1>2, <2>1
  <2> QED
    BY <1>2, <2>1, <2>2, <2>3
<1> HIDE DEF v
<1>6. Tail(v) \in Seq(Nat) /\ Len(Tail(v)) = 1 + Len(t) /\ \A i \in 1 .. Len(t) : Tail(v)[i + 1] = t[i]
  BY <1>5
<1>7. Tail(Tail(v)) \in Seq(Nat) /\ Len(Tail(Tail(v))) = Len(t)
      /\ \A i \in 1 .. Len(t) : Tail(Tail(v))[i] = t[i]
  <2> DEFINE w == Tail(v)
  <2>1. w \in Seq(Nat) /\ Len(w) = 1 + Len(t) /\ \A i \in 1 .. Len(t) : w[i + 1] = t[i]
    BY <1>6
  <2> HIDE DEF w
  <2>3. Len(t) \in Nat /\ w # <<>>
    BY <1>5, <2>1
  <2>4. Tail(w) \in Seq(Nat) /\ Len(Tail(w)) = Len(w) - 1
        /\ \A i \in 1 .. Len(Tail(w)) : Tail(w)[i] = w[i + 1]
    BY <2>1, <2>3
  <2>5. Len(Tail(w)) = Len(t)
    BY <2>1, <2>3, <2>4
  <2>2. Tail(w) \in Seq(Nat) /\ Len(Tail(w)) = Len(t) /\ \A i \in 1 .. Len(t) : Tail(w)[i] = t[i]
    BY <2>1, <2>4, <2>5
  <2> QED
    BY <2>2 DEF w
<1>8. Tail(Tail(v)) = t
  BY <1>3, <1>7, SeqEqual
<1> QED
  BY <1>2, <1>4, <1>5, <1>8 DEF t

(* The places of the points of each block.                                 *)
LEMMA RawsAtSteps ==
  ASSUME NEW heads, Len(heads) \in Nat, \A b \in 1 .. Len(heads) : heads[b][2] \in Nat,
         NEW from \in Nat
  PROVE  /\ \A b \in 0 .. Len(heads) : RawsAt(heads, from)[b] \in Nat
         /\ RawsAt(heads, from)[0] = from
         /\ \A b \in 1 .. Len(heads) :
              RawsAt(heads, from)[b] = RawsAt(heads, from)[b - 1] + heads[b][2] * PointRecord.size
<1> DEFINE n == Len(heads)
           step == [x \in Nat \X (1 .. n) |-> x[1] + heads[x[2]][2] * PointRecord.size]
           Solves(h) == h = [b \in 0 .. n |->
                               IF b = 0 THEN from ELSE h[b - 1] + heads[b][2] * PointRecord.size]
           places == CHOOSE h : Solves(h)
<1>1. n \in Nat /\ PointRecord.size \in Nat
  BY PointSize, FileAssumption DEF PointLen
<1>2. RawsAt(heads, from) = places
  BY DEF RawsAt
<1>3. \A b \in 1 .. n : heads[b][2] * PointRecord.size \in Nat
  <2> TAKE b \in 1 .. n
  <2>1. heads[b][2] \in Nat
    OBVIOUS
  <2> QED
    BY <1>1, <2>1, NextMultiple
<1> HIDE DEF n
<1>4. step \in [Nat \X (1 .. n) -> Nat]
  <2>1. ASSUME NEW x \in Nat \X (1 .. n)
        PROVE  x[1] + heads[x[2]][2] * PointRecord.size \in Nat
    <3>1. x[1] \in Nat /\ heads[x[2]][2] * PointRecord.size \in Nat
      BY <1>3
    <3> QED
      BY <3>1
  <2> QED
    BY <2>1
<1>5. \A x \in Nat, b \in 1 .. n : step[<<x, b>>] = x + heads[b][2] * PointRecord.size
  OBVIOUS
<1> HIDE DEF step
<1>6. PICK h : Iterates(h, n, Nat, from, step)
  BY <1>1, <1>4, Recursion
<1>7. \A b \in 1 .. n : b - 1 \in 0 .. n /\ b \in 0 .. n /\ b # 0
  BY <1>1
<1>8. \A b \in 1 .. n : h[b] = h[b - 1] + heads[b][2] * PointRecord.size
  BY <1>5, <1>6, <1>7 DEF Iterates
<1>9. Solves(h)
  <2>1. \A b \in 0 .. n : b = 0 \/ b \in 1 .. n
    BY <1>1
  <2> QED
    BY <1>6, <1>8, <2>1 DEF Iterates
<1>10. Solves(places)
  <2> HIDE DEF Solves
  <2> QED
    BY <1>9
<1> HIDE DEF places
<1>11. /\ places[0] = from
       /\ \A b \in 1 .. n : places[b] = places[b - 1] + heads[b][2] * PointRecord.size
  BY <1>1, <1>7, <1>10
<1> DEFINE T == {b \in Nat : b <= n => places[b] \in Nat}
<1>12. \A b \in Nat : b \in T => b + 1 \in T
  <2> SUFFICES ASSUME NEW b \in Nat, b \in T, b + 1 <= n
               PROVE  places[b + 1] \in Nat
    OBVIOUS
  <2>0. n \in Nat /\ b \in Nat /\ b + 1 <= n /\ (b <= n => places[b] \in Nat)
    BY <1>1
  <2>1. b + 1 \in 1 .. n /\ (b + 1) - 1 = b /\ b <= n
    <3> HIDE DEF T
    <3> QED
      BY <2>0
  <2> DEFINE c == b + 1
  <2>2. c \in 1 .. n /\ c - 1 = b
    BY <2>1
  <2> HIDE DEF c
  <2>3. heads[c][2] * PointRecord.size \in Nat /\ places[b] \in Nat
    BY <1>3, <2>0, <2>1, <2>2
  <2>4. places[c] = places[c - 1] + heads[c][2] * PointRecord.size
    BY <1>11, <2>2
  <2>5. places[c] = places[b] + heads[c][2] * PointRecord.size
    BY <2>2, <2>4
  <2>6. places[c] \in Nat
    BY <2>3, <2>5
  <2> QED
    BY <2>6 DEF c
<1>13. \A b \in 0 .. n : places[b] \in Nat
  <2>1. 0 \in T
    BY <1>11
  <2>2. Nat \subseteq T
    <3> HIDE DEF T
    <3> QED
      BY <1>12, <2>1, NatInductionOnSets
  <2> QED
    BY <1>1, <2>2
<1> QED
  BY <1>2, <1>11, <1>13 DEF n

(* They are where the points are written.                                  *)
PointsStand(f, a) ==
  \A b \in 1 .. Len(blocks) :
    AllValues(f, RawsAt(HeadValues, a)[b - 1], PointRecord, Len(blocks[b].raw)) = PointValues(blocks[b])

LEMMA BlocksDataAt ==
  ASSUME IInv, FileFits
  PROVE  /\ FlattenSeq(Each(BlockData, blocks)) \in Seq(Nat)
         /\ \A a \in Nat : RawsAt(HeadValues, a)[Len(blocks)] = a + Len(FlattenSeq(Each(BlockData, blocks)))
         /\ \A f \in Seq(Nat), a \in Nat :
              At(f, a, FlattenSeq(Each(BlockData, blocks))) => PointsStand(f, a)
<1> DEFINE n == Len(blocks)
           seqs == [b \in 1 .. n |-> BlockData(blocks[b])]
           size == PointRecord.size
<1>1. blocks \in Seq(AnyBlock) /\ n \in Nat /\ size \in Nat
  BY PointSize, FileAssumption DEF IInv, Shape, PointLen
<1>2. \A b \in 1 .. n : blocks[b] \in AnyBlock /\ BlockFits(blocks[b])
  BY <1>1, ElementOfSeq DEF FileFits
<1>3. Each(BlockData, blocks) = seqs
  BY DEF Each
<1>4. seqs = [b \in 1 .. n |-> seqs[b]] /\ \A b \in 1 .. n : seqs[b] = BlockData(blocks[b])
  OBVIOUS
<1> HIDE DEF seqs
<1>5. ASSUME NEW b \in 1 .. n
      PROVE  /\ seqs[b] \in Seq(Nat)
             /\ Len(seqs[b]) = Len(blocks[b].raw) * size
             /\ \A f \in Seq(Nat), a \in Nat : At(f, a, seqs[b]) =>
                  AllValues(f, a, PointRecord, Len(blocks[b].raw)) = PointValues(blocks[b])
  <2>1. AreRecords(Each(RawBytes, blocks[b].raw), PointRecord, PointValues(blocks[b]))
    BY <1>2, PointsOfBlockAre
  <2> DEFINE raws == Each(RawBytes, blocks[b].raw)
  <2>2. seqs[b] = FlattenSeq(raws)
    BY <1>4 DEF BlockData
  <2>3. Len(raws) = Len(blocks[b].raw)
    <3>1. Len(blocks[b].raw) \in Nat
      BY <1>2 DEF AnyBlock
    <3> QED
      BY <3>1 DEF Each
  <2> HIDE DEF raws
  <2>4. AreRecords(raws, PointRecord, PointValues(blocks[b]))
    BY <2>1 DEF raws
  <2>5. /\ FlattenSeq(raws) \in Seq(Nat)
        /\ Len(FlattenSeq(raws)) = Len(raws) * PointRecord.size
        /\ \A f \in Seq(Nat), a \in Nat : At(f, a, FlattenSeq(raws)) =>
             AllHold(f, a, PointRecord, Len(raws))
               /\ AllValues(f, a, PointRecord, Len(raws)) = PointValues(blocks[b])
    BY <2>4, RecordsOf
  <2> QED
    BY <2>2, <2>3, <2>5
<1>6. seqs \in Seq(Seq(Nat)) /\ Len(seqs) = n
  <2>1. \A b \in 1 .. n : seqs[b] \in Seq(Nat)
    BY <1>5
  <2> QED
    BY <1>1, <1>4, <2>1
<1>7. FlattenSeq(seqs) \in Seq(Nat) /\ \E off : Offsets(seqs, off)
  BY <1>6, FlattenAt
<1>8. PICK off : Offsets(seqs, off)
  BY <1>7
<1>9. /\ off \in [0 .. n -> Nat] /\ off[0] = 0 /\ Len(FlattenSeq(seqs)) = off[n]
      /\ \A b \in 1 .. n : off[b] = off[b - 1] + Len(seqs[b])
      /\ \A f \in Seq(Nat), a \in Nat :
           At(f, a, FlattenSeq(seqs)) => \A b \in 1 .. n : At(f, a + off[b - 1], seqs[b])
  BY <1>6, <1>8 DEF Offsets
<1>10. /\ Len(HeadValues) = n /\ \A b \in 1 .. n : HeadValues[b][2] = Len(blocks[b].raw)
       /\ \A b \in 1 .. n : Len(blocks[b].raw) \in Nat
  <2>1. \A b \in 1 .. n : HeadValues[b] = BlockValues(blocks[b])
    BY DEF HeadValues
  <2>2. Len(HeadValues) = n
    BY <1>1 DEF HeadValues
  <2>3. \A b \in 1 .. n : Len(blocks[b].raw) \in Nat
    BY <1>2 DEF AnyBlock
  <2>4. \A b \in 1 .. n : BlockValues(blocks[b])[2] = Len(blocks[b].raw)
    BY <1>2, BlockValuesAre
  <2> QED
    BY <2>1, <2>2, <2>3, <2>4
<1> HIDE DEF n, size
<1>11. ASSUME NEW a \in Nat
       PROVE  \A b \in 0 .. n : RawsAt(HeadValues, a)[b] = a + off[b]
  <2> DEFINE at == RawsAt(HeadValues, a)
             g == [b \in 0 .. n |-> a + off[b]]
  <2>1. /\ at[0] = a
        /\ \A b \in 1 .. n : at[b] = at[b - 1] + HeadValues[b][2] * size
    <3>1. Len(HeadValues) \in Nat /\ \A b \in 1 .. Len(HeadValues) : HeadValues[b][2] \in Nat
      BY <1>1, <1>10
    <3> QED
      BY <1>10, <3>1, RawsAtSteps DEF size
  <2>2. \A b \in 0 .. n : g[b] = a + off[b]
    OBVIOUS
  <2> HIDE DEF at, g
  <2>3. at[0] = g[0]
    BY <1>1, <1>9, <2>1, <2>2
  <2>4. ASSUME NEW b \in 1 .. n, at[b - 1] = g[b - 1]
        PROVE  at[b] = g[b]
    <3>1. b - 1 \in 0 .. n /\ b \in 0 .. n
      BY <1>1
    <3>2. at[b] = at[b - 1] + Len(seqs[b])
      BY <1>5, <1>10, <2>1
    <3>3. off[b - 1] \in Nat /\ Len(seqs[b]) \in Nat
      BY <1>5, <1>9, <3>1
    <3>4. off[b] = off[b - 1] + Len(seqs[b])
      BY <1>9
    <3> QED
      BY <2>2, <2>4, <3>1, <3>2, <3>3, <3>4
  <2>5. at[0] = g[0] /\ \A b \in 1 .. n : at[b - 1] = g[b - 1] => at[b] = g[b]
    BY <2>3, <2>4
  <2>6. n \in Nat
    BY <1>1
  <2>7. \A b \in 0 .. n : at[b] = g[b]
    BY <2>5, <2>6, SameSteps
  <2> QED
    BY <2>2, <2>7 DEF at
<1>12. ASSUME NEW f \in Seq(Nat), NEW a \in Nat, At(f, a, FlattenSeq(seqs))
       PROVE  PointsStand(f, a)
  <2> SUFFICES ASSUME NEW b \in 1 .. n
               PROVE  AllValues(f, RawsAt(HeadValues, a)[b - 1], PointRecord, Len(blocks[b].raw))
                        = PointValues(blocks[b])
    BY DEF PointsStand, n
  <2>1. b - 1 \in 0 .. n
    BY <1>1
  <2>2. At(f, a + off[b - 1], seqs[b]) /\ a + off[b - 1] \in Nat
    BY <1>9, <1>12, <2>1
  <2>3. AllValues(f, a + off[b - 1], PointRecord, Len(blocks[b].raw)) = PointValues(blocks[b])
    BY <1>5, <2>2
  <2> QED
    BY <1>11, <2>1, <2>3
<1>13. \A a \in Nat : RawsAt(HeadValues, a)[n] = a + Len(FlattenSeq(seqs))
  <2>1. n \in 0 .. n
    BY <1>1
  <2> QED
    BY <1>9, <1>11, <2>1
<1> QED
  BY <1>3, <1>7, <1>12, <1>13 DEF n

-----------------------------------------------------------------------------
(* The parts of a file.                                                    *)

(* The bytes of a file stand at its beginning.                             *)
LEMMA AtItself ==
  ASSUME NEW f \in Seq(Nat)
  PROVE  At(f, 0, f)
<1>1. Len(f) \in Nat
  OBVIOUS
<1>2. 0 + Len(f) <= Len(f) /\ \A j \in 1 .. Len(f) : 0 + j = j
  BY <1>1
<1> QED
  BY <1>2 DEF At

(* The URL.                                                                *)
LEMMA TextIs ==
  ASSUME NEW f \in Seq(Nat), NEW a \in Nat, At(f, a, URL)
  PROVE  Text(f, a, Len(URL)) = URL
<1>1. URL \in Seq(Nat) /\ Len(URL) \in Nat /\ Len(f) \in Nat
  BY FileAssumption
<1>2. \A i \in 1 .. Len(URL) : f[a + i] = URL[i] /\ a + i <= Len(f)
  BY <1>1 DEF At
<1>3. Text(f, a, Len(URL)) = [i \in 1 .. Len(URL) |-> URL[i]]
  BY <1>2 DEF Text
<1> QED
  BY <1>1, <1>3

(* The points of a block, as they are read.                                *)
LEMMA PointsReadBack ==
  ASSUME NEW b \in AnyBlock, BlockFits(b)
  PROVE  Each(RawFrom, PointValues(b)) = [i \in 1 .. Len(b.raw) |-> Reread(b.raw[i])]
<1>1. b.raw \in Seq(Raw) /\ Len(b.raw) \in Nat
  BY DEF AnyBlock
<1>2. Len(PointValues(b)) = Len(b.raw)
  BY <1>1 DEF PointValues
<1>3. ASSUME NEW i \in 1 .. Len(b.raw)
      PROVE  RawFrom(PointValues(b)[i]) = Reread(b.raw[i])
  <2>1. b.raw[i] \in Raw /\ b.raw[i].duration < Limit /\ b.raw[i].time < Limit
    BY <1>1, ElementOfSeq DEF BlockFits
  <2>2. PointValues(b)[i] = RawValues(b.raw[i])
    BY DEF PointValues
  <2> QED
    BY <2>1, <2>2, PointRecordIs
<1> QED
  BY <1>2, <1>3 DEF Each

(* The version is the second byte.                                         *)
LEMMA VersionIs ==
  ASSUME NEW f \in Seq(Nat), NEW v \in Versions, At(f, 0, FlattenSeq(OpeningFields(v)))
  PROVE  f[2] = VersionByte[v] /\ f[2] \in DOMAIN RunsRecord
<1> DEFINE kinds == <<"Data", "byte">>
           at == Layout(kinds).at
<1>1. kinds \in Seq(Kinds) /\ Len(kinds) = 2 /\ kinds[1] = "Data" /\ kinds[2] = "byte"
  BY KindsAre
<1>2. at[0] = 0 /\ \A i \in 1 .. 2 : at[i] = at[i - 1] + Width(kinds[i])
  BY <1>1, LayoutSteps
<1>3. Opening.kinds = kinds /\ Opening.at = at
  BY <1>1, LayoutSteps DEF Opening
<1>4. Values(f, 0, Opening) = <<ID.Data, VersionByte[v]>> /\ VersionByte[v] \in 1 .. 3
  BY OpeningIs DEF IsRecord
<1>5. Width("Data") = 1
  BY DEF Width
<1> HIDE DEF at, kinds
<1>6. at[1] = 1
  <2>1. at[1] = at[1 - 1] + Width(kinds[1])
    BY <1>2
  <2>2. 1 - 1 = 0
    OBVIOUS
  <2> QED
    BY <1>1, <1>2, <1>5, <2>1, <2>2
<1>7. Values(f, 0, Opening)[2] = Value(f, 0 + at[1], "byte")
  <2>3. Values(f, 0, Opening) = [i \in 1 .. Len(kinds) |-> Value(f, 0 + at[i - 1], kinds[i])]
    BY <1>3, Zenon DEF Values
  <2>4. 2 \in 1 .. Len(kinds)
    BY <1>1
  <2>1. Values(f, 0, Opening)[2] = Value(f, 0 + at[2 - 1], kinds[2])
    BY <2>3, <2>4, Zenon
  <2>2. 2 - 1 = 1
    OBVIOUS
  <2> QED
    BY <1>1, <2>1, <2>2
<1>8. Value(f, 0 + at[1], "byte") = f[2]
  <2>1. (0 + at[1]) + 1 = 2
    BY <1>6
  <2> QED
    BY <2>1 DEF Value
<1>9. f[2] = VersionByte[v]
  BY <1>4, <1>7, <1>8
<1>10. DOMAIN RunsRecord = 1 .. 3
  BY DEF RunsRecord
<1> QED
  BY <1>4, <1>9, <1>10

(* What is read as one value of each record.                               *)
LEMMA FirstOfEach ==
  ASSUME NEW n \in Nat, NEW s \in Seq(Nat), Len(s) = n, NEW all, all = [i \in 1 .. n |-> <<s[i]>>]
  PROVE  [i \in 1 .. Len(all) |-> all[i][1]] = s
<1>1. Len(all) = n /\ \A i \in 1 .. n : all[i][1] = s[i]
  OBVIOUS
<1>2. [i \in 1 .. Len(all) |-> all[i][1]] = [i \in 1 .. n |-> s[i]]
  BY <1>1
<1> QED
  BY <1>2

(* The insertion order, as it is read.                                     *)
LEMMA OrderReadBack ==
  ASSUME IInv
  PROVE  Each(PairFrom, OrderValues) = order
<1>1. order \in Seq([block: Nat, raw: Nat]) /\ Len(order) \in Nat
  BY DEF IInv, Shape
<1>2. Len(OrderValues) = Len(order)
  BY <1>1 DEF OrderValues
<1>3. ASSUME NEW i \in 1 .. Len(order)
      PROVE  PairFrom(OrderValues[i]) = order[i]
  <2>1. order[i] \in [block: Nat, raw: Nat]
    BY <1>1, ElementOfSeq
  <2>2. OrderValues[i] = <<order[i].block, order[i].raw>>
    BY DEF OrderValues
  <2> QED
    BY <2>1, <2>2 DEF PairFrom
<1>4. Each(PairFrom, OrderValues) = [i \in 1 .. Len(order) |-> order[i]]
  BY <1>2, <1>3 DEF Each
<1> QED
  BY <1>1, <1>4

(* The streaks, as they are read of the current version.                   *)
LEMMA RunsReadBack ==
  ASSUME runs \in AllRuns
  PROVE  /\ RunFrom(SubSeq(RunsValues("current"), 2, 4)) = runs.good
         /\ RunFrom(SubSeq(RunsValues("current"), 5, 7)) = runs.dropped
<1> DEFINE s == RunsValues("current")
<1>1. runs.good \in Run /\ runs.dropped \in Run
  BY DEF AllRuns
<1>2. /\ Len(s) = 7
      /\ s[2] = runs.good.lastIndex /\ s[3] = runs.good.longest /\ s[4] = runs.good.current
      /\ s[5] = runs.dropped.lastIndex /\ s[6] = runs.dropped.longest /\ s[7] = runs.dropped.current
  BY DEF RunsValues
<1>3. s \in Seq(Nat)
  BY <1>1 DEF RunsValues, ID, Run
<1> HIDE DEF s
<1>4. /\ SubSeq(s, 2, 4)[1] = s[2] /\ SubSeq(s, 2, 4)[2] = s[3] /\ SubSeq(s, 2, 4)[3] = s[4]
      /\ SubSeq(s, 5, 7)[1] = s[5] /\ SubSeq(s, 5, 7)[2] = s[6] /\ SubSeq(s, 5, 7)[3] = s[7]
  BY <1>2, <1>3
<1>5. /\ runs.good = [lastIndex |-> runs.good.lastIndex, longest |-> runs.good.longest,
                      current |-> runs.good.current]
      /\ runs.dropped = [lastIndex |-> runs.dropped.lastIndex, longest |-> runs.dropped.longest,
                         current |-> runs.dropped.current]
  BY <1>1 DEF Run
<1> QED
  BY <1>2, <1>4, <1>5 DEF RunFrom, s

(* A file of any version is read as the record, to its last byte.          *)
LEMMA FileIsRead ==
  ASSUME IInv, runs \in AllRuns, FileFits, NEW v \in Versions
  PROVE  /\ IsTheRecord(Read(File(v)), v) /\ Read(File(v)).length = Len(File(v))
         /\ Len(File(v)) = Opening.size + Lengths.size + cur * BlockRecord.size + IntRecord.size
                             + RunsRecord[VersionByte[v]].size + HeaderRecord.size
                             + Len(order) * PairRecord.size + cur * ByteRecord.size
                             + cur * IntRecord.size + Len(FlattenSeq(Each(BlockData, blocks)))
                             + Len(URL)
<1> DEFINE f == File(v)
           a1 == FlattenSeq(OpeningFields(v))
           a2 == FlattenSeq(LengthFields)
           a3 == FlattenSeq(Each(BlockHeader, blocks))
           a4 == Num(Len(URL))
           a5 == FlattenSeq(RunsFields(v))
           a6 == FlattenSeq(HeaderFields(header))
           b1 == FlattenSeq(Each(IndexBytes, order))
           b2 == FlattenSeq(Each(IPBytes, ips))
           b3 == FlattenSeq(Each(Num, indexes))
           b4 == FlattenSeq(Each(BlockData, blocks))
           q == Phase2
           p1 == Len(a1)
           p2 == p1 + Len(a2)
           p3 == p2 + Len(a3)
           p4 == p3 + Len(a4)
           p5 == p4 + Len(a5)
           p6 == p5 + Len(a6)
           p7 == p6 + Len(b1)
           p8 == p7 + Len(b2)
           p9 == p8 + Len(b3)
           p10 == p9 + Len(b4)
           runsRecord == RunsRecord[VersionByte[v]]
<1>1. /\ ips \in Seq(Nat) /\ indexes \in Seq(Nat) /\ cur \in Nat /\ blocks \in Seq(AnyBlock)
      /\ Len(order) \in Nat /\ Len(ips) = cur /\ Len(indexes) = cur /\ Len(blocks) = cur
      /\ total = Len(order) /\ header \in Header /\ Len(URL) \in Nat /\ Len(URL) < Limit
      /\ URL \in Seq(Nat)
  <2>1. URL \in Seq(Nat) /\ Len(URL) \in Nat /\ Len(URL) < Limit
    BY FileAssumption, NumbersFit
  <2>2. ips \in Seq(Nat)
    <3>1. ips \in Seq(StoredIPs)
      BY DEF IInv, Shape
    <3>2. \A i \in 1 .. Len(ips) : ips[i] \in Nat
      BY <3>1, ElementOfSeq, StoredIPsAreNatural
    <3> QED
      BY <3>1, <3>2
  <2>3. /\ indexes \in Seq(Nat) /\ cur \in Nat /\ blocks \in Seq(AnyBlock)
        /\ Len(order) \in Nat /\ header \in Header
    BY DEF IInv, Shape
  <2>4. Len(ips) = cur /\ Len(indexes) = cur /\ Len(blocks) = cur /\ total = Len(order)
    BY DEF IInv, NetworkSound, OrderSound
  <2> QED
    BY <2>1, <2>2, <2>3, <2>4
<1>2. PICK x \in Nat : IsRecord(a2, Lengths, LengthValues(x))
  BY LengthsAre DEF FileFits
<1>3. IsRecord(a1, Opening, <<ID.Data, VersionByte[v]>>)
  BY OpeningIs
<1>4. AreRecords(Each(BlockHeader, blocks), BlockRecord, HeadValues) /\ Len(Each(BlockHeader, blocks)) = cur
  BY <1>1, HeadsAre DEF Each
<1>5. IsRecord(a4, IntRecord, <<Len(URL)>>)
  BY <1>1, IntIs
<1>6. IsRecord(a5, runsRecord, RunsValues(v))
  BY RunsRecordIs DEF FileFits
<1>7. IsRecord(a6, HeaderRecord, HeaderValues(header))
  BY <1>1, HeaderRecordIs DEF FileFits
<1>8. /\ AreRecords(Each(IndexBytes, order), PairRecord, OrderValues)
      /\ Len(Each(IndexBytes, order)) = Len(order)
  BY <1>1, OrderAre DEF Each
<1>9. AreRecords(Each(IPBytes, ips), ByteRecord, IPValues) /\ Len(Each(IPBytes, ips)) = cur
  BY <1>1, IPsAre DEF Each
<1>10. AreRecords(Each(Num, indexes), IntRecord, IndexValues) /\ Len(Each(Num, indexes)) = cur
  BY <1>1, IndexesAre DEF Each
<1>11. /\ b4 \in Seq(Nat)
       /\ \A a \in Nat : RawsAt(HeadValues, a)[cur] = a + Len(b4)
       /\ \A g \in Seq(Nat), a \in Nat : At(g, a, b4) => PointsStand(g, a)
  BY <1>1, BlocksDataAt
<1>12. /\ a3 \in Seq(Nat) /\ Len(a3) = cur * BlockRecord.size
       /\ \A g \in Seq(Nat), a \in Nat : At(g, a, a3) =>
            AllHold(g, a, BlockRecord, cur) /\ AllValues(g, a, BlockRecord, cur) = HeadValues
  BY <1>4, RecordsOf
<1>13. /\ b1 \in Seq(Nat) /\ Len(b1) = Len(order) * PairRecord.size
       /\ \A g \in Seq(Nat), a \in Nat : At(g, a, b1) =>
            AllValues(g, a, PairRecord, Len(order)) = OrderValues
  BY <1>8, RecordsOf
<1>14. /\ b2 \in Seq(Nat) /\ Len(b2) = cur * ByteRecord.size
       /\ \A g \in Seq(Nat), a \in Nat : At(g, a, b2) => AllValues(g, a, ByteRecord, cur) = IPValues
  BY <1>9, RecordsOf
<1>15. /\ b3 \in Seq(Nat) /\ Len(b3) = cur * IntRecord.size
       /\ \A g \in Seq(Nat), a \in Nat : At(g, a, b3) => AllValues(g, a, IntRecord, cur) = IndexValues
  BY <1>10, RecordsOf
<1>16. /\ a1 \in Seq(Nat) /\ a2 \in Seq(Nat) /\ a4 \in Seq(Nat) /\ a5 \in Seq(Nat) /\ a6 \in Seq(Nat)
       /\ Len(a1) = Opening.size /\ Len(a2) = Lengths.size /\ Len(a4) = IntRecord.size
       /\ Len(a5) = runsRecord.size /\ Len(a6) = HeaderRecord.size
  BY <1>2, <1>3, <1>5, <1>6, <1>7 DEF IsRecord
<1>17. f = (a1 \o a2 \o a3 \o a4 \o a5 \o a6) \o q /\ q = b1 \o (b2 \o b3) \o b4 \o URL
  BY DEF File, Phase1, Phase2, NetworkData
<1>18. q \in Seq(Nat) /\ f \in Seq(Nat)
  <2> HIDE DEF a1, a2, a3, a4, a5, a6, b1, b2, b3, b4, q, f
  <2>1. q \in Seq(Nat)
    BY <1>1, <1>11, <1>13, <1>14, <1>15, <1>17
  <2>2. a1 \o a2 \o a3 \o a4 \o a5 \o a6 \in Seq(Nat)
    BY <1>12, <1>16
  <2> QED
    BY <1>17, <2>1, <2>2
<1>p. /\ p1 = Len(a1) /\ p2 = p1 + Len(a2) /\ p3 = p2 + Len(a3) /\ p4 = p3 + Len(a4)
      /\ p5 = p4 + Len(a5) /\ p6 = p5 + Len(a6) /\ p7 = p6 + Len(b1) /\ p8 = p7 + Len(b2)
      /\ p9 = p8 + Len(b3) /\ p10 = p9 + Len(b4)
  OBVIOUS
<1>a. f = File(v) /\ a1 = FlattenSeq(OpeningFields(v)) /\ a4 = Num(Len(URL))
  OBVIOUS
<1> HIDE DEF a1, a2, a3, a4, a5, a6, b1, b2, b3, b4, q, f
<1> HIDE DEF p1, p2, p3, p4, p5, p6, p7, p8, p9, p10
<1>t. /\ a1 \in Seq(Nat) /\ a2 \in Seq(Nat) /\ a3 \in Seq(Nat)
      /\ a4 \in Seq(Nat) /\ a5 \in Seq(Nat) /\ a6 \in Seq(Nat)
      /\ b1 \in Seq(Nat) /\ b2 \in Seq(Nat) /\ b3 \in Seq(Nat) /\ b4 \in Seq(Nat)
  BY <1>11, <1>12, <1>13, <1>14, <1>15, <1>16
<1>19. /\ At(f, 0, a1) /\ At(f, p1, a2) /\ At(f, p2, a3)
       /\ At(f, p3, a4) /\ At(f, p4, a5) /\ At(f, p5, a6) /\ At(f, p6, q)
       /\ p1 \in Nat /\ p2 \in Nat /\ p3 \in Nat /\ p4 \in Nat /\ p5 \in Nat /\ p6 \in Nat
       /\ Len(f) = p6 + Len(q)
  <2> DEFINE s2 == a1 \o a2
             s3 == s2 \o a3
             s4 == s3 \o a4
             s5 == s4 \o a5
             s6 == s5 \o a6
  <2>1. p1 \in Nat /\ p1 = Len(a1)
    BY <1>p, <1>t
  <2>2. s2 \in Seq(Nat) /\ Len(s2) = p2
    BY <1>p, <1>t, ConcatElements
  <2>3. f = s6 \o q /\ q \in Seq(Nat) /\ f \in Seq(Nat)
    BY <1>17, <1>18
  <2>s. s3 = s2 \o a3 /\ s4 = s3 \o a4 /\ s5 = s4 \o a5 /\ s6 = s5 \o a6 /\ s2 = a1 \o a2
    OBVIOUS
  <2> HIDE DEF s2, s3, s4, s5, s6
  <2>4. s3 \in Seq(Nat) /\ Len(s3) = p3
    BY <1>t, <2>2, <2>s, <1>p, ConcatElements
  <2>5. s4 \in Seq(Nat) /\ Len(s4) = p4
    BY <1>t, <2>4, <2>s, <1>p, ConcatElements
  <2>6. s5 \in Seq(Nat) /\ Len(s5) = p5
    BY <1>t, <2>5, <2>s, <1>p, ConcatElements
  <2>7. s6 \in Seq(Nat) /\ Len(s6) = p6
    BY <1>t, <2>6, <2>s, <1>p, ConcatElements
  <2>8. Len(f) = p6 + Len(q)
    BY <1>t, <2>3, <2>7, ConcatElements
  <2>9. p2 \in Nat /\ p3 \in Nat /\ p4 \in Nat /\ p5 \in Nat /\ p6 \in Nat
    BY <1>t, <2>2, <2>4, <2>5, <2>6, <2>7
  <2>10. 0 + p1 = p1 /\ 0 + p2 = p2 /\ 0 + p3 = p3 /\ 0 + p4 = p4 /\ 0 + p5 = p5 /\ 0 + p6 = p6 /\ 0 \in Nat
    BY <1>t, <2>1, <2>9
  <2>11. At(f, 0, s6 \o q)
    BY <1>t, <2>3, AtItself
  <2>12. At(f, 0, s6) /\ At(f, 0 + Len(s6), q)
    BY <1>t, <2>3, <2>7, <2>10, <2>11, AtSplit
  <2>13. At(f, 0, s5) /\ At(f, 0 + Len(s5), a6)
    BY <1>t, <2>6, <2>10, <2>12, <2>3, <2>s, AtSplit
  <2>14. At(f, 0, s4) /\ At(f, 0 + Len(s4), a5)
    BY <1>t, <2>5, <2>10, <2>13, <2>3, <2>s, AtSplit
  <2>15. At(f, 0, s3) /\ At(f, 0 + Len(s3), a4)
    BY <1>t, <2>4, <2>10, <2>14, <2>3, <2>s, AtSplit
  <2>16. At(f, 0, s2) /\ At(f, 0 + Len(s2), a3)
    BY <1>t, <2>2, <2>10, <2>15, <2>3, <2>s, AtSplit
  <2>17. At(f, 0, a1) /\ At(f, 0 + Len(a1), a2)
    BY <1>t, <2>10, <2>16, <2>3, <2>s, AtSplit
  <2> QED
    BY <1>t, <2>1, <2>2, <2>4, <2>5, <2>6, <2>7, <2>8, <2>9, <2>10, <2>12, <2>13, <2>14, <2>15, <2>16, <2>17
<1>20. /\ At(f, p6, b1) /\ At(f, p7, b2) /\ At(f, p8, b3) /\ At(f, p9, b4) /\ At(f, p10, URL)
       /\ p7 \in Nat /\ p8 \in Nat /\ p9 \in Nat /\ p10 \in Nat
       /\ p6 + Len(q) = p10 + Len(URL)
  <2> DEFINE n == b2 \o b3
             s2 == b1 \o n
             s3 == s2 \o b4
  <2>1. /\ n \in Seq(Nat) /\ Len(n) = Len(b2) + Len(b3)
        /\ Len(b1) \in Nat /\ Len(b2) \in Nat /\ Len(b3) \in Nat /\ Len(b4) \in Nat /\ Len(URL) \in Nat
    BY <1>1, <1>t, ConcatElements
  <2>s. n = b2 \o b3 /\ s2 = b1 \o n /\ s3 = s2 \o b4 /\ q = s3 \o URL
        /\ f \in Seq(Nat) /\ URL \in Seq(Nat) /\ p6 \in Nat /\ At(f, p6, q)
    BY <1>1, <1>17, <1>18, <1>19
  <2> HIDE DEF n, s2, s3
  <2>2. s2 \in Seq(Nat) /\ Len(s2) = Len(b1) + Len(n)
    BY <1>t, <2>1, <2>s, ConcatElements
  <2>3. s3 \in Seq(Nat) /\ Len(s3) = Len(s2) + Len(b4)
    BY <1>t, <2>2, <2>s, ConcatElements
  <2>4. Len(q) = Len(s3) + Len(URL)
    BY <1>t, <2>3, <2>s, ConcatElements
  <2>p. p7 = p6 + Len(b1) /\ p8 = p7 + Len(b2) /\ p9 = p8 + Len(b3) /\ p10 = p9 + Len(b4) /\ p6 \in Nat
    BY <1>p, <1>19
  <2>5. p7 \in Nat /\ p8 \in Nat /\ p9 \in Nat /\ p10 \in Nat
    BY <2>1, <2>p
  <2>6. p6 + Len(s2) = p9 /\ p6 + Len(s3) = p10 /\ p6 + Len(q) = p10 + Len(URL)
    BY <2>p, <2>s, <2>1, <2>2, <2>3, <2>4
  <2>7. At(f, p6, s3) /\ At(f, p6 + Len(s3), URL)
    BY <1>t, <2>3, <2>s, AtSplit
  <2>8. At(f, p6, s2) /\ At(f, p6 + Len(s2), b4)
    BY <1>t, <2>2, <2>7, <2>s, AtSplit
  <2>9. At(f, p6, b1) /\ At(f, p6 + Len(b1), n)
    BY <1>t, <2>1, <2>8, <2>s, AtSplit
  <2>10. At(f, p7, b2) /\ At(f, p7 + Len(b2), b3)
    BY <1>t, <2>5, <2>9, <2>p, <2>s, AtSplit
  <2> QED
    BY <1>p, <2>5, <2>6, <2>7, <2>8, <2>9, <2>10, <2>s, <2>1, <2>2
<1> DEFINE n == LengthsFrom(Values(f, Opening.size, Lengths))
           at == Places(n, f[2])
           heads == AllValues(f, at.blocks, BlockRecord, n.blocks)
           rawsAt == RawsAt(heads, at.raws)
           textAt == rawsAt[n.blocks]
           urlLen == Digits(f, at.url)
           Block(b) == [header |-> HeaderFrom(Tail(Tail(heads[b]))),
                        raw |-> Each(RawFrom, AllValues(f, rawsAt[b - 1], PointRecord, heads[b][2]))]
           addresses == AllValues(f, at.ips, ByteRecord, n.ips)
           numbers == AllValues(f, at.indexes, IntRecord, n.indexes)
           allBlocks == [b \in 1 .. n.blocks |-> Block(b)]
           readable == /\ Holds(f, 0, Opening) /\ f[2] \in DOMAIN RunsRecord
                       /\ Holds(f, Opening.size, Lengths) /\ FixedHolds(f, n, at) /\ textAt <= Len(f)
           d == [ok |-> TRUE, length |-> textAt + urlLen, url |-> Text(f, textAt, urlLen),
                 total   |-> n.total, cur |-> n.cur,
                 ips     |-> [i \in 1 .. Len(addresses) |-> addresses[i][1]],
                 indexes |-> [i \in 1 .. Len(numbers) |-> numbers[i][1]],
                 order   |-> Each(PairFrom, AllValues(f, at.order, PairRecord, n.order)),
                 blocks  |-> allBlocks,
                 header  |-> HeaderFrom(Values(f, at.header, HeaderRecord)),
                 streaks |-> Values(f, at.runs, RunsRecord[f[2]])]
<1>21. Read(f) = IF readable THEN d ELSE [ok |-> FALSE]
  BY DEF Read, Each
<1>22. f[2] = VersionByte[v] /\ f[2] \in DOMAIN RunsRecord
  BY <1>a, <1>18, <1>19, VersionIs
<1>23. Values(f, p1, Lengths) = LengthValues(x) /\ Holds(f, p1, Lengths) /\ p1 = Opening.size
  BY <1>2, <1>p, <1>16, <1>18, <1>19 DEF IsRecord
<1>24. /\ n.order = Len(order) /\ n.total = total /\ n.cur = cur /\ n.ips = cur
       /\ n.indexes = cur /\ n.blocks = cur
  BY <1>1, <1>23 DEF LengthsFrom, LengthValues
<1> HIDE DEF n
<1>25. /\ at.blocks = p2 /\ at.url = p3 /\ at.runs = p4 /\ at.header = p5
       /\ at.order = p6 /\ at.ips = p7 /\ at.indexes = p8 /\ at.raws = p9
  BY <1>p, <1>12, <1>13, <1>14, <1>15, <1>16, <1>22, <1>23, <1>24 DEF Places
<1> HIDE DEF at
<1>26. AllHold(f, at.blocks, BlockRecord, n.blocks) /\ heads = HeadValues
  BY <1>12, <1>18, <1>19, <1>24, <1>25
<1>27. Holds(f, at.url, IntRecord) /\ urlLen = Len(URL)
  <2>1. Holds(f, p3, IntRecord)
    BY <1>5, <1>18, <1>19 DEF IsRecord
  <2>2. Digits(f, p3) = Len(URL)
    BY <1>1, <1>18, <1>19, <1>a, DigitsOfNum
  <2> QED
    BY <1>25, <2>1, <2>2
<1>28. Holds(f, at.runs, RunsRecord[f[2]]) /\ Values(f, at.runs, RunsRecord[f[2]]) = RunsValues(v)
  BY <1>6, <1>18, <1>19, <1>22, <1>25 DEF IsRecord
<1>29. Holds(f, at.header, HeaderRecord) /\ Values(f, at.header, HeaderRecord) = HeaderValues(header)
  BY <1>7, <1>18, <1>19, <1>25 DEF IsRecord
<1>30. Holds(f, 0, Opening)
  BY <1>3, <1>18, <1>19 DEF IsRecord
<1> HIDE DEF heads
<1>31. rawsAt = RawsAt(HeadValues, p9) /\ textAt = p10 /\ PointsStand(f, p9)
  <2>1. rawsAt = RawsAt(HeadValues, p9)
    BY <1>25, <1>26
  <2>2. RawsAt(HeadValues, p9)[cur] = p9 + Len(b4)
    BY <1>11, <1>20
  <2>3. PointsStand(f, p9)
    BY <1>11, <1>18, <1>20
  <2> QED
    BY <1>p, <1>24, <2>1, <2>2, <2>3
<1> HIDE DEF rawsAt, textAt, urlLen
<1>32. textAt <= Len(f) /\ textAt + urlLen = Len(f)
  BY <1>1, <1>19, <1>20, <1>27, <1>31
<1>33. readable
  BY <1>22, <1>23, <1>26, <1>27, <1>28, <1>29, <1>30, <1>32 DEF FixedHolds
<1>34. Read(f) = d
  <2> HIDE DEF readable, d
  <2> QED
    BY <1>21, <1>33
<1>35. d.url = URL /\ d.length = Len(f) /\ d.ok /\ d.cur = cur /\ d.total = total
  BY <1>18, <1>20, <1>24, <1>27, <1>31, <1>32, TextIs
<1>36. d.ips = ips
  <2>1. addresses = [i \in 1 .. cur |-> <<ips[i]>>]
    BY <1>1, <1>14, <1>18, <1>20, <1>24, <1>25 DEF IPValues
  <2> HIDE DEF addresses
  <2>2. [i \in 1 .. Len(addresses) |-> addresses[i][1]] = ips
    BY <1>1, <2>1, FirstOfEach
  <2> QED
    BY <2>2
<1>37. d.indexes = indexes
  <2>1. numbers = [i \in 1 .. cur |-> <<indexes[i]>>]
    BY <1>1, <1>15, <1>18, <1>20, <1>24, <1>25 DEF IndexValues
  <2> HIDE DEF numbers
  <2>2. [i \in 1 .. Len(numbers) |-> numbers[i][1]] = indexes
    BY <1>1, <2>1, FirstOfEach
  <2> QED
    BY <2>2
<1>38. d.order = order
  <2>1. AllValues(f, at.order, PairRecord, n.order) = OrderValues
    BY <1>13, <1>18, <1>19, <1>20, <1>24, <1>25
  <2> QED
    BY <2>1, OrderReadBack
<1>39. d.header = HeaderOnDisk(header)
  BY <1>1, <1>29, HeaderFromValues DEF FileFits
<1>40. d.blocks = BlocksOnDisk
  <2>1. ASSUME NEW b \in 1 .. cur
        PROVE  Block(b) = [header |-> HeaderOnDisk(blocks[b].header),
                           raw |-> [i \in 1 .. Len(blocks[b].raw) |-> Reread(blocks[b].raw[i])]]
    <3>1. blocks[b] \in AnyBlock /\ BlockFits(blocks[b]) /\ b \in 1 .. Len(blocks)
      BY <1>1, ElementOfSeq DEF FileFits
    <3>2. heads[b] = BlockValues(blocks[b])
      BY <1>26, <3>1 DEF HeadValues
    <3>3. HeaderFrom(Tail(Tail(heads[b]))) = HeaderOnDisk(blocks[b].header)
      <4>1. blocks[b].header \in Header /\ HeaderFits(blocks[b].header)
        BY <3>1 DEF AnyBlock, BlockFits
      <4> QED
        BY <3>1, <3>2, <4>1, BlockValuesAre, HeaderFromValues
    <3>4. AllValues(f, rawsAt[b - 1], PointRecord, heads[b][2]) = PointValues(blocks[b])
      BY <1>31, <3>1, <3>2, BlockValuesAre DEF PointsStand
    <3>5. Each(RawFrom, PointValues(blocks[b])) = [i \in 1 .. Len(blocks[b].raw) |-> Reread(blocks[b].raw[i])]
      BY <3>1, PointsReadBack
    <3> QED
      BY <3>3, <3>4, <3>5
  <2> HIDE DEF Block
  <2>2. allBlocks = BlocksOnDisk
    BY <1>1, <1>24, <2>1 DEF BlocksOnDisk
  <2> QED
    BY <2>2
<1>41. v = "current" => /\ RunFrom(SubSeq(d.streaks, 2, 4)) = runs.good
                        /\ RunFrom(SubSeq(d.streaks, 5, 7)) = runs.dropped
  BY <1>28, RunsReadBack
<1>42. Len(f) = Opening.size + Lengths.size + cur * BlockRecord.size + IntRecord.size
                  + runsRecord.size + HeaderRecord.size
                  + Len(order) * PairRecord.size + cur * ByteRecord.size
                  + cur * IntRecord.size + Len(b4) + Len(URL)
  BY <1>p, <1>12, <1>13, <1>14, <1>15, <1>16, <1>19, <1>20
<1> HIDE DEF d
<1> QED
  BY <1>34, <1>35, <1>36, <1>37, <1>38, <1>39, <1>40, <1>41, <1>42, <1>a DEF IsTheRecord, b4

(* Data.byteLen: what the blocks have of it.                               *)
LEMMA BlocksLenIs ==
  ASSUME IInv, FileFits
  PROVE  LET blocksLen[b \in 0 .. Len(blocks)] ==
               IF b = 0 THEN IntLen ELSE blocksLen[b - 1] + BlockLen(blocks[b])
         IN  blocksLen[Len(blocks)]
               = IntLen + Len(blocks) * BlockHeaderLen + Len(FlattenSeq(Each(BlockData, blocks)))
<1> DEFINE n == Len(blocks)
           head == BlockHeaderLen
           points == [b \in 1 .. n |-> Len(blocks[b].raw) * PointLen]
           at == RawsAt(HeadValues, 0)
           g == [b \in 0 .. n |-> IntLen + b * head + at[b]]
           Solves(h) == h = [b \in 0 .. n |-> IF b = 0 THEN IntLen
                                              ELSE h[b - 1] + BlockLen(blocks[b])]
           blocksLen == CHOOSE h : Solves(h)
<1>1. /\ n \in Nat /\ IntLen \in Nat /\ HeaderLen \in Nat /\ head \in Nat /\ PointLen \in Nat
      /\ head = 1 + HeaderLen + IntLen
  BY FileAssumption DEF IInv, Shape, BlockHeaderLen, HeaderLen, TimeSpanLen, StatsLen, PointLen
<1>2. \A b \in 1 .. n : Len(blocks[b].raw) \in Nat /\ blocks[b] \in AnyBlock /\ BlockFits(blocks[b])
  <2>1. \A b \in 1 .. n : blocks[b] \in AnyBlock
    BY ElementOfSeq DEF IInv, Shape
  <2> QED
    BY <2>1 DEF AnyBlock, FileFits
<1>3. /\ Len(HeadValues) = n /\ \A b \in 1 .. n : HeadValues[b][2] = Len(blocks[b].raw)
  <2>1. \A b \in 1 .. n : HeadValues[b] = BlockValues(blocks[b])
    BY DEF HeadValues
  <2>2. Len(HeadValues) = n
    BY <1>1 DEF HeadValues
  <2>3. \A b \in 1 .. n : BlockValues(blocks[b])[2] = Len(blocks[b].raw)
    BY <1>2, BlockValuesAre
  <2> QED
    BY <2>1, <2>2, <2>3
<1>4. \A b \in 1 .. n : /\ points[b] = Len(blocks[b].raw) * PointLen /\ points[b] \in Nat
                        /\ BlockLen(blocks[b]) = head + points[b]
  <2> TAKE b \in 1 .. n
  <2>1. points[b] = Len(blocks[b].raw) * PointLen
    OBVIOUS
  <2>2. Len(blocks[b].raw) \in Nat
    BY <1>2
  <2>3. points[b] \in Nat
    BY <1>1, <2>1, <2>2, NextMultiple
  <2>4. BlockLen(blocks[b]) = 1 + HeaderLen + (IntLen + points[b])
    BY <2>1 DEF BlockLen, SliceLen
  <2> HIDE DEF head, points
  <2>5. BlockLen(blocks[b]) = head + points[b]
    BY <1>1, <2>3, <2>4
  <2> QED
    BY <2>1, <2>3, <2>5
<1>5. /\ \A b \in 0 .. n : at[b] \in Nat
      /\ at[0] = 0 /\ \A b \in 1 .. n : at[b] = at[b - 1] + points[b]
  <2>1. /\ \A b \in 0 .. n : at[b] \in Nat
        /\ at[0] = 0 /\ \A b \in 1 .. n : at[b] = at[b - 1] + HeadValues[b][2] * PointRecord.size
    <3>1. Len(HeadValues) \in Nat /\ \A b \in 1 .. Len(HeadValues) : HeadValues[b][2] \in Nat
      BY <1>1, <1>2, <1>3
    <3> QED
      BY <1>3, <3>1, RawsAtSteps
  <2> QED
    BY <1>3, <1>4, <2>1, PointSize
<1>6. at[n] = Len(FlattenSeq(Each(BlockData, blocks)))
  <2>1. at[n] = 0 + Len(FlattenSeq(Each(BlockData, blocks)))
    BY BlocksDataAt
  <2>2. n \in 0 .. n
    BY <1>1
  <2>3. Len(FlattenSeq(Each(BlockData, blocks))) \in Nat
    BY BlocksDataAt
  <2> QED
    BY <2>1, <2>3
<1> HIDE DEF n, head, points, at
<1>7. \A b \in 0 .. n : g[b] = IntLen + b * head + at[b]
  OBVIOUS
<1>8. \A b \in 1 .. n : b - 1 \in 0 .. n /\ b \in 0 .. n /\ b # 0
  BY <1>1
<1>9. ASSUME NEW b \in 1 .. n
      PROVE  g[b] = g[b - 1] + BlockLen(blocks[b])
  <2>1. b - 1 \in Nat /\ (b - 1) + 1 = b
    BY <1>1
  <2>2. (b - 1) * head \in Nat /\ b * head = (b - 1) * head + head
    BY <1>1, <2>1, NextMultiple
  <2>3. at[b - 1] \in Nat /\ at[b] = at[b - 1] + points[b] /\ points[b] \in Nat
    BY <1>4, <1>5, <1>8
  <2>4. g[b] = IntLen + b * head + at[b] /\ g[b - 1] = IntLen + (b - 1) * head + at[b - 1]
    BY <1>7, <1>8
  <2> DEFINE x == (b - 1) * head
             y == b * head
  <2>5. x \in Nat /\ y = x + head /\ g[b] = IntLen + y + at[b] /\ g[b - 1] = IntLen + x + at[b - 1]
    BY <2>2, <2>4
  <2> HIDE DEF g, x, y
  <2> QED
    BY <1>1, <1>4, <2>3, <2>5
<1>10. g[0] = IntLen
  <2>1. 0 * head = 0
    BY <1>1, NextMultiple
  <2>2. 0 \in 0 .. n
    BY <1>1
  <2> QED
    BY <1>1, <1>5, <1>7, <2>1, <2>2
<1>11. Solves(g)
  <2>1. \A b \in 0 .. n : b = 0 \/ b \in 1 .. n
    BY <1>1
  <2>2. g = [b \in 0 .. n |-> g[b]]
    OBVIOUS
  <2> HIDE DEF g
  <2> QED
    BY <1>8, <1>9, <1>10, <2>1, <2>2
<1>12. Solves(blocksLen)
  <2> HIDE DEF Solves
  <2> QED
    BY <1>11
<1> HIDE DEF blocksLen
<1>13. /\ blocksLen[0] = IntLen
       /\ \A b \in 1 .. n : blocksLen[b] = blocksLen[b - 1] + BlockLen(blocks[b])
  BY <1>1, <1>8, <1>12
<1> HIDE DEF g
<1>14. blocksLen[n] = g[n]
  <2>1. n \in Nat /\ n \in 0 .. n
    BY <1>1
  <2>2. blocksLen[0] = g[0] /\ \A b \in 1 .. n : blocksLen[b - 1] = g[b - 1] => blocksLen[b] = g[b]
    BY <1>9, <1>10, <1>13
  <2>3. \A b \in 0 .. n : blocksLen[b] = g[b]
    BY <2>1, <2>2, SameSteps
  <2> QED
    BY <2>1, <2>3
<1>15. blocksLen[n] = IntLen + n * head + at[n]
  <2>1. n \in 0 .. n
    BY <1>1
  <2> QED
    BY <1>7, <1>14, <2>1
<1> QED
  BY <1>6, <1>15 DEF n, head, blocksLen

(* The buffer of the current version is filled exactly.                    *)
LEMMA BufferIsFilled ==
  ASSUME IInv, runs \in AllRuns, FileFits
  PROVE  Len(File("current")) = ByteLen
<1> DEFINE b4 == Len(FlattenSeq(Each(BlockData, blocks)))
           heads == cur * BlockHeaderLen
           places == cur * IntLen
           pairs == Len(order) * (2 * IntLen)
<1>1. /\ "current" \in Versions /\ VersionByte["current"] = 3
  BY DEF Versions, VersionByte
<1>2. /\ cur \in Nat /\ Len(order) \in Nat /\ Len(URL) \in Nat
      /\ Len(ips) = cur /\ Len(indexes) = cur /\ Len(blocks) = cur
  BY FileAssumption DEF IInv, Shape, NetworkSound
<1>3. b4 \in Nat
  BY BlocksDataAt
<1>4. /\ IntLen \in Nat /\ RunsLen \in Nat /\ HeaderLen \in Nat /\ BlockHeaderLen \in Nat
  BY FileAssumption DEF RunsLen, HeaderLen, BlockHeaderLen, TimeSpanLen, StatsLen
<1>5. heads \in Nat /\ places \in Nat /\ pairs \in Nat
  <2>1. 2 * IntLen \in Nat
    BY <1>4
  <2> QED
    BY <1>2, <1>4, <2>1, NextMultiple
<1>6. Len(File("current")) = Opening.size + Lengths.size + cur * BlockRecord.size + IntRecord.size
                               + RunsRecord[VersionByte["current"]].size + HeaderRecord.size
                               + Len(order) * PairRecord.size + cur * ByteRecord.size
                               + cur * IntRecord.size + b4 + Len(URL)
  BY <1>1, FileIsRead
<1>7. Len(File("current")) = 2 + (1 + 7 * IntLen) + heads + IntLen + RunsLen + HeaderLen
                               + pairs + cur * 1 + places + b4 + Len(URL)
  BY <1>1, <1>6, OpeningSize, LengthsSize, BlockSize, IntSize, RunsSize, HeaderSize, PairSize, ByteSize
<1>8. ByteLen = 1 + 1 + IntLen + RunsLen + HeaderLen
                  + ((IntLen + cur * 1) + (IntLen + places) + IntLen + 1) + IntLen
                  + (IntLen + heads + b4) + (IntLen + pairs) + (IntLen + Len(URL) * 1)
  BY <1>2, BlocksLenIs DEF ByteLen, NetworkLen, SliceLen
<1> HIDE DEF b4, heads, places, pairs
<1> QED
  BY <1>2, <1>3, <1>4, <1>5, <1>7, <1>8

-----------------------------------------------------------------------------
(* The numbers of a record: the inductive invariant NumbersInv.            *)

(* A sum is at most so many times one of the durations.                    *)
SumSmall(s) ==
  IF s.good = 0 THEN s.sum = 0 ELSE \E d \in Durations : s.sum <= s.good * d

(* Numbers that do not grow with the number of points are small, and a sum *)
(* grows with it.                                                          *)
HeaderSmall(h) ==
  /\ h.stats.min < Limit /\ h.stats.max < Limit /\ SumSmall(h.stats)
  /\ h.span.begin < Limit /\ h.span.end < Limit /\ h.span.duration < Limit

RawsSmall(s) == \A i \in 1 .. Len(s) : s[i].duration < Limit /\ s[i].time < Limit

BlockSmall(b, n) == HeaderSmall(b.header) /\ Len(b.raw) <= n /\ RawsSmall(b.raw)

NumbersInv ==
  /\ Len(blocks) <= total /\ HeaderSmall(header)
  /\ \A b \in 1 .. Len(blocks) : BlockSmall(blocks[b], total)

(* A new header's numbers are.                                             *)
LEMMA NoHeaderSmall == HeaderSmall(NoHeader)
BY LimitIs DEF HeaderSmall, SumSmall, NoHeader, NoStats, SpanFrom

(* A multiple of more, of something larger, is larger.                     *)
LEMMA LargerMultiple ==
  ASSUME NEW n \in Nat, NEW d \in Nat, NEW x \in Nat, NEW sum \in Nat, NEW e \in Nat,
         sum <= n * d, e <= x, d <= x
  PROVE  sum + e <= (n + 1) * x
<1>1. n * d <= n * x
  OBVIOUS
<1> DEFINE nd == n * d
           nx == n * x
<1>2. nd \in Nat /\ nx \in Nat /\ (n + 1) * x = nx + x
  OBVIOUS
<1>3. nd <= nx /\ sum <= nd
  BY <1>1
<1> HIDE DEF nd, nx
<1> QED
  BY <1>2, <1>3

(* Stats.AddPoint: the sum has one duration more.                          *)
LEMMA StatsAddSmall ==
  ASSUME NEW s \in Stats, SumSmall(s), NEW p \in NewPoints
  PROVE  SumSmall(StatsAdd(s, p))
<1>1. s.good \in Nat /\ s.sum \in Nat
  BY DEF Stats
<1>2. CASE p.dropped
  <2>1. StatsAdd(s, p).good = s.good /\ StatsAdd(s, p).sum = s.sum
    BY <1>2 DEF StatsAdd, Stats
  <2> QED
    BY <2>1 DEF SumSmall
<1>3. CASE ~p.dropped
  <2>1. StatsAdd(s, p).good = s.good + 1 /\ StatsAdd(s, p).sum = s.sum + p.duration
    BY <1>3 DEF StatsAdd, Stats
  <2>2. p.duration \in Durations /\ p.duration \in Nat
    BY <1>3, StoreAssumption DEF NewPoints
  <2>3. \E x \in Durations : s.sum + p.duration <= (s.good + 1) * x
    <3>1. CASE s.good = 0
      <4>1. s.sum = 0
        BY <3>1 DEF SumSmall
      <4>2. s.sum + p.duration <= (s.good + 1) * p.duration
        BY <2>2, <3>1, <4>1
      <4> QED
        BY <2>2, <4>2
    <3>2. CASE s.good # 0
      <4>1. PICK d \in Durations : s.sum <= s.good * d
        BY <3>2 DEF SumSmall
      <4>2. d \in Nat
        BY <4>1, StoreAssumption
      <4>3. PICK x \in Durations : p.duration <= x /\ d <= x
        <5>1. p.duration <= d \/ d <= p.duration
          BY <2>2, <4>2
        <5>2. d <= d /\ p.duration <= p.duration
          BY <2>2, <4>2
        <5> QED
          BY <2>2, <4>1, <5>1, <5>2
      <4>4. x \in Nat
        BY <4>3, StoreAssumption
      <4>5. s.sum + p.duration <= (s.good + 1) * x
        BY <1>1, <2>2, <4>1, <4>2, <4>3, <4>4, LargerMultiple
      <4> QED
        BY <4>3, <4>5
    <3> QED
      BY <3>1, <3>2
  <2>4. s.good + 1 # 0
    BY <1>1
  <2> QED
    BY <2>1, <2>3, <2>4 DEF SumSmall
<1> QED
  BY <1>2, <1>3

(* Header.AddPoint: the numbers of a point are small.                      *)
LEMMA HeaderAddSmall ==
  ASSUME NEW h \in Header, HeaderSmall(h), NEW p \in NewPoints
  PROVE  HeaderSmall(HeaderAdd(h, p))
<1> DEFINE s == StatsAdd(h.stats, p)
           span == HeaderAdd(h, p).span
<1>1. /\ h.stats \in Stats /\ h.span \in [begin: Nat, end: Nat, duration: Nat]
      /\ HeaderAdd(h, p).stats = s
  BY DEF Header, HeaderAdd
<1>2. /\ p.time \in Nat /\ p.time < Limit /\ Limit \in Nat /\ 0 < Limit
      /\ ~p.dropped => p.duration \in Nat /\ p.duration < Limit
  BY StoreAssumption, NumbersFit, LimitIs DEF NewPoints
<1>3. SumSmall(s)
  BY <1>1, StatsAddSmall DEF HeaderSmall
<1>4. s.min < Limit /\ s.max < Limit
  <2>1. /\ h.stats.min \in Nat /\ h.stats.max \in Nat
        /\ h.stats.min < Limit /\ h.stats.max < Limit
    BY <1>1 DEF Stats, HeaderSmall
  <2>2. CASE p.dropped
    BY <1>1, <2>1, <2>2 DEF StatsAdd, Stats
  <2>3. CASE ~p.dropped
    <3>1. /\ s.min = p.duration \/ s.min = h.stats.min
          /\ s.max = p.duration \/ s.max = h.stats.max
      BY <1>1, <2>3 DEF StatsAdd, Stats, MinOf, MaxOf
    <3> QED
      BY <1>2, <2>1, <2>3, <3>1
  <2> QED
    BY <2>2, <2>3
<1>5. span.begin < Limit /\ span.end < Limit /\ span.duration < Limit
  <2>1. CASE h.stats.good = 0
    <3>1. span = [begin |-> p.time, end |-> p.time, duration |-> 0]
      BY <2>1 DEF HeaderAdd, SpanFrom
    <3> QED
      BY <1>2, <3>1
  <2>2. CASE h.stats.good # 0
    <3>1. span = SpanAdd(h.span, p.time)
      BY <2>2 DEF HeaderAdd
    <3> DEFINE b == MinOf(h.span.begin, p.time)
               e == MaxOf(h.span.end, p.time)
    <3>2. span.begin = b /\ span.end = e /\ span.duration = e - b
      BY <3>1 DEF SpanAdd
    <3>3. /\ h.span.begin \in Nat /\ h.span.end \in Nat
          /\ h.span.begin < Limit /\ h.span.end < Limit
      BY <1>1 DEF HeaderSmall
    <3>4. b \in Nat /\ b < Limit /\ e \in Nat /\ e < Limit
      BY <1>2, <3>3 DEF MinOf, MaxOf
    <3> HIDE DEF b, e
    <3> QED
      BY <1>2, <3>2, <3>4
  <2> QED
    BY <2>1, <2>2
<1> QED
  BY <1>1, <1>3, <1>4, <1>5 DEF HeaderSmall

(* A file makes no number larger.                                          *)
LEMMA HeaderOnDiskSmall ==
  ASSUME NEW h \in Header, HeaderSmall(h)
  PROVE  HeaderSmall(HeaderOnDisk(h))
<1>1. /\ h.span \in [begin: Nat, end: Nat, duration: Nat]
      /\ HeaderOnDisk(h).stats = h.stats
      /\ HeaderOnDisk(h).span = [begin |-> OnDisk(h.span.begin), end |-> OnDisk(h.span.end),
                                 duration |-> h.span.duration]
  BY DEF Header, HeaderOnDisk
<1>2. h.span.begin \in Nat /\ h.span.end \in Nat
  BY <1>1
<1>3. /\ OnDisk(h.span.begin) \in Nat /\ OnDisk(h.span.begin) <= h.span.begin
      /\ OnDisk(h.span.end) \in Nat /\ OnDisk(h.span.end) <= h.span.end
  BY <1>2, OnDiskFacts
<1>4. OnDisk(h.span.begin) < Limit /\ OnDisk(h.span.end) < Limit
  BY <1>2, <1>3, LimitIs DEF HeaderSmall
<1> QED
  BY <1>1, <1>4 DEF HeaderSmall

(* Data.AddPoint: one block has the point more, and so has the record.     *)
LEMMA AddNumbers ==
  ASSUME IInv, NumbersInv, NEW p \in NewPoints, Add(p)
  PROVE  NumbersInv'
<1> DEFINE b == BlockOf(To16(p.ip))
           B == Grown(b)[b + 1]
<1>1. /\ total' = total + 1 /\ header' = HeaderAdd(header, p) /\ total \in Nat
      /\ header \in Header /\ blocks \in Seq(AnyBlock) /\ Len(blocks) \in Nat
  BY DEF Add, IInv, Shape, OrderSound
<1>2. b \in 0 .. Len(blocks) /\ AddTo(b, p)
  <2>1. To16(p.ip) \in StoredIPs /\ NetworkAdd(To16(p.ip)) /\ AddTo(b, p)
    BY NewPointFacts DEF Add
  <2>2. b \in 0 .. cur
    BY <2>1, NetworkStep DEF IInv
  <2>3. cur = Len(blocks)
    BY DEF IInv, NetworkSound
  <2> QED
    BY <2>1, <2>2, <2>3
<1> HIDE DEF b
<1>3. /\ Len(blocks') = Len(Grown(b)) /\ b + 1 \in 1 .. Len(blocks')
      /\ B \in AnyBlock
      /\ blocks'[b + 1].header = HeaderAdd(B.header, p)
      /\ blocks'[b + 1].raw = Append(B.raw, DataOf(p))
      /\ \A k \in 1 .. Len(blocks') : k # b + 1 => k \in 1 .. Len(blocks) /\ blocks'[k] = blocks[k]
      /\ b + 1 \in 1 .. Len(blocks) => B = blocks[b + 1]
      /\ b + 1 \notin 1 .. Len(blocks) => B = NewBlock
  BY <1>1, <1>2, HeadersStep
<1>4. Len(blocks') <= Len(blocks) + 1
  <2>1. Len(Grown(b)) = Len(blocks) \/ Len(Grown(b)) = Len(blocks) + 1
    BY <1>1 DEF Grown
  <2> QED
    BY <1>1, <1>3, <2>1
<1> HIDE DEF B
<1>5. BlockSmall(B, total)
  <2>1. CASE b + 1 \in 1 .. Len(blocks)
    BY <1>3, <2>1 DEF NumbersInv
  <2>2. CASE b + 1 \notin 1 .. Len(blocks)
    <3>1. B = [header |-> NoHeader, raw |-> <<>>]
      BY <1>3, <2>2 DEF NewBlock
    <3>2. Len(<<>>) = 0 /\ RawsSmall(<<>>)
      BY DEF RawsSmall
    <3> QED
      BY <1>1, <3>1, <3>2, NoHeaderSmall DEF BlockSmall
  <2> QED
    BY <2>1, <2>2
<1>6. BlockSmall(blocks'[b + 1], total')
  <2> DEFINE s == B.raw
             t == blocks'[b + 1].raw
  <2>1. s \in Seq(Raw) /\ B.header \in Header
    BY <1>3 DEF AnyBlock
  <2>2. DataOf(p) \in Raw
    BY HeaderAddOfPoint
  <2>3. /\ Len(t) = Len(s) + 1 /\ Len(s) \in Nat
        /\ \A i \in 1 .. Len(s) : t[i] = s[i]
        /\ t[Len(s) + 1] = DataOf(p)
    BY <1>3, <2>1, <2>2
  <2>4. DataOf(p).duration < Limit /\ DataOf(p).time < Limit
    BY NumbersFit, LimitIs DEF DataOf, NewPoints
  <2>5. HeaderSmall(blocks'[b + 1].header)
    BY <1>3, <1>5, <2>1, HeaderAddSmall DEF BlockSmall
  <2>6. Len(s) <= total /\ RawsSmall(s)
    BY <1>5 DEF BlockSmall
  <2> HIDE DEF s, t
  <2>7. RawsSmall(t)
    <3>1. ASSUME NEW i \in 1 .. Len(t)
          PROVE  t[i].duration < Limit /\ t[i].time < Limit
      <4>1. i \in 1 .. Len(s) \/ i = Len(s) + 1
        BY <2>3
      <4> QED
        BY <2>3, <2>4, <2>6, <4>1 DEF RawsSmall
    <3> QED
      BY <3>1 DEF RawsSmall
  <2>8. Len(t) <= total'
    BY <1>1, <2>3, <2>6
  <2> QED
    BY <2>5, <2>7, <2>8 DEF BlockSmall, t
<1>7. ASSUME NEW k \in 1 .. Len(blocks')
      PROVE  BlockSmall(blocks'[k], total')
  <2>1. CASE k = b + 1
    BY <1>6, <2>1
  <2>2. CASE k # b + 1
    <3>1. k \in 1 .. Len(blocks) /\ blocks'[k] = blocks[k]
      BY <1>3, <2>2
    <3>2. BlockSmall(blocks[k], total) /\ blocks[k] \in AnyBlock
      BY <1>1, <3>1, ElementOfSeq DEF NumbersInv
    <3>3. Len(blocks[k].raw) \in Nat /\ Len(blocks[k].raw) <= total
      BY <3>2 DEF AnyBlock, BlockSmall
    <3>4. Len(blocks[k].raw) <= total'
      BY <1>1, <3>3
    <3> QED
      BY <3>1, <3>2, <3>4 DEF BlockSmall
  <2> QED
    BY <2>1, <2>2
<1>8. HeaderSmall(header')
  BY <1>1, HeaderAddSmall DEF NumbersInv
<1>9. Len(blocks') <= total'
  <2>1. Len(blocks) <= total
    BY DEF NumbersInv
  <2>2. Len(blocks') \in Nat
    <3>1. blocks' \in Seq(AnyBlock)
      BY <1>1, <1>2, HeadersStep
    <3> QED
      BY <3>1
  <2> QED
    BY <1>1, <1>4, <2>1, <2>2
<1> QED
  BY <1>7, <1>8, <1>9 DEF NumbersInv

(* So do writing and reading a file.                                       *)
LEMMA ReopenNumbers ==
  ASSUME IInv, NumbersInv, NEW v \in Versions, Reopen(v)
  PROVE  NumbersInv'
<1>1. header' = HeaderOnDisk(header) /\ blocks' = BlocksOnDisk /\ total' = total
  BY DEF Reopen
<1>2. header \in Header /\ blocks \in Seq(AnyBlock) /\ Len(blocks) \in Nat
  BY DEF IInv, Shape
<1>3. Len(blocks') = Len(blocks)
  BY <1>1, <1>2 DEF BlocksOnDisk
<1>4. ASSUME NEW k \in 1 .. Len(blocks)
      PROVE  BlockSmall(blocks'[k], total)
  <2> DEFINE s == blocks[k].raw
             t == [i \in 1 .. Len(s) |-> Reread(s[i])]
  <2>1. blocks'[k] = [header |-> HeaderOnDisk(blocks[k].header), raw |-> t]
    BY <1>1 DEF BlocksOnDisk
  <2>2. blocks[k] \in AnyBlock /\ BlockSmall(blocks[k], total)
    BY <1>2, ElementOfSeq DEF NumbersInv
  <2>3. blocks[k].header \in Header /\ s \in Seq(Raw)
    BY <2>2 DEF AnyBlock
  <2>4. HeaderSmall(HeaderOnDisk(blocks[k].header))
    BY <2>2, <2>3, HeaderOnDiskSmall DEF BlockSmall
  <2>5. Len(t) = Len(s) /\ Len(s) <= total /\ RawsSmall(s)
    BY <2>2, <2>3 DEF BlockSmall
  <2>6. ASSUME NEW i \in 1 .. Len(s)
        PROVE  t[i].duration < Limit /\ t[i].time < Limit
    <3>1. t[i] = Reread(s[i]) /\ s[i] \in Raw
      BY <2>3, ElementOfSeq
    <3>2. t[i].duration = s[i].duration /\ t[i].time = OnDisk(s[i].time)
      BY <3>1 DEF Reread, Raw
    <3>3. s[i].time \in Nat /\ s[i].time < Limit /\ s[i].duration < Limit
      BY <2>5, <3>1 DEF RawsSmall, Raw
    <3>4. OnDisk(s[i].time) \in Nat /\ OnDisk(s[i].time) <= s[i].time
      BY <3>3, OnDiskFacts
    <3>5. OnDisk(s[i].time) < Limit
      BY <3>3, <3>4, LimitIs
    <3> QED
      BY <3>2, <3>3, <3>5
  <2> HIDE DEF s, t
  <2>7. RawsSmall(t) /\ Len(t) <= total
    BY <2>5, <2>6 DEF RawsSmall
  <2> QED
    BY <2>1, <2>4, <2>7 DEF BlockSmall
<1>5. HeaderSmall(header')
  BY <1>1, <1>2, HeaderOnDiskSmall DEF NumbersInv
<1> QED
  BY <1>1, <1>3, <1>4, <1>5 DEF NumbersInv

(* The numbers of a record are small in every state.                       *)
LEMMA NumbersInductive == Spec => [](IInv /\ NumbersInv)
<1>1. Init => IInv /\ NumbersInv
  <2> SUFFICES ASSUME Init
               PROVE  NumbersInv
    BY InitInvariant
  <2>1. Len(blocks) = 0 /\ total = 0 /\ header = NoHeader
    BY DEF Init
  <2> QED
    BY <2>1, NoHeaderSmall DEF NumbersInv
<1>2. ASSUME IInv /\ NumbersInv, [Next]_vars
      PROVE  (IInv /\ NumbersInv)'
  <2>1. ASSUME NEW p \in NewPoints, Add(p)
        PROVE  NumbersInv'
    BY <1>2, <2>1, AddNumbers
  <2>2. ASSUME NEW v \in Versions, Reopen(v)
        PROVE  NumbersInv'
    BY <1>2, <2>2, ReopenNumbers
  <2>3. ASSUME UNCHANGED vars
        PROVE  NumbersInv'
    <3>1. blocks' = blocks /\ total' = total /\ header' = header
      BY <2>3 DEF vars
    <3>2. NumbersInv
      BY <1>2
    <3> QED
      BY <3>1, <3>2 DEF NumbersInv
  <2>4. IInv'
    BY <1>2, NextInvariant
  <2> QED
    BY <1>2, <2>1, <2>2, <2>3, <2>4 DEF Next
<1> QED
  BY <1>1, <1>2, PTL DEF Spec

-----------------------------------------------------------------------------
(* A record of so many points fits in a file.                              *)

(* A streak is among the points.                                           *)
LEMMA RunIsSmall ==
  ASSUME NEW r \in Run, NEW d, NEW n \in Nat, NEW kind, RunIs(r, d, n, kind), n < Limit
  PROVE  RunFits(r)
<1>1. r.longest \in Nat /\ r.current \in Nat /\ r.lastIndex \in Nat /\ Limit \in Nat
  BY LimitIs DEF Run
<1>2. r.current <= n
  BY DEF RunIs, IsStreak
<1>3. r.longest > 0 => r.lastIndex < n /\ r.longest <= r.lastIndex + 1
  BY DEF RunIs, IsStreak
<1>4. r.longest = 0 => r.lastIndex = 0
  BY DEF RunIs
<1>5. r.longest <= n /\ r.lastIndex <= n
  BY <1>1, <1>3, <1>4
<1> QED
  BY <1>1, <1>2, <1>5 DEF RunFits

(* The points a header counts are some of those it is about.               *)
LEMMA CountsAreSmall ==
  ASSUME NEW h \in Header, NEW s, Len(s) \in Nat, HeaderIs(h, s)
  PROVE  h.stats.good <= Len(s) /\ h.stats.dropped <= Len(s)
<1>1. h.stats.good = Cardinality(GoodOf(s)) /\ h.stats.dropped = Len(s) - Cardinality(GoodOf(s))
  BY DEF HeaderIs
<1>2. IsFiniteSet(1 .. Len(s)) /\ Cardinality(1 .. Len(s)) = Len(s)
  BY FS_Interval
<1>3. Cardinality(GoodOf(s)) \in Nat /\ GoodOf(s) \subseteq 1 .. Len(s)
  BY GoodIsFinite
<1>4. Cardinality(GoodOf(s)) <= Len(s)
  BY <1>2, <1>3, FS_Subset
<1> QED
  BY <1>1, <1>3, <1>4

(* The sum of so many durations fits.                                      *)
LEMMA SumFits ==
  ASSUME NEW s \in Stats, SumSmall(s), s.good <= FilePoints
  PROVE  s.sum < Limit
<1>1. s.good \in Nat /\ s.sum \in Nat /\ FilePoints \in Nat /\ Limit \in Nat /\ 0 < Limit
  BY FileAssumption, LimitIs DEF Stats
<1>2. CASE s.good = 0
  BY <1>1, <1>2 DEF SumSmall
<1>3. CASE s.good # 0
  <2>1. PICK d \in Durations : s.sum <= s.good * d
    BY <1>3 DEF SumSmall
  <2>2. d \in Nat /\ FilePoints * d < Limit
    BY <2>1, NumbersFit, StoreAssumption
  <2> DEFINE x == s.good * d
             y == FilePoints * d
  <2>3. x <= y /\ x \in Nat /\ y \in Nat
    BY <1>1, <2>2
  <2>4. s.sum <= x /\ y < Limit
    BY <2>1, <2>2
  <2> HIDE DEF x, y
  <2> QED
    BY <1>1, <2>3, <2>4
<1> QED
  BY <1>2, <1>3

(* A header's numbers fit.                                                 *)
LEMMA SmallHeaderFits ==
  ASSUME NEW h \in Header, NEW s, Len(s) \in Nat, Len(s) <= FilePoints,
         HeaderIs(h, s), HeaderSmall(h)
  PROVE  HeaderFits(h)
<1>1. FilePoints \in Nat /\ Limit \in Nat /\ FilePoints < Limit
  BY FileAssumption, LimitIs, NumbersFit
<1>2. h.stats \in Stats /\ h.stats.good \in Nat /\ h.stats.dropped \in Nat
  BY DEF Header, Stats
<1>3. h.stats.good <= Len(s) /\ h.stats.dropped <= Len(s)
  BY CountsAreSmall
<1>4. h.stats.good <= FilePoints /\ h.stats.good < Limit /\ h.stats.dropped < Limit
  BY <1>1, <1>2, <1>3
<1>5. h.stats.sum < Limit
  BY <1>2, <1>4, SumFits DEF HeaderSmall
<1> QED
  BY <1>4, <1>5 DEF HeaderSmall, HeaderFits

(* Every number of the record fits.                                        *)
LEMMA RecordFits ==
  ASSUME IInv, RunsInv, StatsInv, NumbersInv, total <= FilePoints
  PROVE  FileFits
<1>1. /\ total \in Nat /\ total = Len(order) /\ FilePoints \in Nat /\ Limit \in Nat
      /\ FilePoints < Limit /\ Len(order) \in Nat /\ total < Limit
  <2>1. total = Len(order) /\ Len(order) \in Nat
    BY DEF IInv, OrderSound, Shape
  <2>2. FilePoints \in Nat /\ Limit \in Nat /\ FilePoints < Limit
    BY FileAssumption, LimitIs, NumbersFit
  <2> QED
    BY <2>1, <2>2
<1>2. /\ header \in Header /\ blocks \in Seq(AnyBlock) /\ Len(blocks) \in Nat
      /\ cur = Len(blocks) /\ Len(blocks) <= total
  BY DEF IInv, Shape, NetworkSound, NumbersInv
<1>3. cur < Limit
  BY <1>1, <1>2
<1>4. HeaderFits(header)
  <2>1. Len(Points) = Len(order)
    BY <1>1 DEF Points
  <2>2. HeaderIs(header, Points) /\ HeaderSmall(header)
    BY DEF StatsInv, NumbersInv
  <2>3. Len(Points) \in Nat /\ Len(Points) <= FilePoints
    BY <1>1, <2>1
  <2> QED
    BY <1>2, <2>2, <2>3, SmallHeaderFits
<1>5. RunFits(runs.good) /\ RunFits(runs.dropped)
  <2>1. runs.good \in Run /\ runs.dropped \in Run
    BY DEF RunsInv, AllRuns
  <2>2. RunIs(runs.good, Flags, Len(order), FALSE) /\ RunIs(runs.dropped, Flags, Len(order), TRUE)
    BY DEF RunsInv, RunsAre
  <2>3. Len(order) \in Nat /\ Len(order) < Limit
    BY <1>1
  <2> QED
    BY <2>1, <2>2, <2>3, RunIsSmall
<1>6. ASSUME NEW b \in 1 .. Len(blocks)
      PROVE  /\ BlockFits(blocks[b]) /\ Len(blocks[b].raw) \in Nat
             /\ Len(blocks[b].raw) < Limit
  <2>1. blocks[b] \in AnyBlock /\ BlockSmall(blocks[b], total)
    BY <1>2, ElementOfSeq DEF NumbersInv
  <2>2. /\ blocks[b].header \in Header /\ Len(blocks[b].raw) \in Nat
        /\ HeaderSmall(blocks[b].header) /\ Len(blocks[b].raw) <= total
        /\ RawsSmall(blocks[b].raw)
    BY <2>1 DEF AnyBlock, BlockSmall
  <2>3. HeaderIs(blocks[b].header, blocks[b].raw)
    BY DEF StatsInv, BlocksAre
  <2>4. Len(blocks[b].raw) <= FilePoints /\ Len(blocks[b].raw) < Limit
    BY <1>1, <2>2
  <2>5. HeaderFits(blocks[b].header)
    BY <2>2, <2>3, <2>4, SmallHeaderFits
  <2> QED
    BY <2>2, <2>4, <2>5 DEF BlockFits, RawsSmall
<1>7. ASSUME NEW i \in 1 .. Len(order)
      PROVE  order[i].block < Limit /\ order[i].raw < Limit
  <2>1. order[i] \in [block: Nat, raw: Nat]
    BY ElementOfSeq DEF IInv, Shape
  <2>2. /\ order[i].block \in Nat /\ order[i].raw \in Nat
        /\ order[i].block < Len(blocks)
        /\ order[i].raw < Len(blocks[order[i].block + 1].raw)
    BY <2>1 DEF IInv, OrderSound
  <2> DEFINE b == order[i].block + 1
  <2>3. b \in 1 .. Len(blocks)
    BY <1>2, <2>2
  <2>4. Len(blocks[b].raw) \in Nat /\ Len(blocks[b].raw) < Limit
    BY <1>6, <2>3
  <2> QED
    BY <1>1, <1>2, <2>2, <2>4
<1>8. ASSUME NEW i \in 1 .. Len(indexes)
      PROVE  indexes[i] < Limit
  <2>1. indexes[i] \in Nat
    BY ElementOfSeq DEF IInv, Shape
  <2>2. indexes[i] < cur
    BY DEF IInv, NetworkSound
  <2> QED
    BY <1>1, <1>2, <1>3, <2>1, <2>2
<1> QED
  BY <1>1, <1>3, <1>4, <1>5, <1>6, <1>7, <1>8 DEF FileFits

(* Whatever a session records and however often it is reopened: its file,  *)
(* of any version, is read as the record, to the last byte, and fills the  *)
(* buffer that is allocated for it, as long as its numbers fit in the      *)
(* integers of a file (Data.write, Data.byteLen, Data.FromCompact).        *)
THEOREM FileReadsBackHolds == Spec => []FileReadsBack
<1>1. ASSUME IInv, RunsInv, StatsInv, NumbersInv
      PROVE  FileReadsBack
  <2> SUFFICES ASSUME total <= FilePoints
               PROVE  /\ Len(File("current")) = ByteLen
                      /\ \A v \in Versions : \A d \in {Read(File(v))} :
                           IsTheRecord(d, v) /\ d.length = Len(File(v))
    BY DEF FileReadsBack
  <2>1. FileFits /\ runs \in AllRuns
    BY <1>1, RecordFits DEF RunsInv
  <2>2. Len(File("current")) = ByteLen
    BY <1>1, <2>1, BufferIsFilled
  <2>3. ASSUME NEW v \in Versions
        PROVE  IsTheRecord(Read(File(v)), v) /\ Read(File(v)).length = Len(File(v))
    BY <1>1, <2>1, FileIsRead
  <2> QED
    BY <2>2, <2>3
<1> QED
  BY <1>1, RunsInductive, StatsInductive, NumbersInductive, PTL
=============================================================================
