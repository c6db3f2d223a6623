--------------------------- MODULE RecordingProofs ---------------------------
(***************************************************************************)
(* Every result is on both sides of the tee once or on neither, and what   *)
(* the file has it keeps, for any number of results, sessions, failures    *)
(* and any size of the channels.                                           *)
(***************************************************************************)
EXTENDS Recording, FiniteSetTheorems, SequenceTheorems, TLAPS

-----------------------------------------------------------------------------
(* Lemmas on how often a value is in a sequence.                           *)

(* The places of a value are finitely many.                                *)
LEMMA PlacesAreFinite ==
  ASSUME NEW T, NEW s \in Seq(T), NEW v
  PROVE  IsFiniteSet(In(s, v)) /\ Count(s, v) \in Nat
<1>1. In(s, v) \in SUBSET (1 .. Len(s)) /\ Len(s) \in Int
  BY DEF In
<1>2. IsFiniteSet(1 .. Len(s))
  BY <1>1, FS_Interval
<1>3. IsFiniteSet(In(s, v))
  BY <1>1, <1>2, FS_Subset
<1> QED
  BY <1>3, FS_CardinalityType DEF Count

(* Nothing is in an empty channel.                                         *)
LEMMA CountOfEmpty == \A v : Count(<<>>, v) = 0
<1> TAKE v
<1>1. In(<<>>, v) = {}
  BY DEF In
<1> QED
  BY <1>1, FS_EmptySet DEF Count

(* A send, or a point added: one more of the value, and no other.          *)
LEMMA CountOfAppend ==
  ASSUME NEW T, NEW s \in Seq(T), NEW e \in T, NEW v
  PROVE  Count(Append(s, e), v) = IF e = v THEN Count(s, v) + 1 ELSE Count(s, v)
<1>1. /\ Len(Append(s, e)) = Len(s) + 1 /\ Len(s) \in Nat
      /\ \A i \in 1 .. Len(s) : Append(s, e)[i] = s[i]
      /\ Append(s, e)[Len(s) + 1] = e
  OBVIOUS
<1>2. Len(s) + 1 \notin In(s, v)
  BY <1>1 DEF In
<1>3. CASE e = v
  <2>1. In(Append(s, e), v) = In(s, v) \cup {Len(s) + 1}
    BY <1>1, <1>3 DEF In
  <2> QED
    BY <1>2, <1>3, <2>1, PlacesAreFinite, FS_AddElement DEF Count
<1>4. CASE e # v
  <2>1. In(Append(s, e), v) = In(s, v)
    BY <1>1, <1>4 DEF In
  <2> QED
    BY <1>4, <2>1 DEF Count
<1> QED
  BY <1>3, <1>4

(* A receive: one less of the value, and no other.                         *)
LEMMA CountOfTail ==
  ASSUME NEW T, NEW s \in Seq(T), s # <<>>, NEW v
  PROVE  Count(s, v) = IF Head(s) = v THEN Count(Tail(s), v) + 1 ELSE Count(Tail(s), v)
<1> DEFINE later == In(s, v) \ {1}
           f == [i \in later |-> i - 1]
<1>1. /\ Tail(s) \in Seq(T) /\ Len(s) \in Nat \ {0} /\ Len(Tail(s)) = Len(s) - 1
      /\ \A i \in 1 .. Len(s) - 1 : Tail(s)[i] = s[i + 1]
      /\ Head(s) = s[1]
  OBVIOUS
<1>2. IsFiniteSet(In(s, v)) /\ IsFiniteSet(later)
      /\ Cardinality(later) = IF 1 \in In(s, v) THEN Count(s, v) - 1 ELSE Count(s, v)
  BY PlacesAreFinite, FS_RemoveElement DEF Count
<1>3. later \subseteq 2 .. Len(s) /\ \A i \in later : s[i] = v
  BY <1>1 DEF In
<1>4. \A i \in later : i - 1 \in In(Tail(s), v)
  BY <1>1, <1>3 DEF In
<1>5. \A j \in In(Tail(s), v) : j + 1 \in later /\ j \in Nat
  BY <1>1 DEF In
<1> HIDE DEF later
<1>6. f \in Bijection(later, In(Tail(s), v))
  <2>1. f \in [later -> In(Tail(s), v)]
    BY <1>4
  <2>2. \A i, j \in later : f[i] = f[j] => i = j
    BY <1>3
  <2>3. \A j \in In(Tail(s), v) : \E i \in later : f[i] = j
    <3> TAKE j \in In(Tail(s), v)
    <3>1. j + 1 \in later /\ f[j + 1] = j
      BY <1>5
    <3> QED
      BY <3>1
  <2> QED
    BY <2>1, <2>2, <2>3 DEF Bijection, Injection, Surjection, IsInjective
<1>7. Cardinality(later) = Count(Tail(s), v)
  <2>1. ExistsBijection(later, In(Tail(s), v))
    BY <1>6 DEF ExistsBijection
  <2> QED
    BY <1>2, <2>1, FS_Bijection DEF Count
<1>8. 1 \in In(s, v) <=> Head(s) = v
  BY <1>1 DEF In
<1>9. Count(s, v) \in Nat
  BY PlacesAreFinite
<1> QED
  BY <1>2, <1>7, <1>8, <1>9

-----------------------------------------------------------------------------
(* Types                                                                   *)

(* A channel of the tee or the engine.                                     *)
ChanOf(T, c) == c \in Seq(T) /\ Len(c) <= ChanSize

(* A send waits for room and a receive makes some.                         *)
LEMMA ChanFacts ==
  ASSUME NEW T
  PROVE  /\ ChanOf(T, <<>>)
         /\ \A c, e : ChanOf(T, c) /\ Len(c) < ChanSize /\ e \in T => ChanOf(T, Append(c, e))
         /\ \A c : ChanOf(T, c) /\ c # <<>> => ChanOf(T, Tail(c)) /\ Head(c) \in T
<1>1. ChanOf(T, <<>>)
  BY RecordingAssumption DEF ChanOf
<1>2. ASSUME NEW c, NEW e, ChanOf(T, c), Len(c) < ChanSize, e \in T
      PROVE  ChanOf(T, Append(c, e))
  BY <1>2, RecordingAssumption DEF ChanOf
<1>3. ASSUME NEW c, ChanOf(T, c), c # <<>>
      PROVE  ChanOf(T, Tail(c)) /\ Head(c) \in T
  BY <1>3, RecordingAssumption DEF ChanOf
<1> QED
  BY <1>1, <1>2, <1>3

FileOf(f) == f \in [whole: BOOLEAN, points: Seq(Values)]

(* What a write leaves of the file and what is read from it.               *)
LEMMA FileFacts ==
  /\ FileOf([whole |-> TRUE, points |-> <<>>])
  /\ \A f : FileOf(f) => f.points \in Seq(Values) /\ f.whole \in BOOLEAN
  /\ \A f : FileOf(f) => /\ FileOf([f EXCEPT !.whole = FALSE])
                         /\ [f EXCEPT !.whole = FALSE].points = f.points
  /\ \A m \in Seq(Values) : FileOf([whole |-> TRUE, points |-> m])
<1> DEFINE P == Seq(Values)
<1>1. <<>> \in P
  OBVIOUS
<1> HIDE DEF P
<1>2. ASSUME NEW f, f \in [whole: BOOLEAN, points: P]
      PROVE  /\ f.points \in P /\ f.whole \in BOOLEAN
             /\ [f EXCEPT !.whole = FALSE] \in [whole: BOOLEAN, points: P]
             /\ [f EXCEPT !.whole = FALSE].points = f.points
  BY <1>2
<1>3. \A m \in P : [whole |-> TRUE, points |-> m] \in [whole: BOOLEAN, points: P]
  OBVIOUS
<1> QED
  BY <1>1, <1>2, <1>3 DEF FileOf, P

(* The types of TypeOK, by the part of the program that has the state.     *)
TypeParts ==
  /\ produced \in 0 .. MaxResults /\ ended \in BOOLEAN
  /\ ChanOf(Results, input) /\ ChanOf(Values, graphChan) /\ ChanOf(Values, fileChan)
  /\ toGraph \subseteq Values /\ toFile \subseteq Values
  /\ graph \in Seq(Values) /\ memory \in Seq(Values) /\ FileOf(file)
  /\ sink \in {"Running", "Stopped"} /\ toasts \in {"Running", "Stopped"}
  /\ writer \in {"Select", "Seek", "Write", "Report", "Wait", "Stopped"}
  /\ app \in {"Running", "Closed", "Finished", "Exited", "Panicked", "Unreadable"}
  /\ cancelled \in BOOLEAN /\ session \in 1 .. MaxSessions

LEMMA PartsAreTypes == TypeOK <=> TypeParts
BY DEF TypeOK, TypeParts, ChanOf, FileOf

(* A point more, in the graph or in memory.                                *)
LEMMA PointAdded ==
  \A p \in Seq(Values), v \in Values : Append(p, v) \in Seq(Values)
OBVIOUS

(* No step of the engine, the tee, the sink, the writer or the application *)
(* leaves the types, nor fills a channel over its size.                    *)
LEMMA TypeStep == ASSUME TypeParts, [Next]_vars PROVE TypeParts'
<1> USE DEF TypeParts, engineVars, teeVars, sinkVars, fileVars, appVars
<1>a. Results \subseteq Values /\ Zero \in Values
  BY DEF Values
<1>b. <<>> \in Seq(Values)
  OBVIOUS
<1>1. CASE Produce \/ CloseInput
  <2>1. produced < MaxResults => produced + 1 \in 0 .. MaxResults /\ produced + 1 \in Results
    BY RecordingAssumption DEF Results
  <2> QED
    BY <1>1, <2>1, ChanFacts DEF Produce, CloseInput
<1>2. CASE TeeTake
  BY <1>2, <1>a, ChanFacts DEF TeeTake, Spawn
<1>3. CASE TeeTakeZero \/ TeeSeesDone \/ Over \/ UNCHANGED vars
  BY <1>3, <1>a DEF TeeTakeZero, TeeSeesDone, Over, Spawn, vars
<1>4. ASSUME NEW v \in toGraph, SendLeft(v) PROVE TypeParts'
  BY <1>4, ChanFacts DEF SendLeft
<1>5. ASSUME NEW v \in toFile, SendRight(v) PROVE TypeParts'
  BY <1>5, ChanFacts DEF SendRight
<1>6. CASE SinkTake \/ SinkSeesDone
  BY <1>6, ChanFacts, PointAdded DEF SinkTake, SinkSeesDone
<1>7. CASE Writer \/ WriterSeesDone
  <2>1. CASE WriterTake
    BY <2>1, ChanFacts, PointAdded DEF WriterTake
  <2>2. CASE WriteBegins \/ WriteEnds \/ DiskError
    BY <2>2, FileFacts DEF WriteBegins, WriteEnds, DiskError
  <2>3. CASE ReportTaken \/ WaitEnds \/ WriterSeesDone
    BY <2>3 DEF ReportTaken, WaitEnds, WriterSeesDone
  <2> QED
    BY <1>7, <2>1, <2>2, <2>3 DEF Writer
<1>8. CASE ReportPanics \/ Exit \/ Crash
  BY <1>8, <1>b, ChanFacts DEF ReportPanics, Exit, Crash, Gone
<1>9. CASE Cancel \/ ToastsSeeDone \/ RunReturns \/ Finish
  BY <1>9 DEF Cancel, ToastsSeeDone, RunReturns, Finish, MainTo
<1>10. CASE NextSession \/ NextSessionFails
  <2>1. session < MaxSessions => session + 1 \in 1 .. MaxSessions
    BY RecordingAssumption
  <2> QED
    BY <1>10, <2>1, FileFacts DEF NextSession, Reads, NextSessionFails
<1> QED
  BY <1>1, <1>2, <1>3, <1>4, <1>5, <1>6, <1>7, <1>8, <1>9, <1>10 DEF Next

(* At the start there is nothing, and the first session.                   *)
LEMMA TypeInit == ASSUME Init PROVE TypeParts
<1>1. /\ ChanOf(Results, <<>>) /\ ChanOf(Values, <<>>) /\ <<>> \in Seq(Values)
      /\ 0 \in 0 .. MaxResults /\ 1 \in 1 .. MaxSessions
  BY ChanFacts, RecordingAssumption
<1> QED
  BY <1>1, FileFacts DEF Init, TypeParts

(* The state of the goroutines and of the file (acci-ping.go, files.go).   *)
THEOREM TypeCorrect == Spec => []TypeOK
<1>1. Init => TypeOK
  BY TypeInit, PartsAreTypes
<1>2. TypeOK /\ [Next]_vars => TypeOK'
  <2>1. TypeOK' <=> TypeParts'
    BY PartsAreTypes, PTL
  <2> QED
    BY <2>1, TypeStep, PartsAreTypes
<1> QED
  BY <1>1, <1>2, PTL DEF Spec

-----------------------------------------------------------------------------
(* Each side once, and the file                                            *)

(* Of a result: it is in the channel or on both sides, once; what has not  *)
(* been produced is nowhere; and the file has it at most once, which is    *)
(* all that is left of it when the process is gone.                        *)
OnceOf(v) ==
  /\ Count(input, v) + OnGraphSide(v) <= 1
  /\ OnGraphSide(v) = OnFileSide(v)
  /\ Count(file.points, v) <= 1
  /\ v > produced => Count(input, v) + OnGraphSide(v) + Count(file.points, v) = 0

(* The writer's data begin with what it found in the file or wrote there.  *)
MemoryExtendsFile ==
  Alive => /\ Len(file.points) <= Len(memory)
           /\ \A i \in 1 .. Len(file.points) : memory[i] = file.points[i]

(* Nothing of a process that is gone but its file.                         *)
NothingLeft ==
  ~Alive => /\ input = <<>> /\ toGraph = {} /\ toFile = {}
            /\ graphChan = <<>> /\ fileChan = <<>> /\ graph = <<>> /\ memory = <<>>

RecordingInv ==
  TypeParts /\ (\A v \in Results : OnceOf(v)) /\ MemoryExtendsFile /\ NothingLeft

(* The counts of one result in a state are numbers.                        *)
LEMMA CountsAreNumbers ==
  ASSUME TypeParts, NEW v
  PROVE  /\ Count(input, v) \in Nat /\ Count(graphChan, v) \in Nat
         /\ Count(fileChan, v) \in Nat /\ Count(graph, v) \in Nat
         /\ Count(memory, v) \in Nat /\ Count(file.points, v) \in Nat
         /\ Pending(toGraph, v) \in 0 .. 1 /\ Pending(toFile, v) \in 0 .. 1
         /\ OnGraphSide(v) \in Nat /\ OnFileSide(v) \in Nat
         /\ OnGraphSide(v) = Pending(toGraph, v) + Count(graphChan, v) + Count(graph, v)
         /\ OnFileSide(v) = Pending(toFile, v) + Count(fileChan, v) + Count(memory, v)
<1>1. /\ input \in Seq(Results) /\ graphChan \in Seq(Values) /\ fileChan \in Seq(Values)
      /\ graph \in Seq(Values) /\ memory \in Seq(Values) /\ file.points \in Seq(Values)
  BY FileFacts DEF TypeParts, ChanOf
<1>2. /\ Count(input, v) \in Nat /\ Count(graphChan, v) \in Nat
      /\ Count(fileChan, v) \in Nat /\ Count(graph, v) \in Nat
      /\ Count(memory, v) \in Nat /\ Count(file.points, v) \in Nat
  BY <1>1, PlacesAreFinite
<1>3. Pending(toGraph, v) \in 0 .. 1 /\ Pending(toFile, v) \in 0 .. 1
  BY DEF Pending
<1> QED
  BY <1>2, <1>3 DEF OnGraphSide, OnFileSide

(* A count in the next state is the count in the next sequence.            *)
LEMMA CountsPrimed ==
  ASSUME NEW v
  PROVE  /\ Count(input, v)' = Count(input', v)
         /\ Count(file.points, v)' = Count(file'.points, v)
         /\ OnGraphSide(v)' = Pending(toGraph', v) + Count(graphChan', v) + Count(graph', v)
         /\ OnFileSide(v)' = Pending(toFile', v) + Count(fileChan', v) + Count(memory', v)
BY DEF Count, In, Pending, OnGraphSide, OnFileSide

(* A result is made by the engine, the next one, and is in the channel.    *)
LEMMA ProduceKeepsOnce ==
  ASSUME TypeParts, Produce, NEW v \in Results, OnceOf(v) PROVE OnceOf(v)'
<1>1. /\ UNCHANGED <<toGraph, toFile, graphChan, fileChan, graph, memory, file>>
      /\ input' = Append(input, produced + 1) /\ produced' = produced + 1
      /\ produced \in Nat
  BY DEF Produce, teeVars, sinkVars, fileVars, TypeParts
<1>2. /\ OnGraphSide(v)' = OnGraphSide(v) /\ OnFileSide(v)' = OnFileSide(v)
      /\ Count(file.points, v)' = Count(file.points, v)
  BY <1>1, CountsPrimed DEF OnGraphSide, OnFileSide
<1>3. Count(input, v)' = IF produced + 1 = v THEN Count(input, v) + 1 ELSE Count(input, v)
  <2>1. input \in Seq(Int) /\ produced + 1 \in Int
    <3>1. input \in Seq(Results) /\ Results \subseteq Int
      BY DEF TypeParts, ChanOf, Results
    <3>2. produced + 1 \in Int
      BY <1>1
    <3> QED
      BY <3>1, <3>2, SeqMonotonic
  <2> QED
    BY <1>1, <2>1, CountOfAppend, CountsPrimed
<1>4. v \in Nat
  BY DEF Results
<1> QED
  BY <1>1, <1>2, <1>3, <1>4, CountsAreNumbers DEF OnceOf

(* The tee takes a result to both sides.                                   *)
LEMMA TakeKeepsOnce ==
  ASSUME TypeParts, TeeTake, NEW v \in Results, OnceOf(v) PROVE OnceOf(v)'
<1>1. /\ UNCHANGED <<produced, graphChan, fileChan, graph, memory, file>>
      /\ input # <<>> /\ input' = Tail(input)
      /\ toGraph' = toGraph \cup {Head(input)} /\ toFile' = toFile \cup {Head(input)}
  BY DEF TeeTake, Spawn, sinkVars, fileVars
<1>2. input \in Seq(Results)
  BY DEF TypeParts, ChanOf
<1>3. Count(input, v) = IF Head(input) = v THEN Count(input', v) + 1 ELSE Count(input', v)
  BY <1>1, <1>2, CountOfTail
<1>4. Count(input', v) \in Nat
  <2>1. input' \in Seq(Results)
    BY <1>1, <1>2
  <2> QED
    BY <2>1, PlacesAreFinite
<1>5. /\ Pending(toGraph', v) = IF Head(input) = v THEN 1 ELSE Pending(toGraph, v)
      /\ Pending(toFile', v) = IF Head(input) = v THEN 1 ELSE Pending(toFile, v)
  BY <1>1 DEF Pending
<1>6. CASE Head(input) # v
  <2>1. /\ OnGraphSide(v)' = OnGraphSide(v) /\ OnFileSide(v)' = OnFileSide(v)
        /\ Count(input, v)' = Count(input, v) /\ Count(file.points, v)' = Count(file.points, v)
    BY <1>1, <1>3, <1>5, <1>6, CountsPrimed DEF OnGraphSide, OnFileSide
  <2> QED
    BY <1>1, <2>1 DEF OnceOf
<1>7. CASE Head(input) = v
  <2>1. Count(input, v) = 1 /\ Count(input', v) = 0 /\ OnGraphSide(v) = 0 /\ OnFileSide(v) = 0
    <3>1. Count(input, v) = Count(input', v) + 1
      BY <1>3, <1>7
    <3>2. OnGraphSide(v) \in Nat /\ OnFileSide(v) \in Nat
      BY CountsAreNumbers
    <3>3. Count(input, v) + OnGraphSide(v) <= 1 /\ OnGraphSide(v) = OnFileSide(v)
      BY DEF OnceOf
    <3> QED
      BY <1>4, <3>1, <3>2, <3>3
  <2>2. /\ Pending(toGraph, v) = 0 /\ Count(graphChan, v) = 0 /\ Count(graph, v) = 0
        /\ Pending(toFile, v) = 0 /\ Count(fileChan, v) = 0 /\ Count(memory, v) = 0
    BY <2>1, CountsAreNumbers DEF OnGraphSide, OnFileSide
  <2>3. /\ Count(input, v)' = 0 /\ OnGraphSide(v)' = 1 /\ OnFileSide(v)' = 1
        /\ Count(file.points, v)' = Count(file.points, v)
    <3>1. /\ Pending(toGraph', v) = 1 /\ Pending(toFile', v) = 1
          /\ Count(graphChan', v) = 0 /\ Count(graph', v) = 0
          /\ Count(fileChan', v) = 0 /\ Count(memory', v) = 0
      BY <1>1, <1>5, <1>7, <2>2
    <3>2. /\ Count(input, v)' = Count(input', v)
          /\ Count(file.points, v)' = Count(file'.points, v)
          /\ OnGraphSide(v)' = Pending(toGraph', v) + Count(graphChan', v) + Count(graph', v)
          /\ OnFileSide(v)' = Pending(toFile', v) + Count(fileChan', v) + Count(memory', v)
      BY CountsPrimed
    <3> QED
      BY <1>1, <2>1, <3>1, <3>2
  <2>4. ~(v > produced)
    BY <2>1, CountsAreNumbers DEF OnceOf
  <2> QED
    BY <1>1, <2>3, <2>4 DEF OnceOf
<1> QED
  BY <1>6, <1>7

(* A goroutine of the tee hands its value to its channel.                  *)
LEMMA SendKeepsOnce ==
  ASSUME TypeParts, NEW v \in Results, OnceOf(v), NEW w \in Values,
         (w \in toGraph /\ SendLeft(w)) \/ (w \in toFile /\ SendRight(w))
  PROVE  OnceOf(v)'
<1>1. UNCHANGED <<produced, input, graph, memory, file>>
  BY DEF SendLeft, SendRight, engineVars, sinkVars, fileVars
<1>2. graphChan \in Seq(Values) /\ fileChan \in Seq(Values)
  BY DEF TypeParts, ChanOf
<1>3. /\ OnGraphSide(v)' = OnGraphSide(v) /\ OnFileSide(v)' = OnFileSide(v)
      /\ Count(input, v)' = Count(input, v) /\ Count(file.points, v)' = Count(file.points, v)
  <2>1. CASE w \in toGraph /\ SendLeft(w)
    <3>1. /\ graphChan' = Append(graphChan, w) /\ toGraph' = toGraph \ {w}
          /\ UNCHANGED <<toFile, fileChan>>
      BY <2>1 DEF SendLeft
    <3>2. Pending(toGraph', v) = IF w = v THEN Pending(toGraph, v) - 1 ELSE Pending(toGraph, v)
      BY <2>1, <3>1 DEF Pending
    <3>3. Count(graphChan', v) = IF w = v THEN Count(graphChan, v) + 1 ELSE Count(graphChan, v)
      BY <1>2, <3>1, CountOfAppend
    <3>a. Pending(toGraph, v) \in Int /\ Count(graphChan, v) \in Int
      BY CountsAreNumbers
    <3>4. Pending(toGraph', v) + Count(graphChan', v) = Pending(toGraph, v) + Count(graphChan, v)
      BY <3>2, <3>3, <3>a
    <3> QED
      BY <1>1, <3>1, <3>4, CountsPrimed DEF OnGraphSide, OnFileSide
  <2>2. CASE w \in toFile /\ SendRight(w)
    <3>1. /\ fileChan' = Append(fileChan, w) /\ toFile' = toFile \ {w}
          /\ UNCHANGED <<toGraph, graphChan>>
      BY <2>2 DEF SendRight
    <3>2. Pending(toFile', v) = IF w = v THEN Pending(toFile, v) - 1 ELSE Pending(toFile, v)
      BY <2>2, <3>1 DEF Pending
    <3>3. Count(fileChan', v) = IF w = v THEN Count(fileChan, v) + 1 ELSE Count(fileChan, v)
      BY <1>2, <3>1, CountOfAppend
    <3>a. Pending(toFile, v) \in Int /\ Count(fileChan, v) \in Int
      BY CountsAreNumbers
    <3>4. Pending(toFile', v) + Count(fileChan', v) = Pending(toFile, v) + Count(fileChan, v)
      BY <3>2, <3>3, <3>a
    <3> QED
      BY <1>1, <3>1, <3>4, CountsPrimed DEF OnGraphSide, OnFileSide
  <2> QED
    BY <2>1, <2>2
<1> QED
  BY <1>1, <1>3 DEF OnceOf

(* A point moves from a channel of the tee to what is recorded.            *)
LEMMA PointMoves ==
  ASSUME NEW c \in Seq(Values), c # <<>>, NEW m \in Seq(Values), NEW v
  PROVE  Count(Tail(c), v) + Count(Append(m, Head(c)), v) = Count(c, v) + Count(m, v)
<1>1. /\ Count(Tail(c), v) \in Nat /\ Count(c, v) \in Nat /\ Count(m, v) \in Nat
      /\ Head(c) \in Values
  <2>1. Tail(c) \in Seq(Values) /\ Head(c) \in Values
    OBVIOUS
  <2> QED
    BY <2>1, PlacesAreFinite
<1>2. Count(c, v) = IF Head(c) = v THEN Count(Tail(c), v) + 1 ELSE Count(Tail(c), v)
  BY CountOfTail
<1>3. Count(Append(m, Head(c)), v) = IF Head(c) = v THEN Count(m, v) + 1 ELSE Count(m, v)
  BY <1>1, CountOfAppend
<1> QED
  BY <1>1, <1>2, <1>3

(* The sink adds a point to the graph, or the writer to its data.          *)
LEMMA PointKeepsOnce ==
  ASSUME TypeParts, NEW v \in Results, OnceOf(v), SinkTake \/ WriterTake
  PROVE  OnceOf(v)'
<1>1. UNCHANGED <<produced, input, toGraph, toFile, file>>
  BY DEF SinkTake, WriterTake, engineVars, fileVars
<1>2. /\ graphChan \in Seq(Values) /\ fileChan \in Seq(Values)
      /\ graph \in Seq(Values) /\ memory \in Seq(Values)
  BY DEF TypeParts, ChanOf
<1>3. /\ OnGraphSide(v)' = Pending(toGraph, v) + Count(graphChan', v) + Count(graph', v)
      /\ OnFileSide(v)' = Pending(toFile, v) + Count(fileChan', v) + Count(memory', v)
      /\ Count(input, v)' = Count(input, v) /\ Count(file.points, v)' = Count(file.points, v)
  BY <1>1, CountsPrimed
<1>4. /\ Count(graphChan', v) + Count(graph', v) = Count(graphChan, v) + Count(graph, v)
      /\ Count(fileChan', v) + Count(memory', v) = Count(fileChan, v) + Count(memory, v)
  <2>1. CASE SinkTake
    BY <1>2, <2>1, PointMoves DEF SinkTake, fileVars
  <2>2. CASE WriterTake
    BY <1>2, <2>2, PointMoves DEF WriterTake, sinkVars
  <2> QED
    BY <2>1, <2>2
<1>5. /\ Count(graphChan', v) \in Nat /\ Count(graph', v) \in Nat
      /\ Count(fileChan', v) \in Nat /\ Count(memory', v) \in Nat
  <2>1. /\ graphChan' \in Seq(Values) /\ fileChan' \in Seq(Values)
        /\ graph' \in Seq(Values) /\ memory' \in Seq(Values)
    <3>1. TypeParts'
      BY TypeStep DEF Next, Writer
    <3> QED
      BY <3>1 DEF TypeParts, ChanOf
  <2> QED
    BY <2>1, PlacesAreFinite
<1>6. OnGraphSide(v)' = OnGraphSide(v) /\ OnFileSide(v)' = OnFileSide(v)
  <2>1. /\ Pending(toGraph, v) \in Int /\ Count(graphChan, v) \in Int /\ Count(graph, v) \in Int
        /\ Pending(toFile, v) \in Int /\ Count(fileChan, v) \in Int /\ Count(memory, v) \in Int
        /\ OnGraphSide(v) = Pending(toGraph, v) + Count(graphChan, v) + Count(graph, v)
        /\ OnFileSide(v) = Pending(toFile, v) + Count(fileChan, v) + Count(memory, v)
    BY CountsAreNumbers
  <2> QED
    BY <1>3, <1>4, <1>5, <2>1
<1> QED
  BY <1>1, <1>3, <1>6 DEF OnceOf

(* A process that is gone has nothing but its file, and the next one reads *)
(* it to the graph and to the writer alike.                                *)
LEMMA RestartKeepsOnce ==
  ASSUME TypeParts, NothingLeft, NEW v \in Results, OnceOf(v),
         ReportPanics \/ Exit \/ Crash \/ NextSession
  PROVE  OnceOf(v)'
<1>1. v \in Nat /\ produced \in Nat /\ produced' = produced /\ file' = file
  BY DEF TypeParts, Results, ReportPanics, Exit, Crash, Gone, NextSession, Reads, engineVars
<1>2. Count(file.points, v)' = Count(file.points, v)
  BY <1>1, CountsPrimed
<1>3. CASE ReportPanics \/ Exit \/ Crash
  <2>1. /\ input' = <<>> /\ toGraph' = {} /\ toFile' = {}
        /\ graphChan' = <<>> /\ fileChan' = <<>> /\ graph' = <<>> /\ memory' = <<>>
    BY <1>3 DEF ReportPanics, Exit, Crash, Gone
  <2>2. Pending(toGraph', v) = 0 /\ Pending(toFile', v) = 0
    BY <2>1 DEF Pending
  <2>3. Count(input, v)' = 0 /\ OnGraphSide(v)' = 0 /\ OnFileSide(v)' = 0
    BY <2>1, <2>2, CountOfEmpty, CountsPrimed
  <2>4. Count(file.points, v) <= 1 /\ (v > produced => Count(file.points, v) = 0)
    <3>1. Count(input, v) \in Nat /\ OnGraphSide(v) \in Nat /\ Count(file.points, v) \in Nat
      BY CountsAreNumbers
    <3> QED
      BY <3>1 DEF OnceOf
  <2> QED
    BY <1>1, <1>2, <2>3, <2>4 DEF OnceOf
<1>4. CASE NextSession
  <2>1. ~Alive
    BY <1>4 DEF NextSession, Reads, Alive
  <2>2. /\ input' = <<>> /\ toGraph' = {} /\ toFile' = {}
        /\ graphChan' = <<>> /\ fileChan' = <<>>
        /\ graph' = file.points /\ memory' = file.points
    BY <1>4, <2>1 DEF NextSession, Reads, NothingLeft, engineVars, teeVars
  <2>3. Pending(toGraph', v) = 0 /\ Pending(toFile', v) = 0
    BY <2>2 DEF Pending
  <2>4. /\ Count(input, v)' = 0
        /\ OnGraphSide(v)' = Count(file.points, v) /\ OnFileSide(v)' = Count(file.points, v)
    BY <2>2, <2>3, CountOfEmpty, CountsPrimed, CountsAreNumbers
  <2>5. /\ Count(file.points, v) <= 1 /\ (v > produced => Count(file.points, v) = 0)
        /\ Count(file.points, v) \in Nat
    <3>1. Count(input, v) \in Nat /\ OnGraphSide(v) \in Nat /\ Count(file.points, v) \in Nat
      BY CountsAreNumbers
    <3> QED
      BY <3>1 DEF OnceOf
  <2> QED
    BY <1>1, <1>2, <2>4, <2>5 DEF OnceOf
<1> QED
  BY <1>3, <1>4

(* A write puts in the file what the writer has, a failed one nothing new. *)
LEMMA WriteKeepsOnce ==
  ASSUME TypeParts, NEW v \in Results, OnceOf(v), WriteBegins \/ WriteEnds
  PROVE  OnceOf(v)'
<1>1. UNCHANGED <<produced, input, toGraph, toFile, graphChan, fileChan, graph, memory>>
  BY DEF WriteBegins, WriteEnds, engineVars, teeVars, sinkVars
<1>2. file'.points = IF WriteEnds THEN memory ELSE file.points
  BY FileFacts DEF WriteBegins, WriteEnds, TypeParts
<1>3. /\ OnGraphSide(v)' = OnGraphSide(v) /\ OnFileSide(v)' = OnFileSide(v)
      /\ Count(input, v)' = Count(input, v)
  BY <1>1, CountsPrimed, CountsAreNumbers
<1>4. Count(file.points, v)' = IF WriteEnds THEN Count(memory, v) ELSE Count(file.points, v)
  BY <1>2, CountsPrimed
<1>5. Count(memory, v) <= OnFileSide(v)
  BY CountsAreNumbers
<1> QED
  BY <1>1, <1>3, <1>4, <1>5, CountsAreNumbers DEF OnceOf

(* No step loses a result on one side only, or gives it twice.             *)
LEMMA OnceStep ==
  ASSUME TypeParts, NothingLeft, NEW v \in Results, OnceOf(v), [Next]_vars
  PROVE  OnceOf(v)'
<1>a. toGraph \subseteq Values /\ toFile \subseteq Values
  BY DEF TypeParts
<1>1. CASE \E w \in toGraph : SendLeft(w)
  <2>1. PICK w \in Values : w \in toGraph /\ SendLeft(w)
    BY <1>1, <1>a
  <2>2. (w \in toGraph /\ SendLeft(w)) \/ (w \in toFile /\ SendRight(w))
    BY <2>1
  <2> QED
    BY <2>2, SendKeepsOnce
<1>2. CASE \E w \in toFile : SendRight(w)
  <2>1. PICK w \in Values : w \in toFile /\ SendRight(w)
    BY <1>2, <1>a
  <2>2. (w \in toGraph /\ SendLeft(w)) \/ (w \in toFile /\ SendRight(w))
    BY <2>1
  <2> QED
    BY <2>2, SendKeepsOnce
<1>3. CASE TeeTakeZero
  <2>1. /\ UNCHANGED <<produced, input, graphChan, fileChan, graph, memory, file>>
        /\ toGraph' = toGraph \cup {Zero} /\ toFile' = toFile \cup {Zero}
    BY <1>3 DEF TeeTakeZero, Spawn, engineVars, sinkVars, fileVars
  <2>2. v # Zero
    BY DEF Results, Zero
  <2>3. Pending(toGraph', v) = Pending(toGraph, v) /\ Pending(toFile', v) = Pending(toFile, v)
    BY <2>1, <2>2 DEF Pending
  <2>4. /\ OnGraphSide(v)' = OnGraphSide(v) /\ OnFileSide(v)' = OnFileSide(v)
        /\ Count(input, v)' = Count(input, v) /\ Count(file.points, v)' = Count(file.points, v)
    BY <2>1, <2>3, CountsPrimed, CountsAreNumbers
  <2> QED
    BY <2>1, <2>4 DEF OnceOf
<1>4. CASE \/ CloseInput \/ TeeSeesDone \/ SinkSeesDone \/ WriterSeesDone
           \/ DiskError \/ ReportTaken \/ WaitEnds
           \/ Cancel \/ ToastsSeeDone \/ RunReturns \/ Finish
           \/ NextSessionFails \/ Over \/ UNCHANGED vars
  <2>1. /\ UNCHANGED <<produced, input, toGraph, toFile, graphChan, fileChan>>
        /\ UNCHANGED <<graph, memory, file>>
    BY <1>4 DEF CloseInput, TeeSeesDone, SinkSeesDone, WriterSeesDone, DiskError,
                ReportTaken, WaitEnds, Cancel, ToastsSeeDone, RunReturns, Finish, MainTo,
                NextSessionFails, Over, vars, engineVars, teeVars, sinkVars, fileVars
  <2>2. /\ OnGraphSide(v)' = OnGraphSide(v) /\ OnFileSide(v)' = OnFileSide(v)
        /\ Count(input, v)' = Count(input, v) /\ Count(file.points, v)' = Count(file.points, v)
    BY <2>1, CountsPrimed, CountsAreNumbers
  <2> QED
    BY <2>1, <2>2 DEF OnceOf
<1> QED
  BY <1>1, <1>2, <1>3, <1>4, ProduceKeepsOnce, TakeKeepsOnce, PointKeepsOnce,
     WriteKeepsOnce, RestartKeepsOnce DEF Next, Writer

(* The writer's data are read from the file, grow, and are written whole.  *)
LEMMA MemoryStep ==
  ASSUME TypeParts, MemoryExtendsFile, [Next]_vars PROVE MemoryExtendsFile'
<1> USE DEF MemoryExtendsFile
<1>1. /\ memory \in Seq(Values) /\ file.points \in Seq(Values)
  BY FileFacts DEF TypeParts
<1>2. CASE WriterTake
  <2>1. /\ memory' = Append(memory, Head(fileChan)) /\ file' = file /\ Alive
    BY <1>2 DEF WriterTake
  <2>2. /\ Len(memory') = Len(memory) + 1 /\ Len(memory) \in Nat /\ Len(file.points) \in Nat
        /\ \A i \in 1 .. Len(memory) : memory'[i] = memory[i]
    BY <1>1, <2>1
  <2> QED
    BY <2>1, <2>2
<1>3. CASE WriteBegins \/ WriteEnds
  <2>1. /\ memory' = memory /\ app' = app /\ Alive
        /\ file'.points = IF WriteEnds THEN memory ELSE file.points
    BY <1>3, FileFacts DEF WriteBegins, WriteEnds, TypeParts, appVars
  <2> QED
    BY <1>1, <2>1 DEF Alive
<1>4. CASE NextSession
  <2>1. memory' = file.points /\ file' = file
    BY <1>4 DEF NextSession, Reads
  <2> QED
    BY <1>1, <2>1
<1>5. CASE ReportPanics \/ Exit \/ Crash \/ NextSessionFails
  BY <1>5 DEF ReportPanics, Exit, Crash, Gone, NextSessionFails, Alive
<1>6. CASE \/ Produce \/ CloseInput \/ TeeTake \/ TeeTakeZero \/ TeeSeesDone
           \/ (\E w \in toGraph : SendLeft(w)) \/ (\E w \in toFile : SendRight(w))
           \/ SinkTake \/ SinkSeesDone \/ WriterSeesDone
           \/ DiskError \/ ReportTaken \/ WaitEnds
           \/ Cancel \/ ToastsSeeDone \/ RunReturns \/ Finish
           \/ Over \/ UNCHANGED vars
  <2>1. UNCHANGED <<memory, file>> /\ (Alive' => Alive)
    BY <1>6 DEF Produce, CloseInput, TeeTake, TeeTakeZero, TeeSeesDone, SendLeft, SendRight,
                SinkTake, SinkSeesDone, WriterSeesDone, DiskError,
                ReportTaken, WaitEnds, Cancel, ToastsSeeDone, RunReturns, Finish, MainTo,
                Over, vars, fileVars, appVars, Alive
  <2> QED
    BY <2>1
<1> QED
  BY <1>2, <1>3, <1>4, <1>5, <1>6 DEF Next, Writer

(* Nothing moves when the process is gone.                                 *)
LEMMA GoneStep == ASSUME NothingLeft, [Next]_vars PROVE NothingLeft'
<1> USE DEF NothingLeft
<1>1. CASE ReportPanics \/ Exit \/ Crash
  BY <1>1 DEF ReportPanics, Exit, Crash, Gone
<1>2. CASE NextSession
  BY <1>2 DEF NextSession, Reads, Alive
<1>3. CASE NextSessionFails \/ Over \/ UNCHANGED vars
  BY <1>3 DEF NextSessionFails, Over, vars, Alive, engineVars, teeVars, sinkVars,
              fileVars, appVars
<1>4. CASE \/ Produce \/ CloseInput \/ TeeTake \/ TeeTakeZero \/ TeeSeesDone
           \/ (\E w \in toGraph : SendLeft(w)) \/ (\E w \in toFile : SendRight(w))
           \/ SinkTake \/ SinkSeesDone \/ Writer \/ WriterSeesDone
           \/ Cancel \/ ToastsSeeDone \/ RunReturns \/ Finish
  <2>1. Alive'
    BY <1>4 DEF Produce, CloseInput, TeeTake, TeeTakeZero, TeeSeesDone, SendLeft, SendRight,
                SinkTake, SinkSeesDone, Writer, WriterTake, WriteBegins, WriteEnds,
                WriterSeesDone, DiskError, ReportTaken, WaitEnds, Cancel, ToastsSeeDone,
                RunReturns, Finish, MainTo, vars, appVars, Alive
  <2> QED
    BY <2>1
<1> QED
  BY <1>1, <1>2, <1>3, <1>4 DEF Next

-----------------------------------------------------------------------------
(* The invariant holds at the start and is kept by every step.             *)
LEMMA RecordingInit == ASSUME Init PROVE RecordingInv
<1>1. TypeParts
  BY TypeInit
<1>2. ASSUME NEW v \in Results PROVE OnceOf(v)
  <2>1. Pending(toGraph, v) = 0 /\ Pending(toFile, v) = 0
    BY DEF Init, Pending
  <2>2. /\ Count(input, v) = 0 /\ Count(graphChan, v) = 0 /\ Count(fileChan, v) = 0
        /\ Count(graph, v) = 0 /\ Count(memory, v) = 0 /\ Count(file.points, v) = 0
    BY CountOfEmpty DEF Init
  <2> QED
    BY <1>1, <2>1, <2>2, CountsAreNumbers DEF OnceOf
<1>3. MemoryExtendsFile /\ NothingLeft
  BY DEF Init, MemoryExtendsFile, NothingLeft
<1> QED
  BY <1>1, <1>2, <1>3 DEF RecordingInv

LEMMA RecordingStep == RecordingInv /\ [Next]_vars => RecordingInv'
<1> SUFFICES ASSUME RecordingInv, [Next]_vars PROVE RecordingInv'
  OBVIOUS
<1> USE DEF RecordingInv
<1>1. TypeParts'
  BY TypeStep
<1>2. \A v \in Results : OnceOf(v)'
  BY OnceStep
<1> QED
  BY <1>1, <1>2, MemoryStep, GoneStep

(* The graph and the file get the same results, each of them once, for any *)
(* order of the tee's goroutines, any number of sessions, crashes at any   *)
(* time and any failures of the disk (tee.go, writeToFile).                *)
THEOREM EachSideOnceHolds == Spec => []EachSideOnce
<1>1. RecordingInv => EachSideOnce
  BY DEF RecordingInv, OnceOf, EachSideOnce
<1> QED
  BY <1>1, RecordingInit, RecordingStep, PTL DEF Spec

(* Each write that reaches its end has in it, in its place, all that the   *)
(* last such one had, whatever was torn in between (writeToFile;           *)
(* duplicateData of the next session).                                     *)
THEOREM FileGrows == Spec => FileOnlyGrows
<1>1. RecordingInv /\ [Next]_vars
        => [SubSeq(file'.points, 1, Len(file.points)) = file.points]_vars
  <2> SUFFICES ASSUME RecordingInv, Next
               PROVE  SubSeq(file'.points, 1, Len(file.points)) = file.points
    OBVIOUS
  <2>1. memory \in Seq(Values) /\ file.points \in Seq(Values)
    BY FileFacts DEF RecordingInv, TypeParts
  <2>2. file'.points = file.points \/ WriteEnds
    BY FileFacts
       DEF Next, Writer, Produce, CloseInput, TeeTake, TeeTakeZero, TeeSeesDone, SendLeft,
           SendRight, SinkTake, SinkSeesDone, WriterTake, WriteBegins, WriterSeesDone,
           DiskError, ReportTaken, WaitEnds, Cancel, ToastsSeeDone, RunReturns, Finish,
           MainTo, ReportPanics, Exit, Crash, Gone, NextSession, Reads, NextSessionFails,
           Over, vars, fileVars, RecordingInv, TypeParts
  <2>3. CASE file'.points = file.points
    BY <2>1, <2>3
  <2>4. CASE WriteEnds
    <3>1. file'.points = memory /\ Alive
      BY <2>4 DEF WriteEnds
    <3>2. /\ Len(file.points) <= Len(memory)
          /\ \A i \in 1 .. Len(file.points) : memory[i] = file.points[i]
      BY <3>1 DEF RecordingInv, MemoryExtendsFile
    <3> DEFINE begin == SubSeq(memory, 1, Len(file.points))
    <3>3. /\ begin \in Seq(Values) /\ Len(begin) = Len(file.points)
          /\ \A i \in 1 .. Len(begin) : begin[i] = file.points[i]
      BY <2>1, <3>2
    <3>4. begin = file.points
      BY <2>1, <3>3, SeqEqual
    <3> QED
      BY <3>1, <3>4
  <2> QED
    BY <2>2, <2>3, <2>4
<1>2. RecordingInv /\ [Next]_vars => RecordingInv'
  BY RecordingStep
<1> QED
  BY <1>1, <1>2, RecordingInit, PTL DEF Spec, FileOnlyGrows
=============================================================================
