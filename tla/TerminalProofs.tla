---------------------------- MODULE TerminalProofs ----------------------------
(***************************************************************************)
(* The terminal is never left raw, the colour of the background is what    *)
(* the terminal said, and every key is handed out once and in order, for   *)
(* any size of the buffer, any answer and any number of keys.              *)
(***************************************************************************)
EXTENDS Terminal, SequenceTheorems, TLAPS

(* Only the start makes the terminal raw, and every way out of Run puts it *)
(* back before anything else, but for a panic that nobody meets.           *)
RawInv == app \notin {"Query", "Loaded", "Running", "Killed"} => ~raw

(* Once one of Run's ways out is taken, nothing makes the terminal raw     *)
(* again (terminal.go, t.cleanup).                                         *)
LEMMA RawStep == ASSUME RawInv, [Next]_vars PROVE RawInv'
<1> USE DEF RawInv, Cleanup
<1>1. CASE UserTypes \/ TerminalAnswers
  BY <1>1 DEF UserTypes, TerminalAnswers, Type, endVars
<1>2. CASE QueryStarts \/ QueryReads \/ QueryOverruns \/ QueryReadFails
  BY <1>2 DEF QueryStarts, QueryReads, QueryOverruns, QueryReadFails, QueryTo, endVars
<1>3. CASE Starting
  BY <1>3 DEF Starting, QueryIsWritten, QueryNotWritten, QueryAnswers, QueryFails,
              QueryTimesOut, StartRaw, Discovers, endVars
<1>4. CASE Reader \/ ReaderSeesDone \/ ReadFails
  BY <1>4 DEF Reader, ReaderGoesOn, ReaderReads, ReadThen, ReaderSeesDone, ReadFails, endVars
<1>5. CASE Listener
  <2>1. CASE ListenerTakes \/ ListenerSeesClose \/ ReadErrorPanics
    BY <2>1 DEF ListenerTakes, ListenerSeesClose, ListenerEnds, ReadErrorPanics,
                Crash, endVars
  <2>2. CASE HandCtrlC \/ HandListener \/ HandHelp \/ HandHelpPanics
    BY <2>2 DEF HandCtrlC, HandListener, HandHelp, HandHelpPanics, Hands, Crash
  <2>3. CASE Processed \/ Signal
    BY <2>3 DEF Processed, ProcessedThen, Signal, endVars
  <2> QED BY <1>5, <2>1, <2>2, <2>3 DEF Listener
<1>6. CASE ListenerSeesDone \/ SizePanics \/ HelpSeesDone \/ PanicIsRecovered
          \/ PanicIsNotRecovered
  BY <1>6 DEF ListenerSeesDone, ListenerEnds, SizePanics, Crash, HelpSeesDone,
              PanicIsRecovered, PanicIsNotRecovered
<1>7. CASE RunReturns \/ CloseHelp \/ Finish \/ Exit
  BY <1>7 DEF RunReturns, CloseHelp, Finish, Exit, MainTo
<1>8. CASE Over \/ UNCHANGED vars
  BY <1>8 DEF Over, vars, endVars
<1> QED BY <1>1, <1>2, <1>3, <1>4, <1>5, <1>6, <1>7, <1>8 DEF Next

(* The program does not end with the terminal raw, but by the panic of a   *)
(* goroutine that neither cleans up nor recovers (t.cleanup).              *)
THEOREM RawIsLeftHolds == Spec => []RawIsLeft
<1>1. Init => RawInv
  BY DEF Init, RawInv
<1>2. RawInv /\ [Next]_vars => RawInv'
  BY RawStep
<1>3. RawInv => RawIsLeft
  BY DEF RawInv, RawIsLeft
<1> QED BY <1>1, <1>2, <1>3, PTL DEF Spec

-----------------------------------------------------------------------------
(* What the query has read: the answer, or a key before its end.           *)
AnswerRead ==
  \A i \in 1 .. Needed : i \in swallowed /\ i <= Len(keys) /\ keys[i] = "answer"
KeyBefore ==
  \E i \in 1 .. Needed : i \in swallowed /\ i <= Len(keys) /\ keys[i] # "answer"

(* Until the first read nobody has taken a key.                            *)
NothingTaken == typed = [i \in 1 .. Len(keys) |-> i]

(* What the query stands for while its time runs, and what is left of it.  *)
ColourInv ==
  /\ keys \in Seq(Keys)
  /\ query \in {"Asking", "Start", "First"} => room = QueryBuffer
  /\ app \in {"Query", "Loaded"} => reader = "Off"
  /\ app = "Query" =>
       /\ background = "nothing"
       /\ query \in {"Asking", "Start", "First"} => NothingTaken
       /\ query = "Sending" => AnswerRead
       /\ query = "Closed" => KeyBefore
  /\ background = "terminal's" => AnswerRead
  /\ background = "terminal's" => query = "Closed"
  /\ background = "zero" => query = "Failed" \/ (query = "Closed" /\ KeyBefore)

(* A key more takes nothing from what was read.                            *)
LEMMA TypeKeepsColour ==
  ASSUME ColourInv, NEW k \in Keys, Type(k) PROVE ColourInv'
<1> USE DEF ColourInv, Type, endVars, listenerVars
<1>1. /\ keys' \in Seq(Keys) /\ Len(keys') = Len(keys) + 1
      /\ \A i \in 1 .. Len(keys) : keys'[i] = keys[i]
  OBVIOUS
<1>2. AnswerRead => AnswerRead'
  <2> SUFFICES ASSUME AnswerRead, NEW i \in 1 .. Needed
               PROVE  i \in swallowed /\ i <= Len(keys') /\ keys'[i] = "answer"
    BY DEF AnswerRead
  <2>1. i \in 1 .. Len(keys) /\ keys[i] = "answer" /\ i \in swallowed
    BY TerminalAssumption DEF AnswerRead
  <2> QED BY <1>1, <2>1
<1>3. KeyBefore => KeyBefore'
  <2> SUFFICES ASSUME KeyBefore PROVE KeyBefore'
    OBVIOUS
  <2>1. PICK i \in 1 .. Needed : i \in swallowed /\ i <= Len(keys) /\ keys[i] # "answer"
    BY DEF KeyBefore
  <2>2. i \in 1 .. Len(keys)
    BY <2>1, TerminalAssumption
  <2> QED BY <1>1, <2>1, <2>2 DEF KeyBefore
<1>4. NothingTaken => NothingTaken'
  <2> SUFFICES ASSUME NothingTaken PROVE NothingTaken'
    OBVIOUS
  <2>1. typed \in Seq(Nat) /\ Len(typed) = Len(keys) /\ typed' = Append(typed, Len(keys) + 1)
    BY <1>1 DEF NothingTaken
  <2>2. /\ Len(typed') = Len(keys') /\ typed' \in Seq(Nat)
        /\ \A i \in 1 .. Len(keys') : typed'[i] = i
    BY <1>1, <2>1 DEF NothingTaken
  <2>3. typed' = [i \in 1 .. Len(typed') |-> typed'[i]]
    BY <2>2
  <2> QED BY <2>2, <2>3 DEF NothingTaken
<1> QED BY <1>1, <1>2, <1>3, <1>4

(* A first read in time is of the first of all that was typed: what it     *)
(* makes of it is what the query stands for.                               *)
LEMMA ReadsKeepColour == ASSUME ColourInv, QueryReads PROVE ColourInv'
<1> USE DEF QueryReads, QueryRead, QueryTo, endVars, listenerVars
<1>1. /\ UNCHANGED <<keys, app, background, reader>> /\ query \in {"First", "Later"}
      /\ swallowed \subseteq swallowed'
      /\ query' \in {"Later", "Sending", "Closed"}
  BY DEF Parsed, WaitsForMore
<1>2. (AnswerRead => AnswerRead') /\ (KeyBefore => KeyBefore')
  BY <1>1 DEF AnswerRead, KeyBefore
<1>3. background \notin {"terminal's", "zero"}
  BY <1>1 DEF ColourInv
<1>4. CASE app # "Query"
  BY <1>1, <1>2, <1>3, <1>4 DEF ColourInv
<1>5. CASE app = "Query" /\ query = "Later"
  BY <1>1, <1>2, <1>3, <1>5 DEF ColourInv, WaitsForMore, InTime
<1>6. CASE app = "Query" /\ query = "First"
  <2> DEFINE n == QueryTakes
             chunk == SubSeq(typed, 1, n)
  <2>1. /\ NothingTaken /\ query' = Parsed(chunk) /\ keys \in Seq(Keys)
        /\ room = QueryBuffer /\ swallowed' = swallowed \cup Range(chunk)
    BY <1>6 DEF ColourInv
  <2>2. Len(typed) = Len(keys) /\ typed \in Seq(Nat) /\ \A i \in 1 .. Len(keys) : typed[i] = i
    BY <2>1 DEF NothingTaken
  <2>3. n \in Nat /\ n <= Len(typed) /\ (n < Needed => n = Len(typed))
    BY <2>1, <2>2, TerminalAssumption DEF QueryTakes
  <2>4. Len(chunk) = n /\ \A i \in 1 .. n : chunk[i] = i /\ i \in 1 .. Len(keys)
    BY <2>2, <2>3
  <2> HIDE DEF chunk, n
  <2>5. \A i \in 1 .. n : i \in swallowed'
    <3>1. Range(chunk) = {chunk[i] : i \in 1 .. n}
      BY <2>4 DEF Range
    <3> QED
      BY <2>1, <2>4, <3>1
  <2>6. WaitsForMore("Later") = "Later"
    BY <1>6 DEF WaitsForMore, InTime
  <2>7. ASSUME query' = "Sending" PROVE AnswerRead'
    <3>1. /\ \A i \in 1 .. Needed : i <= Len(chunk) => keys[chunk[i]] = "answer"
          /\ Len(chunk) >= Needed
      BY <2>1, <2>6, <2>7 DEF Parsed
    <3> SUFFICES ASSUME NEW i \in 1 .. Needed
                 PROVE  i \in swallowed' /\ i <= Len(keys) /\ keys[i] = "answer"
      BY <1>1 DEF AnswerRead
    <3>2. i \in 1 .. n
      BY <2>3, <2>4, <3>1, TerminalAssumption
    <3> QED BY <2>4, <2>5, <3>1, <3>2
  <2>8. ASSUME query' = "Closed" PROVE KeyBefore'
    <3>1. PICK i \in 1 .. Needed : i <= Len(chunk) /\ keys[chunk[i]] # "answer"
      BY <2>1, <2>6, <2>8 DEF Parsed
    <3>2. i \in 1 .. n
      BY <2>3, <2>4, <3>1, TerminalAssumption
    <3> QED BY <1>1, <2>4, <2>5, <3>1, <3>2 DEF KeyBefore
  <2> QED BY <1>1, <1>2, <1>3, <1>6, <2>7, <2>8 DEF ColourInv
<1> QED BY <1>1, <1>4, <1>5, <1>6

(* A read behind the end of the buffer, or one that fails, stands for      *)
(* nothing any more.                                                       *)
LEMMA FailuresKeepColour ==
  ASSUME ColourInv, QueryOverruns \/ QueryReadFails PROVE ColourInv'
<1>1. /\ query \in {"First", "Later"} /\ query' \in {query, "Failed"}
      /\ query' = "Failed" \/ app' = "Killed"
      /\ UNCHANGED <<keys, background, reader>> /\ swallowed \subseteq swallowed'
      /\ query' = "First" => room' = room
      /\ app' \in {app, "Killed"}
  BY DEF QueryOverruns, QueryReadFails, QueryRead, QueryTo, endVars, listenerVars
<1> QED
  BY <1>1 DEF ColourInv, AnswerRead, KeyBefore

(* The main goroutine takes what the query stands for.                     *)
LEMMA StartingKeepsColour == ASSUME ColourInv, Starting PROVE ColourInv'
<1> USE DEF ColourInv, AnswerRead, KeyBefore, NothingTaken
<1>1. CASE QueryIsWritten
  BY <1>1 DEF QueryIsWritten, endVars, listenerVars
<1>2. CASE QueryNotWritten
  BY <1>2 DEF QueryNotWritten, Discovers
<1>3. CASE QueryAnswers
  BY <1>3 DEF QueryAnswers, Discovers
<1>4. CASE QueryFails
  BY <1>4 DEF QueryFails, Discovers
<1>5. CASE QueryTimesOut
  BY <1>5 DEF QueryTimesOut, Discovers
<1>6. CASE StartRaw
  BY <1>6 DEF StartRaw, inputVars
<1> QED BY <1>1, <1>2, <1>3, <1>4, <1>5, <1>6 DEF Starting

(* The goroutines of the listening begin when the query is over, and take  *)
(* nothing that it has read.                                               *)
LEMMA ListeningKeepsColour ==
  ASSUME ColourInv,
         \/ Reader \/ ReaderSeesDone \/ ReadFails
         \/ Listener \/ ListenerSeesDone \/ SizePanics
         \/ HelpSeesDone \/ PanicIsRecovered \/ PanicIsNotRecovered
         \/ RunReturns \/ CloseHelp \/ Finish \/ Exit \/ Over \/ UNCHANGED vars
  PROVE  ColourInv'
<1> USE DEF Cleanup, endVars, listenerVars, inputVars
<1>1. UNCHANGED <<keys, query, swallowed, room, background>>
  <2>1. CASE Reader \/ ReaderSeesDone \/ ReadFails
    BY <2>1 DEF Reader, ReaderGoesOn, ReaderReads, ReadThen, ReaderSeesDone, ReadFails
  <2>2. CASE Listener
    BY <2>2 DEF Listener, ListenerTakes, ListenerSeesClose, ListenerEnds, ReadErrorPanics,
                Crash, HandCtrlC, HandListener, HandHelp, HandHelpPanics, Hands,
                Processed, ProcessedThen, Signal
  <2>3. CASE ListenerSeesDone \/ SizePanics \/ HelpSeesDone \/ PanicIsRecovered
          \/ PanicIsNotRecovered
    BY <2>3 DEF ListenerSeesDone, ListenerEnds, SizePanics, Crash, HelpSeesDone,
                PanicIsRecovered, PanicIsNotRecovered
  <2>4. CASE RunReturns \/ CloseHelp \/ Finish \/ Exit \/ Over \/ UNCHANGED vars
    BY <2>4 DEF RunReturns, CloseHelp, Finish, Exit, MainTo, Over, vars
  <2> QED BY <2>1, <2>2, <2>3, <2>4
<1>2. /\ app' \in {"Query", "Loaded"} => app' = app
      /\ app' \in {"Query", "Loaded"} /\ reader = "Off" => UNCHANGED <<reader, typed>>
  <2>1. CASE Reader \/ ReaderSeesDone \/ ReadFails
    BY <2>1 DEF Reader, ReaderGoesOn, ReaderReads, ReadThen, ReaderSeesDone, ReadFails
  <2>2. CASE Listener
    BY <2>2 DEF Listener, ListenerTakes, ListenerSeesClose, ListenerEnds, ReadErrorPanics,
                Crash, HandCtrlC, HandListener, HandHelp, HandHelpPanics, Hands,
                Processed, ProcessedThen, Signal
  <2>3. CASE ListenerSeesDone \/ SizePanics \/ HelpSeesDone \/ PanicIsRecovered
          \/ PanicIsNotRecovered
    BY <2>3 DEF ListenerSeesDone, ListenerEnds, SizePanics, Crash, HelpSeesDone,
                PanicIsRecovered, PanicIsNotRecovered
  <2>4. CASE RunReturns \/ CloseHelp \/ Finish \/ Exit \/ Over \/ UNCHANGED vars
    BY <2>4 DEF RunReturns, CloseHelp, Finish, Exit, MainTo, Over, vars
  <2> QED BY <2>1, <2>2, <2>3, <2>4
<1> QED BY <1>1, <1>2 DEF ColourInv, AnswerRead, KeyBefore, NothingTaken

(* A colour taken for the terminal's is the whole answer, in time and      *)
(* before any key, and a zero one is that of a key before its end or of a  *)
(* read that failed (tryGetBackgroundColour).                              *)
THEOREM ColourIsSoundHolds == Spec => []ColourIsSound
<1>1. Init => ColourInv
  BY DEF Init, ColourInv, NothingTaken
<1>2. ColourInv /\ [Next]_vars => ColourInv'
  <2> SUFFICES ASSUME ColourInv, [Next]_vars PROVE ColourInv'
    OBVIOUS
  <2>1. CASE UserTypes \/ TerminalAnswers
    BY <2>1, TypeKeepsColour DEF UserTypes, TerminalAnswers, Keys
  <2>2. CASE QueryStarts
    BY <2>2 DEF QueryStarts, QueryTo, ColourInv, AnswerRead, KeyBefore, NothingTaken,
                WaitsForMore, InTime, endVars
  <2> QED BY <2>1, <2>2, ReadsKeepColour, FailuresKeepColour,
     StartingKeepsColour, ListeningKeepsColour DEF Next
<1>3. ColourInv => ColourIsSound
  BY DEF ColourInv, ColourIsSound, WholeAnswer, AnswerRead, KeyBefore
<1> QED BY <1>1, <1>2, <1>3, PTL DEF Spec

-----------------------------------------------------------------------------
(* What a result of the reader is.                                         *)
Result == [n: 0 .. BufferSize, err: BOOLEAN]

(* The two goroutines of beingListening and their buffer: a result is in   *)
(* the channel only while the reader waits and the listener may take it,   *)
(* so the buffer is not written or cleared under it; what has been heard   *)
(* is handed out before anything else is heard.                            *)
HandOver ==
  /\ listener = "Off" => reader = "Off"
  /\ app \in {"Query", "Loaded"} => reader = "Off" /\ listener = "Off"
  /\ results # <<>> => reader = "Wait" /\ listener \in {"Select", "Returned"}
  /\ listener \in {"Hand", "Signal"} => reader = "Wait"
  /\ heard # <<>> => listener = "Hand"
  /\ InBuffer \in Seq(Numbers)

(* The sequence is of the keys up to n that are not taken, in their order. *)
InOrder(all, n, taken) ==
  /\ Range(all) = (1 .. n) \ taken
  /\ \A i, j \in 1 .. Len(all) : i < j => all[i] < all[j]

Known == handed \o heard \o InBuffer \o typed

(* The inductive invariant: KeysHandedOnce, for any two keys and not only  *)
(* for neighbours, and what keeps the buffer the reader's or listener's.   *)
KeysInv ==
  /\ TypeOK /\ HandOver
  /\ swallowed \subseteq 1 .. Len(keys)
  /\ InOrder(Known, Len(keys), swallowed)

(* TypeOK, conjunct by conjunct.                                           *)
LEMMA Types ==
  ASSUME TypeOK
  PROVE  /\ keys \in Seq(Keys) /\ Len(keys) \in 0 .. MaxKeys
         /\ typed \in Seq(Numbers) /\ heard \in Seq(Numbers) /\ handed \in Seq(Numbers)
         /\ results \in Seq(Result) /\ Len(results) \in {0, 1}
         /\ Numbers \subseteq Nat /\ MaxKeys \in Nat /\ BufferSize \in Nat \ {0}
<1>1. Numbers \subseteq Nat /\ MaxKeys \in Nat /\ BufferSize \in Nat \ {0}
  BY TerminalAssumption DEF Numbers
<1>2. typed \in Seq(Numbers) /\ heard \in Seq(Numbers) /\ handed \in Seq(Numbers)
  BY DEF TypeOK
<1>3. keys \in Seq(Keys) /\ Len(keys) \in 0 .. MaxKeys
  BY <1>1 DEF TypeOK
<1>4. results \in Seq(Result) /\ Len(results) <= 1
  BY DEF TypeOK, Result
<1>5. Len(results) \in {0, 1}
  <2> HIDE DEF Result
  <2> QED
    BY <1>4
<1> QED
  BY <1>1, <1>2, <1>3, <1>4, <1>5

-----------------------------------------------------------------------------
(* The order of keys                                                       *)

(* A new key comes after all the others.                                   *)
LEMMA OrderOfAppend ==
  ASSUME NEW s \in Seq(Nat), NEW n \in Nat, NEW taken, taken \subseteq 1 .. n,
         InOrder(s, n, taken)
  PROVE  InOrder(Append(s, n + 1), n + 1, taken)
<1> DEFINE t == Append(s, n + 1)
<1>1. t \in Seq(Nat) /\ Len(t) = Len(s) + 1 /\ t[Len(s) + 1] = n + 1
      /\ \A i \in 1 .. Len(s) : t[i] = s[i]
  BY AppendProperties
<1>2. \A i \in 1 .. Len(s) : s[i] \in 1 .. n
  BY DEF InOrder, Range
<1>3. \A i, j \in 1 .. Len(t) : i < j => t[i] < t[j]
  <2> SUFFICES ASSUME NEW i \in 1 .. Len(t), NEW j \in 1 .. Len(t), i < j
               PROVE  t[i] < t[j]
    OBVIOUS
  <2>1. i \in 1 .. Len(s) /\ t[i] = s[i]
    BY <1>1
  <2>2. CASE j \in 1 .. Len(s)
    BY <1>1, <2>1, <2>2 DEF InOrder
  <2>3. CASE j = Len(s) + 1
    BY <1>1, <1>2, <2>1, <2>3
  <2> QED
    BY <1>1, <2>2, <2>3
<1>4. Range(t) = Range(s) \cup {n + 1}
  <2>1. Range(s) = {s[i] : i \in 1 .. Len(s)} /\ Range(t) = {t[i] : i \in 1 .. Len(t)}
    BY <1>1, RangeEquality
  <2> HIDE DEF t
  <2>2. 1 .. Len(t) = (1 .. Len(s)) \cup {Len(s) + 1}
    BY <1>1
  <2> QED
    BY <1>1, <2>1, <2>2
<1>5. Range(t) = (1 .. n + 1) \ taken
  <2>1. 1 .. n + 1 = (1 .. n) \cup {n + 1} /\ n + 1 \notin taken
    OBVIOUS
  <2> HIDE DEF t
  <2> QED
    BY <1>4, <2>1 DEF InOrder
<1> QED
  BY <1>3, <1>5 DEF InOrder

(* Of keys in order some neighbours are taken out.                         *)
LEMMA OrderOfRest ==
  ASSUME NEW s \in Seq(Nat), NEW p \in Seq(Nat), NEW t \in Seq(Nat), NEW n \in Nat,
         NEW taken, InOrder(s \o (p \o t), n, taken)
  PROVE  InOrder(s \o t, n, taken \cup Range(p)) /\ Range(p) \subseteq 1 .. n
<1> DEFINE pt == p \o t
           a == s \o pt
           b == s \o t
<1>1. /\ Len(s) \in Nat /\ Len(p) \in Nat /\ Len(t) \in Nat
      /\ pt \in Seq(Nat) /\ Len(pt) = Len(p) + Len(t)
      /\ \A i \in 1 .. Len(p) : pt[i] = p[i]
      /\ \A i \in 1 .. Len(t) : pt[Len(p) + i] = t[i]
  BY ConcatProperties
<1>2. /\ b \in Seq(Nat) /\ Len(b) = Len(s) + Len(t)
      /\ \A i \in 1 .. Len(s) : b[i] = s[i]
      /\ \A i \in 1 .. Len(t) : b[Len(s) + i] = t[i]
  BY <1>1, ConcatProperties
<1>3. Range(p) = {p[i] : i \in 1 .. Len(p)} /\ Range(b) = {b[i] : i \in 1 .. Len(b)}
  <2> HIDE DEF b
  <2> QED
    BY <1>2, RangeEquality
<1>4. Range(b) = Range(s) \cup Range(t) /\ Range(pt) = Range(p) \cup Range(t)
  BY RangeConcatenation
<1> HIDE DEF pt
<1>5. /\ a \in Seq(Nat) /\ Len(a) = Len(s) + Len(pt)
      /\ \A i \in 1 .. Len(s) : a[i] = s[i]
      /\ \A i \in 1 .. Len(pt) : a[Len(s) + i] = pt[i]
  <2>1. /\ a \in Seq(Nat) /\ Len(a) = Len(s) + Len(pt)
        /\ \A i \in 1 .. Len(s) + Len(pt) :
             a[i] = IF i <= Len(s) THEN s[i] ELSE pt[i - Len(s)]
    <3>1. s \in Seq(Nat) /\ pt \in Seq(Nat)
      BY <1>1
    <3> QED
      BY <3>1, ConcatProperties, Zenon
  <2> HIDE DEF a
  <2>2. ASSUME NEW i \in 1 .. Len(pt) PROVE a[Len(s) + i] = pt[i]
    <3>1. /\ Len(s) + i \in 1 .. Len(s) + Len(pt) /\ ~(Len(s) + i <= Len(s))
          /\ (Len(s) + i) - Len(s) = i
      BY <1>1, <2>1
    <3> QED
      BY <2>1, <3>1
  <2> QED
    BY <1>1, <2>1, <2>2
<1>6. Range(a) = Range(s) \cup Range(pt)
  BY <1>1, RangeConcatenation
<1>7. /\ \A i, j \in 1 .. Len(a) : i < j => a[i] < a[j]
      /\ Range(a) = (1 .. n) \ taken
  BY DEF InOrder, pt
<1> HIDE DEF a, b
<1>8. ASSUME NEW i \in 1 .. Len(p)
      PROVE  Len(s) + i \in 1 .. Len(a) /\ a[Len(s) + i] = p[i]
  <2>1. i \in 1 .. Len(pt)
    BY <1>1, <1>8
  <2>2. Len(s) + i \in 1 .. Len(a)
    BY <1>1, <1>5, <2>1
  <2> QED
    BY <1>1, <1>5, <2>1, <2>2
(* Where a key of the rest was before.                                     *)
<1> DEFINE At(i) == IF i <= Len(s) THEN i ELSE i + Len(p)
<1>9. ASSUME NEW i \in 1 .. Len(b)
      PROVE  At(i) \in 1 .. Len(a) /\ b[i] = a[At(i)]
  <2>1. CASE i <= Len(s)
    <3>1. i \in 1 .. Len(s) /\ i \in 1 .. Len(a) /\ At(i) = i
      BY <1>1, <1>2, <1>5, <2>1
    <3> QED
      BY <1>2, <1>5, <3>1
  <2>2. CASE i > Len(s)
    <3> DEFINE k == i - Len(s)
    <3>1. k \in 1 .. Len(t) /\ Len(s) + k = i /\ Len(p) + k \in 1 .. Len(pt)
          /\ Len(s) + (Len(p) + k) = i + Len(p)
      BY <1>1, <1>2, <2>2
    <3> HIDE DEF k
    <3>2. b[Len(s) + k] = t[k]
      BY <1>2, <3>1
    <3>3. pt[Len(p) + k] = t[k]
      BY <1>1, <3>1
    <3>4. a[Len(s) + (Len(p) + k)] = pt[Len(p) + k]
      BY <1>5, <3>1
    <3>5. At(i) = i + Len(p)
      BY <1>2, <2>2
    <3>6. i + Len(p) \in 1 .. Len(a)
      BY <1>1, <1>2, <1>5
    <3> QED
      BY <3>1, <3>2, <3>3, <3>4, <3>5, <3>6
  <2> QED
    BY <1>1, <1>2, <2>1, <2>2
<1>10. \A i, j \in 1 .. Len(b) : i < j => At(i) < At(j)
  BY <1>1, <1>2
<1>11. \A i \in 1 .. Len(b) : At(i) \in Nat
  BY <1>1, <1>2
<1> HIDE DEF At
<1>12. ASSUME NEW i \in 1 .. Len(b), NEW j \in 1 .. Len(b), i < j PROVE b[i] < b[j]
  BY <1>7, <1>9, <1>10, <1>12
<1>13. Range(b) \cap Range(p) = {}
  <2> SUFFICES ASSUME NEW i \in 1 .. Len(b), NEW j \in 1 .. Len(p), b[i] = p[j]
               PROVE  FALSE
    BY <1>3
  <2> DEFINE k == Len(s) + j
             l == At(i)
  <2>1. l \in 1 .. Len(a) /\ b[i] = a[l]
    BY <1>9
  <2>2. k \in 1 .. Len(a) /\ a[k] = p[j]
    BY <1>8
  <2>3. l # k
    <3>1. i <= Len(s) => At(i) = i
      BY DEF At
    <3>2. ~(i <= Len(s)) => At(i) = i + Len(p)
      BY DEF At
    <3>3. i \in Nat /\ j \in Nat \ {0} /\ j <= Len(p)
      BY <1>1, <1>2
    <3> QED
      BY <1>1, <3>1, <3>2, <3>3
  <2> HIDE DEF k, l
  <2>4. l < k \/ k < l
    BY <1>1, <1>5, <2>1, <2>2, <2>3
  <2>5. a[l] \in Nat /\ a[k] \in Nat
    BY <1>5, <2>1, <2>2
  <2>6. a[l] < a[k] \/ a[k] < a[l]
    BY <1>7, <2>1, <2>2, <2>4
  <2>7. a[l] = a[k]
    BY <2>1, <2>2
  <2> HIDE DEF a
  <2> QED
    BY <2>5, <2>6, <2>7
<1>14. Range(b) = (1 .. n) \ (taken \cup Range(p)) /\ Range(p) \subseteq 1 .. n
  BY <1>4, <1>6, <1>7, <1>13
<1> QED
  BY <1>12, <1>14 DEF InOrder, b

-----------------------------------------------------------------------------
(* The sequences a key is in, one after the other                          *)

LEMMA FourInOne ==
  ASSUME NEW a \in Seq(Nat), NEW b \in Seq(Nat), NEW c \in Seq(Nat), NEW d \in Seq(Nat)
  PROVE  /\ a \o b \o c \o d \in Seq(Nat)
         /\ a \o b \o c \in Seq(Nat) /\ a \o b \in Seq(Nat)
<1>1. a \o b \in Seq(Nat)
  BY ConcatProperties
<1>2. a \o b \o c \in Seq(Nat)
  BY <1>1, ConcatProperties
<1> QED
  BY <1>1, <1>2, ConcatProperties

(* A key that is handed out moves from the front of what was heard to the  *)
(* end of what was handed.                                                 *)
LEMMA HandingMoves ==
  ASSUME NEW a \in Seq(Nat), NEW b \in Seq(Nat), b # <<>>
  PROVE  Append(a, Head(b)) \o Tail(b) = a \o b
<1>1. /\ Head(b) \in Nat /\ Tail(b) \in Seq(Nat) /\ Len(Tail(b)) = Len(b) - 1
      /\ \A i \in 1 .. Len(Tail(b)) : Tail(b)[i] = b[i + 1]
      /\ Len(b) \in Nat \ {0} /\ Head(b) = b[1] /\ Len(a) \in Nat
  BY HeadTailProperties, EmptySeq
<1> DEFINE h == Append(a, Head(b))
           t == Tail(b)
<1>2. /\ h \in Seq(Nat) /\ Len(h) = Len(a) + 1 /\ h[Len(a) + 1] = b[1]
      /\ \A i \in 1 .. Len(a) : h[i] = a[i]
  BY <1>1, AppendProperties
<1>3. t \in Seq(Nat)
  BY <1>1
<1> HIDE DEF h
<1>4. /\ h \o t \in Seq(Nat) /\ Len(h \o t) = Len(h) + Len(t)
      /\ \A i \in 1 .. Len(h) + Len(t) :
           (h \o t)[i] = IF i <= Len(h) THEN h[i] ELSE t[i - Len(h)]
  BY <1>2, <1>3, ConcatProperties
<1>5. /\ a \o b \in Seq(Nat) /\ Len(a \o b) = Len(a) + Len(b)
      /\ \A i \in 1 .. Len(a) + Len(b) :
           (a \o b)[i] = IF i <= Len(a) THEN a[i] ELSE b[i - Len(a)]
  BY ConcatProperties
<1>6. Len(h \o t) = Len(a \o b)
  BY <1>1, <1>2, <1>4, <1>5
<1>7. ASSUME NEW i \in 1 .. Len(h \o t) PROVE (h \o t)[i] = (a \o b)[i]
  <2>0. i \in 1 .. Len(a) + Len(b) /\ i \in 1 .. Len(h) + Len(t)
    BY <1>4, <1>5, <1>6, <1>7
  <2>1. CASE i <= Len(a)
    BY <1>1, <1>2, <1>4, <1>5, <2>0, <2>1
  <2>2. CASE i = Len(a) + 1
    BY <1>1, <1>2, <1>4, <1>5, <2>0, <2>2
  <2>3. CASE i > Len(a) + 1
    <3>1. i - Len(h) \in 1 .. Len(t) /\ (i - Len(h)) + 1 = i - Len(a)
      BY <1>1, <1>2, <2>0, <2>3
    <3>2. t[i - Len(h)] = b[i - Len(a)]
      BY <1>1, <3>1
    <3> QED
      BY <1>1, <1>2, <1>4, <1>5, <2>0, <2>3, <3>2
  <2> QED
    BY <1>1, <2>0, <2>1, <2>2, <2>3
<1>8. h \o t = a \o b
  <2> HIDE DEF t
  <2>1. \A i \in 1 .. Len(h \o t) : (h \o t)[i] = (a \o b)[i]
    BY <1>7
  <2> QED
    BY <1>4, <1>5, <1>6, <2>1, SeqEqual
<1> QED
  BY <1>8 DEF h

-----------------------------------------------------------------------------
(* The types                                                               *)

(* TypeOK in two parts: where everybody is, and what is in the sequences.  *)
Places ==
  /\ query \in {"Off", "Asking", "Start", "First", "Later", "Sending", "Closed",
               "Failed"}
  /\ background \in {"nothing", "fallback", "zero", "terminal's"}
  /\ reader \in {"Off", "Check", "Read", "Wait", "Returned"}
  /\ listener \in {"Off", "Select", "Hand", "Signal", "Returned"}
  /\ help \in {"Running", "Returned"} /\ raw \in BOOLEAN /\ cancelled \in BOOLEAN
  /\ app \in {"Query", "Loaded", "Running", "Restored", "Closed", "Finished", "Exited",
             "Crashed", "Killed"}

Bytes == [1 .. BufferSize -> Numbers \cup {Cleared}]

Contents ==
  /\ keys \in Seq(Keys) /\ Len(keys) <= MaxKeys
  /\ typed \in Seq(Numbers) /\ heard \in Seq(Numbers) /\ handed \in Seq(Numbers)
  /\ swallowed \subseteq Numbers /\ room \in 0 .. QueryBuffer
  /\ buffer \in Bytes
  /\ results \in Seq(Result) /\ Len(results) <= 1

LEMMA TypeParts == TypeOK <=> Places /\ Contents
<1>1. Result = [n: 0 .. BufferSize, err: BOOLEAN]
  BY DEF Result
<1>2. (\A s \in {typed, heard, handed} : s \in Seq(Numbers))
        <=> typed \in Seq(Numbers) /\ heard \in Seq(Numbers) /\ handed \in Seq(Numbers)
  OBVIOUS
<1> QED
  BY <1>1, <1>2 DEF TypeOK, Places, Contents, Bytes

LEMMA TypePartsPrimed == TypeOK' <=> Places' /\ Contents'
BY TypeParts, PTL

(* The steps by which no key moves.                                        *)
Still == UNCHANGED <<keys, typed, swallowed, room, buffer, results, heard, handed>>

(* ... and those by which one does.                                        *)
Moving ==
  \/ \E k \in Keys : Type(k)
  \/ QueryReads \/ QueryOverruns \/ ReaderReads \/ ReadFails \/ ListenerTakes
  \/ HandCtrlC \/ HandListener \/ HandHelp
  \/ Processed

LEMMA PlacesStep == ASSUME Places, [Next]_vars PROVE Places'
<1> USE DEF Places, Cleanup, inputVars, listenerVars, endVars
<1>1. CASE UserTypes \/ TerminalAnswers
  BY <1>1 DEF UserTypes, TerminalAnswers, Type
<1>2. CASE QueryStarts \/ QueryReads \/ QueryOverruns \/ QueryReadFails
  BY <1>2 DEF QueryStarts, QueryReads, QueryOverruns, QueryReadFails, QueryRead, QueryTo,
              WaitsForMore, Parsed
<1>3. CASE Starting
  BY <1>3 DEF Starting, QueryIsWritten, QueryNotWritten, QueryAnswers, QueryFails,
              QueryTimesOut, StartRaw, Discovers
<1>4. CASE Reader \/ ReaderSeesDone \/ ReadFails
  BY <1>4 DEF Reader, ReaderGoesOn, ReaderReads, ReadThen, ReaderSeesDone, ReadFails
<1>5. CASE Listener
  <2>1. CASE ListenerTakes \/ ListenerSeesClose \/ ReadErrorPanics
    BY <2>1 DEF ListenerTakes, ListenerSeesClose, ListenerEnds, ReadErrorPanics, Crash
  <2>2. CASE HandCtrlC \/ HandListener \/ HandHelp \/ HandHelpPanics
    BY <2>2 DEF HandCtrlC, HandListener, HandHelp, HandHelpPanics, Hands, Crash
  <2>3. CASE Processed \/ Signal
    BY <2>3 DEF Processed, ProcessedThen, Signal
  <2> QED BY <1>5, <2>1, <2>2, <2>3 DEF Listener
<1>6. CASE ListenerSeesDone \/ SizePanics \/ HelpSeesDone \/ PanicIsRecovered
          \/ PanicIsNotRecovered
  BY <1>6 DEF ListenerSeesDone, ListenerEnds, SizePanics, Crash, HelpSeesDone,
              PanicIsRecovered, PanicIsNotRecovered
<1>7. CASE RunReturns \/ CloseHelp \/ Finish \/ Exit
  BY <1>7 DEF RunReturns, CloseHelp, Finish, Exit, MainTo
<1>8. CASE Over \/ UNCHANGED vars
  BY <1>8 DEF Over, vars
<1> QED BY <1>1, <1>2, <1>3, <1>4, <1>5, <1>6, <1>7, <1>8 DEF Next

(* No key moves but by a step of those named above, and the others leave   *)
(* the turns of the reader and the listener in order.                      *)
LEMMA StillOrMoving ==
  ASSUME Places, HandOver, [Next]_vars
  PROVE  Moving \/ (Still /\ HandOver')
<1> DEFINE turns == /\ listener = "Off" => reader = "Off"
                    /\ app \in {"Query", "Loaded"} => reader = "Off" /\ listener = "Off"
                    /\ results # <<>> => reader = "Wait" /\ listener \in {"Select", "Returned"}
                    /\ listener \in {"Hand", "Signal"} => reader = "Wait"
                    /\ heard # <<>> => listener = "Hand"
<1>1. ASSUME Still, turns' PROVE Still /\ HandOver'
  BY <1>1 DEF Still, HandOver, InBuffer
<1>2. turns
  BY DEF HandOver
<1> USE DEF Still, Cleanup, inputVars, listenerVars, endVars
<1>3. CASE UserTypes \/ TerminalAnswers
  BY <1>3 DEF UserTypes, TerminalAnswers, Moving, Keys
<1>4. CASE QueryStarts \/ QueryReadFails
  BY <1>1, <1>2, <1>4 DEF QueryStarts, QueryReadFails, QueryTo
<1>5. CASE Starting
  <2>1. CASE StartRaw
    BY <1>1, <1>2, <2>1 DEF StartRaw
  <2>2. CASE ~StartRaw
    BY <1>1, <1>2, <1>5, <2>2 DEF Starting, QueryIsWritten, QueryNotWritten, QueryAnswers,
                           QueryFails, QueryTimesOut, Discovers
  <2> QED BY <2>1, <2>2
<1>6. CASE ReaderGoesOn \/ ReaderSeesDone
  BY <1>1, <1>2, <1>6 DEF ReaderGoesOn, ReaderSeesDone
<1>7. CASE ListenerSeesClose \/ ReadErrorPanics \/ HandHelpPanics \/ Signal
  BY <1>1, <1>2, <1>7 DEF ListenerSeesClose, ListenerEnds, ReadErrorPanics, HandHelpPanics, Crash,
                    Signal
<1>8. CASE ListenerSeesDone \/ SizePanics \/ HelpSeesDone \/ PanicIsRecovered
          \/ PanicIsNotRecovered
  BY <1>1, <1>2, <1>8 DEF ListenerSeesDone, ListenerEnds, SizePanics, Crash, HelpSeesDone,
                    PanicIsRecovered, PanicIsNotRecovered
<1>9. CASE RunReturns \/ CloseHelp \/ Finish \/ Exit \/ Over \/ UNCHANGED vars
  BY <1>1, <1>2, <1>9 DEF RunReturns, CloseHelp, Finish, Exit, MainTo, Over, vars
<1>10. CASE Moving
  BY <1>10
<1> QED
  BY <1>3, <1>4, <1>5, <1>6, <1>7, <1>8, <1>9, <1>10
     DEF Next, Reader, Listener, Moving

-----------------------------------------------------------------------------
(* The steps by which a key moves                                          *)

LEMMA Sequences ==
  ASSUME KeysInv
  PROVE  /\ typed \in Seq(Nat) /\ heard \in Seq(Nat) /\ handed \in Seq(Nat)
         /\ InBuffer \in Seq(Nat)
         /\ handed \o heard \in Seq(Nat) /\ handed \o heard \o InBuffer \in Seq(Nat)
         /\ Known \in Seq(Nat)
         /\ Known = (handed \o heard \o InBuffer) \o typed
<1>1. Numbers \subseteq Nat
  BY TerminalAssumption DEF Numbers
<1>2. \A s \in Seq(Numbers) : s \in Seq(Nat)
  BY <1>1, SeqMonotonic
<1>3. typed \in Seq(Nat) /\ heard \in Seq(Nat) /\ handed \in Seq(Nat) /\ InBuffer \in Seq(Nat)
  BY <1>2, Types DEF KeysInv, HandOver
<1> QED
  BY <1>3, FourInOne DEF Known

(* While no result is in the channel nothing is in the buffer.             *)
LEMMA NothingInBuffer == ASSUME results = <<>> PROVE InBuffer = <<>>
BY DEF InBuffer

LEMMA TypeMoves ==
  ASSUME KeysInv, NEW k \in Keys, Type(k)
  PROVE  /\ Contents' /\ HandOver' /\ swallowed' \subseteq 1 .. Len(keys')
         /\ InOrder(Known', Len(keys'), swallowed')
<1> USE DEF Type, listenerVars, endVars
<1>1. /\ keys \in Seq(Keys) /\ Len(keys) \in 0 .. MaxKeys /\ MaxKeys \in Nat
      /\ typed \in Seq(Numbers)
  BY Types DEF KeysInv
<1>2. keys' \in Seq(Keys) /\ Len(keys') = Len(keys) + 1 /\ Len(keys') <= MaxKeys
  BY <1>1
<1>3. typed' = Append(typed, Len(keys) + 1) /\ Len(keys) + 1 \in Numbers
  BY <1>1, <1>2 DEF Numbers
<1>4. typed' \in Seq(Numbers)
  BY <1>1, <1>3
<1>5. Contents'
  BY <1>2, <1>4, TypeParts DEF Contents, KeysInv
<1>6. InBuffer' = InBuffer /\ HandOver'
  BY DEF InBuffer, HandOver, KeysInv
<1>7. swallowed' \subseteq 1 .. Len(keys) /\ swallowed' \subseteq 1 .. Len(keys')
  BY <1>1, <1>2 DEF KeysInv
<1> DEFINE front == handed \o heard \o InBuffer
<1>8. Known' = Append(Known, Len(keys) + 1)
  <2>1. Known' = front \o Append(typed, Len(keys) + 1)
    BY <1>3, <1>6 DEF Known
  <2>2. /\ front \in Seq(Nat) /\ typed \in Seq(Nat) /\ Known \in Seq(Nat)
        /\ Known = front \o typed /\ Len(keys) + 1 \in Nat
    BY <1>1, Sequences
  <2> HIDE DEF front
  <2> DEFINE e == Len(keys) + 1
  <2>3. Append(typed, e) = typed \o <<e>> /\ Append(Known, e) = Known \o <<e>>
    BY <2>2, AppendIsConcat
  <2>4. <<e>> \in Seq(Nat)
    BY <2>2
  <2>5. (front \o typed) \o <<e>> = front \o (typed \o <<e>>)
    BY <2>2, <2>4, ConcatAssociative
  <2> QED
    BY <2>1, <2>2, <2>3, <2>5
<1>9. InOrder(Known', Len(keys'), swallowed')
  <2>1. Known \in Seq(Nat) /\ Len(keys) \in Nat /\ swallowed \subseteq 1 .. Len(keys)
        /\ InOrder(Known, Len(keys), swallowed)
    BY <1>1, Sequences DEF KeysInv
  <2>2. InOrder(Append(Known, Len(keys) + 1), Len(keys) + 1, swallowed)
    BY <2>1, OrderOfAppend
  <2>3. swallowed' = swallowed
    OBVIOUS
  <2> QED
    BY <1>2, <1>8, <2>2, <2>3
<1> QED
  BY <1>5, <1>6, <1>7, <1>9

LEMMA QueryMoves ==
  ASSUME KeysInv, QueryReads \/ QueryOverruns
  PROVE  /\ Contents' /\ HandOver' /\ swallowed' \subseteq 1 .. Len(keys')
         /\ InOrder(Known', Len(keys'), swallowed')
<1> DEFINE n == QueryTakes
           p == SubSeq(typed, 1, n)
           q == SubSeq(typed, n + 1, Len(typed))
           front == handed \o heard \o InBuffer
<1>1. /\ typed' = q /\ keys' = keys /\ swallowed' = swallowed \cup Range(p)
      /\ UNCHANGED <<heard, handed, buffer, results, reader, listener>>
      /\ app' \in {app, "Killed"} /\ room' \in {0, n, room}
  BY DEF QueryReads, QueryOverruns, QueryRead, QueryTo, listenerVars, endVars
<1>2. /\ typed \in Seq(Numbers) /\ typed \in Seq(Nat) /\ Len(keys) \in Nat /\ Contents
      /\ front \in Seq(Nat) /\ Known = front \o typed
  <2>1. typed \in Seq(Numbers) /\ Len(keys) \in Nat /\ Contents
    BY Types, TypeParts DEF KeysInv
  <2> QED
    BY <2>1, Sequences
<1>3. n \in 0 .. Len(typed) /\ n \in 0 .. QueryBuffer /\ 0 \in 0 .. QueryBuffer
  BY <1>2, TerminalAssumption DEF QueryTakes, Contents
<1>4. p \in Seq(Numbers) /\ q \in Seq(Numbers)
  BY <1>2, <1>3
<1>5. p \in Seq(Nat) /\ q \in Seq(Nat)
  BY <1>2, <1>3
<1>6. p \o q = typed
  <2>1. 1 \in 1 .. Len(typed) + 1 /\ n \in 1 - 1 .. Len(typed) /\ Len(typed) \in n .. Len(typed)
    BY <1>2, <1>3
  <2>2. p \o q = SubSeq(typed, 1, Len(typed))
    BY <1>2, <2>1, ConcatAdjacentSubSeq
  <2> QED
    BY <1>2, <2>2, SubSeqFull
<1> HIDE DEF n, p, q
<1>7. InBuffer' = InBuffer /\ HandOver'
  BY <1>1 DEF InBuffer, HandOver, KeysInv
<1>8. Contents'
  <2>1. Range(p) \subseteq Numbers
    BY <1>4, RangeOfSeq
  <2> QED
    BY <1>1, <1>2, <1>3, <1>4, <2>1 DEF Contents
<1>9. Known' = front \o q
  BY <1>1, <1>7 DEF Known
<1> HIDE DEF front
<1>10. InOrder(front \o q, Len(keys), swallowed \cup Range(p)) /\ Range(p) \subseteq 1 .. Len(keys)
  <2>1. InOrder(front \o (p \o q), Len(keys), swallowed)
    BY <1>2, <1>6 DEF KeysInv
  <2> QED
    BY <1>2, <1>5, <2>1, OrderOfRest
<1> QED
  BY <1>1, <1>7, <1>8, <1>9, <1>10 DEF KeysInv

(* The other steps change neither the keys nor what is taken of them: it   *)
(* is enough that all of them together stay the same sequence.             *)
LEMMA KnownStays ==
  ASSUME KeysInv, Known' = Known, UNCHANGED <<keys, swallowed>>
  PROVE  swallowed' \subseteq 1 .. Len(keys') /\ InOrder(Known', Len(keys'), swallowed')
BY DEF KeysInv

LEMMA ReaderMoves ==
  ASSUME KeysInv, ReaderReads \/ ReadFails
  PROVE  /\ Contents' /\ HandOver' /\ swallowed' \subseteq 1 .. Len(keys')
         /\ InOrder(Known', Len(keys'), swallowed')
<1> USE DEF listenerVars, endVars, inputVars
<1>1. /\ reader = "Read" /\ reader' = "Wait" /\ UNCHANGED <<keys, swallowed, room, heard, handed, listener, app>>
  BY DEF ReaderReads, ReadThen, ReadFails
<1>2. /\ results = <<>> /\ heard = <<>> /\ listener \in {"Select", "Returned"}
      /\ app \notin {"Query", "Loaded"}
  BY <1>1, TypeParts DEF KeysInv, HandOver, Places
<1>3. /\ typed \in Seq(Numbers) /\ typed \in Seq(Nat) /\ handed \in Seq(Nat)
      /\ Len(typed) \in Nat /\ BufferSize \in Nat \ {0} /\ Contents /\ Numbers \subseteq Nat
  BY Types, Sequences, TypeParts DEF KeysInv
<1>4. InBuffer = <<>> /\ Known = handed \o typed
  <2>1. InBuffer = <<>>
    BY <1>2, NothingInBuffer
  <2>2. handed \o <<>> = handed
    BY <1>3, ConcatEmptySeq
  <2> QED
    BY <1>2, <2>1, <2>2 DEF Known
<1>5. ASSUME NEW r \in Result, results' = Append(results, r), typed' \in Seq(Numbers),
             buffer' \in Bytes,
             SubSeq(buffer', 1, r.n) \in Seq(Numbers),
             SubSeq(buffer', 1, r.n) \o typed' = typed
      PROVE  Contents' /\ HandOver' /\ Known' = Known
  <2>1. results' = <<r>>
    BY <1>2, <1>5
  <2>2. results' \in Seq(Result) /\ Len(results') = 1 /\ Head(results') = r /\ results' # <<>>
    <3> HIDE DEF Result
    <3> QED
      BY <1>5, <2>1
  <2>3. InBuffer' = SubSeq(buffer', 1, r.n)
    BY <2>2 DEF InBuffer
  <2>4. Contents'
    BY <1>1, <1>3, <1>5, <2>2 DEF Contents
  <2>5. HandOver'
    BY <1>1, <1>2, <1>5, <2>3 DEF HandOver
  <2>6. Known' = Known
    <3> DEFINE b == SubSeq(buffer', 1, r.n)
    <3>1. Known' = (handed \o <<>> \o b) \o typed'
      BY <1>1, <1>2, <2>3 DEF Known
    <3>2. b \in Seq(Nat) /\ typed' \in Seq(Nat)
      BY <1>3, <1>5, SeqMonotonic
    <3>3. b \o typed' = typed
      BY <1>5
    <3> HIDE DEF b
    <3>4. handed \o <<>> = handed
      BY <1>3, ConcatEmptySeq
    <3>5. (handed \o b) \o typed' = handed \o (b \o typed')
      BY <1>3, <3>2, ConcatAssociative
    <3> QED
      BY <1>4, <3>1, <3>3, <3>4, <3>5
  <2> QED
    BY <2>4, <2>5, <2>6
<1>6. CASE ReaderReads
  <2> DEFINE c == Chunk
             r == [n |-> c, err |-> FALSE]
             b == SubSeq(buffer', 1, c)
  <2>1. typed # <<>> /\ Len(typed) # 0
    BY <1>3, <1>6, EmptySeq DEF ReaderReads, ReadThen
  <2>2. c \in 1 .. BufferSize /\ c <= Len(typed) /\ c \in 1 .. Len(typed)
    BY <1>3, <2>1 DEF Chunk
  <2>3. /\ buffer' = [i \in 1 .. BufferSize |-> IF i <= c THEN typed[i] ELSE buffer[i]]
        /\ typed' = SubSeq(typed, c + 1, Len(typed))
        /\ results' = Append(results, r)
    BY <1>6 DEF ReaderReads, ReadThen
  <2> HIDE DEF c
  <2>4. r \in Result /\ r.n = c
    BY <2>2 DEF Result
  <2>5. buffer' \in Bytes
    <3>1. buffer \in Bytes /\ \A i \in 1 .. Len(typed) : typed[i] \in Numbers
      BY <1>3 DEF Contents
    <3> QED
      BY <1>3, <2>2, <2>3, <3>1 DEF Bytes
  <2>6. \A i \in 1 .. c : buffer'[i] = typed[i] /\ typed[i] \in Numbers
    BY <1>3, <2>2, <2>3
  <2>7. /\ b \in Seq(Numbers) /\ Len(b) = c /\ \A i \in 1 .. c : b[i] = typed[i]
    <3>1. /\ b \in Seq(Numbers) /\ Len(b) = (IF 1 <= c THEN c - 1 + 1 ELSE 0)
          /\ \A i \in 1 .. c - 1 + 1 : b[i] = buffer'[1 + i - 1]
      BY <2>2, <2>6, SubSeqProperties
    <3>2. c - 1 + 1 = c /\ 1 <= c /\ \A i \in 1 .. c : 1 + i - 1 = i
      BY <2>2
    <3> QED
      BY <2>6, <3>1, <3>2
  <2>8. b = SubSeq(typed, 1, c)
    <3> DEFINE p == SubSeq(typed, 1, c)
    <3>1. p \in Seq(Numbers) /\ Len(p) = c /\ \A i \in 1 .. c : p[i] = typed[i]
      BY <1>3, <2>2
    <3> HIDE DEF b, p
    <3>2. b = p
      BY <2>7, <3>1, SeqEqual
    <3> QED
      BY <3>2 DEF p
  <2>9. SubSeq(typed, 1, c) \o SubSeq(typed, c + 1, Len(typed)) = typed
    <3>1. /\ 1 \in 1 .. Len(typed) + 1 /\ c \in 1 - 1 .. Len(typed)
          /\ Len(typed) \in c .. Len(typed)
      BY <1>3, <2>2
    <3>2. SubSeq(typed, 1, c) \o SubSeq(typed, c + 1, Len(typed)) = SubSeq(typed, 1, Len(typed))
      BY <1>3, <3>1, ConcatAdjacentSubSeq
    <3> QED
      BY <1>3, <3>2, SubSeqFull
  <2>10. typed' \in Seq(Numbers)
    BY <1>3, <2>2, <2>3
  <2>11. Contents' /\ HandOver' /\ Known' = Known
    <3> HIDE DEF r
    <3> QED
      BY <1>5, <2>3, <2>4, <2>5, <2>7, <2>8, <2>9, <2>10
  <2> QED
    BY <1>1, <2>11, KnownStays
<1>7. CASE ReadFails
  <2> DEFINE r == [n |-> 0, err |-> TRUE]
  <2>1. results' = Append(results, r) /\ typed' = typed /\ buffer' = buffer
    BY <1>7 DEF ReadFails
  <2>2. r \in Result /\ r.n = 0
    BY <1>3 DEF Result
  <2> HIDE DEF r
  <2>3. SubSeq(buffer', 1, r.n) = <<>>
    BY <2>2, SubSeqEmpty
  <2>4. <<>> \o typed = typed /\ <<>> \in Seq(Numbers)
    BY <1>3, ConcatEmptySeq
  <2>5. typed' \in Seq(Numbers) /\ buffer' \in Bytes
    BY <1>3, <2>1 DEF Contents
  <2>6. Contents' /\ HandOver' /\ Known' = Known
    BY <1>5, <2>1, <2>2, <2>3, <2>4, <2>5
  <2> QED
    BY <1>1, <2>6, KnownStays
<1> QED
  BY <1>6, <1>7

LEMMA TakeMoves ==
  ASSUME KeysInv, ListenerTakes
  PROVE  /\ Contents' /\ HandOver' /\ swallowed' \subseteq 1 .. Len(keys')
         /\ InOrder(Known', Len(keys'), swallowed')
<1>1. /\ listener = "Select" /\ listener' = "Hand" /\ results # <<>> /\ results' = Tail(results)
      /\ heard' = SubSeq(buffer, 1, Head(results).n)
      /\ UNCHANGED <<keys, typed, swallowed, room, reader, buffer, handed, app>>
  BY DEF ListenerTakes, inputVars, endVars
<1>2. heard = <<>> /\ reader = "Wait" /\ app \notin {"Query", "Loaded"}
      /\ InBuffer \in Seq(Numbers)
  BY <1>1 DEF KeysInv, HandOver
<1>3. heard' = InBuffer
  BY <1>1 DEF InBuffer
<1>4. results' = <<>> /\ results' \in Seq(Result) /\ Len(results') <= 1
  <2>1. results \in Seq(Result) /\ Len(results) \in {0, 1}
    BY Types DEF KeysInv
  <2> HIDE DEF Result
  <2>2. Len(results) = 1 /\ Tail(results) \in Seq(Result) /\ Len(Tail(results)) = 0
    BY <1>1, <2>1, EmptySeq, HeadTailProperties
  <2>3. Tail(results) = <<>>
    BY <2>2, EmptySeq
  <2> QED
    BY <1>1, <2>2, <2>3
<1>5. Contents'
  <2>1. Contents
    BY TypeParts DEF KeysInv
  <2> QED
    BY <1>1, <1>2, <1>3, <1>4, <2>1 DEF Contents
<1>6. InBuffer' = <<>> /\ HandOver'
  <2>1. InBuffer' = <<>> /\ <<>> \in Seq(Numbers)
    BY <1>4 DEF InBuffer
  <2> QED
    BY <1>1, <1>2, <1>4, <2>1 DEF HandOver
<1>7. Known' = Known
  <2>1. handed \in Seq(Nat) /\ InBuffer \in Seq(Nat) /\ handed \o InBuffer \in Seq(Nat)
    BY Sequences, ConcatProperties
  <2>2. Known = handed \o <<>> \o InBuffer \o typed
    BY <1>2 DEF Known
  <2>3. Known' = handed \o InBuffer \o <<>> \o typed
    BY <1>1, <1>3, <1>6 DEF Known
  <2>4. handed \o <<>> = handed /\ handed \o InBuffer \o <<>> = handed \o InBuffer
    BY <2>1, ConcatEmptySeq
  <2> QED
    BY <2>2, <2>3, <2>4
<1> QED
  BY <1>1, <1>5, <1>6, <1>7, KnownStays

LEMMA HandMoves ==
  ASSUME KeysInv, HandCtrlC \/ HandListener \/ HandHelp
  PROVE  /\ Contents' /\ HandOver' /\ swallowed' \subseteq 1 .. Len(keys')
         /\ InOrder(Known', Len(keys'), swallowed')
<1>1. /\ listener = "Hand" /\ heard # <<>>
      /\ handed' = Append(handed, Head(heard)) /\ heard' = Tail(heard)
      /\ UNCHANGED <<keys, typed, swallowed, room, reader, buffer, results, listener, app>>
  BY DEF HandCtrlC, HandListener, HandHelp, Hands, inputVars
<1>2. /\ handed \in Seq(Numbers) /\ heard \in Seq(Numbers) /\ Contents
      /\ handed \in Seq(Nat) /\ heard \in Seq(Nat)
  BY Types, TypeParts, Sequences DEF KeysInv
<1>3. heard' \in Seq(Numbers) /\ handed' \in Seq(Numbers)
  <2>1. Head(heard) \in Numbers /\ Tail(heard) \in Seq(Numbers)
    BY <1>1, <1>2, HeadTailProperties
  <2> QED
    BY <1>1, <1>2, <2>1, AppendProperties
<1>4. Contents'
  BY <1>1, <1>2, <1>3 DEF Contents
<1>5. InBuffer' = InBuffer /\ HandOver'
  BY <1>1 DEF KeysInv, HandOver, InBuffer
<1>6. Known' = Known
  <2>1. handed' \o heard' = handed \o heard
    BY <1>1, <1>2, HandingMoves
  <2> QED
    BY <1>1, <1>5, <2>1 DEF Known
<1> QED
  BY <1>1, <1>4, <1>5, <1>6, KnownStays

LEMMA ProcessedMoves ==
  ASSUME KeysInv, Processed
  PROVE  /\ Contents' /\ HandOver' /\ swallowed' \subseteq 1 .. Len(keys')
         /\ InOrder(Known', Len(keys'), swallowed')
<1>1. /\ listener = "Hand" /\ heard = <<>> /\ listener' = "Signal"
      /\ buffer' = [i \in 1 .. BufferSize |-> Cleared]
      /\ UNCHANGED <<keys, typed, swallowed, room, reader, results, heard, handed, app>>
  BY DEF Processed, ProcessedThen, inputVars, endVars
<1>2. results = <<>> /\ reader = "Wait" /\ app \notin {"Query", "Loaded"} /\ Contents
  BY <1>1, TypeParts DEF KeysInv, HandOver
<1>3. Contents'
  BY <1>1, <1>2 DEF Contents, Bytes
<1>4. InBuffer = <<>> /\ InBuffer' = <<>>
  BY <1>1, <1>2 DEF InBuffer
<1>5. HandOver'
  BY <1>1, <1>2, <1>4 DEF KeysInv, HandOver
<1>6. Known' = Known
  BY <1>1, <1>4 DEF Known
<1> QED
  BY <1>1, <1>3, <1>5, <1>6, KnownStays

LEMMA KeysInit == ASSUME Init PROVE KeysInv
<1> USE TerminalAssumption DEF Init
<1>1. /\ keys = <<>> /\ typed = <<>> /\ heard = <<>> /\ handed = <<>> /\ results = <<>>
      /\ swallowed = {} /\ buffer = [i \in 1 .. BufferSize |-> Cleared]
  OBVIOUS
<1>2. Places
  BY DEF Places
<1>3. Contents
  <2>1. buffer \in Bytes
    BY <1>1 DEF Bytes
  <2>2. results \in Seq(Result) /\ Len(results) <= 1
    BY <1>1, EmptySeq
  <2> QED
    BY <1>1, <2>1, <2>2 DEF Contents
<1>4. InBuffer = <<>> /\ HandOver
  <2>1. InBuffer = <<>>
    BY <1>1 DEF InBuffer
  <2> QED
    BY <1>1, <2>1 DEF HandOver
<1>5. InOrder(Known, Len(keys), swallowed)
  <2>1. Known = <<>> /\ Len(keys) = 0
    <3>1. <<>> \in Seq(Nat)
      OBVIOUS
    <3>2. <<>> \o <<>> = <<>>
      BY <3>1, ConcatEmptySeq
    <3> QED
      BY <1>1, <1>4, <3>2 DEF Known
  <2>2. Range(<<>>) = {} /\ Len(<<>>) = 0
    BY DEF Range
  <2>3. 1 .. 0 = {}
    OBVIOUS
  <2> QED
    BY <1>1, <2>1, <2>2, <2>3 DEF InOrder
<1> QED
  BY <1>1, <1>2, <1>3, <1>4, <1>5, TypeParts DEF KeysInv

LEMMA KeysStep == ASSUME KeysInv, [Next]_vars PROVE KeysInv'
<1>1. Places /\ HandOver
  BY TypeParts DEF KeysInv
<1>2. Places'
  BY <1>1, PlacesStep
<1>3. ASSUME Contents', HandOver', swallowed' \subseteq 1 .. Len(keys'),
             InOrder(Known', Len(keys'), swallowed')
      PROVE  KeysInv'
  <2>1. TypeOK'
    BY <1>2, <1>3, TypePartsPrimed
  <2> QED
    BY <1>3, <2>1 DEF KeysInv, InOrder
<1>4. CASE Still /\ HandOver'
  <2>1. InBuffer' = InBuffer /\ Known' = Known
    BY <1>4 DEF Still, InBuffer, Known
  <2>2. Contents'
    BY <1>4, TypeParts DEF KeysInv, Still, Contents
  <2> QED
    BY <1>3, <1>4, <2>1, <2>2, KnownStays DEF Still
<1>5. CASE Moving
  BY <1>3, <1>5, TypeMoves, QueryMoves, ReaderMoves, TakeMoves, HandMoves, ProcessedMoves
     DEF Moving
<1> QED
  BY <1>1, <1>4, <1>5, StillOrMoving

THEOREM KeysInductive == Spec => []KeysInv
<1>1. KeysInv /\ [Next]_vars => KeysInv'
  BY KeysStep
<1> QED
  BY KeysInit, <1>1, PTL DEF Spec

(* The goroutines of the query and of the listening, the buffer and the    *)
(* channel between them keep their types (terminal.go, parser.go); a       *)
(* result never waits behind another.                                      *)
THEOREM TypeCorrect == Spec => []TypeOK
<1>1. KeysInv => TypeOK
  BY DEF KeysInv
<1> QED
  BY <1>1, KeysInductive, PTL

(* Every key that the colour query did not take is handed out once and in  *)
(* order, for any buffer and any cut into reads: the reader writes the     *)
(* buffer only when the listener is done with it (beingListening, listen). *)
THEOREM KeysHandedOnceHolds == Spec => []KeysHandedOnce
<1>1. KeysInv => KeysHandedOnce
  <2> SUFFICES ASSUME KeysInv PROVE KeysHandedOnce
    OBVIOUS
  <2>1. Known \in Seq(Nat) /\ InOrder(Known, Len(keys), swallowed)
    BY Sequences DEF KeysInv
  <2> DEFINE all == handed \o heard \o InBuffer \o typed
  <2>2. Known = all
    BY DEF Known
  <2> HIDE DEF all
  <2>3. \A i \in 1 .. Len(all) - 1 : all[i] < all[i + 1]
    BY <2>1, <2>2 DEF InOrder
  <2> QED
    BY <2>1, <2>2, <2>3 DEF KeysHandedOnce, InOrder, all
<1> QED
  BY <1>1, KeysInductive, PTL
=============================================================================
