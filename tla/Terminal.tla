------------------------------ MODULE Terminal -------------------------------
(***************************************************************************)
(* The keys of the user, from the terminal to the listeners, and the raw   *)
(* mode the terminal is in meanwhile: the query for the background colour  *)
(* at the start, which may still be reading when its time is over, the two *)
(* goroutines of beingListening with the buffer they share, the help that  *)
(* takes the keys nobody else listens to, and the end of Application.Run.  *)
(*                                                                         *)
(* A key is one byte; keys are numbered in the order they come.  The       *)
(* answer of the terminal to the query comes the way keys come, in parts.  *)
(***************************************************************************)
EXTENDS Integers, Sequences, FiniteSets, SequencesExt

CONSTANTS
  BufferSize,   (* of the buffer of beingListening, 20 bytes               *)
  Needed,       (* how many parts of the answer the parser consumes        *)
  AnswerParts,  (* ... of all, with the terminator it leaves               *)
  QueryBuffer,  (* of the parser, as long as an answer and more, 41 bytes  *)
  MaxKeys       (* bound: how many keys are typed, answer included         *)

ASSUME TerminalAssumption ==
  /\ BufferSize \in Nat \ {0} /\ MaxKeys \in Nat
  /\ Needed \in Nat \ {0} /\ AnswerParts \in Nat /\ Needed <= AnswerParts
  /\ QueryBuffer \in Nat /\ Needed <= QueryBuffer

(* Control-C, a key of addListeners, one of the fallback, the help, and a  *)
(* part of the answer, which is of either when it comes to the listener.   *)
(* An answer in another form (rgb:RR/GG/BB, rgba:...) is keys to the       *)
(* parser, which knows one form only.                                      *)
Keys == {"ctrl+c", "listener", "fallback", "answer"}
Numbers == 1 .. MaxKeys
Cleared == 0     (* a byte of the buffer that was cleared                  *)

VARIABLES
  keys,       (* the keys typed so far                                     *)
  typed,      (* those nobody has read                                     *)
  query,      (* where the goroutine of the colour query is                *)
  swallowed,  (* the keys it read                                          *)
  room,       (* how many its next read has room for                       *)
  background, (* backgroundDiscovered, with the colour where one was found *)
  reader,     (* where listen is                                           *)
  buffer,     (* the buffer of the two                                     *)
  results,    (* listenChannel; closed when listen has returned            *)
  listener,   (* where beingListening is                                   *)
  heard,      (* what it has heard and not yet handed out                  *)
  handed,     (* what it has handed to listeners                           *)
  help,       (* the help, which reads helpCh until it has returned        *)
  raw,        (* whether the terminal is raw and its cursor hidden         *)
  cancelled,  (* ctx.Done()                                                *)
  app         (* the main goroutine                                        *)

inputVars    == <<keys, typed, query, swallowed, room, background>>
listenerVars == <<listener, heard, handed>>
endVars      == <<help, raw, cancelled, app>>
vars == <<inputVars, reader, buffer, results, listenerVars, endVars>>

Alive == app \notin {"Exited", "Crashed", "Killed"}

(* LoadTheme asks for the colour unless the theme is a builtin one, or the *)
(* terminal one without answers.  The terminal is raw while it does.       *)
Init ==
  /\ keys = <<>> /\ typed = <<>> /\ swallowed = {} /\ room = QueryBuffer
  /\ \/ app = "Query" /\ query = "Asking" /\ raw = TRUE /\ background = "nothing"
     \/ app = "Loaded" /\ query = "Off" /\ raw = FALSE /\ background \in {"nothing", "fallback"}
  /\ reader = "Off" /\ buffer = [i \in 1 .. BufferSize |-> Cleared] /\ results = <<>>
  /\ listener = "Off" /\ heard = <<>> /\ handed = <<>>
  /\ help = "Running" /\ cancelled = FALSE

(* t.cleanup, which is what control-C does: the terminal is put back       *)
(* before the context is cancelled.                                        *)
Cleanup == raw' = FALSE /\ cancelled' = TRUE

-----------------------------------------------------------------------------
(* The user and the terminal                                               *)

Type(k) ==
  /\ Alive /\ Len(keys) < MaxKeys
  /\ keys' = Append(keys, k)
  /\ typed' = Append(typed, Len(keys'))
  /\ UNCHANGED <<query, swallowed, room, background, reader, buffer, results, listenerVars, endVars>>

(* A control-C before StartRaw and after the query ends the process.       *)
UserTypes == \E k \in Keys \ {"answer"} : (k = "ctrl+c" => app # "Loaded") /\ Type(k)

Answered == Cardinality({i \in DOMAIN keys : keys[i] = "answer"})

(* The next part of the answer, in its time or late.                       *)
TerminalAnswers ==
  query \notin {"Asking", "Off"} /\ Answered < AnswerParts /\ Type("answer")

-----------------------------------------------------------------------------
(* tryGetBackgroundColour: its goroutine, which parses what it reads.      *)

(* The context of the query: it ends with its time, or with the select.    *)
InTime == app = "Query"

QueryTo(q) == query' = q /\ UNCHANGED <<background, reader, buffer, results, listenerVars, endVars>>

(* waitForMore: the context is looked at before a read.                    *)
WaitsForMore(q) == IF InTime THEN q ELSE "Closed"

QueryStarts ==
  /\ Alive /\ query = "Start"
  /\ QueryTo(WaitsForMore("First"))
  /\ UNCHANGED <<keys, typed, swallowed, room>>

(* Mutant: the bytes are not compared with what is expected.               *)
ParsedUnseen(chunk) ==
  IF Len(chunk) >= Needed THEN "Sending" ELSE WaitsForMore("Later")

(* Consume and ParseHex, on the first read.                                *)
Parsed(chunk) ==
  LET expected(i) == keys[chunk[i]] = "answer"
      there == {i \in 1 .. Needed : i <= Len(chunk)}
  IN  IF \E i \in there : ~expected(i) THEN "Closed"
      ELSE IF Len(chunk) >= Needed THEN "Sending"
      ELSE WaitsForMore("Later")

QueryTakes == IF Len(typed) < room THEN Len(typed) ELSE room

(* A read takes what there is, and no more than the read before took: the  *)
(* slice it reads into is cut to what was read.                            *)
QueryRead ==
  /\ Alive /\ query \in {"First", "Later"} /\ typed # <<>>
  /\ swallowed' = swallowed \cup Range(SubSeq(typed, 1, QueryTakes))
  /\ typed' = SubSeq(typed, QueryTakes + 1, Len(typed))
  /\ UNCHANGED keys

(* The head of the parser is behind all that was read, wherever it was     *)
(* stored.                                                                 *)
HeadInBuffer == Cardinality(swallowed') <= QueryBuffer

(* A later read is stored over the first one, while the head goes on       *)
(* behind that, over bytes that are zero and skipped: the rest of the      *)
(* answer is never seen.                                                   *)
QueryReads ==
  /\ QueryRead /\ HeadInBuffer
  /\ QueryTo(IF query = "First" THEN Parsed(SubSeq(typed, 1, QueryTakes))
             ELSE WaitsForMore("Later"))
  /\ room' = IF query' = "Later" THEN QueryTakes ELSE 0

(* It goes on behind the end of the buffer: a panic nobody recovers.       *)
QueryOverruns ==
  /\ QueryRead /\ ~HeadInBuffer
  /\ app' = "Killed"
  /\ UNCHANGED <<query, room, background, reader, buffer, results, listenerVars,
                 help, raw, cancelled>>

(* The read fails, or the stream has ended: nothing typed is taken.        *)
QueryReadFails ==
  /\ Alive /\ query \in {"First", "Later"}
  /\ QueryTo("Failed")
  /\ UNCHANGED <<keys, typed, swallowed, room>>

-----------------------------------------------------------------------------
(* ... and the main goroutine, which waits for the result or the time.     *)

QueryIsWritten ==
  /\ app = "Query" /\ query = "Asking"
  /\ query' = "Start"
  /\ UNCHANGED <<keys, typed, swallowed, room, background, reader, buffer, results, listenerVars, endVars>>

(* BackgroundColour, with the terminal put back.                           *)
Discovers(b) ==
  /\ app = "Query" /\ app' = "Loaded"
  /\ background' = b
  /\ raw' = FALSE
  /\ UNCHANGED <<keys, typed, swallowed, room, reader, buffer, results, listenerVars,
                 help, cancelled>>

QueryNotWritten == query = "Asking" /\ query' = "Off" /\ Discovers("fallback")

QueryAnswers == query = "Sending" /\ query' = "Closed" /\ Discovers("terminal's")

(* The result of the closed channel: the colour is zero, and found.        *)
QueryFails == query \in {"Closed", "Failed"} /\ UNCHANGED query /\ Discovers("zero")

QueryTimesOut ==
  query # "Asking" /\ UNCHANGED query /\ Discovers("fallback")

StartRaw ==
  /\ app = "Loaded" /\ app' = "Running"
  /\ raw' = TRUE
  /\ reader' = "Check" /\ listener' = "Select"
  /\ UNCHANGED <<inputVars, buffer, results, heard, handed, help, cancelled>>

-----------------------------------------------------------------------------
(* listen                                                                  *)

ReaderGoesOn ==
  /\ Alive /\ reader = "Check" /\ ~cancelled
  /\ reader' = "Read"
  /\ UNCHANGED <<inputVars, buffer, results, listenerVars, endVars>>

(* It returns with a cleanup of its own, and the channel is closed.        *)
ReaderSeesDone ==
  /\ Alive /\ reader = "Check" /\ cancelled
  /\ reader' = "Returned"
  /\ Cleanup
  /\ UNCHANGED <<inputVars, buffer, results, listenerVars, help, app>>

Chunk == IF Len(typed) < BufferSize THEN Len(typed) ELSE BufferSize

(* Read, and the send on listenChannel, which has room for it.             *)
ReadThen(next) ==
  /\ Alive /\ reader = "Read" /\ typed # <<>>
  /\ buffer' = [i \in 1 .. BufferSize |-> IF i <= Chunk THEN typed[i] ELSE buffer[i]]
  /\ typed' = SubSeq(typed, Chunk + 1, Len(typed))
  /\ results' = Append(results, [n |-> Chunk, err |-> FALSE])
  /\ reader' = next
  /\ UNCHANGED <<keys, query, swallowed, room, background, listenerVars, endVars>>

(* Mutant: it does not wait until the keys are processed.                  *)
ReadsOn == ReadThen("Check")

ReaderReads == ReadThen("Wait")

ReadFails ==
  /\ Alive /\ reader = "Read"
  /\ results' = Append(results, [n |-> 0, err |-> TRUE])
  /\ reader' = "Wait"
  /\ UNCHANGED <<inputVars, buffer, listenerVars, endVars>>

-----------------------------------------------------------------------------
(* beingListening                                                          *)

ListenerEnds ==
  /\ listener' = "Returned"
  /\ Cleanup
  /\ UNCHANGED <<inputVars, reader, buffer, results, heard, handed, help, app>>

ListenerSeesDone ==
  /\ Alive /\ listener = "Select" /\ cancelled
  /\ ListenerEnds

ListenerTakes ==
  /\ Alive /\ listener = "Select" /\ results # <<>> /\ ~Head(results).err
  /\ heard' = SubSeq(buffer, 1, Head(results).n)
  /\ results' = Tail(results)
  /\ listener' = "Hand"
  /\ UNCHANGED <<inputVars, reader, buffer, handed, endVars>>

(* The zero result of the closed channel has no bytes.                     *)
ListenerSeesClose ==
  /\ Alive /\ listener = "Select" /\ results = <<>> /\ reader = "Returned"
  /\ ListenerEnds

(* Mutant: without the deferred cleanup.                                   *)
CrashAtOnce ==
  /\ app' = "Crashed"
  /\ UNCHANGED <<inputVars, reader, buffer, results, listenerVars, help, raw, cancelled>>

(* A panic of a goroutine whose cleanup is deferred: then the process is   *)
(* gone.                                                                   *)
Crash ==
  /\ Cleanup
  /\ app' = "Crashed"
  /\ UNCHANGED <<inputVars, reader, buffer, results, listenerVars, help>>

(* The read has failed.                                                    *)
ReadErrorPanics ==
  /\ Alive /\ listener = "Select" /\ results # <<>> /\ Head(results).err
  /\ Crash

(* UpdateSize, before the keys are heard, fails.                           *)
SizePanics ==
  /\ Alive /\ listener = "Select" /\ results # <<>> /\ ~Head(results).err
  /\ Crash

(* processListenedRune *)
Hands(k) ==
  /\ Alive /\ listener = "Hand" /\ heard # <<>> /\ keys[Head(heard)] = k
  /\ handed' = Append(handed, Head(heard))
  /\ heard' = Tail(heard)
  /\ UNCHANGED <<inputVars, reader, buffer, results, listener, help, app>>

HandCtrlC == Hands("ctrl+c") /\ Cleanup

(* The action of the key starts a goroutine, and that is all.              *)
HandListener ==
  \E k \in {"listener", "answer"} : Hands(k) /\ UNCHANGED <<raw, cancelled>>

Unlistened == {"fallback", "answer"}

(* helpAction: the send meets the help, or blocks.                         *)
HandHelp ==
  /\ help = "Running" /\ app \in {"Running", "Restored"}
  /\ \E k \in Unlistened : Hands(k) /\ UNCHANGED <<raw, cancelled>>

(* ... until Run closes the channel.                                       *)
HandHelpPanics ==
  /\ Alive /\ listener = "Hand" /\ heard # <<>> /\ keys[Head(heard)] \in Unlistened
  /\ app \in {"Closed", "Finished"}
  /\ Crash

ProcessedThen(next) ==
  /\ Alive /\ listener = "Hand" /\ heard = <<>>
  /\ buffer' = [i \in 1 .. BufferSize |-> Cleared]
  /\ listener' = next
  /\ UNCHANGED <<inputVars, reader, results, heard, handed, endVars>>

(* Mutant: the reader is not told.                                         *)
ProcessedUnsaid == ProcessedThen("Select")

Processed == ProcessedThen("Signal")

(* The unbuffered processingChannel.                                       *)
Signal ==
  /\ Alive /\ listener = "Signal" /\ reader = "Wait"
  /\ listener' = "Select"
  /\ reader' = "Check"
  /\ UNCHANGED <<inputVars, buffer, results, heard, handed, endVars>>

-----------------------------------------------------------------------------
(* The help returns, through termRecover.                                  *)
HelpSeesDone ==
  /\ Alive /\ help = "Running" /\ cancelled
  /\ help' = "Returned"
  /\ Cleanup
  /\ UNCHANGED <<inputVars, reader, buffer, results, listenerVars, app>>

(* A panic of the help, of another painter, of the writer or of Run, which *)
(* termRecover lets go on when the terminal is put back.                   *)
PanicIsRecovered ==
  /\ app \in {"Running", "Restored", "Closed", "Finished"}
  /\ Crash

(* A panic of a goroutine that neither cleans up nor recovers (the engine, *)
(* the tee, the sink, handleControl, the action of a key) ends the process *)
(* at once.                                                                *)
PanicIsNotRecovered ==
  /\ app \in {"Running", "Restored", "Closed", "Finished"}
  /\ app' = "Killed"
  /\ UNCHANGED <<inputVars, reader, buffer, results, listenerVars, help, raw, cancelled>>

(* Graph.Run's loop returns, cancelled or with an error, and Run with it,  *)
(* whose deferred calls are termRecover and then the closes.               *)
RunReturns ==
  /\ app = "Running"
  /\ app' = "Restored"
  /\ Cleanup
  /\ UNCHANGED <<inputVars, reader, buffer, results, listenerVars, help>>

MainTo(from, to) ==
  /\ app = from /\ app' = to
  /\ UNCHANGED <<inputVars, reader, buffer, results, listenerVars, help, raw, cancelled>>

CloseHelp == MainTo("Restored", "Closed")
Finish == MainTo("Closed", "Finished")
Exit == MainTo("Finished", "Exited")

Over == ~Alive /\ UNCHANGED vars

-----------------------------------------------------------------------------
Reader == ReaderGoesOn \/ ReaderReads
Listener ==
  \/ ListenerTakes \/ ListenerSeesClose \/ ReadErrorPanics
  \/ HandCtrlC \/ HandListener \/ HandHelp \/ HandHelpPanics
  \/ Processed \/ Signal

Starting ==
  \/ QueryIsWritten \/ QueryNotWritten \/ QueryAnswers \/ QueryFails \/ QueryTimesOut
  \/ StartRaw

Next ==
  \/ UserTypes \/ TerminalAnswers
  \/ QueryStarts \/ QueryReads \/ QueryOverruns \/ QueryReadFails
  \/ Starting
  \/ Reader \/ ReaderSeesDone \/ ReadFails
  \/ Listener \/ ListenerSeesDone \/ SizePanics
  \/ HelpSeesDone \/ PanicIsRecovered \/ PanicIsNotRecovered
  \/ RunReturns \/ CloseHelp \/ Finish \/ Exit
  \/ Over

(* The goroutines run when they can, and the time of the query ends.       *)
Fairness == WF_vars(Reader) /\ WF_vars(Listener) /\ WF_vars(Starting)

Spec == Init /\ [][Next]_vars /\ Fairness

-----------------------------------------------------------------------------
(* Properties                                                              *)

(* The state of the listening goroutines (terminal/terminal.go:359).       *)
TypeOK ==
  /\ keys \in Seq(Keys) /\ Len(keys) <= MaxKeys
  /\ \A s \in {typed, heard, handed} : s \in Seq(Numbers)
  /\ query \in {"Off", "Asking", "Start", "First", "Later", "Sending", "Closed",
               "Failed"}
  /\ swallowed \subseteq Numbers /\ room \in 0 .. QueryBuffer
  /\ background \in {"nothing", "fallback", "zero", "terminal's"}
  /\ reader \in {"Off", "Check", "Read", "Wait", "Returned"}
  /\ buffer \in [1 .. BufferSize -> Numbers \cup {Cleared}]
  /\ results \in Seq([n: 0 .. BufferSize, err: BOOLEAN]) /\ Len(results) <= 1
  /\ listener \in {"Off", "Select", "Hand", "Signal", "Returned"}
  /\ help \in {"Running", "Returned"} /\ raw \in BOOLEAN /\ cancelled \in BOOLEAN
  /\ app \in {"Query", "Loaded", "Running", "Restored", "Closed", "Finished", "Exited",
             "Crashed", "Killed"}

(* What a result in the channel says is in the buffer.                     *)
InBuffer == IF results = <<>> THEN <<>> ELSE SubSeq(buffer, 1, Head(results).n)

(* Every key is handed out once and in order, but for those the colour     *)
(* query took: it is typed, in the buffer, heard or handed, and the buffer *)
(* is neither written nor cleared while there is something in it           *)
(* (beingListening: "if we don't have the processing signal this clear     *)
(* would be racey against stdin").                                         *)
KeysHandedOnce ==
  LET all == handed \o heard \o InBuffer \o typed
  IN  /\ Range(all) = (1 .. Len(keys)) \ swallowed
      /\ \A i \in 1 .. Len(all) - 1 : all[i] < all[i + 1]

WholeAnswer == \A i \in 1 .. Needed : i \in swallowed /\ keys[i] = "answer"

(* A colour is taken for the terminal's only if the whole answer came      *)
(* before any key and in time, however it was cut into reads; the zero of  *)
(* a failed query only if a key came before the end of the answer or a     *)
(* read failed; and in neither case is the query left reading              *)
(* (tryGetBackgroundColour).                                               *)
ColourIsSound ==
  /\ background = "terminal's" => query = "Closed" /\ WholeAnswer
  /\ background = "zero" =>
       \/ query = "Failed"
       \/ query = "Closed" /\ \E i \in 1 .. Needed : i \in swallowed /\ keys[i] # "answer"

(* BackgroundColour says of itself that "if it fails it returns the        *)
(* fallback of the terminal and false": what it calls found is the         *)
(* terminal's.                                                             *)
FoundIsTheTerminals == background \in {"terminal's", "zero"} => WholeAnswer

(* By control-C, an error of the draw loop, a failed read, a key that      *)
(* comes too late or a panic that a cleanup or termRecover meets, and      *)
(* whatever goroutines are still at work, the program does not end with    *)
(* the terminal raw (t.cleanup, termRecover).  A panic of one of the       *)
(* others leaves it as it is, app = "Killed".                              *)
RawIsLeft == app \in {"Exited", "Crashed"} => ~raw

Interrupted == \E i \in 1 .. Len(keys) : keys[i] = "ctrl+c" /\ i \notin swallowed

(* A control-C is heard, whatever keys and reads come before it, unless    *)
(* the colour query took it: the listener is not stuck behind a key that   *)
(* nobody takes, or a reader that waits (helpAction, processingChannel).   *)
CtrlCIsHeard == Interrupted ~> (cancelled \/ ~Alive \/ ~Interrupted)
=============================================================================
