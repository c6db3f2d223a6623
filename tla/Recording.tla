------------------------------ MODULE Recording ------------------------------
(***************************************************************************)
(* How the results of the engine reach the graph and the file: the channel *)
(* of the engine, the tee of utils/channels, the graph's sink, the writer  *)
(* of the .pings file, and the application that ends around them           *)
(* (cmd/subcommands/acci-ping).                                            *)
(*                                                                         *)
(* Results are numbered in the order the engine sends them; Zero is the    *)
(* zero value a receive from a closed channel returns.  The file is        *)
(* written over in place: whole is FALSE when the last write has not       *)
(* reached its end, and then the file is torn and nobody can read it;      *)
(* points is what the last write that did reach its end has put there.     *)
(* What is in the file and in memory is the log that DataStore implements. *)
(* The next session reads the file and writes on.                          *)
(***************************************************************************)
EXTENDS Integers, Sequences, FiniteSets

CONSTANTS
  MaxResults,   (* bound: results of all sessions                          *)
  MaxSessions,  (* bound: how often the program is run                     *)
  MaxZeros,     (* bound: zero values the tee takes in all                 *)
  ChanSize,     (* pingBufferingLimit, of the engine's and tee's channels  *)
  DiskFails     (* whether a seek or a write may fail                      *)

ASSUME RecordingAssumption ==
  /\ MaxResults \in Nat /\ MaxSessions \in Nat \ {0}
  /\ MaxZeros \in Nat /\ ChanSize \in Nat \ {0}
  /\ DiskFails \in BOOLEAN

Zero == 0
Results == 1 .. MaxResults
Values == Results \cup {Zero}

VARIABLES
  produced,   (* results the engine has sent                               *)
  input,      (* the engine's channel                                      *)
  ended,      (* whether the engine has closed it                          *)
  toGraph,    (* values held by goroutines of the tee that send to left    *)
  toFile,     (* ... and to right                                          *)
  graphChan,  (* left                                                      *)
  fileChan,   (* right                                                     *)
  sink,       (* "Running" or "Stopped": the graph's sink                  *)
  graph,      (* points of the graph's data                                *)
  writer,     (* where writeToFile is                                      *)
  memory,     (* points of the writer's own data                           *)
  file,       (* the .pings file                                           *)
  toasts,     (* "Running" or "Stopped": the reader of errorChannel        *)
  app,        (* the main goroutine                                        *)
  cancelled,  (* ctx.Done()                                                *)
  session     (* bound: which run of the program this is                   *)

engineVars == <<produced, input, ended>>
teeVars    == <<toGraph, toFile, graphChan, fileChan>>
sinkVars   == <<sink, graph>>
fileVars   == <<writer, memory, file>>
appVars    == <<toasts, app, cancelled, session>>
vars == <<engineVars, teeVars, sinkVars, fileVars, appVars>>

(* The process is alive: nothing of it moves after it has exited.          *)
Alive == app \notin {"Exited", "Panicked", "Unreadable"}

Init ==
  /\ produced = 0 /\ input = <<>> /\ ended = FALSE
  /\ toGraph = {} /\ toFile = {} /\ graphChan = <<>> /\ fileChan = <<>>
  /\ sink = "Running" /\ graph = <<>>
  /\ writer = "Select" /\ memory = <<>> /\ file = [whole |-> TRUE, points |-> <<>>]
  /\ toasts = "Running" /\ app = "Running" /\ cancelled = FALSE /\ session = 1

In(s, v) == {i \in 1 .. Len(s) : s[i] = v}
Count(s, v) == Cardinality(In(s, v))
Pending(set, v) == IF v \in set THEN 1 ELSE 0

(* How often a value is on its way through the tee's left side or has got  *)
(* to the graph, and the same of its right side and the writer.            *)
OnGraphSide(v) == Pending(toGraph, v) + Count(graphChan, v) + Count(graph, v)
OnFileSide(v) == Pending(toFile, v) + Count(fileChan, v) + Count(memory, v)

-----------------------------------------------------------------------------
(* The engine, as PingStream promises: results in order, then the close,   *)
(* which comes after the cancellation, a result or two later.              *)
Produce ==
  /\ Alive /\ ~ended /\ produced < MaxResults /\ Len(input) < ChanSize
  /\ produced' = produced + 1
  /\ input' = Append(input, produced + 1)
  /\ UNCHANGED <<ended, teeVars, sinkVars, fileVars, appVars>>

CloseInput ==
  /\ Alive /\ cancelled /\ ~ended
  /\ ended' = TRUE
  /\ UNCHANGED <<produced, input, teeVars, sinkVars, fileVars, appVars>>

-----------------------------------------------------------------------------
(* TeeBufferedChannel: two goroutines are started for every value, and the *)
(* sends of different values are not ordered.  A closed input gives zero   *)
(* values for ever; bound: MaxZeros of them.                                *)
Spawn(v) ==
  /\ toGraph' = toGraph \cup {v}
  /\ toFile' = toFile \cup {v}

(* Mutant: a value is sent to one side inline, and taken again if the      *)
(* other side's goroutine has not run yet.                                 *)
TeeTakeTwice ==
  /\ Alive /\ input # <<>>
  /\ input' = IF Head(input) \in toFile THEN Tail(input) ELSE input
  /\ Spawn(Head(input))
  /\ UNCHANGED <<produced, ended, graphChan, fileChan, sinkVars, fileVars, appVars>>

TeeTake ==
  /\ Alive /\ input # <<>>
  /\ input' = Tail(input)
  /\ Spawn(Head(input))
  /\ UNCHANGED <<produced, ended, graphChan, fileChan, sinkVars, fileVars, appVars>>

TeeTakeZero ==
  /\ Alive /\ input = <<>> /\ ended
  /\ Zero \notin toGraph \cup toFile
  /\ OnGraphSide(Zero) < MaxZeros /\ OnFileSide(Zero) < MaxZeros
  /\ Spawn(Zero)
  /\ UNCHANGED <<engineVars, graphChan, fileChan, sinkVars, fileVars, appVars>>

(* The case of ctx.Done has no body: the loop goes round, and only the end *)
(* of the process ends it.                                                 *)
TeeSeesDone ==
  /\ Alive /\ cancelled
  /\ UNCHANGED vars

(* Mutant: the goroutine does not wait for room in the channel.            *)
SendLeftAnyway(v) ==
  /\ Alive
  /\ graphChan' = Append(graphChan, v)
  /\ toGraph' = toGraph \ {v}
  /\ UNCHANGED <<engineVars, toFile, fileChan, sinkVars, fileVars, appVars>>

SendLeft(v) ==
  /\ Alive /\ Len(graphChan) < ChanSize
  /\ graphChan' = Append(graphChan, v)
  /\ toGraph' = toGraph \ {v}
  /\ UNCHANGED <<engineVars, toFile, fileChan, sinkVars, fileVars, appVars>>

SendRight(v) ==
  /\ Alive /\ Len(fileChan) < ChanSize
  /\ fileChan' = Append(fileChan, v)
  /\ toFile' = toFile \ {v}
  /\ UNCHANGED <<engineVars, toGraph, graphChan, sinkVars, fileVars, appVars>>

-----------------------------------------------------------------------------
(* Graph.sink *)
SinkTake ==
  /\ Alive /\ sink = "Running" /\ graphChan # <<>>
  /\ graphChan' = Tail(graphChan)
  /\ graph' = Append(graph, Head(graphChan))
  /\ UNCHANGED <<engineVars, toGraph, toFile, fileChan, sink, fileVars, appVars>>

SinkSeesDone ==
  /\ Alive /\ sink = "Running" /\ cancelled
  /\ sink' = "Stopped"
  /\ UNCHANGED <<engineVars, teeVars, graph, fileVars, appVars>>

-----------------------------------------------------------------------------
(* writeToFile *)
WriterTake ==
  /\ Alive /\ writer = "Select" /\ fileChan # <<>>
  /\ fileChan' = Tail(fileChan)
  /\ memory' = Append(memory, Head(fileChan))
  /\ writer' = "Seek"
  /\ UNCHANGED <<engineVars, toGraph, toFile, graphChan, sinkVars, file, appVars>>

WriterSeesDone ==
  /\ Alive /\ writer = "Select" /\ cancelled
  /\ writer' = "Stopped"
  /\ UNCHANGED <<engineVars, teeVars, sinkVars, memory, file, appVars>>

(* Seek, then the first bytes of AsCompact's single Write are in the file. *)
WriteBegins ==
  /\ Alive /\ writer = "Seek"
  /\ writer' = "Write"
  /\ file' = [file EXCEPT !.whole = FALSE]
  /\ UNCHANGED <<engineVars, teeVars, sinkVars, memory, appVars>>

WriteEnds ==
  /\ Alive /\ writer = "Write"
  /\ writer' = "Select"
  /\ file' = [whole |-> TRUE, points |-> memory]
  /\ UNCHANGED <<engineVars, teeVars, sinkVars, memory, appVars>>

(* Mutant: the writer returns on an error.                                 *)
DiskErrorStops ==
  /\ Alive /\ DiskFails /\ writer \in {"Seek", "Write"}
  /\ writer' = "Stopped"
  /\ UNCHANGED <<engineVars, teeVars, sinkVars, memory, file, appVars>>

(* The seek fails, or the write, before any byte or after some.            *)
DiskError ==
  /\ Alive /\ DiskFails /\ writer \in {"Seek", "Write"}
  /\ writer' = "Report"
  /\ UNCHANGED <<engineVars, teeVars, sinkVars, memory, file, appVars>>

(* A send on errorChannel meets its reader; the writer then waits and goes *)
(* on.  The wait, however long, does not look at ctx.                      *)
ReportTaken ==
  /\ Alive /\ writer = "Report" /\ toasts = "Running"
  /\ writer' = "Wait"
  /\ UNCHANGED <<engineVars, teeVars, sinkVars, memory, file, appVars>>

WaitEnds ==
  /\ Alive /\ writer = "Wait"
  /\ writer' = "Select"
  /\ UNCHANGED <<engineVars, teeVars, sinkVars, memory, file, appVars>>

(* What is left of a process that is gone: its file.                       *)
Gone(how) ==
  /\ app' = how
  /\ input' = <<>> /\ ended' = FALSE
  /\ toGraph' = {} /\ toFile' = {} /\ graphChan' = <<>> /\ fileChan' = <<>>
  /\ sink' = "Running" /\ graph' = <<>>
  /\ writer' = "Select" /\ memory' = <<>>
  /\ toasts' = "Running" /\ cancelled' = FALSE
  /\ UNCHANGED <<produced, file, session>>

(* A send on the channel that Run has closed.                              *)
ReportPanics ==
  /\ writer = "Report" /\ app \in {"Closed", "Finished"}
  /\ Gone("Panicked")

-----------------------------------------------------------------------------
(* The application: the user ends it, Graph.Run's main loop returns and    *)
(* Run with it, closing errorChannel; Finish prints that the data was      *)
(* recorded; main returns, and the process is gone with its goroutines.    *)
Cancel ==
  /\ Alive /\ ~cancelled
  /\ cancelled' = TRUE
  /\ UNCHANGED <<engineVars, teeVars, sinkVars, fileVars, toasts, app, session>>

ToastsSeeDone ==
  /\ Alive /\ toasts = "Running" /\ cancelled
  /\ toasts' = "Stopped"
  /\ UNCHANGED <<engineVars, teeVars, sinkVars, fileVars, app, cancelled, session>>

MainTo(from, to) ==
  /\ app = from /\ cancelled
  /\ app' = to
  /\ UNCHANGED <<engineVars, teeVars, sinkVars, fileVars, toasts, cancelled, session>>

RunReturns == MainTo("Running", "Closed")
Finish == MainTo("Closed", "Finished")
Exit == app = "Finished" /\ Gone("Exited")

(* The process is killed, at any time.                                     *)
Crash == Alive /\ Gone("Exited")

(* The next session: LoadFile, duplicateData.  A file that is not whole    *)
(* cannot be read.                                                         *)
Reads(ours) ==
  /\ app \in {"Exited", "Panicked"} /\ session < MaxSessions /\ file.whole
  /\ app' = "Running" /\ session' = session + 1
  /\ graph' = file.points /\ memory' = ours
  /\ UNCHANGED <<engineVars, teeVars, sink, writer, file, toasts, cancelled>>

(* Mutant: the writer of the next session does not start from the data of  *)
(* the file.                                                               *)
NextSessionForgets == Reads(<<>>)

NextSession == Reads(file.points)

NextSessionFails ==
  /\ app \in {"Exited", "Panicked"} /\ session < MaxSessions /\ ~file.whole
  /\ app' = "Unreadable"
  /\ session' = session + 1
  /\ UNCHANGED <<engineVars, teeVars, sinkVars, fileVars, toasts, cancelled>>

(* Nothing more happens after the last session.                            *)
Over ==
  /\ ~Alive /\ (app \in {"Exited", "Panicked"} => session = MaxSessions)
  /\ UNCHANGED vars

-----------------------------------------------------------------------------
Writer ==
  \/ WriterTake \/ WriteBegins \/ WriteEnds \/ DiskError
  \/ ReportTaken \/ WaitEnds

Next ==
  \/ Produce \/ CloseInput
  \/ TeeTake \/ TeeTakeZero \/ TeeSeesDone
  \/ \E v \in toGraph : SendLeft(v)
  \/ \E v \in toFile : SendRight(v)
  \/ SinkTake \/ SinkSeesDone
  \/ Writer \/ WriterSeesDone \/ ReportPanics
  \/ Cancel \/ ToastsSeeDone \/ RunReturns \/ Finish \/ Exit \/ Crash
  \/ NextSession \/ NextSessionFails \/ Over

(* Goroutines run, and those that wait to send on a channel are served in  *)
(* turn, so none of them waits for ever while the channel is read.  No     *)
(* property asks what becomes of the zero values.                          *)
Fairness ==
  /\ WF_vars(TeeTake)
  /\ \A v \in Results : SF_vars(v \in toGraph /\ SendLeft(v))
  /\ \A v \in Results : SF_vars(v \in toFile /\ SendRight(v))
  /\ WF_vars(SinkTake) /\ WF_vars(Writer)

Spec == Init /\ [][Next]_vars /\ Fairness

-----------------------------------------------------------------------------
(* Properties                                                              *)

TypeOK ==
  /\ produced \in 0 .. MaxResults
  /\ input \in Seq(Results) /\ ended \in BOOLEAN
  /\ toGraph \subseteq Values /\ toFile \subseteq Values
  /\ graphChan \in Seq(Values) /\ fileChan \in Seq(Values)
  /\ \A c \in {input, graphChan, fileChan} : Len(c) <= ChanSize
  /\ sink \in {"Running", "Stopped"}
  /\ graph \in Seq(Values) /\ memory \in Seq(Values)
  /\ writer \in {"Select", "Seek", "Write", "Report", "Wait", "Stopped"}
  /\ file \in [whole: BOOLEAN, points: Seq(Values)]
  /\ toasts \in {"Running", "Stopped"} /\ cancelled \in BOOLEAN
  /\ app \in {"Running", "Closed", "Finished", "Exited", "Panicked", "Unreadable"}
  /\ session \in 1 .. MaxSessions

(* The graph and the file get the same results, each of them once, in      *)
(* whatever order the tee's goroutines run and however often the program   *)
(* is killed and started again: a result is in the engine's channel, or on *)
(* both sides of the tee, on its way or recorded, or on neither.           *)
EachSideOnce ==
  \A v \in Results :
    /\ Count(input, v) + OnGraphSide(v) <= 1
    /\ OnGraphSide(v) = OnFileSide(v)

(* From one write that reaches its end to the next, the points in the file *)
(* stay in their places and more may come behind them, through failed and  *)
(* torn writes, crashes and new sessions in between (writeToFile writes    *)
(* all of it anew from its memory; files.go, duplicateData).  In between   *)
(* the file may be torn, file.whole = FALSE, and unreadable; this says     *)
(* what is in it when a write has reached its end again.                   *)
FileOnlyGrows ==
  [][SubSeq(file'.points, 1, Len(file.points)) = file.points]_vars

(* Unless the program ends, a result of the engine gets to the graph and   *)
(* to the writer, which goes on after a failed seek or write.              *)
ResultsArrive ==
  \A v \in Results :
    In(input, v) # {} ~> \/ In(graph, v) # {} /\ In(memory, v) # {}
                     \/ cancelled \/ ~Alive

-----------------------------------------------------------------------------
(* What the comments and messages of the code claim and it does not do.    *)

(* "Data Successfully recorded in file" (application.go:188): what the     *)
(* graph shows is in the file, and the file can be read.                   *)
RecordedWhenClaimed ==
  app = "Finished" =>
    file.whole /\ \A v \in Results : In(graph, v) # {} => In(file.points, v) # {}
=============================================================================
