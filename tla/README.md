# A verification of acci-ping in TLA+

acci-ping pings a host continuously, draws the latencies in the terminal as
they come in, and records them in a file. This directory holds TLA+ models of
its parts, TLC configurations that check them on small instances, and proofs
that TLAPS checks for every value of the constants. Line numbers are those of
the Go sources; `PROJECT.json` names for every definition the lines it models.

1. [Inventory](#1-inventory) · 2. [Plan](#2-plan) ·
3. [The modules and the code](#3-the-modules-and-the-code) ·
4. [What is checked](#4-what-is-checked) · 5. [Bounds](#5-bounds) ·
6. [Fairness](#6-fairness) · 7. [What is proved](#7-what-is-proved) ·
8. [Where the code departs from what it says](#8-where-the-code-departs-from-what-it-says) ·
9. [What is not modelled](#9-what-is-not-modelled)

## 1. Inventory

| component | source | state | operations | talks to |
|---|---|---|---|---|
| query cache | `ping/dns.go` | store of addresses (stale, drops), index, mutex | `GetLastIP`, `Get`, `Dropped`, `_DNSQuery`, `dnsRetry` | resolver; shared by the engine and `LastIP` |
| ping engine | `ping/api.go`, `ping/api_implementation.go` | socket, sequence number, ticker, rate, goroutine position | `CreateChannel`, `CreateFlexibleChannel`, the goroutine of `startChannel`, `OneShot` | network, resolver, ticker; speed channel in, result channel out |
| channel plumbing | `utils/channels/channels.go` | one value in hand per goroutine | `TeeBufferedChannel`, `FanInFanOut` | engine to file writer and graph; terminal sizes to painters |
| application | `cmd/subcommands/acci-ping/*.go` | channels, listeners, context | `Init`, `Run`, `writeToFile`, `addListener`, `Finish`, toasts, help, controls, speed changes | everything here |
| data | `graph/data/*.go` | insertion order, blocks, header, statistics, runs, networks | `AddPoint`, `Get`, `GetFull`, `migrate` | graph data, file |
| file format | `graph/data/*_compact.go`, `serialisation.go`, `files/files.go` | bytes, version | `AsCompact`, `FromCompact`, `LoadFile` | file writer |
| graph data | `graph/graphdata/graphdata.go` | mutex, data, spans | `AddPoint`, `NewGraphData`, `LockFreeIter` | graph |
| x axis | `graph/xAxis.go` | groups of spans, position of the iterator | `computeXAxis`, `combineSpansPixelWise`, `xAxisIter.Get`, `getX` | graph data, frame |
| frame | `graph/drawing.go`, `graph/yAxis.go`, `graph/draw_window.go`, `graph/gradient/` | cells of the window | `computeFrame`, `getY`, `add`, `addDroppedBar`, `addLabel`, `addGradient`, `Solve` | graph data, x axis, draw buffer |
| graph | `graph/graph.go`, `graph/drawing.go` | last frame, presentation, control channel, draw buffer | `Run`, `OneFrame`, `sink`, `handleControl`, `computeFrame` | terminal, gui, data |
| gui | `gui/gui.go`, `gui/notifications.go`, `draw/draw.go` | four indexes, notifications, layers of the draw buffer | `GetState`, `Paint`, `Drawn`, `NewValue`, `locklessRender` | graph, application |
| terminal | `terminal/*.go` | raw mode, listeners, size | `BackgroundColour`, `StartRaw`, `listen`, `ClearScreen`, `UpdateSize` | stdin, stdout |

How they are connected:

```
 resolver, network, ticker                keys f, l, h, +, -
        |                                        |
   [ ping engine + query cache ] <--- Speed --- listeners --- Control ---> handleControl
        | results (buffered channel)             |                              |
       tee --- left ---> sink ---> graph data    +--> help, controls, speed     presentation
        |                             |              toasts (painters)          |
       right                        spans, axis          | render, then Paint   |
        |                             |                  v                      v
   writeToFile ---> .pings file     draw loop <--- GUIState tokens, draw buffer
                                      |  sizes ---> fan-out ---> painters
                                   terminal
```

What is hard about each, and what must hold:

* **Engine and cache.** One goroutine pings; the mutex of the cache is free
  between the choice of an address and the count of its drop, and held over
  a whole resolver round, sends on the client's channel included. Replies come
  late, twice or never and are told apart by a wrapping sequence number, and on
  a raw socket by nothing else from those to other processes.
  Cancellation is looked at in only some of the places the goroutine blocks.
  *Correct:* the address being pinged is the entry at the index, not stale and
  of the socket's family; a measured reply is no earlier ping's; one ping is one
  result, in order, and the channel is closed once and last; a dead address is
  given up; a cancellation ends the goroutine.
* **Tee, sink, writer, file.** Every value goes out through two goroutines of
  its own, so the sides see different orders. The file is written over in
  place on every result; writes may fail; the process may be killed between
  two bytes. *Correct:* graph and file get the same results, each once; what a
  write has put in the file stays there in its place over failures, crashes
  and restarts; a result arrives unless the program ends.
* **Data.** Addresses are kept sorted while blocks are numbered by arrival, so
  that a point's block, and the address it is given back with, depend on two
  slices kept in step; statistics are incremental and their extremes start at
  zero. Timestamps are not in order. *Correct:* the store is a log of what it
  was given; every statistic is that of the points, also after the file was
  read back by this or a later version.
* **Spans and x axis.** A gap that is an outlier opens a new span, by
  comparisons with limits that differ for two points, for none and for some
  deviation. Widths are cut to integers and filled up; the iterator over the
  axis goes forward only and has no end of its own. *Correct:* spans tile the
  points, the widths of the groups share out the axis, and the iterator finds a
  place for every point that is drawn.
* **File.** The buffer is sized by one function, filled by a second and read by
  a third, in two phases, for three versions; there is no checksum, and a write
  cut off by a crash leaves a file that is part new and part old. *Correct:* what
  was written is read back by this and later versions; a torn file is refused.
* **Frame.** Both axes scale to ranges that may be empty or run backwards, and
  divide by what may be zero; points, bars, labels and gradients come to the
  same cells in the order of time, and four methods decide what replaces what.
  *Correct:* everything is drawn inside the terminal; no point and no loss is
  hidden; time runs to the right.
* **Draw loop and gui.** Painters render into the draw buffer and tell
  GUIState afterwards, while a frame that took its token earlier is being
  written; size, presentation and count are read at different moments of a
  pass. Sizes and control messages travel in goroutines of their own.
  *Correct:* nothing a painter wanted shown or removed is forgotten; the screen
  comes to show the latest of everything; a cancelled program ends.
* **Terminal.** A query for the background colour is given 20ms and its
  goroutine left reading if they do not suffice; raw mode is entered and left, a
  listener loop is cancelled and drained. *Correct:* a colour that is said to be
  found is the terminal's; raw mode is always left; a key is handed out once.

The full list of what is hard to test, line by line, with the properties that
would catch each, is under `hazards` in `PROJECT.json`.

## 2. Plan

Order, with what each step rests on. All is done but the last lines of step 12.

1. `QueryCache`: the cache as operators on a store and an index.
2. `PingStream`: the abstract specification of the engine's channel.
   `PingLoop` (EXTENDS `QueryCache`): the engine, and its refinement of
   `PingStream`. `MCPingLoop` gives resolver answers to TLC.
3. `PingPoint`, `Statistics`: points and statistics, shared by what follows.
   `PointLog`: the abstract log. `DataStore` (EXTENDS `PingPoint`,
   `Statistics`): the record, and its refinement of `PointLog`.
4. `Recording`: tee, sink, writer, file, shutdown, over the engine that
   `PingStream` abstracts and the log that `PointLog` abstracts.
5. `Spans` (EXTENDS `PingPoint`, `Statistics`): spans and the x axis.
6. `Screen`: draw loop, gui, painters, controls and the end of the program.
7. `LeastElement`, `PingLoopProofs`, `DataStoreProofs`, `TerminalProofs`,
   `RecordingProofs`, `ScreenProofs`, `SpansProofs`, `FrameProofs`.
8. `Terminal`: raw mode, the two listening goroutines, keys, cleanup.
9. `SessionFile` (EXTENDS `DataStore`): the fields of a `.pings` file, its three
   versions, writes that are cut off. `MCSessionFile`.
10. `Frame` (EXTENDS `Spans`): the places of the points, the draw window, the
    gradients. `MCFrame`.
11. The query for the background colour, in front of the rest of `Terminal`.
12. The panics that `termRecover` meets, in `Terminal`.
    To come: `OneShot`; the title, the key and the bars between the groups of a
    frame; start-up errors.
13. The proof about the file, in `DataStoreProofs` (EXTENDS `SessionFile`).

Abstract specifications: `PingStream` (one ping, one result) and `PointLog`
(nothing lost, reordered or given another address). Each is a PROPERTY of a
run of the detailed module, through `INSTANCE ... WITH`.

## 3. The modules and the code

**`QueryCache`** — `ping/dns.go`. The store is a sequence of entries
(`addr`, `stale`, `drops`), the index is the code's 0-based one. `LiveIndex` is
where `getLockFree`'s loop stops; `MarkDropped` is `Dropped`, which reads the
count at the entry of the address and writes at the index; `Clear` is Go's
`clear()`, which keeps the length.

**`PingLoop`** — `ping/api_implementation.go`, `ping/dns.go` (`dnsRetry`),
`ping/api.go` (`LastIP`, `CreateChannel`). `pc` is where the goroutine of
`startChannel` is:

| `pc` | code |
|---|---|
| `Dns` | before `dnsRetry`; the mutex is free |
| `Query`, `ReportDns`, `DnsTick`, `Listen` | in `dnsRetry`'s loop, mutex held (`Locked`): the resolver, the send of a DNSFailure, the ticker and `clear`, `startListening` |
| `Write`, `Read` | `pingOnChannel`: the request, `pingRead` |
| `Send`, `Drop` | the send on the client's channel, `Dropped` |
| `Waiting`, `Tick` | the label `WAITING` with its select, the receive from the ticker |
| `Exit`, `Closed` | the deferred calls, the end |

A reply is represented by its age: how many pings were started after the one it
answers. It is taken for the answer of the current ping iff its age is a
multiple of `SeqSpace` (65536 in the code, a `uint16`). `Good(age)` in a result
records which request was really measured. A raw socket also receives what is
for other processes: `Overhear` puts a `Stranger` in it, which `Measured` takes
for any of the things the code may, the ping's own answer included. The client is one goroutine that
reads the channel and, when `AsksLastIP`, calls `LastIP` first and between reads,
as `RunPing` does. Cancellation, resolver, network and ticker are the
environment.

**`PingStream`** — the promise of `CreateChannel` and `CreateFlexibleChannel`.

**`PingPoint`, `Statistics`, `DataStore`, `PointLog`** — `graph/data`. The
variables of `DataStore` are the fields of `Data` and of its `Network`; `Add`
is `Data.AddPoint` with all it calls (`Network.AddPoint`, `addBlock`,
`Block.AddPoint`, both headers, the runs). `Reopen(v)` is a write by one
program and a read by the next, where `v` is the version of the file that is
read: timestamps lose what is below the millisecond, durations do not, and a
version without (good) runs has them recomputed by `migrate`. Means are kept as
the sums they are means of; the variance is left out.

**`SessionFile`** — `data_compact.go` and the other `*_compact.go`,
`serialisation.go`, `migrate`, `LoadOrCreateFile`. It adds no variable: the file
of a store is a function of it, `File(v)`, the bytes in the order in which
`write` puts them, the fixed part with all lengths (`Phase1`) before the variable
one (`Phase2`), for each of the three versions. An integer is `IntLen` digits of
base `Base`. The writers give the fields of each record, which `FlattenSeq`
puts one after the other. The readers have a `Layout` of each record: the kinds of
its fields (`int`, `time`, `byte` or an identifier), their places and its size.
`Places` says where each part of a file begins, by the lengths in it, and `RawsAt`
where the points of each block do. `Read` takes any bytes apart with them, as
`FromCompact` does, and is not `ok` where the code panics or returns an error;
`Accepted` is what a session goes on with. `Torn` is what a crash can leave of a
file that is written over another. Nothing writes the two older versions any
more: their bytes are those the readers expect.

**`Recording`** — `utils/channels` (`TeeBufferedChannel`), `graph.sink`,
`writeToFile`, `Finish`, `files.LoadFile`, `duplicateData`. Results are
numbered. `toGraph` and `toFile` are the goroutines the tee has started and
that wait to send. `WriteBegins` and `WriteEnds` are the two ends of the single
in-place write; between them the file is not `whole`. `Crash` may come at any
time; `NextSession` reads the file and goes on. `file.points` is what the last
write that reached its end put there, also while the file is torn: it is a torn
file that `NextSessionFails` meets. The tee's case of `ctx.Done()`
has no body (channels.go:26), so it is a step that changes nothing.

**`Spans`** — `graph/graphdata` and `graph/xAxis.go`. The state is the points
and the spans; `AddPoint` and `Reopen` are the actions. The cut into spans
(`TooBig`, `AddPointToSpans`), the merge of spans for a width
(`Combined`, `Widened`, `XAxis`) and the walk of `xAxisIter` (`Places`) are
operators; loops are recursive functions (`Combined`, `SumTo`, `Place`).
`NewPoints` is the set of points that may come, a constant. A
floating point number is the exact ratio it stands for, and comparisons are
multiplied out.

**`Frame`** — `computeFrame` and what it calls, as operators on the points and
spans of `Spans`, so that every reachable set of points is drawn for every size,
scale and choice of spans.

| in `Frame` | code |
|---|---|
| `Placed`, `PlacedGroups` | the loop of `computeXAxis`: the columns each group starts and ends in, from the lengths of its texts (`AfterText`, `AfterTimes`) |
| `GetX`, `GetY`, `Normalized` | `getX`, `getY`, `NormalizeToRange`: a division by zero gives the least integer, as the conversion of its result does |
| `View`, `ViewOf` | what `Graph.computeFrame` hands to `computeFrame`: axis, points in the order of the iterator, the group of each |
| `Points` | the first loop: points with their labels, bars of losses and the filler between two losses |
| `Add`, `AddLabel`, `AddPointTo`, `AddDroppedBars`, `AddGradient` | the methods of `drawWindow`; a window is a function from cells to what is kept for them, `max`, and the labels |
| `Printed`, `LabelledBy` | where `draw` prints the text of a label, and the one cell `addLabel` keeps beyond it |
| `Pairs`, `Steps`, `StepsIn`, `Gradients` | `drawGradients` with an iterator of its own that good points alone move, and the steps of length 1 of `drawGradient` |
| `Solve`, `SolveShallow`, `SolveTwo`, `SolveDirections` | `gradient.go`; the loop with its `specific` flag is the function `skipped` |

**`Screen`** — `graph/graph.go` (`Run`, `handleControl`, `LastFrame`),
`graph/drawing.go` (`computeFrame`, `checkGUI`, `painter`), `gui/`, and the help,
controls, toasts and speed changes of `cmd/subcommands/acci-ping`. `loop` is
where the draw loop is: `Top` (the select on the context), `Offer` (the send of
a size), `Read` (the presentation), `Compute`, `Clear` and `Write` (the layers
one by one). `work[p]` is what painter `p` has rendered and not yet told
GUIState; `token` is the state the loop will give back to `Drawn`. `LoopFails`
is a size query or a write that fails, with which `Run` returns. The screen
is, for each layer, the set of what was written since the last clear and not
written over since. The bytes of a layer are not copied, so a write during a
render may show the new, nothing, or a mixture (`Readable`).

**`Terminal`** — `terminal/terminal.go`, and what `application.go` and `help.go`
do with keys and at the end. `reader` is where `listen` is (`Check` the context,
`Read`, `Wait` for the processing signal), `listener` where `beingListening` is
(`Select`, `Hand` a key to its listener, `Signal`). The two share `buffer`; keys
are numbered as they are typed, so that a lost, repeated or overtaken one shows.
`query` is the goroutine that reads the answer to the query for the background
colour: not yet reading (`Start`), in its `First` read or a `Later` one, `Sending`
the colour, or ended with the result channel closed, by the parser (`Closed`) or a
read that failed (`Failed`). The answer comes as keys
do, in parts, of which the parser consumes the first `Needed`. Its buffer has
`QueryBuffer` bytes; `room` is the slice that the next read may fill, which
the read before has cut to its own length.
`background` is what `BackgroundColour` returns: `"terminal's"` and `"zero"` with
true, the other two with false.
`help` is the goroutine behind the fallback keys,
and `app` the main one: `Query` while it waits for the colour, `Loaded` until
`StartRaw`, `Restored` after the deferred `termRecover` of `Run`,
`Closed` after its closes, `Crashed` by a panic that a cleanup or `termRecover`
meets, and `Killed` by one that none does.

## 4. What is checked

Every module has a type invariant (`TypeOK`). The other properties:

| run | property | what it shows |
|---|---|---|
| `engine_raw` | `PingsUsableAddress` | from the choice of an address to the count of its drop the index still points at it, it is not stale, and the socket can send to it |
| | `PanicsAsAnnounced` | the engine panics only on a socket whose family the resolver's answer has no address of, as a TODO says (§8.26), and never on an address the store does not hold |
| `engine_udp` | `GoodMeansOwnReply` | a measured round trip is that of the ping itself, not an earlier one's (on a raw socket: or a stranger's, §8.27) |
| | `LagIsCounted` | unread replies are never more than the drops counted: a lag is paid for, and ends when the addresses are stale |
| | `QueriesOnlyWhenExhausted` | the resolver is asked again only after every address dropped more than the `maxDrops` it is allowed |
| | `HangsOnlyInLastIP` | after a cancellation the channel is closed, wherever the goroutine was blocked, but for the meeting of §8.1 |
| | `DeadAddressAbandoned` | an address that never answers is given up |
| `engine_raw` | `KeepsStreamPromise` | the engine implements `PingStream` |
| | `SpeedChangesGoTheirWay` | Faster never slows the pings down, Slower never speeds them up |
| `data_store` | `NetworkSound` | the sorted addresses and their blocks stay a bijection |
| | `KeepsLog`, `RecordsWhatArrives` | the store implements `PointLog`, and what is appended is what was given |
| | `StatisticsAgree`, `RunsAgree` | incremental and migrated statistics are those of the points |
| | `FileReadsBack` | a file of any version, read by the current program, is the record to the last byte, and fills its buffer exactly |
| | `TornIsRefused` | a file cut off in the middle of being written over is refused, unless it is the same as the old or the new one |
| `recording` | `EachSideOnce` | graph and file side have the same results, each at most once |
| | `FileOnlyGrows` | what a write that reached its end put into the file is there after every later one that does |
| | `ResultsArrive` | a result gets to graph and writer unless the program ends, although writes fail |
| `spans` | `SpansTile` | spans lie end to end over the points and describe them |
| | `SteadyIsOneSpan` | equal intervals are never taken apart |
| | `WidthsShareTheAxis` | groups are in order, wide enough, and their widths add up to that of the axis |
| | `PointsFindTheirPlace` | the iterator over the axis never runs off its end |
| | `InsideTerminal` | columns are inside the terminal, and points, losses and the steps of gradients have cells there exactly where the y axis has a length (§8.22) |
| | `PointsAreShown` | every good point is seen: its cell counts all points there, or a label is printed over it, but for one cell (§8.28); the best and the worst have labels |
| | `LossIsShown` | every loss has its column from top to bottom, and no column between two losses is blank |
| | `TimeRunsRight` | in a frame with room for its texts, what is later is not further left |
| `screen_painters` | `NothingForgotten` | with no update left by the tokens, all that finished painters want is on the screen, and the help leaves nothing behind |
| `screen_end` | `Settles` | the screen comes to show the latest points, size, presentation and layers, and stays so |
| | `CancelEnds` | a cancelled program ends |
| `terminal` | `KeysHandedOnce` | every key is handed out once and in order, but for those the colour query took |
| | `ColourIsSound` | a colour is taken for the terminal's only if its whole answer came first and in time; the zero of a failed query comes of a key or a failed read |
| | `RawIsLeft` | however the program ends, but for a panic that no cleanup meets (§8.25), the terminal is not left raw |
| | `CtrlCIsHeard` | a control-C is heard, whatever comes before it |

`claim_lastip_returns`, `claim_recorded`, `claim_last_frame` and
`claim_colour_fallback` (`FoundIsTheTerminals`) each check one sentence of the code's own comments or texts, which TLC refutes (§8).

Two restrictions in the properties are deliberate. `HangsOnlyInLastIP` excludes
the deadlock of §8.1 and the nil dereference in `LastIP`, so that it says that
there is no *other* way to hang. `Settled` compares with the presentation the
graph has, not the one the keys remember, because §8.4 makes them differ. The
exceptions of other properties (a stranger's reply, the announced panic, a y axis
without a length, the cell beside a label, the unmet panic) are behaviours of the
models, stated as exactly as they are there, and each has its entry in §8.

`PROJECT.json` lists for every property a mutant: a plausible bug put in place
of a definition, under which TLC finds the property violated by the same run.

## 5. Bounds

| bound | runs | why it is enough |
|---|---|---|
| `Addrs`, `Answers` | 2 of one family, or one of each | the index can move, wrap, and meet a stale entry; a family change filters one |
| `MaxDrops` 0 or 1 | engine | counts below, at and above the limit are reached; 1 makes a drop of a lower count happen between two of a higher |
| answers in both orders of their addresses | engine_udp | a second resolver round may put another address at the index |
| `Lifetime` 1 to 3, `InboxCap` 2 or 3 | engine | a reply can be late by more than one ping, and replies can queue and swap |
| `SeqSpace` 12 | engine | larger than any age the other bounds let a reply reach, as 65536 is in the code as long as a host has fewer addresses than would allow 65536 drops without a new socket |
| `ChanSize` 0 or 1 | engine | a send that meets its reader, blocks, or is buffered |
| `MaxPending` 1, `MaxGap` 3 | engine_raw | a message of each kind waits at once; rates 2, 1, none, and back up to 3 |
| `MaxPoints` 4, two addresses and none, `Times` {2, 7}, `Durations` {1, 3}, `Resolution` 4 | data_store | three blocks, an address inserted before another, times that go back, one that is cut to another millisecond than the other |
| `Base` 2, `IntLen` 3, `FilePoints` 2 | data_store | every number and length of a file of two points has its digits, a time is written without the part below a millisecond; a new file is longer than the old one or as long, of the same version or a later one, and every cut of it over every version is looked at |
| `MaxResults` 2, `MaxSessions` 2, `MaxZeros` 1, `ChanSize` 1 | recording | two values can overtake each other, a channel can be full, a crash can hit any step of a session, be read by the next and hit that too |
| `MaxPoints` 5, `Resolution` 40, `Widths` {5, 26, 46}, `NewPoints`: times {0, 20, 40, 200} with a loss or one or two of the round trips {0, 1, 20, 50, 80} | spans | gaps at, below and above each limit, equal ones, and times that a restart cuts to others; splits with and without deviation, for lost and for good points; widths with no room, with merged groups and with all |
| `FramePoints` 4, sizes 5×3, 12×4, 13×6 and 42×8, `StepLen` 7, `LabelLen` 3, `LogUnit` 100 | spans | no room for an axis or a bar, bars of one cell, room for bars but not for two groups, and room for groups with labels of their own; round trips that are all nought, all a nanosecond, or have one strictly between the best and the worst, which is counted and not labelled; logarithms tell all of them apart; four points make a gradient of three steps, overlaps, and losses before, between and after good ones. With four losses among five points, `LossIsShown` looks at five |
| `Sizes` 2, `MaxEvents` 2 or 3, two of the four painters | screen | every kind of painter is in some run; two events race and a third comes after |
| `BufferSize` 2, `QueryBuffer` 3, `MaxKeys` 4, `Needed` 2, `AnswerParts` 3 | terminal | a read of one key, of a full buffer, and one that leaves keys for the next; each kind of key before and after each other; an answer that is whole, cut, late, between keys, or leaves its terminator; a later read of the query within its buffer, and one over the end of it |

The four painters are independent but for the layers; each run takes two. No
symmetry is used: addresses differ by family and order.

## 6. Fairness

* `PingLoop`: WF of the goroutine's own steps, because the Go scheduler runs a
  goroutine that can go on; WF of the cancelled and the Speed cases on their
  own, because `select` chooses at random among those that are ready; WF of the
  client's receive and close, and SF of its return to the channel, because a
  client that asks for `LastIP` between reads still reads; WF of the ticker.
  Nothing is assumed of the network, the resolver or the cancellation.
* `Recording`: WF of tee, sink and writer; SF of each goroutine's send, since
  the runtime serves the senders that wait on a channel in turn. The engine,
  the disk and the user owe nothing; a failing disk may fail for ever.
* `Screen`: WF of the draw loop, of every painter's two steps, of its taking a
  size, of the two receivers of control messages, and of the end of `Run` and
  `Finish`. Points, keys, expiries, failures and the cancellation owe nothing.
* `Terminal`: WF of the two goroutines' own steps, which run when they can, and
  of the main goroutine's until `StartRaw`: the timeout of the query is a timer.
  The user, the terminal's answer, the goroutine of the query, failures and the
  end of the program owe nothing.

`engine_udp` and `claim_lastip_returns` do not check for deadlock: a client that waits
in `LastIP` for a goroutine that waits for it is one (§8.1). All others do.
`DataStore`, `SessionFile`, `Spans` and `Frame` are safety only.

## 7. What is proved

For every value of the constants, from the assumptions the modules name and
TLC evaluates (`CacheAssumption`, `EngineAssumption`, `PointAssumption`,
`StoreAssumption`, `FileAssumption`, `NumbersFit`, `SpansAssumption`,
`FrameAssumption`, `RecordingAssumption`, `ScreenAssumption`, `TerminalAssumption`:
types of the constants, that an answer's addresses have the family they are
listed under, that the integers of a file hold its numbers, that a terminal's
answer has no fewer parts than are needed and the parser room for them, and that logarithms are known finely
enough to tell round trips apart).

**`PingLoopProofs`.** `TypeCorrect`, `UsableAddress` (`PingsUsableAddress`) and
`DropsAreOfKnownAddresses` are from `Inductive`. `PingsUsableAddress` is not
inductive: whether an address fetched later is usable depends on what the store
holds in between. The invariant `IInv` adds `IndexInv` (the index points into a
store that is not empty, and is 0 when listening) and `StoreInv` (between two
resolver rounds the store has only addresses of the socket's family, and the
resolver's last answer keeps its families apart). The argument is by action: the
resolver's rounds rebuild store and index together with the mutex held; every
other action leaves index and address alone; `Dropped` may make the entry stale,
but the ping is then over. The other theorems add to it, one invariant on the other:

| theorem | under | invariant and argument |
|---|---|---|
| `OnlyTheAnnouncedPanic` (`PanicsAsAnnounced`) | | a drop is of an address held, so that only a socket opened for an answer without an address of its family is left to panic |
| `SpeedsGoTheirWay` | `Speeds = {"Faster", "Slower"}` | `PeriodInv`: the ticker has the remembered period, or none after a Faster at the shortest one; halving and doubling go one way |
| `AllowanceIsUsed` (`QueriesOnlyWhenExhausted`) | `AnswersDistinct` | `CountedInv`: an address is in the store once and is stale exactly when it has dropped `MaxDrops + 2` |
| `OwnReplyHolds` (`GoodMeansOwnReply`) | `AnswersDistinct`, `NumbersSuffice` | `AgeInv`: a reply at place *i* of the socket is no older than lifetime, places before it and drops since the socket was opened allow, which is less than the sequence numbers there are |
| `ImplementsStream` (`KeepsStreamPromise`) | the same | each step is one of `PingStream` or a stutter; that a good result is the ping's own is `AgeInv` again |
| `LagIsCountedHolds` | `AnswersDistinct`, no duplicates, no raw socket | `LagInv`, which is the property with the ping that is under way: a reply that is read late leaves another one unread |

What the code, or its use, says for the hypotheses: `AnswersDistinct`:
resolvers name an address once; `Dropped` reads the count of the first entry with
the address and writes it at the index, so a second entry would be given the
first one's count. `NumbersSuffice`: there are 2^16 sequence numbers, against
`maxDrops + 2` for each address of one answer. `Speeds`: the application's keys
send no other. TLC evaluates the first two on the instances of the runs
(`MCPingLoop`), so that no theorem is about nothing.

The operators of the cache keep types, and `LiveIndex` of a store with a live entry
points at one. Which entry a `CHOOSE` names is from `LeastElement`, the least number
with a property.

**`DataStoreProofs`.** `TypeCorrect`, `NetworkIsSound`, `RecordsArrivals` and
`ImplementsLog`. The invariant is types, `NetworkSound`, and that every entry
of the insertion order points at a block and a place in it that exist. An
insertion into a sorted sequence keeps it sorted and moves the block of each
address along with it (`InsertedFacts`, `PositionSplits`,
`FoundAtPosition`); hence the block of an address is found again and no other
address has it (`NetworkStep`, `IPOfIs`), and so a point is given back with
the address it came with (`AddStep`). `RunsAgreeHolds` says what a run of
points is without counting it step by step (`RunIs`: a streak of the longest
length ends at `lastIndex`, none is longer and none of it ends before), which a point preserves and from which
the recomputation of `migrate` follows by an induction written out with
`NatInductionOnSets`, an induction over a set rather than an operator;
`longest > 0` has to imply that `lastIndex` is one of the points.
`StatisticsAgreeHolds` has of every header that its minimum and maximum are
attained, of good points, and that its sums are sums to the last point; the
duration of a header is exact or, after a file was read, both of its ends are from it.

`FileReadsBackHolds` (`FileReadsBack`) is about the file of such a record, for
integers of any base and length, any URL and each version. Of the file it uses only
that its parts stand one after the other: what is at the place of a part is the part.

* An integer is read as what was written when it is less than
  `Limit`, the power of the base (`DigitsOfNum`): what the first digits are read as
  is the rest after as many divisions. `AnyNumEncodes`, `TimeEncodes` and
  `ByteEncodes` say it of the fields, a time with the part below the file's
  resolution cut off.
* A record that is written field by field holds, and its values are those of its
  fields, at the places its layout says (`RecordOf`); records of one size that follow
  each other are found at the multiples of it (`RecordsOf`).
* The sizes of the layouts are the lengths that `byteLen` adds up (`HeaderSize`,
  `BlockSize`, `RunsSize` and the others), so that the buffer is filled exactly
  (`BufferIsFilled`). The points of a block begin where the ones before it end
  (`RawsAtSteps`, `BlocksDataAt`).
* `FileIsRead` puts them together, part by part, for a record whose numbers are less
  than `Limit` (`FileFits`). That this is so in every state with no more than
  `FilePoints` points is `RecordFits`. It needs an invariant of its own, `NumbersInv`:
  each time and duration in a header is that of a point, or one that was cut, counts
  are no more than the points, and a sum of durations is no more than as many of the
  longest. With `RunsInv`, a streak ends at a point; with `IInv`, an entry of the
  insertion order and a block index are of a block that is there.

`FlattenSeq`, `Layout`, the digits and `ByteLen` are recursive functions. What a
function has at each step is by `Recursion` and `SameSteps` of `LeastElement`, each an
induction over a set of numbers. `NumbersFit` says that the number of points, the
length of the URL, timestamps, round trips and the sum of `FilePoints` of them are
less than `Limit`. In the code an integer holds what is less than 2^63: a time since
1970 is, even in nanoseconds, and a round trip is no longer than the timeout of a
ping. In place of the sum the code writes the mean, a float of as many bytes.

**`RecordingProofs`.** `TypeCorrect`, `EachSideOnceHolds`, `FileGrows`
(`FileOnlyGrows`: of what writes that reach their end put into the file; a torn one
is `TornIsRefused`). `OnceOf` counts a result over the places of one side:
goroutines that wait, channel, graph or file. It is as often on one side as on the
other and at most once, together with the engine's channel; a result that is not
yet produced is nowhere, not even in the file of an earlier session. That the
file grows needs that the writer's memory extends what it read
(`MemoryExtendsFile`).

**`SpansProofs`.** `TypeCorrect`, `SpansTileHolds`, `SteadyIsOneSpanHolds`,
`WidthsShareTheAxisHolds`, `PointsFindTheirPlaceHolds`. The invariant `GraphInv` has
`Tiled` (spans end to end, each of which describes its own points) and `Together`
(if all gaps are equal, then there is one span and the sums of its gaps are those
of as many equal ones). A gap is compared with a mean and a deviation of exact
ratios; that a variance is not negative is the inequality of Cauchy and Schwarz
(`GapsSound`), and equal gaps have none. For the axis, a group of the first *k* spans
is sound by induction on *k* (`GroupsSound`): its parts lie end to end, and a time
of one of them is a time of the group. Widths: each group is cut to no more than
its share of the columns, so that there are columns left to fill up with, and the
open last group has the width 0. A point's home is the group with the span it is
in (`HomeAt`); homes come in the order of the points, the iterator is never past the home of the point
it is asked for, and therefore finds it or an earlier group that holds its time.

**`FrameProofs`.** `PointsAreShownHolds`, `TimeRunsRightHolds`,
`LossIsShownHolds` and `InsideTerminalHolds` (each is the property of that
name). A frame is a function of
points and spans, so that its invariant is `GraphInv`; `ViewSound` is what that
says of a view: the statistics are those of its points, a place is a group that
holds the point's time, groups are inside the width. The other induction is over
the loops of the code. They are recursive functions, and that there is one is a
theorem of `LeastElement` (`Recursion`: by an induction over a set, the values after *n*
steps); an invariant then says what the window has after each step.

* `PointsAreShown`: `Shown`, that after *k* points a cell to which some of them came
  counts them all or is `LabelledBy` one. Bars and fillers replace no point, and
  the best and the worst get their labels as they come; a gradient replaces
  neither a point nor a label.
* `TimeRunsRight`: in a group that does not begin in the last column `GetX` is
  between the group's columns and does not go down with the time
  (`RoomyColumns`), and a group begins where those before it have ended
  (`GroupsInOrder`).
* `LossIsShown`: `Barred`, that the columns of losses, and those between two in a row,
  stand from top to bottom; no point, label or filler undoes that. A gradient
  may take cells of a bar. If times go on and the frame is `Roomy`, each of its cells
  in the column of a loss is beside one of its own two points, in the same
  column (`GradientBeside`: a step is the cell of a time and a round trip between
  those of the two, `IsBetween`), and that point's cell is no gradient's, so
  that the column is never one of gradients alone.
* `InsideTerminal`: a time of a group has a column, a round trip between the
  least and the greatest a row, and steps are of such. Rows are by `Scaled`,
  which rises between bounds that differ (`ScalesRise`). Where all round trips
  are the same one, `effectiveYBounds` halves and doubles it; half of 1ns is 0,
  which has no logarithm, and twice 0 is 0: then every good point is outside
  (`NoRows`, §8.22).

**`TerminalProofs`.** `TypeCorrect`, `RawIsLeftHolds` (`RawIsLeft`),
`ColourIsSoundHolds` (`ColourIsSound`), `KeysHandedOnceHolds`
(`KeysHandedOnce`). The second is inductive once it is said of every phase
after `Running`: only `StartRaw` makes the terminal raw, and nothing goes back
before it. For the colour `ColourInv` says what each state of the query
stands for while its time runs: before the first read nobody has taken a key
(the listening goroutines have not begun), so that the first read is of all
the keys from the first on, and what `Parsed` says of it is said of the first
keys typed. A read after the time is over may turn the query to any state,
but the main goroutine is past the select then. A read that fails ends the query
without a key. For the keys, `KeysInv` puts
those handed out, those in the buffer that are still to be, and those typed into one
sequence (`Known`) that has each number once and in order, and `HandOver` says whose
turn it is with the buffer: the reader fills it only when the listener has said it
is done.

**`ScreenProofs`.** `TypeCorrect`, `NothingForgottenHolds`. The tokens are numbers
that only grow: what is told to GUIState after a token was taken has a larger one,
so that `Drawn` with an older token leaves the update to be seen
(`TokenInv`). `Kept` says of each painter that its content is on the screen, or
in the buffer with an update that the loop has yet to see, or rendered and to be
told; the loop's position says which layers of a frame are still to be written.

Only model-checked: liveness (`HangsOnlyInLastIP`, `DeadAddressAbandoned`,
`ResultsArrive`, `Settles`, `CancelEnds`, `CtrlCIsHeard`), which the prover does
not reach; and `TornIsRefused` of `SessionFile`. It is not true of all constants:
the bytes of a URL may be those of digits or identifiers (with `<<1>>` for the URL of
the instance TLC finds a torn file that is accepted), and lengths of which some
digits are the old ones may add up to those of the file. The code has no checksum
that would rule it out (§8.24), so that a theorem would need hypotheses on `Base`,
`IntLen` and `URL` that do not hold of 8 digits of base 256. TLC looks at every
cut of every write of the instance, where the URL is no digit and no identifier.

## 8. Where the code departs from what it says

With a run that shows it:

1. `claim_lastip_returns`: `dnsRetry` sends a DNSFailure on the client's
   channel while it holds the mutex `LastIP` takes (dns.go:232). A client that
   asks for `LastIP` before it reads waits for ever, though api.go:170 invites
   it to ask at once.
2. `claim_recorded`: `Finish` prints "Data Successfully recorded in file"
   (application.go:188) and the process ends, while `writeToFile` may hold
   results it has not written or be in the middle of writing the file over.
3. `claim_last_frame`: `LastFrame` (graph.go:204) of a program ended before its
   first point calls a painter that is nil.

   `claim_colour_fallback`: `BackgroundColour` says that "if it fails it returns the
   fallback of the terminal and false" (terminal.go:326). When the parser
   fails in time, by a key before the end of the answer or a read that fails
   (parser.go:207), the closed channel gives a zero colour (parser.go:129,
   `QueryFails`) that is returned as found. Zero is dark, as the fallback is; on
   Windows the terminal's settings are then not asked.

Met while modelling, without a run of their own; the models have the behaviour
of the code:

4. `handleControl` applies each message to a fresh `Presentation`
   (graph.go:254), so changing one setting switches the other off, while the
   controls and the key listeners go on showing it.
5. "If maxDrops is 0, then only a single dropped packet will mean the address is
   considered stale" (dns.go:157). It takes `maxDrops + 2` drops: the count before
   the drop is compared, with `>` (dns.go:67), so that with 0 the second drop is the
   first that makes an address stale. `QueriesOnlyWhenExhausted` asserts no more
   than the sentence allows, that an address is not given up before it dropped
   more than `maxDrops`; that it is given up no later than the sentence says is
   not true, and asserted by no property.
6. A read that ends because the context is done is reported as an internal
   error with no drop reason, although its cache entry counts a drop.
7. The tee and `FanInFanOut` have a case for `ctx.Done()` with no body
   (channels.go:26, :59): after a cancellation they spin, and a closed input
   gives zero values, which go to the graph and the file.
8. The box of a notification that shrinks leaves its remains on the screen
   until the next clear (notifications.go:102): only the last one to go
   invalidates. `NothingForgotten` is therefore exact for the help only.
9. Merging the statistics of spans takes a minimum of 0 from a span of lost
   points only, and divides 0 by 0 for two such (data.go:387).
10. The edge case of the x axis for a single datum counts the lost packets of
    the gaps, which are none (xAxis.go:243): a group with one good point draws
    its losses in the one column in its middle too.
11. `Iter.IsLast` is never true (`graph/data/data.go:88`): it compares with the count plus
    one.
12. Groups of the axis may overlap in time when timestamps go back, and a point
    may then be placed in another group's columns. `PointsFindTheirPlace` says
    that it finds one.
13. `cleanup` neither unhooks the listeners nor recovers what its comment says
    (terminal.go:227): keys read together with a control-C are still handed
    out, and a fallback key after `Run` has closed its channel is a send on a
    closed channel (help.go:67), a panic in the listening goroutine. `Terminal`
    has it as `HandHelpPanics`; the terminal is restored even then.
14. A colour query that timed out goes on reading (parser.go:84) and takes the
    keys that are typed next, a control-C among them.
15. The parser's second read overwrites the start of its buffer while its
    position goes on (parser.go:198): an answer that comes in two reads is lost,
    though `next` is called a stream (`QueryReads`). The position may go on past the
    41 bytes of the buffer (parser.go:188, `QueryOverruns`): an index out of
    range in a goroutine nobody recovers, after the time of the query too, when
    what is read are the user's keys.
16. Every goroutine that returns through `termRecover` clears the screen
    (application.go:110), which may be after `Finish` has printed its summary.
17. A failed `startListening` goes straight back to the resolver, with the mutex
    held and without waiting for the ticker (dns.go:267).
18. A read of 20 bytes may end within a rune of several bytes, which is then
    heard as two that are neither.
19. A gradient's glyph, even the empty ones, takes the cell of the bar of a loss
    (draw_window.go:186), though `PaintOrder` has gradients at the bottom. Where
    times go back, or in columns that two groups share, the gradient of two
    points may run through the column of a loss, and where a bar has one row
    only, nothing is left of it. `LossIsShown` says that no bar is replaced from
    top to bottom while times go on and the frame is `Roomy`.
20. Below nine columns a frame may run from right to left, and its points lie on
    the labels of the y axis. So may a group whose text, and those of the groups
    before it, take more columns than the groups have (`AfterText` counts with a
    text of the full length): it begins in the last column and is clamped to end
    in the one before it (xAxis.go:239). `TimeRunsRight` is of frames where no
    group begins there (`Roomy`).
21. The cells of a label's text count for the key (draw_window.go:231), which may
    explain more symbols than are drawn.
22. `effectiveYBounds` is there "to avoid NaNs and infs" (yAxis.go:118), and does
    not where all round trips are 0: twice and half of 0 are 0, and the row is no
    number (yAxis.go:128). On the logarithmic scale one round trip of 0 does, or
    1ns if there is no other, as half of it is 0. Zero values get into the graph (8.7).
    The check at drawing.go:214 then fails for every good point.
    `InsideTerminal` says that it does just then (`HasRows`); the run has
    such points.
23. A file that is cut short or malformed is a panic in the reader rather than
    the error that `LoadFile` promises; an empty file, which a crash between the
    creation and the first write leaves, is refused for ever.
24. There is no checksum. That a torn file is refused (`TornIsRefused`) rests on
    the lengths that come first, the URL that comes last, and on the bytes of the
    URL not being those of a number.
25. "Each go routine needs to handle a panic in the same way"
    (application.go:121), but only the six functions there do: the sink and
    `handleControl` (graph.go:113, :180), the engine, the tee, the fan out and
    the goroutines of the keys have no `termRecover`, and a panic of theirs
    leaves the terminal raw: `PanicIsNotRecovered`, which ends in `Killed`,
    where `PanicIsRecovered` is of the six. `RawIsLeft` is of every other end.
26. The engine opens the first socket it can and then keeps the addresses of its
    family; where the resolver's answer has none it panics, as the TODO there says
    (dns.go:99-104). `ListenOn` has the panic, and `PanicsAsAnnounced` that
    there is no other.
27. The identifier of an echo is "to help distinguish other ongoing echos"
    (api_implementation.go:235), but nothing compares it: a reply is measured as
    the ping's own by its type and its number (api_implementation.go:183). On a
    raw socket, which every process's replies come to, another's with that
    number is measured too. `GoodMeansOwnReply` and `PingStream`'s
    `Outcomes` in `KeepsStreamPromise` name it, and only where the socket is raw.
28. `addLabel` keeps "all the coords which the label will occupy"
    (draw_window.go:246), from two columns to the right of the point on; a label to the left
    is printed from its text's length to the left of it up to the column after it
    (draw_window.go:127). A good point two columns to the right, in the same
    row, is thus neither drawn nor printed over (`LabelledBy`).
29. A TODO says that the axis "still leaves some of the terminal unfilled"
    (xAxis.go:205). The widths do add up (`WidthsShareTheAxis`); where a group
    begins and ends is up to its text (`Placed`), which is where columns are left.

## 9. What is not modelled

* **Bytes.** Packets and the escape sequences of frames are abstracted to what
  is lost or kept by them. In a file, an integer has `IntLen` digits rather than
  8 bytes, an address one byte, and a statistic that is not modelled is zero.
* **Durations.** Time passes in ticks and timeouts, not in seconds: how long a
  back-off lasts is not in `Recording`.
* **Numbers.** Means are sums; variances of round trips are left out; floats
  are exact ratios. Rounding of floating point numbers is not modelled.
* **Texts in a frame.** The title, the durations along the y axis, the key and
  the bars between groups are left out; the texts of the x axis and of labels
  count with one length each (`StepLen`, `LabelLen`). Where the print of a label
  goes is `Printed`; that it may run over a neighbouring cell the window does not keep for
  it, where the left edge cuts it short, is not looked at. A logarithm is linear from
  one power of two to the next: monotonic, which is what the properties need.
* **The colour query.** Hex digits that are none are parts that do not match, and
  so are the other forms of an answer, which the parser does not know
  (the TODOs at parser.go:85). A control-C
  between the query and `StartRaw`, which ends the process, is left out. A key
  in `Terminal` is one byte.
* **`OneShot`** is in the plan (§2). **Panics** are in `Terminal` where
  `termRecover` or the listener's own cleanup meets them; between the cleanup and
  the panic that follows the other goroutines may run, which is left out.
  What panics the goroutines without either (§8.25) is not asked: any may, at any time.
* **Themes, typography, ANSI codes, flags, completion, build information and
  the developer tools** are pure functions of their input or command line
  plumbing, with no state that changes over time.
