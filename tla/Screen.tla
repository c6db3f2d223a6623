-------------------------------- MODULE Screen --------------------------------
(***************************************************************************)
(* How what the program shows gets to the terminal: the draw loop of       *)
(* graph.Run with computeFrame, the tokens of gui.GUIState, the goroutines *)
(* that paint over the graph (help, controls, and the notifications:       *)
(* toasts, speed changes), the control plane of the graph, the fan-out of  *)
(* terminal sizes, the keys, and the end of the program around them.       *)
(*                                                                         *)
(* A painter has a layer of the draw buffer, that it renders first and     *)
(* tells GUIState about after; the draw loop writes the layers one by one. *)
(* What a layer shows is a set of items drawn for a size: lines of text,   *)
(* notifications by the event that made them.  The screen is, for every    *)
(* layer, all that was written since the last clear and not written over.  *)
(***************************************************************************)
EXTENDS Integers, Sequences, FiniteSets

CONSTANTS
  Sizes,      (* bound: the sizes of the terminal                          *)
  Painters,   (* the painters there are, all four in the program           *)
  ShowHelp,   (* whether the help is shown at the start                    *)
  Presented,  (* what is switched on at the start                          *)
  Ends,       (* whether the user, or a failing terminal, may end it       *)
  MaxEvents   (* bound: points, resizes, keys and notifications in all     *)

(* Settings of a presentation: a set of what is switched on.               *)
Settings == {"following", "log"}

ASSUME ScreenAssumption ==
  /\ Sizes \subseteq Nat \ {0} /\ Sizes # {}
  /\ Painters \subseteq {"Toast", "Controls", "Help", "Speed"}
  /\ ShowHelp \in BOOLEAN /\ Presented \subseteq Settings /\ Ends \in BOOLEAN
  /\ MaxEvents \in Nat

Notifiers == Painters \cap {"Toast", "Speed"}

(* GUIIndexes of PaintOrder, from the back to the front.                   *)
PaintOrder ==
  LET If(p) == IF p \in Painters THEN <<p>> ELSE <<>>
  IN  If("Toast") \o If("Controls") \o If("Help") \o If("Speed")

ZeroSize == 0    (* what a receive from a closed channel of sizes gives     *)
NoFrame == [count |-> 0, size |-> ZeroSize, cfg |-> {}]
NoToken == [paint |-> -1, invalidate |-> -1]
Nothing == [items |-> {}, size |-> ZeroSize]
Garbled == [items |-> {}, size |-> -1]

VARIABLES
  events,        (* bound: how many events there were                      *)
  count,         (* points of the graph's data                             *)
  size,          (* the real size of the terminal                          *)
  termSize,      (* Terminal.size                                          *)
  loop,          (* where the draw loop is                                 *)
  loopSize,      (* its variable size                                      *)
  cfg,           (* its copy of the presentation                           *)
  frame,         (* g.lastFrame                                            *)
  token,         (* the token it will give back to Drawn                   *)
  layers,        (* layers it has still to write                           *)
  drawn,         (* the frame on the screen                                *)
  screen,        (* what is on the screen of each layer                    *)
  gui,           (* GUIState: the four indexes                             *)
  buffer,        (* the draw buffer of each painter's layer                *)
  items,         (* what each painter is to show                           *)
  lastSize,      (* Notification.lastSize                                  *)
  work,          (* what each painter is doing                             *)
  presentation,  (* g.presentation                                         *)
  keys,          (* the settings as the key listeners remember them        *)
  updates,       (* Control messages of goroutines of the listeners        *)
  resizes,       (* sizes held by goroutines of FanInFanOut                *)
  running,       (* painters, and handleControl ("Graph"), not returned     *)
  program        (* "Running", "Cancelled", "Closed", "Finished", "Panic"  *)

loopVars    == <<termSize, loop, loopSize, cfg, frame, token, layers, drawn, screen>>
painterVars == <<buffer, items, lastSize, work, running>>
controlVars == <<presentation, keys, updates>>
vars == <<events, count, size, loopVars, gui, painterVars, controlVars, resizes, program>>

(* The process is there.  A cancelled context stops nothing by itself.     *)
Alive == program \in {"Running", "Cancelled", "Closed"}
Cancelled == program # "Running"

-----------------------------------------------------------------------------
(* GUIState                                                                *)

ShouldDraw == gui.paint > gui.drawnPaint
ShouldInvalidate == gui.invalidate > gui.drawnInvalidate

GetState == token' = [paint |-> gui.paint, invalidate |-> gui.invalidate]

(* Mutant: everything up to now was drawn.                                 *)
DrawnUpToNow(t) ==
  gui' = [gui EXCEPT !.drawnPaint = gui.paint, !.drawnInvalidate = gui.invalidate]

(* Mutant: the two are mixed up.                                           *)
DrawnSwapped(t) ==
  gui' = [gui EXCEPT !.drawnPaint = t.invalidate, !.drawnInvalidate = t.paint]

Drawn(t) ==
  gui' = [gui EXCEPT !.drawnPaint = t.paint, !.drawnInvalidate = t.invalidate]

-----------------------------------------------------------------------------
(* Painters                                                                *)

Idle == [stage |-> "Idle", to |-> Nothing, update |-> {}]

(* A notification asks for the screen to be cleared when the last one is   *)
(* gone, the help whenever it was shown, the controls unless all are on.   *)
Invalidates(p, i, hadData) ==
  \/ p \in Notifiers /\ i = {} /\ hadData
  \/ p = "Help" /\ hadData
  \/ p = "Controls" /\ i # Settings

(* locklessRender, help.render, controlState.render: what is to be in the  *)
(* buffer and the update GUIState will be told of.                         *)
Rendering(p, i, s, hadData) ==
  [stage  |-> IF i = {} THEN "Paint" ELSE "Draw",
   to     |-> IF i = {} THEN Nothing ELSE [items |-> i, size |-> s],
   update |-> (IF Invalidates(p, i, hadData) THEN {"Invalidate"} ELSE {})
                \cup (IF i = {} THEN {} ELSE {"Paint"})]

(* The buffer is reset and drawn anew.                                     *)
Render(p, i, s) ==
  /\ work[p] = Idle
  /\ items' = [items EXCEPT ![p] = i]
  /\ work' = [work EXCEPT ![p] = Rendering(p, i, s, buffer[p] # Nothing)]
  /\ buffer' = IF i = {} THEN [buffer EXCEPT ![p] = Nothing] ELSE buffer

DrawTo(p) ==
  /\ Alive /\ work[p].stage = "Draw"
  /\ buffer' = [buffer EXCEPT ![p] = work[p].to]
  /\ work' = [work EXCEPT ![p].stage = "Paint"]
  /\ UNCHANGED <<events, count, size, loopVars, gui, items, lastSize, running,
                 controlVars, resizes, program>>

(* GUIState.Paint *)
Paint(p) ==
  /\ Alive /\ work[p].stage = "Paint"
  /\ gui' = [gui EXCEPT !.paint = IF "Paint" \in work[p].update THEN @ + 1 ELSE @,
                        !.invalidate = IF "Invalidate" \in work[p].update THEN @ + 1 ELSE @]
  /\ work' = [work EXCEPT ![p] = Idle]
  /\ UNCHANGED <<events, count, size, loopVars, buffer, items, lastSize, running,
                 controlVars, resizes, program>>

Event ==
  /\ Alive /\ events < MaxEvents
  /\ events' = events + 1

(* Notification.NewValue, for an error or a change of speed.               *)
Notify(p) ==
  /\ Event /\ p \in running
  /\ Render(p, items[p] \cup {events'}, lastSize[p])
  /\ UNCHANGED <<count, size, loopVars, gui, lastSize, running, controlVars, resizes, program>>

(* ... and the goroutine it leaves behind, after the timeout.              *)
Expire(p, i) ==
  /\ Alive /\ i \in items[p]
  /\ Render(p, items[p] \ {i}, lastSize[p])
  /\ UNCHANGED <<events, count, size, loopVars, gui, lastSize, running, controlVars,
                 resizes, program>>

(* The key h, which the terminal hands to the help itself.                 *)
PressHelp ==
  /\ Event /\ "Help" \in running
  /\ Render("Help", {"help"} \ items["Help"], termSize)
  /\ UNCHANGED <<count, size, loopVars, gui, lastSize, running, controlVars, resizes, program>>

(* A painter gets a size.  Splitting the text of a toast to a width of     *)
(* zero divides by it.                                                     *)
NewSize(r) ==
  /\ Alive /\ r.to \in running
  /\ Render(r.to, items[r.to], r.size)
  /\ resizes' = resizes \ {r}
  /\ lastSize' = [p \in Notifiers |-> IF p = r.to THEN r.size ELSE lastSize[p]]
  /\ program' = IF r.to = "Toast" /\ items["Toast"] # {} /\ r.size = ZeroSize
                THEN "Panic" ELSE program
  /\ UNCHANGED <<events, count, size, loopVars, gui, running, controlVars>>

PainterSeesDone(p) ==
  /\ Alive /\ Cancelled /\ p \in running /\ (p \in Painters => work[p] = Idle)
  /\ running' = running \ {p}
  /\ UNCHANGED <<events, count, size, loopVars, gui, buffer, items, lastSize, work,
                 controlVars, resizes, program>>

-----------------------------------------------------------------------------
(* The keys f and l: a goroutine gives the message to the graph and then   *)
(* to the controls.                                                        *)
Press(setting) ==
  /\ Event /\ "Controls" \in Painters
  /\ keys' = (keys \ {setting}) \cup ({setting} \ keys)
  /\ updates' = updates \cup
       {[n |-> events', setting |-> setting, on |-> setting \in keys', to |-> "Graph"]}
  /\ UNCHANGED <<count, size, loopVars, gui, painterVars, presentation, resizes, program>>

Switched(settings, u) == IF u.on THEN settings \cup {u.setting} ELSE settings \ {u.setting}

(* handleControl starts from a Presentation with everything off.           *)
HandleControl(u) ==
  /\ Alive /\ u.to = "Graph" /\ "Graph" \in running
  /\ presentation' = Switched({}, u)
  /\ updates' = (updates \ {u}) \cup {[u EXCEPT !.to = "Controls"]}
  /\ UNCHANGED <<events, count, size, loopVars, gui, painterVars, keys, resizes, program>>

(* showControls *)
ShowControl(u) ==
  /\ Alive /\ u.to = "Controls" /\ "Controls" \in running
  /\ Render("Controls", Switched(items["Controls"], u), termSize)
  /\ updates' = updates \ {u}
  /\ UNCHANGED <<events, count, size, loopVars, gui, lastSize, running, presentation,
                 keys, resizes, program>>

-----------------------------------------------------------------------------
(* The draw loop                                                           *)

AddPoint ==
  /\ Event
  /\ count' = count + 1
  /\ UNCHANGED <<size, loopVars, gui, painterVars, controlVars, resizes, program>>

Resize(s) ==
  /\ Event /\ s # size
  /\ size' = s
  /\ UNCHANGED <<count, loopVars, gui, painterVars, controlVars, resizes, program>>

LoopOnly == UNCHANGED <<events, count, size, painterVars, controlVars, program>>

LoopSeesDone ==
  /\ Alive /\ loop = "Top" /\ Cancelled
  /\ loop' = "Stopped"
  /\ LoopOnly /\ UNCHANGED <<termSize, loopSize, cfg, frame, token, layers, drawn, screen,
                             gui, resizes>>

(* The size cannot be asked for, or a write fails, and Run returns that.   *)
LoopFails ==
  /\ Ends /\ Alive /\ loop \in {"Top", "Clear", "Write"} /\ (loop = "Top" => ~Cancelled)
  /\ loop' = "Failed" /\ token' = NoToken /\ layers' = <<>>
  /\ LoopOnly /\ UNCHANGED <<termSize, loopSize, cfg, frame, drawn, screen, gui, resizes>>

UpdateSize ==
  /\ Alive /\ loop = "Top" /\ ~Cancelled
  /\ termSize' = size
  /\ loop' = IF loopSize = size THEN "Read" ELSE "Offer"
  /\ LoopOnly /\ UNCHANGED <<loopSize, cfg, frame, token, layers, drawn, screen, gui, resizes>>

(* FanInFanOut: a goroutine for each painter, in no order.                 *)
Fanned(s) == {[n |-> events, size |-> s, to |-> p] : p \in Painters}

(* FanInFanOut takes the size that the loop sends, which is the last one.  *)
SizeTaken ==
  /\ Alive /\ loop = "Offer"
  /\ resizes' = resizes \cup Fanned(loopSize)
  /\ loopSize' = termSize
  /\ loop' = "Read"
  /\ LoopOnly /\ UNCHANGED <<termSize, cfg, frame, token, layers, drawn, screen, gui>>

(* Mutant: it returns when the context is done, as its comment says.       *)
SizeTakenUnlessDone == ~Cancelled /\ SizeTaken

TakeSize == SizeTaken

(* ... and, when the loop has closed its channel, zero sizes, for ever;    *)
(* bound: one of them.                                                     *)
TakeZeroSize ==
  /\ Alive /\ loop \in {"Stopped", "Failed"}
  /\ resizes' = resizes \cup Fanned(ZeroSize)
  /\ loop' = IF loop = "Stopped" THEN "Drained" ELSE "Broken"
  /\ LoopOnly /\ UNCHANGED <<termSize, loopSize, cfg, frame, token, layers, drawn, screen, gui>>

ReadPresentation ==
  /\ Alive /\ loop = "Read"
  /\ cfg' = presentation
  /\ loop' = "Compute"
  /\ LoopOnly /\ UNCHANGED <<termSize, loopSize, frame, token, layers, drawn, screen,
                             gui, resizes>>

(* frame.Match, and the count before it.                                   *)
FrameMatches == count = frame.count /\ termSize = frame.size /\ cfg = frame.cfg

Computes(next) ==
  /\ Alive /\ loop = "Compute"
  /\ loop' = next
  /\ LoopOnly /\ UNCHANGED <<termSize, loopSize, cfg, drawn, screen, gui, resizes>>

(* computeFrame: no points, or a new frame.                                *)
NoPoints ==
  /\ ~FrameMatches /\ count = 0
  /\ Computes("Top") /\ UNCHANGED <<frame, token, layers>>

NewFrame ==
  /\ ~FrameMatches /\ count # 0
  /\ frame' = [count |-> count, size |-> termSize, cfg |-> cfg]
  /\ Computes("Clear") /\ UNCHANGED <<token, layers>>

(* checkGUI: the last frame with the layers of the painters, these alone,  *)
(* or nothing at all.                                                      *)
OldFrame ==
  /\ FrameMatches /\ ShouldInvalidate
  /\ GetState
  /\ Computes("Clear") /\ UNCHANGED <<frame, layers>>

OnlyGUI ==
  /\ FrameMatches /\ ShouldDraw /\ ~ShouldInvalidate
  /\ GetState /\ layers' = PaintOrder
  /\ Computes("Write") /\ UNCHANGED frame

NothingNew ==
  /\ FrameMatches /\ ~ShouldDraw /\ ~ShouldInvalidate
  /\ Computes("Top") /\ UNCHANGED <<frame, token, layers>>

(* Mutant: a frame is painted without the GUI.                             *)
ClearWithoutGUI ==
  /\ Alive /\ loop = "Clear"
  /\ drawn' = frame
  /\ screen' = [p \in Painters |-> {}]
  /\ loop' = "Write"
  /\ LoopOnly /\ UNCHANGED <<termSize, loopSize, cfg, frame, token, layers, gui, resizes>>

(* painter: the clear and the graph's own layers, which nobody else draws. *)
Clear ==
  /\ Alive /\ loop = "Clear"
  /\ drawn' = frame
  /\ screen' = [p \in Painters |-> {}]
  /\ layers' = PaintOrder
  /\ loop' = "Write"
  /\ LoopOnly /\ UNCHANGED <<termSize, loopSize, cfg, frame, token, gui, resizes>>

(* What writing the buffer of p puts on the screen.  Its bytes are not     *)
(* copied: while they are being drawn the write takes some of the new      *)
(* ones, or a mixture of them and the old.                                 *)
Readable(p) ==
  IF work[p].stage = "Draw"
  THEN {Nothing, work[p].to} \cup (IF buffer[p] = Nothing THEN {} ELSE {Garbled})
  ELSE {buffer[p]}

(* What c is written over: itself and, as boxes of notifications only grow *)
(* with them, fewer of the same notifications.                             *)
Covered(p, c) ==
  {d \in screen[p] : c.size = d.size /\ (c = d \/ (p \in Notifiers /\ d.items \subseteq c.items))}

WriteLayer ==
  /\ Alive /\ loop = "Write" /\ layers # <<>>
  /\ LET p == Head(layers)
     IN  \E c \in Readable(p) :
           screen' = [screen EXCEPT ![p] = (@ \ Covered(p, c)) \cup ({c} \ {Nothing})]
  /\ layers' = Tail(layers)
  /\ LoopOnly /\ UNCHANGED <<termSize, loop, loopSize, cfg, frame, token, drawn, gui, resizes>>

Written ==
  /\ Alive /\ loop = "Write" /\ layers = <<>>
  /\ IF token = NoToken THEN UNCHANGED gui ELSE Drawn(token)
  /\ token' = NoToken
  /\ loop' = "Top"
  /\ LoopOnly /\ UNCHANGED <<termSize, loopSize, cfg, frame, layers, drawn, screen, resizes>>

-----------------------------------------------------------------------------
(* The end: Run cancels what is left to cancel and closes the channels of  *)
(* the keys; Finish prints LastFrame, whose painter a program without a    *)
(* frame does not have, but for a program that ends with an error.         *)
EndOnly ==
  UNCHANGED <<events, count, size, loopVars, gui, painterVars, controlVars, resizes>>

Cancel == Ends /\ program = "Running" /\ program' = "Cancelled" /\ EndOnly

RunReturns ==
  /\ program \in {"Running", "Cancelled"} /\ loop \in {"Stopped", "Drained", "Failed", "Broken"}
  /\ program' = "Closed"
  /\ EndOnly

(* A goroutine of a listener still waits to send on one of them.           *)
SendPanics ==
  /\ program = "Closed" /\ updates # {}
  /\ program' = "Panic"
  /\ EndOnly

Finish ==
  /\ program = "Closed"
  /\ program' = IF frame = NoFrame /\ loop \notin {"Failed", "Broken"} THEN "Panic" ELSE "Finished"
  /\ EndOnly

Over == ~Alive /\ UNCHANGED vars

-----------------------------------------------------------------------------
(* The help and the controls are rendered at the start.                    *)
Init ==
  /\ events = 0 /\ count = 0 /\ size \in Sizes
  /\ termSize = size /\ loopSize = size
  /\ loop = "Top" /\ frame = NoFrame /\ token = NoToken /\ layers = <<>>
  /\ drawn = NoFrame /\ screen = [p \in Painters |-> {}]
  /\ gui = [paint |-> 0, drawnPaint |-> 0, invalidate |-> 0, drawnInvalidate |-> 0]
  /\ buffer = [p \in Painters |-> Nothing]
  /\ keys = Presented /\ presentation = Presented /\ cfg = Presented
  /\ items = [p \in Painters |-> CASE p = "Help" /\ ShowHelp -> {"help"}
                                   [] p = "Controls" -> Presented
                                   [] OTHER -> {}]
  /\ lastSize = [p \in Notifiers |-> size]
  /\ work = [p \in Painters |-> IF p \in Notifiers THEN Idle
                                ELSE Rendering(p, items[p], size, FALSE)]
  /\ updates = {} /\ resizes = {}
  /\ running = Painters \cup {"Graph"} /\ program = "Running"

Loop ==
  \/ LoopSeesDone \/ UpdateSize \/ TakeSize \/ ReadPresentation
  \/ NoPoints \/ NewFrame \/ OldFrame \/ OnlyGUI \/ NothingNew
  \/ Clear \/ WriteLayer \/ Written

Next ==
  \/ Loop \/ LoopFails \/ TakeZeroSize
  \/ AddPoint \/ PressHelp
  \/ \E s \in Sizes : Resize(s)
  \/ \E setting \in Settings : Press(setting)
  \/ \E p \in Notifiers : Notify(p)
  \/ \E p \in Notifiers : \E i \in items[p] : Expire(p, i)
  \/ \E p \in Painters : DrawTo(p) \/ Paint(p)
  \/ \E r \in resizes : NewSize(r)
  \/ \E u \in updates : HandleControl(u) \/ ShowControl(u)
  \/ \E p \in running : PainterSeesDone(p)
  \/ Cancel \/ RunReturns \/ SendPanics \/ Finish \/ Over

(* The goroutines run; a painter that always has something else to do does *)
(* not keep a size or a message waiting for ever, as select is fair.       *)
Fairness ==
  /\ WF_vars(Loop)
  /\ \A p \in Painters : WF_vars(DrawTo(p)) /\ WF_vars(Paint(p))
  /\ \A p \in Painters : WF_vars(\E r \in resizes : r.to = p /\ NewSize(r))
  /\ WF_vars(\E u \in updates : HandleControl(u)) /\ WF_vars(\E u \in updates : ShowControl(u))
  /\ WF_vars(RunReturns) /\ WF_vars(Finish)

Spec == Init /\ [][Next]_vars /\ Fairness

-----------------------------------------------------------------------------
(* Properties                                                              *)

ItemsOf(p) ==
  CASE p = "Help" -> {"help"} [] p = "Controls" -> Settings [] OTHER -> 1 .. MaxEvents

Content(p) ==
  {Nothing, Garbled} \cup [items: SUBSET ItemsOf(p), size: Sizes \cup {ZeroSize}]

TypeOK ==
  /\ events \in 0 .. MaxEvents /\ count \in 0 .. MaxEvents
  /\ size \in Sizes /\ termSize \in Sizes /\ loopSize \in Sizes
  /\ loop \in {"Top", "Offer", "Read", "Compute", "Clear", "Write",
              "Stopped", "Drained", "Failed", "Broken"}
  /\ cfg \subseteq Settings /\ presentation \subseteq Settings /\ keys \subseteq Settings
  /\ frame = NoFrame \/ (frame.size \in Sizes /\ frame.count \in 1 .. count)
  /\ \A p \in Painters :
       /\ items[p] \subseteq ItemsOf(p)
       /\ buffer[p] \in Content(p) /\ screen[p] \subseteq Content(p)
  /\ gui.drawnPaint <= gui.paint /\ gui.drawnInvalidate <= gui.invalidate

(* At the top of its loop, with nothing more to draw by the tokens, the    *)
(* draw loop has not forgotten anything a painter that is done wanted      *)
(* shown or removed, and the help leaves nothing behind, however painters, *)
(* clears and the writing of layers interleave (GUIState.Drawn gives back  *)
(* the token of before the write, and Paint comes after the render).       *)
NothingForgotten ==
  loop = "Top" /\ drawn # NoFrame /\ ~ShouldDraw /\ ~ShouldInvalidate =>
    \A p \in Painters : work[p] = Idle =>
      IF buffer[p] = Nothing THEN screen[p] = {}
      ELSE buffer[p] \in screen[p] /\ (p = "Help" => screen[p] = {buffer[p]})

(* Until the program ends, the terminal comes to show a frame of all the   *)
(* points, for its size and the presentation, with every layer on it, and  *)
(* every painter gets to show what it is to show.                          *)
Settled ==
  /\ \A p \in Painters : work[p] = Idle /\ buffer[p].items = items[p]
  /\ count # 0 =>
       /\ drawn = [count |-> count, size |-> size, cfg |-> presentation]
       /\ \A p \in Painters : buffer[p] = Nothing \/ buffer[p] \in screen[p]

Settles == <>[](Settled \/ Cancelled)

(* A cancelled program ends: the draw loop is not left waiting to send a   *)
(* size (graph.Run, FanInFanOut).                                          *)
CancelEnds == Cancelled ~> ~Alive

-----------------------------------------------------------------------------
(* What the comments and texts of the code claim and it does not do.       *)

(* "LastFrame will return the last graphical frame printed to the          *)
(* terminal." (graph.go:204)                                               *)
LastFrameExists == [][program = "Closed" /\ program' = "Panic" /\ updates = {} => frame # NoFrame]_vars
=============================================================================
