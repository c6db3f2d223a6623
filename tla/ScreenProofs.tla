----------------------------- MODULE ScreenProofs -----------------------------
(***************************************************************************)
(* Nothing a painter wants shown or removed is forgotten by the draw loop, *)
(* for any of the painters, any sizes and any number of notifications,     *)
(* points, keys and resizes.                                               *)
(***************************************************************************)
EXTENDS Screen, TLAPS

-----------------------------------------------------------------------------
(* The inductive invariant                                                 *)

Places == {"Top", "Offer", "Read", "Compute", "Clear", "Write",
           "Stopped", "Drained", "Failed", "Broken"}
Stages == {"Idle", "Draw", "Paint"}
Update == {"Paint", "Invalidate"}
AnySize == Sizes \cup {ZeroSize}
Indexes == [paint: Nat, drawnPaint: Nat, invalidate: Nat, drawnInvalidate: Nat]
Tokens == [paint: Nat, invalidate: Nat]
SizeMessage == [n: Nat, size: AnySize, to: Painters]
Message == [n: Nat, setting: Settings, on: BOOLEAN, to: {"Graph", "Controls"}]

(* Types of all but the painters, and what the types of TypeOK rest on.    *)
Total(f) == f = [p \in Painters |-> f[p]]
Base ==
  /\ events \in 0 .. MaxEvents /\ count \in 0 .. events
  /\ size \in Sizes /\ termSize \in Sizes /\ loopSize \in Sizes
  /\ loop \in Places
  /\ cfg \subseteq Settings /\ presentation \subseteq Settings /\ keys \subseteq Settings
  /\ frame = NoFrame \/ (frame.size \in Sizes /\ frame.count \in 1 .. count)
  /\ Total(screen) /\ \A p \in Painters : screen[p] \subseteq Content(p)
  /\ \A p \in Notifiers : lastSize[p] \in AnySize
  /\ resizes \subseteq SizeMessage /\ updates \subseteq Message
  /\ running \subseteq Painters \cup {"Graph"}

(* The state that Drawn will have got, or has got, from the token.         *)
Acknowledged ==
  IF token = NoToken THEN [paint |-> gui.drawnPaint, invalidate |-> gui.drawnInvalidate]
  ELSE token

(* The loop has a token only between its look at the GUI and Drawn.        *)
TokenInv ==
  /\ gui \in Indexes
  /\ token = NoToken \/ (token \in Tokens /\ loop \in {"Clear", "Write"})
  /\ gui.drawnPaint <= Acknowledged.paint
  /\ Acknowledged.paint <= gui.paint
  /\ gui.drawnInvalidate <= Acknowledged.invalidate
  /\ Acknowledged.invalidate <= gui.invalidate
  /\ layers \in Seq(Painters)

(* What a painter has rendered.  A help that replaces nothing, which does  *)
(* not ask for a clear, does not mix with an older one either.             *)
WorkSound(p) ==
  /\ work[p] \in [stage: Stages, to: Content(p), update: SUBSET Update]
  /\ work[p].stage = "Idle" => work[p] = Idle
  /\ work[p].stage = "Draw" =>
       /\ work[p].to # Nothing /\ "Paint" \in work[p].update
       /\ p = "Help" /\ "Invalidate" \notin work[p].update => buffer[p] = Nothing

(* What the draw loop is still going to do, or never will.                 *)
ToWrite(p) == loop = "Write" /\ \E i \in 1 .. Len(layers) : layers[i] = p
PaintDue == gui.paint > Acknowledged.paint \/ loop \in {"Clear", "Failed", "Broken"}
ClearDue == gui.invalidate > Acknowledged.invalidate \/ loop \in {"Clear", "Failed", "Broken"}

(* What is in a buffer is on the screen, or a write of it is to come.      *)
Shown(p) ==
  buffer[p] # Nothing /\ work[p].stage # "Draw" =>
    "Paint" \in work[p].update \/ PaintDue \/ ToWrite(p) \/ buffer[p] \in screen[p]

(* What has left the buffer has left the screen, or a clear is to come.    *)
Gone(p) ==
  buffer[p] = Nothing /\ work[p].stage # "Draw" =>
    "Invalidate" \in work[p].update \/ ClearDue \/ screen[p] = {}

(* The help is alone on its layer, or a clear is to come.                  *)
Target(p) == IF work[p].stage = "Draw" THEN work[p].to ELSE buffer[p]
Alone(p) ==
  p = "Help" =>
    "Invalidate" \in work[p].update \/ ClearDue \/ screen[p] \subseteq {Target(p)}

Kept(p) == WorkSound(p) /\ Shown(p) /\ Gone(p) /\ Alone(p)

(* The part of the invariant that is about the painters.                   *)
PainterTypes(p) == items[p] \subseteq ItemsOf(p) /\ buffer[p] \in Content(p)
PainterPart ==
  /\ Total(items) /\ Total(buffer) /\ Total(work)
  /\ \A p \in Painters : PainterTypes(p) /\ Kept(p)

ScreenInv == Base /\ TokenInv /\ PainterPart

-----------------------------------------------------------------------------
(* Lemmas                                                                  *)

(* An item of some size is content of its layer, and not nothing.          *)
LEMMA ContentFacts ==
  ASSUME NEW p
  PROVE  /\ Nothing \in Content(p) /\ Garbled \in Content(p)
         /\ \A i \in SUBSET ItemsOf(p), s \in AnySize :
              [items |-> i, size |-> s] \in Content(p)
         /\ \A i, s : i # {} => [items |-> i, size |-> s] # Nothing
<1>1. \A i, s : [items |-> i, size |-> s].items = i
  OBVIOUS
<1>2. \A i, s : i # {} => [items |-> i, size |-> s] # Nothing
  BY <1>1 DEF Nothing
<1> QED
  BY <1>2 DEF Content, AnySize

(* Every layer is among those that a pass over all of them writes.         *)
LEMMA EveryLayer ==
  /\ PaintOrder \in Seq(Painters)
  /\ \A p \in Painters : \E i \in 1 .. Len(PaintOrder) : PaintOrder[i] = p
<1> DEFINE If(p) == IF p \in Painters THEN <<p>> ELSE <<>>
           two == If("Toast") \o If("Controls")
           three == two \o If("Help")
<1>1. \A p : If(p) \in Seq(Painters) /\ (p \in Painters => Len(If(p)) = 1 /\ If(p)[1] = p)
  OBVIOUS
<1>2. PaintOrder = three \o If("Speed")
  BY DEF PaintOrder
<1>3. \A p \in Painters : p \in {"Toast", "Controls", "Help", "Speed"}
  BY ScreenAssumption
<1> HIDE DEF If
<1>4. ASSUME NEW s \in Seq(Painters), NEW t \in Seq(Painters)
      PROVE  /\ s \o t \in Seq(Painters) /\ Len(s \o t) = Len(s) + Len(t)
             /\ Len(s) \in Nat /\ Len(t) \in Nat
             /\ \A i \in 1 .. Len(s) : (s \o t)[i] = s[i]
             /\ \A i \in 1 .. Len(t) : (s \o t)[Len(s) + i] = t[i]
  OBVIOUS
<1> DEFINE Has(s, p) == \E i \in 1 .. Len(s) : s[i] = p
<1>5. ASSUME NEW s \in Seq(Painters), NEW t \in Seq(Painters), NEW p
      PROVE  s \o t \in Seq(Painters) /\ (Has(s, p) \/ Has(t, p) => Has(s \o t, p))
  <2>1. ASSUME Has(s, p) PROVE Has(s \o t, p)
    BY <2>1, <1>4
  <2>2. ASSUME Has(t, p) PROVE Has(s \o t, p)
    <3>1. PICK i \in 1 .. Len(t) : t[i] = p
      BY <2>2
    <3>2. Len(s) + i \in 1 .. Len(s \o t) /\ (s \o t)[Len(s) + i] = p
      BY <1>4, <3>1
    <3> QED
      BY <3>2
  <2> QED
    BY <2>1, <2>2, <1>4
<1>6. \A p \in Painters : Has(If(p), p)
  BY <1>1
<1> HIDE DEF Has
<1>7. two \in Seq(Painters) /\ \A p : Has(If("Toast"), p) \/ Has(If("Controls"), p) => Has(two, p)
  BY <1>1, <1>5
<1> HIDE DEF two
<1>8. three \in Seq(Painters) /\ \A p : Has(two, p) \/ Has(If("Help"), p) => Has(three, p)
  BY <1>1, <1>5, <1>7
<1> HIDE DEF three
<1>9. /\ PaintOrder \in Seq(Painters)
      /\ \A p : Has(three, p) \/ Has(If("Speed"), p) => Has(PaintOrder, p)
  BY <1>1, <1>2, <1>5, <1>8
<1>10. \A p \in Painters : Has(PaintOrder, p)
  BY <1>3, <1>6, <1>7, <1>8, <1>9
<1> QED
  BY <1>9, <1>10 DEF Has

(* The first layer is written, the others stay.                            *)
LEMMA LayerFacts ==
  ASSUME NEW s \in Seq(Painters), s # <<>>
  PROVE  /\ Head(s) \in Painters /\ Tail(s) \in Seq(Painters)
         /\ \A p : (\E i \in 1 .. Len(s) : s[i] = p)
              => p = Head(s) \/ \E i \in 1 .. Len(Tail(s)) : Tail(s)[i] = p
<1>1. /\ Head(s) \in Painters /\ Tail(s) \in Seq(Painters)
      /\ Head(s) = s[1] /\ Len(s) \in Nat \ {0} /\ Len(Tail(s)) = Len(s) - 1
      /\ \A i \in 1 .. Len(s) - 1 : Tail(s)[i] = s[i + 1]
  OBVIOUS
<1>2. ASSUME NEW p, NEW i \in 1 .. Len(s), s[i] = p, p # Head(s)
      PROVE  \E j \in 1 .. Len(Tail(s)) : Tail(s)[j] = p
  <2>1. i # 1
    BY <1>1, <1>2
  <2>2. i - 1 \in 1 .. Len(Tail(s)) /\ Tail(s)[i - 1] = s[i]
    BY <1>1, <2>1
  <2> QED
    BY <1>2, <2>2
<1> QED
  BY <1>1, <1>2

(* The ids of the painters and the notifiers among them.                   *)
LEMMA PainterFacts ==
  /\ Notifiers \subseteq Painters
  /\ \A p \in Notifiers : p # "Help" /\ p # "Controls" /\ ItemsOf(p) = 1 .. MaxEvents
  /\ ItemsOf("Help") = {"help"} /\ ItemsOf("Controls") = Settings
  /\ Sizes \subseteq AnySize /\ ZeroSize \in AnySize /\ AnySize \subseteq Nat
BY ScreenAssumption DEF Notifiers, ItemsOf, AnySize, ZeroSize
-----------------------------------------------------------------------------
(* Painters                                                                *)

(* What the steps of painters leave alone.                                 *)
loopSide == <<gui, token, loop, layers, screen>>

(* A painter that nothing happens to stays as it was.                      *)
LEMMA KeptAlone ==
  ASSUME NEW p \in Painters, PainterTypes(p), Kept(p), UNCHANGED loopSide,
         items'[p] = items[p], buffer'[p] = buffer[p], work'[p] = work[p]
  PROVE  PainterTypes(p)' /\ Kept(p)'
<1>1. /\ Acknowledged' = Acknowledged /\ (PaintDue' <=> PaintDue) /\ (ClearDue' <=> ClearDue)
      /\ (ToWrite(p)' <=> ToWrite(p)) /\ screen' = screen
  BY DEF loopSide, Acknowledged, PaintDue, ClearDue, ToWrite
<1>2. PainterTypes(p)'
  BY DEF PainterTypes
<1>3. WorkSound(p)'
  BY DEF Kept, WorkSound
<1>4. Shown(p)' /\ Gone(p)' /\ Alone(p)'
  BY <1>1 DEF Kept, Shown, Gone, Alone, Target
<1> QED
  BY <1>2, <1>3, <1>4 DEF Kept

(* A change of one painter: of the others, nothing.                        *)
LEMMA OnePainter ==
  ASSUME PainterPart, NEW p \in Painters, UNCHANGED loopSide,
         \/ items' = items
         \/ \E i : items' = [items EXCEPT ![p] = i],
         \/ buffer' = buffer
         \/ \E b : buffer' = [buffer EXCEPT ![p] = b],
         \/ work' = work
         \/ \E w : work' = [work EXCEPT ![p] = w]
  PROVE  /\ Total(items)' /\ Total(buffer)' /\ Total(work)'
         /\ \A q \in Painters \ {p} : PainterTypes(q)' /\ Kept(q)'
<1>1. Total(items)' /\ \A q \in Painters \ {p} : items'[q] = items[q]
  BY DEF PainterPart, Total
<1>2. Total(buffer)' /\ \A q \in Painters \ {p} : buffer'[q] = buffer[q]
  BY DEF PainterPart, Total
<1>3. Total(work)' /\ \A q \in Painters \ {p} : work'[q] = work[q]
  BY DEF PainterPart, Total
<1> QED
  BY <1>1, <1>2, <1>3, KeptAlone DEF PainterPart

(* Rendering: the buffer is reset, and what is drawn on it, told of later. *)
LEMMA RenderStep ==
  ASSUME PainterPart, NEW p \in Painters, NEW i \in SUBSET ItemsOf(p), NEW s \in AnySize,
         Render(p, i, s), UNCHANGED loopSide
  PROVE  PainterPart'
<1> DEFINE w == Rendering(p, i, s, buffer[p] # Nothing)
<1>1. /\ items' = [items EXCEPT ![p] = i]
      /\ work' = [work EXCEPT ![p] = w]
      /\ buffer' = IF i = {} THEN [buffer EXCEPT ![p] = Nothing] ELSE buffer
      /\ work[p] = Idle
  BY DEF Render
<1>2. /\ Total(items)' /\ Total(buffer)' /\ Total(work)'
      /\ \A q \in Painters \ {p} : PainterTypes(q)' /\ Kept(q)'
  BY <1>1, OnePainter
<1>3. /\ items'[p] = i /\ work'[p] = w
      /\ buffer'[p] = IF i = {} THEN Nothing ELSE buffer[p]
  BY <1>1 DEF PainterPart, Total
<1>4. PainterTypes(p)'
  BY <1>3, ContentFacts DEF PainterPart, PainterTypes
<1>5. /\ w.stage = IF i = {} THEN "Paint" ELSE "Draw"
      /\ w.to = IF i = {} THEN Nothing ELSE [items |-> i, size |-> s]
      /\ w.update = (IF Invalidates(p, i, buffer[p] # Nothing) THEN {"Invalidate"} ELSE {})
                      \cup (IF i = {} THEN {} ELSE {"Paint"})
      /\ w \in [stage: Stages, to: Content(p), update: SUBSET Update]
  <2>1. (IF i = {} THEN Nothing ELSE [items |-> i, size |-> s]) \in Content(p)
    BY ContentFacts
  <2> QED
    BY <2>1 DEF Rendering, Stages, Update
<1> HIDE DEF w
<1>6. Invalidates(p, i, buffer[p] # Nothing) <=> "Invalidate" \in w.update
  BY <1>5
<1>7. p = "Help" => ("Invalidate" \in w.update <=> buffer[p] # Nothing)
  BY <1>6, PainterFacts DEF Invalidates
<1>8. (i = {} /\ buffer[p] # Nothing) \/ (i = {} /\ p \notin Notifiers) => "Invalidate" \in w.update
                  \/ (p = "Help" /\ buffer[p] = Nothing)
  BY <1>6, ScreenAssumption DEF Invalidates, Notifiers, Settings
<1>9. WorkSound(p)'
  BY <1>3, <1>5, <1>7, ContentFacts DEF WorkSound
<1>10. /\ (PaintDue' <=> PaintDue) /\ (ClearDue' <=> ClearDue) /\ screen' = screen
  BY DEF loopSide, Acknowledged, PaintDue, ClearDue
<1>11. Shown(p)'
  BY <1>3, <1>5 DEF Shown
<1>12. Kept(p) /\ Idle.stage = "Idle" /\ Idle.update = {}
  BY DEF PainterPart, Idle
<1>13. Gone(p)'
  BY <1>1, <1>3, <1>5, <1>8, <1>10, <1>12 DEF Gone, Kept
<1>14. Alone(p)'
  <2>1. CASE "Invalidate" \in w.update
    BY <1>3, <2>1 DEF Alone
  <2>2. CASE p = "Help" /\ buffer[p] = Nothing
    <3>1. ClearDue \/ screen[p] = {}
      BY <1>1, <1>12, <2>2 DEF Kept, Gone
    <3> QED
      BY <1>10, <3>1 DEF Alone
  <2> QED
    BY <1>7, <2>1, <2>2 DEF Alone
<1> QED
  BY <1>2, <1>4, <1>9, <1>11, <1>13, <1>14 DEF PainterPart, Kept

(* Drawing on the buffer: what was rendered is in it.                      *)
LEMMA DrawStep ==
  ASSUME PainterPart, NEW p \in Painters, DrawTo(p)
  PROVE  PainterPart'
<1>1. /\ work[p].stage = "Draw"
      /\ buffer' = [buffer EXCEPT ![p] = work[p].to]
      /\ work' = [work EXCEPT ![p] = [work[p] EXCEPT !.stage = "Paint"]]
      /\ items' = items /\ UNCHANGED loopSide
  BY DEF DrawTo, loopSide, loopVars
<1>2. /\ Total(items)' /\ Total(buffer)' /\ Total(work)'
      /\ \A q \in Painters \ {p} : PainterTypes(q)' /\ Kept(q)'
  BY <1>1, OnePainter
<1>3. /\ work[p] \in [stage: Stages, to: Content(p), update: SUBSET Update]
      /\ work[p].to # Nothing /\ "Paint" \in work[p].update /\ Alone(p)
  BY <1>1 DEF PainterPart, Kept, WorkSound
<1>4. buffer'[p] = work[p].to /\ work'[p] = [work[p] EXCEPT !.stage = "Paint"]
  BY <1>1 DEF PainterPart, Total
<1>5. /\ work'[p] \in [stage: Stages, to: Content(p), update: SUBSET Update]
      /\ work'[p].stage = "Paint" /\ work'[p].update = work[p].update
  BY <1>3, <1>4 DEF Stages
<1>6. PainterTypes(p)'
  BY <1>1, <1>3, <1>4 DEF PainterPart, PainterTypes
<1>7. WorkSound(p)' /\ Shown(p)' /\ Gone(p)'
  BY <1>3, <1>4, <1>5 DEF WorkSound, Shown, Gone
<1>8. (ClearDue' <=> ClearDue) /\ screen' = screen
  BY <1>1 DEF loopSide, Acknowledged, ClearDue
<1>9. Alone(p)'
  BY <1>1, <1>3, <1>4, <1>5, <1>8 DEF Alone, Target
<1> QED
  BY <1>2, <1>6, <1>7, <1>9 DEF PainterPart, Kept

(* Telling GUIState: its indexes pass what the loop acknowledges.          *)
LEMMA PaintStep ==
  ASSUME PainterPart, TokenInv, NEW p \in Painters, Paint(p)
  PROVE  PainterPart' /\ TokenInv'
<1>1. /\ work[p].stage = "Paint"
      /\ gui' = [gui EXCEPT !.paint = IF "Paint" \in work[p].update THEN @ + 1 ELSE @,
                            !.invalidate = IF "Invalidate" \in work[p].update THEN @ + 1 ELSE @]
      /\ work' = [work EXCEPT ![p] = Idle]
      /\ UNCHANGED <<items, buffer, token, loop, layers, screen>>
  BY DEF Paint, loopVars
<1>2. /\ gui \in Indexes /\ gui' \in Indexes
      /\ gui'.drawnPaint = gui.drawnPaint /\ gui'.drawnInvalidate = gui.drawnInvalidate
      /\ gui'.paint = IF "Paint" \in work[p].update THEN gui.paint + 1 ELSE gui.paint
      /\ gui'.invalidate = IF "Invalidate" \in work[p].update THEN gui.invalidate + 1
                           ELSE gui.invalidate
  <2> DEFINE a == IF "Paint" \in work[p].update THEN gui.paint + 1 ELSE gui.paint
             b == IF "Invalidate" \in work[p].update THEN gui.invalidate + 1
                  ELSE gui.invalidate
  <2>1. gui \in Indexes
    BY DEF TokenInv
  <2>2. gui' = [gui EXCEPT !.paint = a, !.invalidate = b]
    BY <1>1
  <2>3. a \in Nat /\ b \in Nat
    BY <2>1 DEF Indexes
  <2> HIDE DEF a, b
  <2>4. gui' = [paint |-> a, drawnPaint |-> gui.drawnPaint, invalidate |-> b,
                drawnInvalidate |-> gui.drawnInvalidate]
    BY <2>1, <2>2 DEF Indexes
  <2>5. /\ gui'.drawnPaint = gui.drawnPaint /\ gui'.drawnInvalidate = gui.drawnInvalidate
        /\ gui'.paint = a /\ gui'.invalidate = b /\ gui' \in Indexes
    BY <2>1, <2>3, <2>4 DEF Indexes
  <2> QED
    BY <2>1, <2>5 DEF a, b
<1>3. Acknowledged' = Acknowledged
  BY <1>1, <1>2 DEF Acknowledged
<1>4. Acknowledged.paint \in Nat /\ Acknowledged.invalidate \in Nat
  BY DEF TokenInv, Acknowledged, Tokens, Indexes
<1>5. TokenInv'
  BY <1>1, <1>2, <1>3, <1>4 DEF TokenInv, Indexes
<1>6. (PaintDue => PaintDue') /\ ("Paint" \in work[p].update => PaintDue')
  BY <1>1, <1>2, <1>3, <1>4 DEF TokenInv, PaintDue, Indexes
<1>7. (ClearDue => ClearDue') /\ ("Invalidate" \in work[p].update => ClearDue')
  BY <1>1, <1>2, <1>3, <1>4 DEF TokenInv, ClearDue, Indexes
<1>8. Total(items)' /\ Total(buffer)' /\ Total(work)'
  BY <1>1 DEF PainterPart, Total
<1>9. ASSUME NEW q \in Painters PROVE PainterTypes(q)' /\ Kept(q)'
  <2>1. PainterTypes(q) /\ Kept(q)
    BY DEF PainterPart
  <2>2. PainterTypes(q)'
    BY <1>1, <2>1 DEF PainterTypes
  <2>3. ToWrite(q)' <=> ToWrite(q)
    BY <1>1 DEF ToWrite
  <2>4. CASE q # p
    <3>1. work'[q] = work[q]
      BY <1>1, <2>4 DEF PainterPart, Total
    <3>2. WorkSound(q)'
      BY <1>1, <2>1, <3>1 DEF Kept, WorkSound
    <3> QED
      BY <1>1, <1>6, <1>7, <2>1, <2>2, <2>3, <3>1, <3>2
      DEF Kept, Shown, Gone, Alone, Target
  <2>5. CASE q = p
    <3>1. /\ work'[q] = Idle /\ Idle.stage = "Idle" /\ Idle.update = {}
          /\ Idle \in [stage: Stages, to: Content(p), update: SUBSET Update]
      BY <1>1, <2>5, ContentFacts DEF PainterPart, Total, Idle, Stages
    <3>2. WorkSound(q)'
      BY <2>5, <3>1 DEF WorkSound
    <3> QED
      BY <1>1, <1>6, <1>7, <2>1, <2>2, <2>3, <2>5, <3>1, <3>2
      DEF Kept, Shown, Gone, Alone, Target
  <2> QED
    BY <2>4, <2>5
<1> QED
  BY <1>5, <1>8, <1>9 DEF PainterPart
-----------------------------------------------------------------------------
(* The draw loop                                                           *)

Due(p) == Shown(p) /\ Gone(p) /\ Alone(p)

(* The draw loop leaves the painters alone: it is about what is due.       *)
LEMMA LoopLeavesPainters ==
  ASSUME PainterPart, UNCHANGED <<items, buffer, work>>, \A p \in Painters : Due(p)'
  PROVE  PainterPart'
<1>1. Total(items)' /\ Total(buffer)' /\ Total(work)'
  BY DEF PainterPart, Total
<1>2. \A p \in Painters : PainterTypes(p)' /\ WorkSound(p)'
  BY DEF PainterPart, PainterTypes, Kept, WorkSound
<1> QED
  BY <1>1, <1>2 DEF PainterPart, Kept, Due

(* The indexes a token of now has.                                         *)
LEMMA TokenFacts ==
  ASSUME gui \in Indexes, GetState, gui' = gui
  PROVE  /\ token' # NoToken /\ token' \in Tokens
         /\ Acknowledged' = [paint |-> gui.paint, invalidate |-> gui.invalidate]
         /\ gui.drawnPaint \in Nat /\ gui.drawnInvalidate \in Nat
         /\ gui.paint \in Nat /\ gui.invalidate \in Nat
<1>1. /\ token' = [paint |-> gui.paint, invalidate |-> gui.invalidate]
      /\ gui.paint \in Nat /\ gui.invalidate \in Nat
      /\ gui.drawnPaint \in Nat /\ gui.drawnInvalidate \in Nat
  BY DEF GetState, Indexes
<1>2. token'.paint # NoToken.paint
  BY <1>1 DEF NoToken
<1>3. token' # NoToken
  BY <1>2
<1> QED
  BY <1>1, <1>3 DEF Acknowledged, Tokens

(* The steps outside of clearing and writing.                              *)
LEMMA QuietStep ==
  ASSUME PainterPart, TokenInv, loop \notin {"Clear", "Write"}, loop' \notin {"Clear", "Write"},
         loop \in {"Failed", "Broken"} => loop' \in {"Failed", "Broken"},
         UNCHANGED <<gui, token, layers, screen, items, buffer, work>>
  PROVE  PainterPart' /\ TokenInv'
<1>1. Acknowledged' = Acknowledged
  BY DEF Acknowledged
<1>2. TokenInv'
  BY <1>1 DEF TokenInv
<1>3. (PaintDue => PaintDue') /\ (ClearDue => ClearDue')
  BY <1>1 DEF PaintDue, ClearDue
<1>4. ASSUME NEW p \in Painters PROVE Due(p)'
  <2>1. ToWrite(p)' <=> ToWrite(p)
    BY DEF ToWrite
  <2>2. Kept(p)
    BY DEF PainterPart
  <2> QED
    BY <1>3, <2>1, <2>2 DEF Kept, Due, Shown, Gone, Alone, Target
<1> QED
  BY <1>2, <1>4, LoopLeavesPainters

(* A loop that fails will not draw again.                                  *)
LEMMA FailStep ==
  ASSUME PainterPart, TokenInv, LoopFails
  PROVE  PainterPart' /\ TokenInv'
<1>1. /\ loop' = "Failed" /\ token' = NoToken /\ layers' = <<>>
      /\ UNCHANGED <<gui, screen, items, buffer, work>>
  BY DEF LoopFails, LoopOnly, painterVars
<1>2. PaintDue' /\ ClearDue'
  BY <1>1 DEF PaintDue, ClearDue
<1>3. PainterPart'
  BY <1>1, <1>2, LoopLeavesPainters DEF Due, Shown, Gone, Alone
<1>4. /\ gui.drawnPaint <= gui.paint /\ gui.drawnInvalidate <= gui.invalidate
  BY DEF TokenInv, Acknowledged, Indexes, Tokens
<1>5. gui.drawnPaint \in Nat /\ gui.drawnInvalidate \in Nat
  BY DEF TokenInv, Indexes
<1>6. Acknowledged' = [paint |-> gui.drawnPaint, invalidate |-> gui.drawnInvalidate]
  BY <1>1 DEF Acknowledged
<1>7. TokenInv'
  BY <1>1, <1>4, <1>5, <1>6 DEF TokenInv
<1> QED
  BY <1>3, <1>7

(* A frame to be drawn clears the screen first.                            *)
LEMMA FrameStep ==
  ASSUME PainterPart, TokenInv, loop = "Compute", loop' = "Clear",
         token' = token \/ GetState,
         UNCHANGED <<gui, layers, screen, items, buffer, work>>
  PROVE  PainterPart' /\ TokenInv'
<1>1. token = NoToken /\ gui \in Indexes
  BY DEF TokenInv
<1>2. TokenInv'
  <2>1. CASE token' = token
    <3>1. Acknowledged' = Acknowledged
      BY <2>1 DEF Acknowledged
    <3> QED
      BY <1>1, <2>1, <3>1 DEF TokenInv
  <2>2. CASE GetState
    <3>1. Acknowledged = [paint |-> gui.drawnPaint, invalidate |-> gui.drawnInvalidate]
      BY <1>1 DEF Acknowledged
    <3>2. gui.drawnPaint <= gui.paint /\ gui.drawnInvalidate <= gui.invalidate
      BY <3>1 DEF TokenInv
    <3> QED
      BY <1>1, <2>2, <3>2, TokenFacts DEF TokenInv
  <2> QED
    BY <2>1, <2>2
<1>3. \A p \in Painters : Due(p)'
  BY DEF Due, Shown, Gone, Alone, PaintDue, ClearDue
<1> QED
  BY <1>2, <1>3, LoopLeavesPainters

(* The layers alone, when nothing is to be cleared.                        *)
LEMMA OnlyGUIStep ==
  ASSUME PainterPart, TokenInv, OnlyGUI
  PROVE  PainterPart' /\ TokenInv'
<1>1. /\ loop = "Compute" /\ loop' = "Write" /\ GetState /\ layers' = PaintOrder
      /\ ~ShouldInvalidate
      /\ UNCHANGED <<gui, screen, items, buffer, work>>
  BY DEF OnlyGUI, Computes, LoopOnly, painterVars
<1>2. token = NoToken /\ gui \in Indexes
  BY <1>1 DEF TokenInv
<1>3. Acknowledged = [paint |-> gui.drawnPaint, invalidate |-> gui.drawnInvalidate]
  BY <1>2 DEF Acknowledged
<1>4. gui.drawnPaint <= gui.paint /\ gui.drawnInvalidate <= gui.invalidate
  BY <1>3 DEF TokenInv
<1>5. TokenInv'
  BY <1>1, <1>2, <1>4, TokenFacts, EveryLayer DEF TokenInv
<1>6. ~ClearDue
  BY <1>1, <1>3 DEF ClearDue, ShouldInvalidate
<1>7. ASSUME NEW p \in Painters PROVE Due(p)'
  <2>1. ToWrite(p)'
    BY <1>1, EveryLayer DEF ToWrite
  <2>2. Kept(p)
    BY DEF PainterPart
  <2> QED
    BY <1>1, <1>6, <2>1, <2>2 DEF Kept, Due, Shown, Gone, Alone, Target
<1> QED
  BY <1>1, <1>5, <1>7, LoopLeavesPainters

(* After the clear the screen is empty and every layer is to be written.   *)
LEMMA ClearStep ==
  ASSUME PainterPart, TokenInv, Clear
  PROVE  PainterPart' /\ TokenInv'
<1>1. /\ loop = "Clear" /\ loop' = "Write" /\ layers' = PaintOrder
      /\ screen' = [p \in Painters |-> {}]
      /\ UNCHANGED <<gui, token, items, buffer, work>>
  BY DEF Clear, LoopOnly, painterVars
<1>2. Acknowledged' = Acknowledged
  BY <1>1 DEF Acknowledged
<1>3. TokenInv'
  BY <1>1, <1>2, EveryLayer DEF TokenInv
<1>4. ASSUME NEW p \in Painters PROVE Due(p)'
  <2>1. ToWrite(p)' /\ screen'[p] = {}
    BY <1>1, EveryLayer DEF ToWrite
  <2> QED
    BY <2>1 DEF Due, Shown, Gone, Alone
<1> QED
  BY <1>1, <1>3, <1>4, LoopLeavesPainters

(* A layer that is written: what its buffer has is on the screen, or the   *)
(* painter is drawing and will tell of it.                                 *)
LEMMA WriteLayerStep ==
  ASSUME PainterPart, TokenInv, Total(screen), WriteLayer
  PROVE  /\ PainterPart' /\ TokenInv' /\ Total(screen)'
         /\ (\A p \in Painters : screen[p] \subseteq Content(p))
              => \A p \in Painters : screen'[p] \subseteq Content(p)
<1> DEFINE h == Head(layers)
<1>1. /\ loop = "Write" /\ loop' = "Write" /\ layers # <<>> /\ layers' = Tail(layers)
      /\ UNCHANGED <<gui, token, items, buffer, work>>
  BY DEF WriteLayer, LoopOnly, painterVars
<1>2. PICK c \in Readable(h) :
        screen' = [screen EXCEPT ![h] = (@ \ Covered(h, c)) \cup ({c} \ {Nothing})]
  BY DEF WriteLayer
<1>3. /\ h \in Painters /\ layers' \in Seq(Painters)
      /\ \A p \in Painters : ToWrite(p) => p = h \/ ToWrite(p)'
  BY <1>1, LayerFacts DEF TokenInv, ToWrite
<1> HIDE DEF h
<1>4. /\ Total(screen)'
      /\ \A p \in Painters \ {h} : screen'[p] = screen[p]
      /\ screen'[h] = (screen[h] \ Covered(h, c)) \cup ({c} \ {Nothing})
  BY <1>2, <1>3 DEF Total
<1>5. Acknowledged' = Acknowledged
  BY <1>1 DEF Acknowledged
<1>6. TokenInv'
  BY <1>1, <1>3, <1>5 DEF TokenInv
<1>7. (PaintDue' <=> PaintDue) /\ (ClearDue' <=> ClearDue)
  BY <1>1, <1>5 DEF PaintDue, ClearDue
<1>8. PainterTypes(h) /\ Kept(h)
  BY <1>3 DEF PainterPart
<1>9. c \in Content(h)
  <2>1. /\ Nothing \in Content(h) /\ Garbled \in Content(h) /\ buffer[h] \in Content(h)
        /\ work[h].to \in Content(h)
    BY <1>8, ContentFacts DEF PainterTypes, Kept, WorkSound
  <2> QED
    BY <2>1 DEF Readable
<1>10. ASSUME NEW p \in Painters PROVE Due(p)'
  <2>1. CASE p # h
    <3>1. screen'[p] = screen[p] /\ (ToWrite(p) => ToWrite(p)') /\ Kept(p)
      BY <1>3, <1>4, <2>1 DEF PainterPart
    <3> QED
      BY <1>1, <1>7, <3>1 DEF Kept, Due, Shown, Gone, Alone, Target
  <2>2. CASE p = h
    <3>1. CASE work[h].stage # "Draw"
      <4>1. c = buffer[h]
        BY <3>1 DEF Readable
      <4>2. Shown(p)'
        BY <1>1, <1>4, <2>2, <4>1 DEF Shown
      <4>3. Gone(p)'
        BY <1>1, <1>4, <1>7, <1>8, <2>2, <4>1 DEF Kept, Gone
      <4>4. Alone(p)'
        BY <1>1, <1>4, <1>7, <1>8, <2>2, <3>1, <4>1 DEF Kept, Alone, Target
      <4> QED
        BY <4>2, <4>3, <4>4 DEF Due
    <3>2. CASE work[h].stage = "Draw"
      <4>1. Shown(p)' /\ Gone(p)'
        BY <1>1, <2>2, <3>2 DEF Shown, Gone
      <4>2. h = "Help" /\ "Invalidate" \notin work[h].update => c \in {Nothing, work[h].to}
        BY <1>8, <3>2 DEF Kept, WorkSound, Readable
      <4>3. Alone(p)'
        BY <1>1, <1>4, <1>7, <1>8, <2>2, <3>2, <4>2 DEF Kept, Alone, Target
      <4> QED
        BY <4>1, <4>3 DEF Due
    <3> QED
      BY <3>1, <3>2
  <2> QED
    BY <2>1, <2>2
<1>11. PainterPart'
  BY <1>1, <1>10, LoopLeavesPainters
<1>12. ASSUME \A p \in Painters : screen[p] \subseteq Content(p), NEW p \in Painters
       PROVE  screen'[p] \subseteq Content(p)
  BY <1>4, <1>9, <1>12
<1> QED
  BY <1>4, <1>6, <1>11, <1>12

(* The write is over: Drawn gets the state of before it.                   *)
LEMMA WrittenStep ==
  ASSUME PainterPart, TokenInv, Written
  PROVE  PainterPart' /\ TokenInv'
<1>1. /\ loop = "Write" /\ loop' = "Top" /\ layers = <<>> /\ token' = NoToken
      /\ IF token = NoToken THEN UNCHANGED gui ELSE Drawn(token)
      /\ UNCHANGED <<layers, screen, items, buffer, work>>
  BY DEF Written, LoopOnly, painterVars
<1>2. /\ gui \in Indexes /\ gui' \in Indexes
      /\ gui'.paint = gui.paint /\ gui'.invalidate = gui.invalidate
      /\ gui'.drawnPaint = Acknowledged.paint
      /\ gui'.drawnInvalidate = Acknowledged.invalidate
  BY <1>1 DEF TokenInv, Acknowledged, Drawn, Indexes, Tokens
<1>3. Acknowledged'.paint = Acknowledged.paint /\ Acknowledged'.invalidate = Acknowledged.invalidate
  BY <1>1, <1>2 DEF Acknowledged
<1>4. Acknowledged.paint \in Nat /\ Acknowledged.invalidate \in Nat
  BY DEF TokenInv, Acknowledged, Tokens, Indexes
<1>5. TokenInv'
  BY <1>1, <1>2, <1>3, <1>4 DEF TokenInv
<1>6. (PaintDue' <=> PaintDue) /\ (ClearDue' <=> ClearDue)
  BY <1>1, <1>2, <1>3 DEF PaintDue, ClearDue
<1>7. ASSUME NEW p \in Painters PROVE Due(p)'
  <2>1. ~ToWrite(p)
    BY <1>1 DEF ToWrite
  <2>2. Kept(p)
    BY DEF PainterPart
  <2> QED
    BY <1>1, <1>6, <2>1, <2>2 DEF Kept, Due, Shown, Gone, Alone, Target
<1> QED
  BY <1>1, <1>5, <1>7, LoopLeavesPainters
-----------------------------------------------------------------------------
(* The invariant                                                           *)

(* The invariant has the types and what must not be forgotten: when the    *)
(* loop is at its top, an index that is not ahead is acknowledged.         *)
LEMMA InvImplies == ScreenInv => TypeOK /\ NothingForgotten
<1> SUFFICES ASSUME ScreenInv PROVE TypeOK /\ NothingForgotten
  OBVIOUS
<1>1. /\ gui.drawnPaint \in Nat /\ gui.paint \in Nat
      /\ gui.drawnInvalidate \in Nat /\ gui.invalidate \in Nat
      /\ Acknowledged.paint \in Nat /\ Acknowledged.invalidate \in Nat
  BY DEF ScreenInv, TokenInv, Acknowledged, Tokens, Indexes
<1>2. TypeOK
  <2>1. count \in 0 .. MaxEvents
    BY ScreenAssumption DEF ScreenInv, Base
  <2>2. gui.drawnPaint <= gui.paint /\ gui.drawnInvalidate <= gui.invalidate
    BY <1>1 DEF ScreenInv, TokenInv
  <2>3. \A p \in Painters : /\ items[p] \subseteq ItemsOf(p)
                           /\ buffer[p] \in Content(p) /\ screen[p] \subseteq Content(p)
    BY DEF ScreenInv, Base, PainterPart, PainterTypes
  <2> QED
    BY <2>1, <2>2, <2>3 DEF ScreenInv, Base, Places, TypeOK
<1>3. NothingForgotten
  <2> SUFFICES ASSUME loop = "Top", ~ShouldDraw, ~ShouldInvalidate,
                      NEW p \in Painters, work[p] = Idle
               PROVE  IF buffer[p] = Nothing THEN screen[p] = {}
                      ELSE buffer[p] \in screen[p] /\ (p = "Help" => screen[p] = {buffer[p]})
    BY DEF NothingForgotten
  <2>1. Acknowledged = [paint |-> gui.drawnPaint, invalidate |-> gui.drawnInvalidate]
    BY DEF ScreenInv, TokenInv, Acknowledged
  <2>2. ~PaintDue /\ ~ClearDue /\ ~ToWrite(p)
    BY <1>1, <2>1 DEF PaintDue, ClearDue, ToWrite, ShouldDraw, ShouldInvalidate
  <2>3. Kept(p) /\ work[p].stage = "Idle" /\ work[p].update = {}
    BY DEF ScreenInv, PainterPart, Idle
  <2> QED
    BY <2>2, <2>3 DEF Kept, Shown, Gone, Alone, Target
<1> QED
  BY <1>2, <1>3

(* At the start the help and the controls are rendered, and nothing is on  *)
(* the screen.                                                             *)
LEMMA InitInv == Init => ScreenInv
<1> SUFFICES ASSUME Init PROVE ScreenInv
  OBVIOUS
<1>1. /\ events = 0 /\ count = 0 /\ size \in Sizes
      /\ termSize = size /\ loopSize = size
      /\ loop = "Top" /\ frame = NoFrame /\ token = NoToken /\ layers = <<>>
      /\ screen = [p \in Painters |-> {}]
      /\ gui = [paint |-> 0, drawnPaint |-> 0, invalidate |-> 0, drawnInvalidate |-> 0]
      /\ buffer = [p \in Painters |-> Nothing]
      /\ keys = Presented /\ presentation = Presented /\ cfg = Presented
      /\ items = [p \in Painters |-> CASE p = "Help" /\ ShowHelp -> {"help"}
                                       [] p = "Controls" -> Presented
                                       [] OTHER -> {}]
      /\ lastSize = [p \in Notifiers |-> size]
      /\ work = [p \in Painters |-> IF p \in Notifiers THEN Idle
                                    ELSE Rendering(p, items[p], size, FALSE)]
      /\ updates = {} /\ resizes = {} /\ running = Painters \cup {"Graph"}
  BY DEF Init
<1>2. Base
  <2>1. Total(screen) /\ \A p \in Painters : screen[p] \subseteq Content(p)
    BY <1>1 DEF Total
  <2>2. \A p \in Notifiers : lastSize[p] \in AnySize
    BY <1>1 DEF AnySize
  <2> QED
    BY <1>1, <2>1, <2>2, ScreenAssumption DEF Base, Places
<1>3. TokenInv
  BY <1>1 DEF TokenInv, Acknowledged, Indexes
<1>4. Total(items) /\ Total(buffer) /\ Total(work)
  BY <1>1 DEF Total
<1>5. ASSUME NEW p \in Painters PROVE PainterTypes(p) /\ Kept(p)
  <2>1. items[p] \subseteq ItemsOf(p)
    <3>1. CASE p = "Help"
      BY <1>1, <3>1, PainterFacts
    <3>2. CASE p = "Controls"
      BY <1>1, <3>2, PainterFacts, ScreenAssumption
    <3>3. CASE p # "Help" /\ p # "Controls"
      BY <1>1, <3>3
    <3> QED
      BY <3>1, <3>2, <3>3
  <2>2. buffer[p] = Nothing /\ screen[p] = {}
    BY <1>1
  <2>3. PainterTypes(p)
    BY <2>1, <2>2, ContentFacts DEF PainterTypes
  <2>4. WorkSound(p)
    <3>1. CASE p \in Notifiers
      <4>1. work[p] = Idle
        BY <1>1, <3>1
      <4>2. Idle \in [stage: Stages, to: Content(p), update: SUBSET Update] /\ Idle.stage = "Idle"
        BY ContentFacts DEF Idle, Stages
      <4> QED
        BY <4>1, <4>2 DEF WorkSound
    <3>2. CASE p \notin Notifiers
      <4> DEFINE i == items[p]
                 w == Rendering(p, i, size, FALSE)
      <4>1. work[p] = w
        BY <1>1, <3>2
      <4>2. (IF i = {} THEN Nothing ELSE [items |-> i, size |-> size]) \in Content(p)
        BY <1>1, <2>1, ContentFacts, PainterFacts
      <4>3. /\ w \in [stage: Stages, to: Content(p), update: SUBSET Update]
            /\ w.stage # "Idle"
            /\ w.stage = "Draw" =>
                 i # {} /\ w.to = [items |-> i, size |-> size] /\ "Paint" \in w.update
        BY <4>2 DEF Rendering, Stages, Update
      <4> HIDE DEF w
      <4> QED
        BY <2>2, <4>1, <4>3, ContentFacts DEF WorkSound
    <3> QED
      BY <3>1, <3>2
  <2>5. Shown(p) /\ Gone(p) /\ Alone(p)
    BY <2>2 DEF Shown, Gone, Alone
  <2> QED
    BY <2>3, <2>4, <2>5 DEF Kept
<1> QED
  BY <1>2, <1>3, <1>4, <1>5 DEF ScreenInv, PainterPart

(* What neither the painters nor the draw loop's tokens are about.         *)
paintSide == <<gui, token, loop, layers, screen, items, buffer, work>>

LEMMA OtherStep ==
  ASSUME PainterPart, TokenInv, UNCHANGED paintSide
  PROVE  PainterPart' /\ TokenInv'
<1>1. UNCHANGED loopSide /\ UNCHANGED <<items, buffer, work>>
  BY DEF paintSide, loopSide
<1>2. TokenInv'
  BY DEF paintSide, TokenInv, Acknowledged
<1>3. Total(items)' /\ Total(buffer)' /\ Total(work)'
  BY <1>1 DEF PainterPart, Total
<1>4. \A p \in Painters : PainterTypes(p)' /\ Kept(p)'
  BY <1>1, KeptAlone DEF PainterPart
<1> QED
  BY <1>2, <1>3, <1>4 DEF PainterPart

(* A painter is given something to show, by a user, a timer or a size.     *)
LEMMA RenderSteps ==
  ASSUME ScreenInv,
         \/ \E p \in Notifiers : Notify(p)
         \/ \E p \in Notifiers : \E i \in items[p] : Expire(p, i)
         \/ PressHelp
         \/ \E r \in resizes : NewSize(r)
         \/ \E u \in updates : ShowControl(u)
  PROVE  ScreenInv'
<1> USE DEF ScreenInv
<1>1. UNCHANGED loopSide => TokenInv'
  BY DEF loopSide, TokenInv, Acknowledged
<1>2. ASSUME NEW p \in Notifiers, Notify(p) PROVE ScreenInv'
  <2>1. /\ events' \in 1 .. MaxEvents /\ Render(p, items[p] \cup {events'}, lastSize[p])
        /\ events' = events + 1
        /\ UNCHANGED <<count, size, loopVars, gui, lastSize, running, controlVars, resizes>>
    BY <1>2, ScreenAssumption DEF Notify, Event, Base
  <2>2. /\ p \in Painters /\ lastSize[p] \in AnySize
        /\ items[p] \cup {events'} \in SUBSET ItemsOf(p)
    BY <2>1, PainterFacts DEF Base, PainterPart, PainterTypes
  <2>3. UNCHANGED loopSide
    BY <2>1 DEF loopVars, loopSide
  <2>4. Base'
    <3>1. count' \in 0 .. events' /\ events' \in 0 .. MaxEvents
      BY <2>1 DEF Base
    <3> QED
      BY <2>1, <3>1 DEF Base, loopVars, controlVars, Total
  <2> QED
    BY <1>1, <2>1, <2>2, <2>3, <2>4, RenderStep
<1>3. ASSUME NEW p \in Notifiers, NEW i \in items[p], Expire(p, i) PROVE ScreenInv'
  <2>1. /\ Render(p, items[p] \ {i}, lastSize[p])
        /\ UNCHANGED <<events, count, size, loopVars, gui, lastSize, running, controlVars,
                       resizes>>
    BY <1>3 DEF Expire
  <2>2. p \in Painters /\ lastSize[p] \in AnySize /\ items[p] \ {i} \in SUBSET ItemsOf(p)
    BY PainterFacts DEF Base, PainterPart, PainterTypes
  <2>3. UNCHANGED loopSide
    BY <2>1 DEF loopVars, loopSide
  <2>4. Base'
    BY <2>1 DEF Base, loopVars, controlVars, Total
  <2> QED
    BY <1>1, <2>1, <2>2, <2>3, <2>4, RenderStep
<1>4. ASSUME PressHelp PROVE ScreenInv'
  <2>1. /\ events' \in 1 .. MaxEvents /\ events' = events + 1 /\ "Help" \in running
        /\ Render("Help", {"help"} \ items["Help"], termSize)
        /\ UNCHANGED <<count, size, loopVars, gui, lastSize, running, controlVars, resizes>>
    BY <1>4, ScreenAssumption DEF PressHelp, Event, Base
  <2>2. /\ "Help" \in Painters /\ termSize \in AnySize
        /\ {"help"} \ items["Help"] \in SUBSET ItemsOf("Help")
    BY <2>1, PainterFacts DEF Base
  <2>3. UNCHANGED loopSide
    BY <2>1 DEF loopVars, loopSide
  <2>4. Base'
    <3>1. count' \in 0 .. events' /\ events' \in 0 .. MaxEvents
      BY <2>1 DEF Base
    <3> QED
      BY <2>1, <3>1 DEF Base, loopVars, controlVars, Total
  <2> QED
    BY <1>1, <2>1, <2>2, <2>3, <2>4, RenderStep
<1>5. ASSUME NEW r \in resizes, NewSize(r) PROVE ScreenInv'
  <2>1. /\ Render(r.to, items[r.to], r.size)
        /\ resizes' = resizes \ {r}
        /\ lastSize' = [p \in Notifiers |-> IF p = r.to THEN r.size ELSE lastSize[p]]
        /\ UNCHANGED <<events, count, size, loopVars, gui, running, controlVars>>
    BY <1>5 DEF NewSize
  <2>2. r.to \in Painters /\ r.size \in AnySize /\ items[r.to] \in SUBSET ItemsOf(r.to)
    BY DEF Base, SizeMessage, PainterPart, PainterTypes
  <2>3. UNCHANGED loopSide
    BY <2>1 DEF loopVars, loopSide
  <2>4. Base'
    <3>1. resizes' \subseteq SizeMessage /\ \A p \in Notifiers : lastSize'[p] \in AnySize
      BY <2>1, <2>2 DEF Base
    <3> QED
      BY <2>1, <3>1 DEF Base, loopVars, controlVars, Total
  <2> QED
    BY <1>1, <2>1, <2>2, <2>3, <2>4, RenderStep
<1>6. ASSUME NEW u \in updates, ShowControl(u) PROVE ScreenInv'
  <2>1. /\ "Controls" \in running
        /\ Render("Controls", Switched(items["Controls"], u), termSize)
        /\ updates' = updates \ {u}
        /\ UNCHANGED <<events, count, size, loopVars, gui, lastSize, running, presentation,
                       keys, resizes>>
    BY <1>6 DEF ShowControl
  <2>2. "Controls" \in Painters /\ termSize \in AnySize
    BY <2>1, PainterFacts DEF Base
  <2>3. Switched(items["Controls"], u) \in SUBSET ItemsOf("Controls")
    BY <2>2, PainterFacts DEF Base, PainterPart, PainterTypes, Switched, Message
  <2>4. UNCHANGED loopSide
    BY <2>1 DEF loopVars, loopSide
  <2>5. Base'
    <3>1. updates' \subseteq Message
      BY <2>1 DEF Base
    <3> QED
      BY <2>1, <3>1 DEF Base, loopVars, Total
  <2> QED
    BY <1>1, <2>1, <2>2, <2>3, <2>4, <2>5, RenderStep
<1> QED
  BY <1>2, <1>3, <1>4, <1>5, <1>6

(* A painter draws and tells GUIState.                                     *)
LEMMA PainterSteps ==
  ASSUME ScreenInv, NEW p \in Painters, DrawTo(p) \/ Paint(p)
  PROVE  ScreenInv'
<1>1. Base'
  BY DEF ScreenInv, Base, DrawTo, Paint, loopVars, controlVars, Total
<1>2. CASE DrawTo(p)
  <2>1. TokenInv'
    BY <1>2 DEF ScreenInv, DrawTo, loopVars, TokenInv, Acknowledged
  <2> QED
    BY <1>1, <1>2, <2>1, DrawStep DEF ScreenInv
<1>3. CASE Paint(p)
  BY <1>1, <1>3, PaintStep DEF ScreenInv
<1> QED
  BY <1>2, <1>3

(* The draw loop, and the fan-out when it has stopped.                     *)
LEMMA LoopSteps ==
  ASSUME ScreenInv, Loop \/ LoopFails \/ TakeZeroSize
  PROVE  ScreenInv'
<1> USE DEF ScreenInv
<1>1. /\ UNCHANGED <<events, count, size, lastSize, running, presentation, keys, updates>>
      /\ UNCHANGED <<items, buffer, work>>
  BY DEF Loop, LoopFails, LoopSeesDone, UpdateSize, TakeSize, SizeTaken, TakeZeroSize,
         ReadPresentation, NoPoints, NewFrame, OldFrame, OnlyGUI, NothingNew, Clear, WriteLayer, Written,
         Computes, LoopOnly, painterVars, controlVars
<1>2. Total(screen)
  BY DEF Base
<1>3. ASSUME NEW s \in AnySize PROVE Fanned(s) \subseteq SizeMessage
  BY ScreenAssumption DEF Fanned, SizeMessage, Base
<1>4. CASE LoopSeesDone \/ UpdateSize \/ TakeSize \/ TakeZeroSize \/ ReadPresentation
  <2>1. /\ loop \notin {"Clear", "Write"} /\ loop' \notin {"Clear", "Write"} /\ loop' \in Places
        /\ loop \in {"Failed", "Broken"} => loop' \in {"Failed", "Broken"}
        /\ UNCHANGED <<gui, token, layers, screen, frame>>
    BY <1>4 DEF LoopSeesDone, UpdateSize, TakeSize, SizeTaken, TakeZeroSize, ReadPresentation,
                Places
  <2>2. /\ termSize' \in Sizes /\ loopSize' \in Sizes /\ cfg' \subseteq Settings
    BY <1>4 DEF LoopSeesDone, UpdateSize, TakeSize, SizeTaken, TakeZeroSize, ReadPresentation,
                Base
  <2>3. resizes' \subseteq SizeMessage
    BY <1>3, <1>4, PainterFacts
    DEF LoopSeesDone, UpdateSize, TakeSize, SizeTaken, TakeZeroSize, ReadPresentation, Base
  <2>4. Base'
    BY <1>1, <2>1, <2>2, <2>3 DEF Base, Total
  <2> QED
    BY <1>1, <2>1, <2>4, QuietStep
<1>5. CASE NoPoints \/ NothingNew \/ NewFrame \/ OldFrame
  <2>1. /\ loop = "Compute" /\ loop' \in {"Top", "Clear"} /\ loop' \in Places
        /\ UNCHANGED <<termSize, loopSize, cfg, screen, gui, resizes, layers>>
        /\ frame' = frame \/ (frame'.count = count /\ frame'.size = termSize /\ count # 0)
    BY <1>5 DEF NoPoints, NothingNew, NewFrame, OldFrame, Computes, Places
  <2>2. frame' = NoFrame \/ (frame'.size \in Sizes /\ frame'.count \in 1 .. count')
    BY <1>1, <2>1, ScreenAssumption DEF Base
  <2>3. Base'
    BY <1>1, <2>1, <2>2 DEF Base, Total
  <2>4. CASE NoPoints \/ NothingNew
    <3>1. token' = token /\ loop' = "Top"
      BY <2>4 DEF NoPoints, NothingNew, Computes
    <3> QED
      BY <1>1, <2>1, <2>3, <3>1, QuietStep
  <2>5. CASE NewFrame \/ OldFrame
    <3>1. (token' = token \/ GetState) /\ loop' = "Clear"
      BY <2>5 DEF NewFrame, OldFrame, Computes
    <3> QED
      BY <1>1, <2>1, <2>3, <3>1, FrameStep
  <2> QED
    BY <1>5, <2>4, <2>5
<1>6. CASE OnlyGUI
  <2>1. Base'
    BY <1>1, <1>6 DEF OnlyGUI, Computes, Base, Total, Places
  <2> QED
    BY <1>6, <2>1, OnlyGUIStep
<1>7. CASE Clear
  <2>1. Total(screen)' /\ \A p \in Painters : screen'[p] \subseteq Content(p)
    BY <1>7 DEF Clear, Total
  <2>2. Base'
    BY <1>1, <1>7, <2>1 DEF Clear, Base, Places
  <2> QED
    BY <1>7, <2>2, ClearStep
<1>8. CASE WriteLayer
  <2>1. /\ PainterPart' /\ TokenInv' /\ Total(screen)'
        /\ \A p \in Painters : screen'[p] \subseteq Content(p)
    BY <1>2, <1>8, WriteLayerStep DEF Base
  <2>2. Base'
    BY <1>1, <1>8, <2>1 DEF WriteLayer, Base
  <2> QED
    BY <2>1, <2>2
<1>9. CASE Written
  <2>1. Base'
    BY <1>1, <1>9 DEF Written, Base, Total, Places
  <2> QED
    BY <1>9, <2>1, WrittenStep
<1>10. CASE LoopFails
  <2>1. Base'
    BY <1>1, <1>10 DEF LoopFails, LoopOnly, Base, Total, Places
  <2> QED
    BY <1>10, <2>1, FailStep
<1> QED
  BY <1>4, <1>5, <1>6, <1>7, <1>8, <1>9, <1>10 DEF Loop

(* Points, sizes, messages, and the end.                                   *)
LEMMA OtherSteps ==
  ASSUME ScreenInv,
         \/ AddPoint
         \/ \E s \in Sizes : Resize(s)
         \/ \E setting \in Settings : Press(setting)
         \/ \E u \in updates : HandleControl(u)
         \/ \E p \in running : PainterSeesDone(p)
         \/ Cancel \/ RunReturns \/ SendPanics \/ Finish \/ Over \/ UNCHANGED vars
  PROVE  ScreenInv'
<1>1. UNCHANGED paintSide
  BY DEF AddPoint, Resize, Press, HandleControl, PainterSeesDone, Cancel, RunReturns, SendPanics,
         Finish, Over, EndOnly, vars, loopVars, painterVars, controlVars, paintSide
<1>2. PainterPart' /\ TokenInv'
  BY <1>1, OtherStep DEF ScreenInv
<1>3. Base
  BY DEF ScreenInv
<1>4. CASE Cancel \/ RunReturns \/ SendPanics \/ Finish \/ Over \/ UNCHANGED vars
  BY <1>2, <1>3, <1>4 DEF Cancel, RunReturns, SendPanics, Finish, Over, EndOnly, vars, loopVars,
                         painterVars, controlVars, ScreenInv, Base, Total
<1>5. CASE AddPoint
  <2>1. events' = events + 1 /\ count' = count + 1 /\ events < MaxEvents
        /\ UNCHANGED <<size, loopVars, painterVars, controlVars, resizes>>
    BY <1>5 DEF AddPoint, Event
  <2>2. /\ events' \in 0 .. MaxEvents /\ count' \in 0 .. events'
        /\ frame' = NoFrame \/ (frame'.size \in Sizes /\ frame'.count \in 1 .. count')
    BY <1>3, <2>1, ScreenAssumption DEF Base, loopVars
  <2> QED
    BY <1>2, <1>3, <2>1, <2>2 DEF ScreenInv, Base, Total, loopVars, painterVars, controlVars
<1>6. ASSUME NEW s \in Sizes, Resize(s) PROVE ScreenInv'
  <2>1. events' = events + 1 /\ size' = s /\ events < MaxEvents
        /\ UNCHANGED <<count, loopVars, painterVars, controlVars, resizes>>
    BY <1>6 DEF Resize, Event
  <2>2. events' \in 0 .. MaxEvents /\ count' \in 0 .. events'
    BY <1>3, <2>1, ScreenAssumption DEF Base
  <2> QED
    BY <1>2, <1>3, <2>1, <2>2 DEF ScreenInv, Base, Total, loopVars, painterVars, controlVars
<1>7. ASSUME NEW setting \in Settings, Press(setting) PROVE ScreenInv'
  <2> DEFINE u == [n |-> events', setting |-> setting, on |-> setting \in keys', to |-> "Graph"]
  <2>1. /\ events' = events + 1 /\ events < MaxEvents
        /\ keys' = (keys \ {setting}) \cup ({setting} \ keys)
        /\ updates' = updates \cup {u}
        /\ UNCHANGED <<count, size, loopVars, painterVars, presentation, resizes>>
    BY <1>7 DEF Press, Event
  <2>2. events' \in 0 .. MaxEvents /\ count' \in 0 .. events' /\ events' \in Nat
    BY <1>3, <2>1, ScreenAssumption DEF Base
  <2>3. u \in Message
    BY <2>2 DEF Message
  <2> HIDE DEF u
  <2>4. updates' \subseteq Message /\ keys' \subseteq Settings
    BY <1>3, <2>1, <2>3 DEF Base
  <2> QED
    BY <1>2, <1>3, <2>1, <2>2, <2>4 DEF ScreenInv, Base, Total, loopVars, painterVars
<1>8. ASSUME NEW u \in updates, HandleControl(u) PROVE ScreenInv'
  <2>1. /\ presentation' = Switched({}, u)
        /\ updates' = (updates \ {u}) \cup {[u EXCEPT !.to = "Controls"]}
        /\ UNCHANGED <<events, count, size, loopVars, painterVars, keys, resizes>>
    BY <1>8 DEF HandleControl
  <2>2. u \in Message
    BY <1>3 DEF Base
  <2>3. presentation' \subseteq Settings /\ [u EXCEPT !.to = "Controls"] \in Message
    BY <2>1, <2>2 DEF Switched, Message
  <2>4. updates' \subseteq Message
    BY <1>3, <2>1, <2>3 DEF Base
  <2> QED
    BY <1>2, <1>3, <2>1, <2>3, <2>4 DEF ScreenInv, Base, Total, loopVars, painterVars
<1>9. ASSUME NEW p \in running, PainterSeesDone(p) PROVE ScreenInv'
  BY <1>2, <1>3, <1>9 DEF PainterSeesDone, ScreenInv, Base, Total, loopVars, controlVars
<1> QED
  BY <1>4, <1>5, <1>6, <1>7, <1>8, <1>9

(* The invariant holds of every behaviour.                                 *)
LEMMA ScreenInductive == Spec => []ScreenInv
<1>1. ScreenInv /\ [Next]_vars => ScreenInv'
  <2> SUFFICES ASSUME ScreenInv, [Next]_vars PROVE ScreenInv'
    OBVIOUS
  <2>1. CASE Loop \/ LoopFails \/ TakeZeroSize
    BY <2>1, LoopSteps
  <2>2. CASE \/ \E p \in Notifiers : Notify(p)
             \/ \E p \in Notifiers : \E i \in items[p] : Expire(p, i)
             \/ PressHelp
             \/ \E r \in resizes : NewSize(r)
             \/ \E u \in updates : ShowControl(u)
    BY <2>2, RenderSteps
  <2>3. CASE \E p \in Painters : DrawTo(p) \/ Paint(p)
    BY <2>3, PainterSteps
  <2>4. CASE \/ AddPoint
             \/ \E s \in Sizes : Resize(s)
             \/ \E setting \in Settings : Press(setting)
             \/ \E u \in updates : HandleControl(u)
             \/ \E p \in running : PainterSeesDone(p)
             \/ Cancel \/ RunReturns \/ SendPanics \/ Finish \/ Over \/ UNCHANGED vars
    BY <2>4, OtherSteps
  <2> QED
    BY <2>1, <2>2, <2>3, <2>4 DEF Next
<1> QED
  BY <1>1, InitInv, PTL DEF Spec

(* Sizes, counts, settings, items and what is on the screen have their     *)
(* types (graph.Run, GUIState, the painters).                              *)
THEOREM TypeCorrect == Spec => []TypeOK
BY ScreenInductive, InvImplies, PTL

(* With no update left by the tokens, all that finished painters want is   *)
(* on the screen and all that they removed is gone, whatever painters,     *)
(* sizes and numbers of notifications there are (GUIState.Drawn, Paint).   *)
THEOREM NothingForgottenHolds == Spec => []NothingForgotten
BY ScreenInductive, InvImplies, PTL
=============================================================================
