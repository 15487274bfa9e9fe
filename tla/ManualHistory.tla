--------------------------- MODULE ManualHistory ---------------------------
(***************************************************************************)
(* Undo and redo of what people author, and the four controllers that open *)
(* a gesture in it (src/src/history.rs, src/src/main.rs,                   *)
(* src/src/patch/editor.rs, static/app.js).                                *)
(*                                                                         *)
(* A gesture is one entry however many values it sets.  The history keeps  *)
(* at most one open, identified by a number that its controller allocates: *)
(* the browser page, the router of strokes, the router of the transform    *)
(* gizmo and the patch editor each count from 1.  Everything happens on    *)
(* Main, frame by frame; what can go wrong is the order of the calls.      *)
(*                                                                         *)
(* A world is a fingerprint of everything authored.  MaxId bounds the      *)
(* gestures of one controller (of one page, which a reload replaces).      *)
(***************************************************************************)
EXTENDS Integers, Sequences, SequencesExt

CONSTANTS Worlds, FirstWorld, MaxEntries, MaxId, MaxFields, None

VARIABLES
  hist,    \* the world, ManualHistory and App::history_gesture_begin
  page,    \* the browser's gesture (id 0: none), whether it set a value
  stroke,  \* GestureHistoryRouter of the strokes and gesture_history_open
  gizmo,   \* the drag and the number its router gave it
  editor,  \* EditorState, whether it has the keyboard, the owned identity
  hand,    \* history: who made the last change of the world by hand
  slips    \* history: what went wrong between controllers so far

vars == <<hist, page, stroke, gizmo, editor, hand, slips>>

Init ==
  /\ hist = [world |-> FirstWorld, undo |-> <<>>, redo |-> <<>>,
             open |-> None, begin |-> None]
  /\ page = [id |-> 0, dirty |-> FALSE]
  /\ stroke = [down |-> {}, entry |-> 0, open |-> 0, next |-> 1]
  /\ gizmo = [drag |-> "none", id |-> 0, next |-> 1]
  /\ editor = [active |-> TRUE, focus |-> FALSE, field |-> 0, next |-> 1,
               boundaries |-> <<>>, identity |-> 0]
  /\ hand = None /\ slips = {}

----------------------------------------------------------------------------
(***************************************************************************)
(* The history's operations, as functions of hist.                         *)
(***************************************************************************)
\* Drops the oldest undo entries, then redo entries, until room is left.
Trim(h, room) ==
  LET over == Len(h.undo) + Len(h.redo) + room - MaxEntries
      fromUndo == IF over < Len(h.undo) THEN over ELSE Len(h.undo)
  IN  IF over <= 0 THEN h
      ELSE [h EXCEPT !.undo = SubSeq(@, fromUndo + 1, Len(@)),
                     !.redo = SubSeq(@, over - fromUndo + 1, Len(@))]

Matches(h, id) == h.open # None /\ h.open.id = id

\* by is the history of who opened it: the code keeps the origin alone.
BeginGesture(h, id, by, origin, before) ==
  IF h.open # None THEN h
  ELSE [Trim(h, 1) EXCEPT
          !.open = [id |-> id, by |-> by, origin |-> origin, before |-> before],
          !.begin = [id |-> id, world |-> before]]

Push(h, before) ==
  Trim([h EXCEPT !.undo = Append(@, before), !.redo = <<>>], 0)

FinishGesture(h, id) ==
  IF ~Matches(h, id) THEN h
  ELSE LET closed == [h EXCEPT !.open = None, !.begin = None]
       IN  IF h.open.before = h.world THEN closed ELSE Push(closed, h.open.before)

CancelGesture(h, id) ==
  IF ~Matches(h, id) THEN h ELSE [h EXCEPT !.open = None, !.begin = None]

\* A complete edit of its own, refused while a gesture is open.
RecordManual(h, world) ==
  IF world = h.world THEN h ELSE Push([h EXCEPT !.world = world], h.world)

OpenOrigin(h) == IF h.open = None THEN None ELSE h.open.origin

\* A boundary meets a gesture of the same number that somebody else opened.
Meets(h, id, by) ==
  IF Matches(h, id) /\ h.open.by # by THEN {"foreign end"} ELSE {}

----------------------------------------------------------------------------
(***************************************************************************)
(* The browser.  The server's gate lets one page own a gesture             *)
(* (ActionQueue); a gesture that Main refuses goes on in the page.         *)
(***************************************************************************)
\* A page counts from 1 and another page starts over, so that any number may
\* come next.
PageBegin(id) ==
  /\ page.id = 0
  /\ page' = [id |-> id, dirty |-> FALSE]
  /\ hist' = BeginGesture(hist, id, "page", "browser", hist.world)
  /\ hand' = None
  /\ UNCHANGED <<stroke, gizmo, editor, slips>>

\* Mutant: nothing refuses the value while a native gesture is open.
PageSetUnchecked(world) ==
  /\ world # hist.world
  /\ page' = [page EXCEPT !.dirty = (page.id # 0)]
  /\ hist' = IF hist.open # None THEN [hist EXCEPT !.world = world]
             ELSE RecordManual(hist, world)
  /\ hand' = "page"
  /\ UNCHANGED <<stroke, gizmo, editor, slips>>

\* A value set by the browser, in the page's gesture or apart from it.
PageSet(world) ==
  /\ world # hist.world
  /\ page' = [page EXCEPT !.dirty = (page.id # 0)]
  /\ hist' = CASE OpenOrigin(hist) = "native" -> hist
               [] OpenOrigin(hist) = "browser" -> [hist EXCEPT !.world = world]
               [] OTHER -> RecordManual(hist, world)
  /\ hand' = "page"
  /\ UNCHANGED <<stroke, gizmo, editor, slips>>

PageEnd ==
  /\ page.id # 0 /\ page.dirty
  /\ page' = [page EXCEPT !.id = 0]
  /\ hist' = FinishGesture(hist, page.id)
  /\ slips' = slips \cup Meets(hist, page.id, "page")
  /\ hand' = None
  /\ UNCHANGED <<stroke, gizmo, editor>>

\* Main refuses to cancel a gesture during which the world changed.
CancelRefused ==
  hist.begin # None /\ hist.begin.id = page.id /\ hist.begin.world # hist.world

PageCancel ==
  /\ page.id # 0 /\ ~page.dirty
  /\ page' = [page EXCEPT !.id = 0]
  /\ hist' = IF CancelRefused THEN hist ELSE CancelGesture(hist, page.id)
  /\ slips' = slips \cup
       IF ~Matches(hist, page.id) THEN {}
       ELSE IF CancelRefused THEN {"refused cancel"}
       ELSE Meets(hist, page.id, "page")
  /\ hand' = None
  /\ UNCHANGED <<stroke, gizmo, editor>>

Page ==
  \/ PageEnd \/ PageCancel
  \/ \E id \in 1..MaxId: PageBegin(id)
  \/ \E world \in Worlds: PageSet(world)

----------------------------------------------------------------------------
(***************************************************************************)
(* A frame of the patch editor.  The editor notes its boundaries while it  *)
(* is drawn; Main applies them afterwards, in frames where it finds work.  *)
(* A Begin counts only in a frame that brought a press of a key or a       *)
(* button, for which Main minted an identity and kept the world before it. *)
(***************************************************************************)
EndField(e) ==
  IF e.field = 0 THEN e
  ELSE [e EXCEPT !.field = 0,
                 !.boundaries = Append(@, [kind |-> "end", id |-> e.field])]

FinishActiveEdit(e) == [EndField(e) EXCEPT !.focus = FALSE]

BeginField(e) ==
  [EndField(e) EXCEPT
     !.boundaries = Append(@, [kind |-> "begin", id |-> e.next]),
     !.field = e.next, !.focus = TRUE, !.next = @ + 1]

Drawn == editor.active /\ OpenOrigin(hist) # "browser"

\* What a frame's input does to the editor and the world: nothing, a click on
\* a value, a click into it again, text, leaving it, a click on another tab.
Inputs ==
  LET Input(press, e, world) == [press |-> press, e |-> e, world |-> world]
      Same(press, e) == Input(press, e, hist.world)
  IN  IF ~Drawn
      THEN {Same(press, [editor EXCEPT !.focus = FALSE]) : press \in BOOLEAN}
      ELSE IF editor.focus
      THEN {Same(FALSE, editor)}
             \cup {Input(press, editor, w) : press \in BOOLEAN, w \in Worlds}
             \cup {Input(TRUE, FinishActiveEdit(editor), w) : w \in Worlds}
      ELSE {Same(press, editor) : press \in BOOLEAN}
             \cup {Same(press, BeginField(editor)) :
                      press \in {b \in BOOLEAN : editor.next <= MaxFields}}
             \cup {Same(TRUE, [editor EXCEPT !.focus = TRUE]) :
                      f \in {editor.field} \ {0}}
             \cup {Same(FALSE, EndField(editor))}

Mints(press) ==
  press /\ editor.active /\ editor.identity = 0 /\ hist.open = None

\* native_editor_history_work_required.
HasWork(press) ==
  Mints(press) \/ editor.identity # 0 \/ OpenOrigin(hist) = "native"

\* One boundary; fresh is the identity that no Begin has taken yet.
ApplyBoundary(s, b) ==
  IF b.kind = "end"
  THEN [s EXCEPT !.h = FinishGesture(@, b.id), !.e.identity = 0,
                 !.slips = @ \cup Meets(s.h, b.id, "editor")]
  ELSE IF s.fresh
  THEN [s EXCEPT !.h = BeginGesture(@, b.id, "editor", "native", s.before),
                 !.e.identity = IF s.h.open = None THEN b.id ELSE 0,
                 !.fresh = FALSE]
  ELSE [s EXCEPT !.e = [FinishActiveEdit(@) EXCEPT !.active = FALSE]]

ApplyBoundaries(h, e, fresh, before) ==
  LET start == [h |-> h, e |-> [e EXCEPT !.boundaries = <<>>], fresh |-> fresh,
                before |-> before, slips |-> {}]
      after[i \in 0..Len(e.boundaries)] ==
        IF i = 0 THEN start ELSE ApplyBoundary(after[i - 1], e.boundaries[i])
  IN  after[Len(e.boundaries)]

\* Text that comes without a press (a paste, an input method) before the
\* editor's gesture is open.
Unannounced(u) ==
  IF u.world # hist.world /\ ~u.press /\ editor.identity = 0
  THEN {"unannounced text"} ELSE {}

\* The editor's part of a frame with input u.
Frame(u) ==
  LET h == [hist EXCEPT !.world = u.world]
      s == IF HasWork(u.press)
           THEN ApplyBoundaries(h, u.e, Mints(u.press), hist.world)
           ELSE [h |-> h, e |-> u.e, slips |-> {}]
  IN  [s EXCEPT !.slips = @ \cup Unannounced(u)]

\* A frame without input for the editor.
Quiet == [press |-> FALSE, world |-> hist.world,
          e |-> [editor EXCEPT !.focus = @ /\ Drawn]]

EditorFrame ==
  \E u \in Inputs:
    /\ hist' = Frame(u).h /\ editor' = Frame(u).e
    /\ slips' = slips \cup Frame(u).slips
    /\ hand' = IF u.world # hist.world THEN "editor" ELSE None
    /\ UNCHANGED <<page, stroke, gizmo>>

\* Ctrl+E, which egui keeps to itself while a text field has the keyboard.
ToggleEditor ==
  /\ ~editor.focus
  /\ editor' = [FinishActiveEdit(editor) EXCEPT !.active = ~@]
  /\ hand' = None
  /\ UNCHANGED <<hist, page, stroke, gizmo, slips>>

----------------------------------------------------------------------------
(***************************************************************************)
(* Strokes on the gesture canvas, from the preview's pointer and from      *)
(* phones: one entry from the first stroke down to the last one up.        *)
(***************************************************************************)
\* The frame of a press on the preview; a text field loses the keyboard.
Presses == {u \in Inputs : u.press /\ ~u.e.focus /\ u.e.next = editor.next}

StrokeDown(h, surface) ==
  IF stroke.entry # 0
  THEN /\ stroke' = [stroke EXCEPT !.down = @ \cup {surface}]
       /\ hist' = h
  ELSE /\ stroke.next <= MaxId
       /\ stroke' = [down |-> stroke.down \cup {surface}, entry |-> stroke.next,
                     open |-> IF h.open = None THEN stroke.next ELSE stroke.open,
                     next |-> stroke.next + 1]
       /\ hist' = BeginGesture(h, stroke.next, "stroke",
                     IF surface = "phone" THEN "browser" ELSE "native", h.world)

StrokeUp(s, surface) ==
  LET last == stroke.down = {surface}
      closes == last /\ stroke.open # 0 /\ stroke.open = stroke.entry
  IN  /\ stroke' = [stroke EXCEPT !.down = @ \ {surface},
                                  !.entry = IF last THEN 0 ELSE @,
                                  !.open = IF last THEN 0 ELSE @]
      /\ hist' = IF closes THEN FinishGesture(s.h, stroke.entry) ELSE s.h
      /\ slips' = slips \cup s.slips \cup
           IF closes THEN Meets(s.h, stroke.entry, "stroke") ELSE {}

\* A phone's sample is a browser action: refused during a native gesture.
PhoneStroke ==
  /\ OpenOrigin(hist) # "native"
  /\ \/ "phone" \notin stroke.down /\ StrokeDown(hist, "phone") /\ UNCHANGED slips
     \/ "phone" \in stroke.down /\ StrokeUp([h |-> hist, slips |-> {}], "phone")
  /\ hand' = None
  /\ UNCHANGED <<page, gizmo, editor>>

PointerDown ==
  /\ "native" \notin stroke.down /\ gizmo.drag = "none"
  /\ \E u \in Presses:
       /\ StrokeDown(Frame(u).h, "native")
       /\ editor' = Frame(u).e /\ slips' = slips \cup Frame(u).slips
       /\ hand' = IF u.world # hist.world THEN "editor" ELSE None
  /\ UNCHANGED <<page, gizmo>>

PointerUp ==
  /\ "native" \in stroke.down
  /\ StrokeUp(Frame(Quiet), "native") /\ editor' = Frame(Quiet).e
  /\ hand' = None
  /\ UNCHANGED <<page, gizmo>>

----------------------------------------------------------------------------
(***************************************************************************)
(* The transform gizmo: a drag in the preview, with one entry.             *)
(***************************************************************************)
NoDrag == [gizmo EXCEPT !.drag = "none", !.id = 0]

GizmoBegin ==
  /\ gizmo.drag = "none" /\ "native" \notin stroke.down /\ gizmo.next <= MaxId
  /\ \E u \in Presses: LET s == Frame(u) IN
       /\ hist' = BeginGesture(s.h, gizmo.next, "gizmo", "native", s.h.world)
       /\ gizmo' = IF s.h.open # None THEN [gizmo EXCEPT !.next = @ + 1]
                   ELSE [drag |-> "clean", id |-> gizmo.next,
                         next |-> gizmo.next + 1]
       /\ editor' = s.e /\ slips' = slips \cup s.slips
       /\ hand' = IF u.world # hist.world THEN "editor" ELSE None
  /\ UNCHANGED <<page, stroke>>

\* The drag writes what it moves; it does not look at the open gesture.
GizmoMove(world) ==
  /\ gizmo.drag # "none" /\ world # hist.world
  /\ hist' = [Frame(Quiet).h EXCEPT !.world = world]
  /\ editor' = Frame(Quiet).e /\ slips' = slips \cup Frame(Quiet).slips
  /\ gizmo' = [gizmo EXCEPT !.drag = "committed"]
  /\ hand' = "gizmo"
  /\ UNCHANGED <<page, stroke>>

GizmoEnd ==
  /\ gizmo.drag # "none"
  /\ LET s == Frame(Quiet) IN
       /\ hist' = FinishGesture(s.h, gizmo.id)
       /\ editor' = s.e
       /\ slips' = slips \cup s.slips \cup Meets(s.h, gizmo.id, "gizmo")
  /\ gizmo' = NoDrag /\ hand' = None
  /\ UNCHANGED <<page, stroke>>

\* abort_transform_gizmo_drag_with_reason forgets the Begin in any case.
Abort(h) == [CancelGesture(h, gizmo.id) EXCEPT !.begin = None]

\* settle_transform_gizmo_drag_for_barrier.
Settle(h) ==
  CASE gizmo.drag = "none" -> h
    [] gizmo.drag = "clean" -> Abort(h)
    [] OTHER -> FinishGesture(h, gizmo.id)

GizmoMeets(h) == IF gizmo.drag = "none" THEN {} ELSE Meets(h, gizmo.id, "gizmo")

\* Another target for the gizmo, which any controller may choose meanwhile.
Retarget ==
  /\ gizmo.drag # "none"
  /\ hist' = Settle(hist) /\ gizmo' = NoDrag
  /\ slips' = slips \cup GizmoMeets(hist)
  /\ hand' = None
  /\ UNCHANGED <<page, stroke, editor>>

----------------------------------------------------------------------------
(***************************************************************************)
(* Undo, redo and what replaces the world.                                 *)
(***************************************************************************)
Undo(h) ==
  Trim([h EXCEPT !.world = Last(h.undo), !.undo = Front(@),
                 !.redo = Append(@, h.world)], 0)

Redo(h) ==
  Trim([h EXCEPT !.world = Last(h.redo), !.redo = Front(@),
                 !.undo = Append(@, h.world)], 0)

\* Escape during a drag: cancels it, or undoes what it has committed.
GizmoEscape ==
  /\ gizmo.drag # "none"
  /\ LET closed == Settle(hist)
         undoes == /\ gizmo.drag = "committed" /\ Matches(hist, gizmo.id)
                   /\ closed.undo # <<>>
     IN  hist' = IF undoes THEN Undo(closed) ELSE closed
  /\ gizmo' = NoDrag
  /\ slips' = slips \cup GizmoMeets(hist)
  /\ hand' = None
  /\ UNCHANGED <<page, stroke, editor>>

\* Mutant: the strokes are forgotten and their entry is not.
AbandonStrokesOnly(h) == h

StrokesOpen == stroke.entry # 0 /\ stroke.open = stroke.entry

\* clear_gesture_recording_state: the strokes are forgotten, their entry is
\* cancelled whatever the world has become since it was opened.
AbandonStrokes(h) ==
  IF ~StrokesOpen THEN h
  ELSE [CancelGesture(h, stroke.entry) EXCEPT !.begin = None]

ForgetStrokes ==
  stroke' = [down |-> {}, entry |-> 0, next |-> stroke.next,
             open |-> IF stroke.entry = 0 THEN stroke.open ELSE 0]

StrokesMeet(h) == IF StrokesOpen THEN Meets(h, stroke.entry, "stroke") ELSE {}

\* A Look, or the master's reset: the strokes alone are abandoned.
ClearRecording(h, found) ==
  /\ hist' = AbandonStrokes(h) /\ ForgetStrokes
  /\ slips' = slips \cup found \cup StrokesMeet(h)
  /\ UNCHANGED gizmo

\* reset_patch_generation: the drag is settled as well.
ResetGeneration(h, found) ==
  /\ hist' = Settle(AbandonStrokes(h)) /\ ForgetStrokes
  /\ gizmo' = NoDrag
  /\ slips' = slips \cup found \cup StrokesMeet(h)
                    \cup GizmoMeets(AbandonStrokes(h))

\* A restore of two bypass switches alone leaves the generation.
Restore(h) ==
  /\ \/ ResetGeneration(h, {})
     \/ hist' = h /\ UNCHANGED <<stroke, gizmo, slips>>
  /\ hand' = None
  /\ UNCHANGED <<page, editor>>

RestoreDirection ==
  /\ hist.open = None
  /\ \/ hist.undo # <<>> /\ Restore(Undo(hist))
     \/ hist.redo # <<>> /\ Restore(Redo(hist))

\* What was set within the strokes' entry goes with the entry.
Abandons(h) ==
  IF StrokesOpen /\ Matches(h, stroke.entry) /\ h.open.before # h.world
  THEN {"abandoned edit"} ELSE {}

\* A page opens a patch, applies a Look, resets the master or restores the
\* journal: gated as a value is, and it abandons the strokes all the same.
PageReplace(world) ==
  /\ OpenOrigin(hist) # "native"
  /\ LET h == IF hist.open = None THEN RecordManual(hist, world)
              ELSE [hist EXCEPT !.world = world]
     IN  ClearRecording(h, Abandons(h)) \/ ResetGeneration(h, Abandons(h))
  /\ hand' = "page"
  /\ UNCHANGED <<page, editor>>

\* The same from the keyboard, which waits for every gesture.
NativeReplace(world) ==
  /\ hist.open = None
  /\ LET h == RecordManual(hist, world)
     IN  ClearRecording(h, {}) \/ ResetGeneration(h, {})
  /\ hand' = "native"
  /\ UNCHANGED <<page, editor>>

\* A show is imported and loaded, which no gesture refuses nor records.
Load(world) ==
  /\ ResetGeneration([hist EXCEPT !.world = world], {})
  /\ hand' = None
  /\ UNCHANGED <<page, editor>>

\* MIDI, OSC, clips and scenes change the world outside the history.
Automation(world) ==
  /\ world # hist.world
  /\ hist' = [hist EXCEPT !.world = world]
  /\ hand' = None
  /\ UNCHANGED <<page, stroke, gizmo, editor, slips>>

\* A native shortcut, a dropped file, a nudge of the gizmo's target.
NativeAction(world) ==
  /\ hist.open = None /\ world # hist.world
  /\ hist' = RecordManual(hist, world)
  /\ hand' = "native"
  /\ UNCHANGED <<page, stroke, gizmo, editor, slips>>

Next ==
  \/ Page
  \/ EditorFrame \/ ToggleEditor
  \/ PhoneStroke \/ PointerDown \/ PointerUp
  \/ GizmoBegin \/ GizmoEnd \/ GizmoEscape \/ Retarget
  \/ RestoreDirection
  \/ \E world \in Worlds:
       \/ GizmoMove(world) \/ NativeAction(world) \/ Automation(world)
       \/ PageReplace(world) \/ NativeReplace(world) \/ Load(world)

Spec == Init /\ [][Next]_vars

----------------------------------------------------------------------------
TypeOK ==
  /\ hist.world \in Worlds
  /\ hist.undo \in Seq(Worlds) /\ hist.redo \in Seq(Worlds)
  /\ Len(hist.undo) + Len(hist.redo) + (IF hist.open = None THEN 0 ELSE 1)
       <= MaxEntries
  /\ hist.open # None =>
       /\ hist.open.id \in 1..(MaxId + MaxFields) /\ hist.open.before \in Worlds
       /\ hist.open.by \in {"page", "stroke", "gizmo", "editor"}
       /\ hist.open.origin \in {"browser", "native"}
  /\ hist.begin # None =>
       hist.begin.id \in 1..(MaxId + MaxFields) /\ hist.begin.world \in Worlds
  /\ page.id \in 0..MaxId /\ page.dirty \in BOOLEAN
  /\ stroke.down \subseteq {"phone", "native"}
  /\ gizmo.drag \in {"none", "clean", "committed"}
  /\ editor.active \in BOOLEAN /\ editor.focus \in BOOLEAN
  /\ hand \in {None, "page", "editor", "gizmo", "native"}
  /\ slips \subseteq {"foreign end", "refused cancel", "unannounced text",
                      "abandoned edit"}

\* A gesture's edits belong to the controller that opened it; browser controls
\* share a gesture of the browser's class.
Shares(open, by) ==
  IF by = "page" THEN open.origin = "browser" ELSE open.by = by

\* Whatever the controllers do in turn, a change made by hand is undone with
\* its own gesture and with nothing else: it falls into a gesture of its
\* controller, or Undo leads straight back to the world before it.  (Excused
\* are the four ways in which the code's controllers do get at one another.)
EditsAreUndoable ==
  [][hist'.world # hist.world /\ hand' # None /\ slips' = {} =>
       LET start == IF hist.open # None /\ Shares(hist.open, hand')
                    THEN hist.open.before ELSE hist.world
       IN  IF hist'.open # None /\ Shares(hist'.open, hand')
           THEN hist'.open.before = start
           ELSE /\ hist'.open \in {None, hist.open} => hist'.open = None
                /\ \/ hist'.world = start
                   \/ hist'.undo # <<>> /\ Last(hist'.undo) = start]_vars

\* An open gesture has a controller that will still end it; nothing else can,
\* and Undo and every other controller wait for it.
OpenIsHeld ==
  hist.open # None /\ slips = {} =>
    CASE hist.open.by = "page" -> page.id = hist.open.id
      [] hist.open.by = "stroke" ->
           stroke.down # {} /\ stroke.open = hist.open.id
                           /\ stroke.entry = hist.open.id
      [] hist.open.by = "gizmo" -> gizmo.drag # "none" /\ gizmo.id = hist.open.id
      [] OTHER ->
           /\ editor.identity = hist.open.id
           /\ \/ editor.field = hist.open.id
              \/ \E i \in 1..Len(editor.boundaries):
                   editor.boundaries[i] = [kind |-> "end", id |-> hist.open.id]

\* What settle_transform_gizmo_drag_for_barrier and history.rs promise: a drag
\* that has written keeps its entry open, "so the live mutation cannot escape
\* Undo", whatever other controllers end.
DragKeepsItsEntry ==
  gizmo.drag = "committed" => hist.open # None /\ hist.open.by = "gizmo"
=============================================================================
