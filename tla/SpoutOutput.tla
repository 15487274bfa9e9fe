---------------------------- MODULE SpoutOutput ----------------------------
(***************************************************************************)
(* Spout output: Main's calls into SpoutOut, the frame mailbox and the     *)
(* sending worker (src/src/spout_out.rs, src/src/main.rs).                 *)
(*                                                                         *)
(* Main never waits for the worker except where a cut to black, a held     *)
(* transition or a stop must be final.  Every change of what may be seen   *)
(* takes a new epoch, and frames carry the epoch they were rendered in.    *)
(*                                                                         *)
(* MaxEpoch and MaxGeneration bound the changes and the workers started.   *)
(***************************************************************************)
EXTENDS Naturals

CONSTANTS MaxEpoch, MaxGeneration, None

VARIABLES
  enabled, blackout, visual_epoch,  \* Main's toggles and their epoch
  mpc,         \* where Main is in its frame
  generation,  \* SpoutOut::generation
  status,      \* SpoutStatus: its generation and the delivered black epoch
  pending, intent, shutdown,  \* the mailbox
  wpc,         \* the worker: none, recv, scale, lock, send, ended
  born,        \* the generation it was started with
  frame,       \* the frame it has taken
  shown,       \* what the receivers have: the last frame sent
  cut,         \* history: Main cut to black and has not released it since
  held         \* the epoch of the last colour barrier

main == <<enabled, blackout, visual_epoch, mpc>>
mailbox == <<pending, intent, shutdown>>
worker == <<wpc, born, frame, shown>>
vars == <<main, generation, status, mailbox, worker, cut, held>>

Colour == [epoch |-> 0, blackout |-> FALSE]

Fresh(g) == [generation |-> g, black |-> None]

Init ==
  /\ enabled = TRUE /\ blackout = FALSE /\ visual_epoch = 0 /\ mpc = "events"
  /\ generation = 0 /\ status = Fresh(0)
  /\ pending = None /\ intent = Colour /\ shutdown = FALSE
  /\ wpc = "none" /\ born = 0 /\ frame = None /\ shown = None
  /\ cut = FALSE /\ held = 0

Frames == [epoch: Nat, black: BOOLEAN]

Running == wpc \notin {"none", "ended"}

\* A frame is colour or black; an intent asks for one of them.
Matches(f, i) == f.epoch = i.epoch /\ f.black = i.blackout

----------------------------------------------------------------------------
(***************************************************************************)
(* The mailbox.                                                            *)
(***************************************************************************)
\* queue_black waits for the send in progress; the same cut is not repeated.
QueueBlack(e) ==
  /\ wpc # "send"
  /\ IF e >= intent.epoch /\ ~shutdown
     THEN /\ intent' = [epoch |-> e, blackout |-> TRUE]
          /\ pending' = IF intent = intent' THEN pending
                        ELSE [epoch |-> e, black |-> TRUE]
          /\ cut' = TRUE
     ELSE UNCHANGED <<intent, pending, cut>>
  /\ UNCHANGED <<shutdown, held>>

\* hold_colour_epoch: older frames are void, no new one is sent.
HoldColour(e) ==
  /\ wpc # "send"
  /\ IF e >= intent.epoch /\ ~shutdown
     THEN /\ intent' = [epoch |-> e, blackout |-> FALSE]
          /\ pending' = None
          /\ held' = e
     ELSE UNCHANGED <<intent, pending, held>>
  /\ UNCHANGED <<shutdown, cut>>

\* try_queue_regular, when it gets the lock.
TryQueueRegular(e) ==
  /\ ~shutdown /\ e >= intent.epoch
  /\ ~(e = intent.epoch /\ intent.blackout)
  /\ intent' = IF e > intent.epoch THEN [epoch |-> e, blackout |-> FALSE]
               ELSE intent
  /\ pending' = [epoch |-> e, black |-> FALSE]
  /\ UNCHANGED <<shutdown, cut, held>>

----------------------------------------------------------------------------
(***************************************************************************)
(* Main: actions first, then the frame's hold, start or stop, cut, submit. *)
(***************************************************************************)
BlackDelivered == status.generation = generation /\ status.black = visual_epoch

\* set_blackout; a release voids what was cut.
SetBlackout ==
  /\ mpc = "events" /\ visual_epoch < MaxEpoch
  /\ blackout' = ~blackout /\ visual_epoch' = visual_epoch + 1
  /\ IF blackout' /\ enabled /\ Running
     THEN QueueBlack(visual_epoch')
     ELSE cut' = FALSE /\ UNCHANGED <<mailbox, held>>
  /\ UNCHANGED <<enabled, mpc, generation, status, worker>>

\* A look, a show or another path of the picture.
NewEpoch ==
  /\ mpc = "events" /\ visual_epoch < MaxEpoch
  /\ visual_epoch' = visual_epoch + 1
  /\ UNCHANGED <<enabled, blackout, mpc, generation, status, mailbox, worker,
                 cut, held>>

Toggle ==
  /\ mpc = "events" /\ generation < MaxGeneration
  /\ enabled' = ~enabled
  /\ UNCHANGED <<blackout, visual_epoch, mpc, generation, status, mailbox,
                 worker, cut, held>>

\* The frame begins; a transition on hold may raise the colour barrier.
BeginFrame ==
  /\ mpc = "events" /\ mpc' = "sync"
  /\ \/ ~blackout /\ enabled /\ Running /\ HoldColour(visual_epoch)
     \/ UNCHANGED <<mailbox, cut, held>>
  /\ UNCHANGED <<enabled, blackout, visual_epoch, generation, status, worker>>

\* start: it may be put off, or the worker may fail at once.
Start ==
  /\ mpc = "sync" /\ enabled /\ ~Running /\ generation < MaxGeneration
  /\ mpc' = "cut"
  /\ generation' = generation + 1 /\ born' = generation'
  /\ status' = Fresh(generation')
  /\ pending' = None /\ intent' = Colour /\ shutdown' = FALSE
  /\ wpc' \in {"recv", "ended"} /\ frame' = None /\ shown' = None
  /\ cut' = FALSE /\ held' = 0
  /\ UNCHANGED <<enabled, blackout, visual_epoch>>

\* stop invalidates the status before it waits for the worker.
Stop ==
  /\ mpc = "sync" /\ ~enabled /\ Running
  /\ mpc' = "stop"
  /\ generation' = generation + 1 /\ status' = Fresh(generation')
  /\ shutdown' = TRUE /\ pending' = None
  /\ UNCHANGED <<enabled, blackout, visual_epoch, intent, worker, cut, held>>

Joined ==
  /\ mpc = "stop" /\ wpc = "ended"
  /\ mpc' = "cut"
  /\ wpc' = "none" /\ shown' = None
  /\ UNCHANGED <<enabled, blackout, visual_epoch, generation, status, mailbox,
                 born, frame, cut, held>>

NothingToSync ==
  /\ mpc = "sync" /\ (enabled \/ ~Running)
  /\ mpc' = "cut"
  /\ UNCHANGED <<enabled, blackout, visual_epoch, generation, status, mailbox,
                 worker, cut, held>>

\* As a bug: a cut once delivered is taken for good.
CutOnce ==
  /\ mpc = "cut" /\ mpc' = "submit"
  /\ IF blackout /\ enabled /\ Running /\ status.black = None
     THEN QueueBlack(visual_epoch)
     ELSE UNCHANGED <<mailbox, cut, held>>
  /\ UNCHANGED <<enabled, blackout, visual_epoch, generation, status, worker>>

\* Blackout is cut again until the worker says it delivered this epoch's.
Cut ==
  /\ mpc = "cut" /\ mpc' = "submit"
  /\ IF blackout /\ enabled /\ Running /\ ~BlackDelivered
     THEN QueueBlack(visual_epoch)
     ELSE UNCHANGED <<mailbox, cut, held>>
  /\ UNCHANGED <<enabled, blackout, visual_epoch, generation, status, worker>>

\* Readbacks rendered in the current epoch are submitted, if there are any and
\* the mailbox is free.
Submit ==
  /\ mpc = "submit" /\ mpc' = "events"
  /\ \/ enabled /\ Running /\ TryQueueRegular(visual_epoch)
     \/ UNCHANGED <<mailbox, cut, held>>
  /\ UNCHANGED <<enabled, blackout, visual_epoch, generation, status, worker>>

DrawFrame ==
  BeginFrame \/ Start \/ Stop \/ Joined \/ NothingToSync \/ Cut \/ Submit

Main == SetBlackout \/ NewEpoch \/ Toggle \/ DrawFrame

----------------------------------------------------------------------------
(***************************************************************************)
(* The worker.  While it is in send it holds the barrier.                  *)
(***************************************************************************)
\* update_status: only the status of its own generation.
Report(black) ==
  status' = IF status.generation = born THEN [status EXCEPT !.black = black]
            ELSE status

Recv ==
  /\ wpc = "recv" /\ pending # None
  /\ wpc' = "scale" /\ frame' = pending /\ pending' = None
  /\ UNCHANGED <<main, generation, status, intent, shutdown, born, shown, cut,
                 held>>

\* shutdown wakes a waiting worker; its sender goes with it.
Exit ==
  /\ wpc = "recv" /\ shutdown
  /\ wpc' = "ended" /\ shown' = None
  /\ UNCHANGED <<main, generation, status, mailbox, born, frame, cut, held>>

IsCurrent(f) == ~shutdown /\ Matches(f, intent)

\* A frame known to be stale is not scaled; a colour frame may not fit.
Scale ==
  /\ wpc = "scale"
  /\ \/ IsCurrent(frame) /\ wpc' = "lock" /\ UNCHANGED status
     \/ ~IsCurrent(frame) /\ wpc' = "recv" /\ UNCHANGED status
     \/ IsCurrent(frame) /\ ~frame.black /\ wpc' = "recv" /\ Report(None)
  /\ UNCHANGED <<main, generation, mailbox, born, frame, shown, cut, held>>

\* As a bug: the frame is not examined again under the barrier.
LockUnchecked ==
  /\ wpc = "lock" /\ wpc' = "send"
  /\ UNCHANGED <<main, generation, status, mailbox, born, frame, shown, cut,
                 held>>

\* As a bug: the delivery is recorded before the send.
LockReports ==
  /\ wpc = "lock"
  /\ IF IsCurrent(frame)
     THEN wpc' = "send" /\ Report(IF frame.black THEN frame.epoch ELSE None)
     ELSE wpc' = "recv" /\ UNCHANGED status
  /\ UNCHANGED <<main, generation, mailbox, born, frame, shown, cut, held>>

\* The final validity check under the barrier.
Lock ==
  /\ wpc = "lock"
  /\ wpc' = IF IsCurrent(frame) THEN "send" ELSE "recv"
  /\ UNCHANGED <<main, generation, status, mailbox, born, frame, shown, cut,
                 held>>

Send ==
  /\ wpc = "send" /\ wpc' = "recv"
  /\ shown' = frame
  /\ Report(IF frame.black THEN frame.epoch ELSE None)
  /\ UNCHANGED <<main, generation, mailbox, born, frame, cut, held>>

SendFails ==
  /\ wpc = "send" /\ wpc' = "ended"
  /\ shown' = None
  /\ Report(None)
  /\ UNCHANGED <<main, generation, mailbox, born, frame, cut, held>>

Worker == Recv \/ Exit \/ Scale \/ Lock \/ Send \/ SendFails

Next == Main \/ Worker

\* Frame after frame is drawn, and the worker thread runs.
Fairness ==
  /\ WF_vars(DrawFrame)
  /\ WF_vars(Worker)

Spec == Init /\ [][Next]_vars /\ Fairness

----------------------------------------------------------------------------
TypeOK ==
  /\ enabled \in BOOLEAN /\ blackout \in BOOLEAN /\ visual_epoch \in Nat
  /\ mpc \in {"events", "sync", "stop", "cut", "submit"}
  /\ generation \in Nat
  /\ status \in [generation: Nat, black: Nat \cup {None}]
  /\ pending \in Frames \cup {None}
  /\ intent \in [epoch: Nat, blackout: BOOLEAN] /\ shutdown \in BOOLEAN
  /\ wpc \in {"none", "recv", "scale", "lock", "send", "ended"}
  /\ born \in Nat
  /\ frame \in Frames \cup {None} /\ shown \in Frames \cup {None}
  /\ cut \in BOOLEAN /\ held \in Nat

\* A barrier is final when it returns: after a cut no colour is sent until the
\* blackout is released, whatever epochs pass, and after a hold nothing older
\* than it ("no colour frame from this or an older epoch can be sent
\* afterward", cut_to_black).
BarriersAreFinal ==
  [][shown' # shown /\ shown' # None =>
       /\ cut => shown'.black
       /\ shown'.epoch >= held]_vars

\* What black_delivered tells Main, which stops cutting then, is true of the
\* receivers.
DeliveredIsShown ==
  blackout /\ Running /\ BlackDelivered
    => shown = [epoch |-> visual_epoch, black |-> TRUE]

\* A blackout that stays reaches the receivers, if the worker stays up: the
\* cut is neither lost in the one-slot mailbox nor taken for delivered.
BlackoutArrives ==
  <>[](blackout /\ enabled /\ Running)
    => <>[](shown = [epoch |-> visual_epoch, black |-> TRUE])
=============================================================================
