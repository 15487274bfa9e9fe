---------------------------- MODULE MCAdmission ----------------------------
(***************************************************************************)
(* What Main lets in: results of background jobs at the publication gate,  *)
(* the actions of the browser at the control queue, and what people author *)
(* at the history.  They share no state, so each behaviour runs one of     *)
(* them (part) and leaves the others where they start.                     *)
(*                                                                         *)
(* Of the control clients one drags a control and the others send          *)
(* everything else.  Three sequences on a queue of two allow a value, a    *)
(* barrier and a newer value, a full queue that evicts, and a gesture      *)
(* whose End meets a replaced show.                                        *)
(*                                                                         *)
(* Each controller of the history has two gestures, so that their numbers  *)
(* meet; two entries are an open gesture and the entry it displaces.       *)
(***************************************************************************)
EXTENDS PublicationGate

CONSTANTS Clients, Dragger, Keys, CaptureMayFail,            \* ActionQueue
          MaxPendingActions, PriorityReserve, MaxInFlight, MaxSequence,
          Worlds, FirstWorld, MaxEntries, MaxId, MaxFields     \* ManualHistory

VARIABLES
  part,
  minted, stage, flight, owner, queue, drawing, batch, open, store, applied,
  highest, receipt, lost, closed,
  hist, page, stroke, gizmo, editor, hand, slips

controlVars ==
  <<minted, stage, flight, owner, queue, drawing, batch, open, store, applied,
    highest, receipt, lost, closed>>

historyVars == <<hist, page, stroke, gizmo, editor, hand, slips>>

Sends ==
  [c \in Clients |->
     IF c = Dragger THEN {"begin", "end", "cancel", "set"}
     ELSE {"begin", "set", "mark", "load", "look", "rescan", "seek"}]

Control == INSTANCE ActionQueue

History == INSTANCE ManualHistory

mcvars == <<part, vars, controlVars, historyVars>>

MCInit ==
  /\ part \in {"gate", "control", "history"}
  /\ Init /\ Control!Init /\ History!Init

RunGate ==
  part = "gate" /\ Next /\ UNCHANGED <<part, controlVars, historyVars>>

RunControl ==
  part = "control" /\ Control!Next /\ UNCHANGED <<part, vars, historyVars>>

\* After a slip the history's properties ask nothing more: the part ends.
RunHistory ==
  /\ part = "history" /\ slips = {} /\ History!Next
  /\ UNCHANGED <<part, vars, controlVars>>

MCSpec == MCInit /\ [][RunGate \/ RunControl \/ RunHistory]_mcvars

----------------------------------------------------------------------------
\* Every sequence is in one place (ActionQueue).
OnePlace == Control!OnePlace

\* The server and Main end with the same owner (ActionQueue).
OwnersAgreeUnlessLost == Control!OwnersAgreeUnlessLost

\* Barriers observe the values sent before them (ActionQueue).
BarriersKeepTheirView == Control!BarriersKeepTheirView

\* No gesture stays open without a client that owns it (ActionQueue).
NoOrphanedGesture == Control!NoOrphanedGesture

\* What is changed by hand is undone with its own gesture (ManualHistory).
EditsAreUndoable == History!EditsAreUndoable

\* An open gesture has a controller that will end it (ManualHistory).
OpenIsHeld == History!OpenIsHeld
=============================================================================
