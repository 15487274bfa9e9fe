----------------------------- MODULE MCCapture -----------------------------
(***************************************************************************)
(* The two halves of a live capture: the constant-rate picture sequence    *)
(* (CaptureTimeline) and the pair of files it becomes (CapturePublication, *)
(* which a still image runs through without the first half).  They meet in *)
(* run_recorder_worker; each is checked over every way the other can go    *)
(* that its module allows, so each behaviour runs one of them (part) and   *)
(* leaves the other where it starts.                                       *)
(***************************************************************************)
EXTENDS CaptureTimeline

VARIABLES
  part,
  setup, gate, pairCancel, pairMain, asked, outcome, pairPc, result, terminal,
  event, mediaTemp, reportTemp, media, report, stuck, encoder, stdinClosed,
  completion

pairVars ==
  <<setup, gate, pairCancel, pairMain, asked, outcome, pairPc, result,
    terminal, event, mediaTemp, reportTemp, media, report, stuck, encoder,
    stdinClosed, completion>>

Pair == INSTANCE CapturePublication
          WITH cancel <- pairCancel, main <- pairMain, pc <- pairPc

mcvars == <<part, vars, pairVars>>

\* The timeline is the same under each setup of the pair: one is enough.
MCInit ==
  /\ part \in {"timeline", "pair"} /\ Init /\ Pair!Init
  /\ part = "timeline" =>
       ~setup.still /\ ~setup.atomicMove /\ ~setup.diskFaults

RunTimeline(step) ==
  part = "timeline" /\ step /\ UNCHANGED <<part, pairVars>>

RunPair(step) ==
  part = "pair" /\ step /\ UNCHANGED <<part, vars>>

MCNext == RunTimeline(Next) \/ RunPair(Pair!Next)

\* The fairness of each part's own specification.
MCSpec ==
  /\ MCInit /\ [][MCNext]_mcvars
  /\ WF_mcvars(RunTimeline(HarvestReadback))
  /\ WF_mcvars(RunTimeline(Submit))
  /\ WF_mcvars(RunTimeline(DispatchFinish))
  /\ WF_mcvars(RunTimeline(RaiseFinish))
  /\ WF_mcvars(RunTimeline(MarkFinishing))
  /\ WF_mcvars(RunTimeline(Worker /\ (AtWrite => cancel)))
  /\ WF_mcvars(RunPair(Pair!CancelGate))
  /\ WF_mcvars(RunPair(Pair!CancelFlag))
  /\ WF_mcvars(RunPair(Pair!PollTerminal))
  /\ WF_mcvars(RunPair(Pair!Supervise))
  /\ WF_mcvars(RunPair(Pair!Worker))

----------------------------------------------------------------------------
\* A cancellation that won the gate is final (CapturePublication).
CancelWins == Pair!CancelWins

\* The media never appears without its report (CapturePublication).
ReportPublishedFirst == Pair!ReportPublishedFirst

\* The terminal event tells what is on the disk (CapturePublication).
OutcomeIsTrue == Pair!OutcomeIsTrue

\* No file of another program is replaced or removed (CapturePublication).
ForeignKept == Pair!ForeignKept

\* A cancelled capture reaches its terminal event (CapturePublication).
CancelSettles == Pair!CancelSettles
=============================================================================
