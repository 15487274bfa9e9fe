------------------------ MODULE CapturePublication ------------------------
(***************************************************************************)
(* How one live capture becomes a pair of files, a media file and its      *)
(* report (src/src/program_recorder.rs).  Three threads share an atomic    *)
(* gate and a cancel flag: Main, which cancels, polls and drops; the       *)
(* recorder worker, which owns the temporaries and commits the pair; and   *)
(* the supervisor of the encoder process.  A still image (Still) has the   *)
(* same worker tail and no encoder.  What the worker encodes is in         *)
(* CaptureTimeline; here it captures until it is finished, fails or sees   *)
(* the cancel flag.                                                        *)
(*                                                                         *)
(* Another program may create either final name at any time.  The encoder  *)
(* is external: it opens its output, creating it if need be, some time     *)
(* after it is spawned.  The audio track adds two temporaries and a second *)
(* helper to the points of failure that are here already.                  *)
(***************************************************************************)
EXTENDS Naturals

VARIABLES
  setup,          \* what the capture runs on, see Setups; never changes
  gate,           \* PublicationGate::state
  cancel,         \* the cancel flag the threads poll
  main,           \* where Main is in ProgramRecorder::cancel
  asked,          \* LiveCaptureSession::cancel_requested
  outcome,        \* the terminal event Main took, or "dropped"
  pc,             \* where the worker is
  result,         \* what run_recorder_worker returns
  terminal,       \* the event the worker decided on
  event,          \* the event is in its channel
  mediaTemp, reportTemp,   \* the temporaries exist
  media, report,  \* the final names: absent, ours, or another program's
  stuck,          \* history: what the commit could not unlink
  encoder,        \* the child process
  stdinClosed,    \* the sink is finished or dropped
  completion      \* the supervisor's verdict on the child

\* The three switches the code has: a StillSnapshotJob rather than a
\* ProgramRecorder; MoveFileExW rather than hard_link and then remove_file; and
\* sync and unlink calls that may fail after a create or a link.
Setups == [still: BOOLEAN, atomicMove: BOOLEAN, diskFaults: BOOLEAN]

Still == setup.still
AtomicMove == setup.atomicMove
DiskFaults == setup.diskFaults

worker == <<pc, result, terminal, event>>
disk == <<mediaTemp, reportTemp, media, report, stuck>>
child == <<encoder, stdinClosed, completion>>
mains == <<main, asked, outcome>>
vars == <<setup, gate, cancel, mains, worker, disk, child>>

Names == {"absent", "ours", "foreign"}
Terminals == {"succeeded", "failed", "cancelled"}
Commits == {"linkReport", "unlinkReport", "linkMedia", "unlinkMedia",
            "unlinkRolledReport", "unlinkRolledMedia", "publish"}
Locations == {"reserveMedia", "reserveReport", "open", "capture", "await",
              "write", "claim", "clean", "judge", "send", "ended"} \cup Commits

Init ==
  /\ setup \in Setups
  /\ gate = "open" /\ cancel = FALSE
  /\ main = "idle" /\ asked = FALSE /\ outcome = "none"
  /\ pc = "reserveMedia" /\ result = "none" /\ terminal = "none"
  /\ event = FALSE
  /\ mediaTemp = FALSE /\ reportTemp = FALSE
  /\ media = "absent" /\ report = "absent" /\ stuck = {}
  /\ encoder = "none" /\ stdinClosed = FALSE /\ completion = "none"

-----------------------------------------------------------------------------
(* Main *)

\* cancel_live_capture: the gate first, then the flag if the gate was won.
RequestCancel ==
  /\ outcome = "none" /\ main = "idle" /\ ~asked
  /\ asked' = TRUE /\ main' = "cancelling"
  /\ UNCHANGED <<setup, gate, cancel, outcome, worker, disk, child>>

\* Mutant: Cancel also revokes a commit the worker has claimed.
CancelGateAlways ==
  /\ main = "cancelling"
  /\ gate' = "cancelled" /\ main' = "flagging"
  /\ UNCHANGED <<setup, cancel, asked, outcome, worker, disk, child>>

\* PublicationGate::request_cancel
CancelGate ==
  /\ main = "cancelling"
  /\ gate' = IF gate = "open" THEN "cancelled" ELSE gate
  /\ main' = IF gate' = "cancelled" THEN "flagging" ELSE "idle"
  /\ UNCHANGED <<setup, cancel, asked, outcome, worker, disk, child>>

CancelFlag ==
  /\ main = "flagging"
  /\ cancel' = TRUE /\ main' = "idle"
  /\ UNCHANGED <<setup, gate, asked, outcome, worker, disk, child>>

\* Mutant: a cancelled session is no longer polled.
PollUnlessCancelling ==
  /\ outcome = "none" /\ main = "idle" /\ event /\ ~asked
  /\ outcome' = terminal /\ event' = FALSE /\ main' = "cancelling"
  /\ UNCHANGED <<setup, gate, cancel, asked, pc, result, terminal, disk,
                 child>>

\* poll_terminal takes the event; dropping the recorder then cancels it.
PollTerminal ==
  /\ outcome = "none" /\ main = "idle" /\ event
  /\ outcome' = terminal /\ event' = FALSE /\ main' = "cancelling"
  /\ UNCHANGED <<setup, gate, cancel, asked, pc, result, terminal, disk,
                 child>>

\* The recorder is dropped while its worker runs.
DropCapture ==
  /\ outcome = "none" /\ main = "idle"
  /\ outcome' = "dropped" /\ event' = FALSE /\ main' = "cancelling"
  /\ UNCHANGED <<setup, gate, cancel, asked, pc, result, terminal, disk,
                 child>>

Main == RequestCancel \/ CancelGate \/ CancelFlag \/ PollTerminal \/ DropCapture

-----------------------------------------------------------------------------
(* The encoder process and its supervisor *)

EncoderOpens ==
  /\ encoder = "spawned"
  /\ encoder' = "writing" /\ mediaTemp' = TRUE
  /\ UNCHANGED <<setup, gate, cancel, mains, worker, reportTemp, media, report,
                 stuck, stdinClosed, completion>>

\* It succeeds only on a closed input; it may fail at any time.
EncoderExits ==
  /\ encoder \in {"spawned", "writing"}
  /\ \/ encoder = "writing" /\ stdinClosed /\ encoder' = "exitedWell"
     \/ encoder' = "exitedBadly"
  /\ UNCHANGED <<setup, gate, cancel, mains, worker, disk, stdinClosed,
                 completion>>

\* One poll of the supervisor thread: the flag, then the child, then its
\* deadline, which starts when the sink closes.
Supervise ==
  /\ encoder # "none" /\ completion = "none"
  /\ \/ /\ cancel
        /\ completion' = "err" /\ encoder' = "gone"
     \/ /\ ~cancel /\ encoder \in {"exitedWell", "exitedBadly"}
        /\ completion' = IF encoder = "exitedWell" THEN "ok" ELSE "err"
        /\ encoder' = "gone"
     \/ /\ ~cancel /\ encoder \in {"spawned", "writing"} /\ stdinClosed
        /\ completion' = "err" /\ encoder' = "gone"
  /\ UNCHANGED <<setup, gate, cancel, mains, worker, disk, stdinClosed>>

-----------------------------------------------------------------------------
(* The worker *)

\* An early return: the sink is dropped, which closes its input, and then the
\* guard removes the temporaries it tracks.
Fails(where) ==
  /\ pc = where
  /\ pc' = "clean" /\ result' = "err"
  /\ stdinClosed' = TRUE
  /\ UNCHANGED <<setup, gate, cancel, mains, terminal, event, disk, encoder,
                 completion>>

Goes(from, to) ==
  /\ pc = from
  /\ pc' = to
  /\ UNCHANGED <<result, terminal, event>>

\* reserve_temp creates and syncs; the guard tracks the name afterwards.
ReserveMedia ==
  \/ /\ Goes("reserveMedia", "reserveReport")
     /\ mediaTemp' = TRUE
     /\ UNCHANGED <<setup, gate, cancel, mains, child, reportTemp, media,
                    report, stuck>>
  \/ /\ pc = "reserveMedia"
     /\ pc' = "judge" /\ result' = "err"
     /\ mediaTemp' \in {FALSE, DiskFaults}
     /\ UNCHANGED <<setup, gate, cancel, mains, terminal, event, child,
                    reportTemp, media, report, stuck>>

ReserveReport ==
  \/ /\ Goes("reserveReport", "open")
     /\ reportTemp' = TRUE
     /\ UNCHANGED <<setup, gate, cancel, mains, child, mediaTemp, media,
                    report, stuck>>
  \/ Fails("reserveReport")
  \/ /\ DiskFaults
     /\ pc = "reserveReport"
     /\ pc' = "judge" /\ result' = "err"
     /\ mediaTemp' = FALSE /\ reportTemp' = TRUE
     /\ UNCHANGED <<setup, gate, cancel, mains, terminal, event, child, media,
                    report, stuck>>

\* The video worker spawns the encoder; the still worker looks at both flags
\* once and writes its image.
OpenSink ==
  \/ /\ ~Still
     /\ Goes("open", "capture")
     /\ encoder' = "spawned"
     /\ UNCHANGED <<setup, gate, cancel, mains, disk, stdinClosed, completion>>
  \/ /\ Still /\ ~cancel /\ gate # "cancelled"
     /\ Goes("open", "write")
     /\ UNCHANGED <<setup, gate, cancel, mains, disk, child>>
  \/ Fails("open")

\* The loop ends on a finish request; a failed write or an impossible finish
\* index ends it with an error.
CaptureEnds ==
  \/ /\ Goes("capture", "await")
     /\ stdinClosed' = TRUE
     /\ UNCHANGED <<setup, gate, cancel, mains, disk, encoder, completion>>
  \/ Fails("capture")

CaptureSeesCancel == cancel /\ Fails("capture")

\* FfmpegVideoSink::finish.  A supervisor that does not answer in time sets
\* the shared cancel flag, as a cancellation does.
AwaitEncoder ==
  \/ /\ completion = "ok"
     /\ Goes("await", "write")
     /\ UNCHANGED <<setup, gate, cancel, mains, disk, child>>
  \/ completion = "err" /\ Fails("await")
  \/ /\ pc = "await" /\ completion = "none"
     /\ pc' = "clean" /\ result' = "err" /\ cancel' = TRUE
     /\ UNCHANGED <<setup, gate, mains, terminal, event, disk, child>>

\* Sync the media temporary, write and sync the report temporary.
WriteReport ==
  \/ /\ Goes("write", "claim")
     /\ UNCHANGED <<setup, gate, cancel, mains, disk, child>>
  \/ Fails("write")

\* PublicationGate::claim
Claim ==
  \/ /\ gate = "open"
     /\ gate' = "committing"
     /\ Goes("claim", "linkReport")
     /\ UNCHANGED <<setup, cancel, mains, disk, child>>
  \/ gate # "open" /\ Fails("claim")

-----------------------------------------------------------------------------
(* commit_artifact_pair_no_replace *)

\* Mutant: the media is committed although the report could not be.
LinkReportOptional ==
  \/ /\ report = "absent" /\ report' = "ours"
     /\ reportTemp' = ~AtomicMove
     /\ Goes("linkReport", IF AtomicMove THEN "linkMedia" ELSE "unlinkReport")
     /\ UNCHANGED <<setup, gate, cancel, mains, child, mediaTemp, media, stuck>>
  \/ /\ Goes("linkReport", "linkMedia")
     /\ UNCHANGED <<setup, gate, cancel, mains, child, disk>>

LinkReport ==
  \/ /\ report = "absent" /\ report' = "ours"
     /\ reportTemp' = ~AtomicMove
     /\ Goes("linkReport", IF AtomicMove THEN "linkMedia" ELSE "unlinkReport")
     /\ UNCHANGED <<setup, gate, cancel, mains, child, mediaTemp, media, stuck>>
  \/ Fails("linkReport")

\* Its error returns at once: the report keeps its final name.
UnlinkReportTemp ==
  \/ /\ Goes("unlinkReport", "linkMedia")
     /\ reportTemp' = FALSE
     /\ UNCHANGED <<setup, gate, cancel, mains, child, mediaTemp, media,
                    report, stuck>>
  \/ /\ DiskFaults /\ pc = "unlinkReport"
     /\ pc' = "clean" /\ result' = "err" /\ stdinClosed' = TRUE
     /\ stuck' = stuck \cup {"reportTemp"}
     /\ UNCHANGED <<setup, gate, cancel, mains, terminal, event, mediaTemp,
                    reportTemp, media, report, encoder, completion>>

\* Mutant: the media name may replace a file that is already there.
LinkMediaReplacing ==
  /\ media' = "ours" /\ mediaTemp' = ~AtomicMove
  /\ Goes("linkMedia", IF AtomicMove THEN "publish" ELSE "unlinkMedia")
  /\ UNCHANGED <<setup, gate, cancel, mains, child, reportTemp, report, stuck>>

LinkMedia ==
  \/ /\ media = "absent" /\ media' = "ours"
     /\ mediaTemp' = ~AtomicMove
     /\ Goes("linkMedia", IF AtomicMove THEN "publish" ELSE "unlinkMedia")
     /\ UNCHANGED <<setup, gate, cancel, mains, child, reportTemp, report,
                    stuck>>
  \/ /\ Goes("linkMedia", "unlinkRolledReport")
     /\ UNCHANGED <<setup, gate, cancel, mains, disk, child>>

\* Its error rolls back the report alone: the media keeps its final name.
UnlinkMediaTemp ==
  \/ /\ Goes("unlinkMedia", "publish")
     /\ mediaTemp' = FALSE
     /\ UNCHANGED <<setup, gate, cancel, mains, child, reportTemp, media,
                    report, stuck>>
  \/ /\ DiskFaults
     /\ Goes("unlinkMedia", "unlinkRolledReport")
     /\ stuck' = stuck \cup {"mediaTemp"}
     /\ UNCHANGED <<setup, gate, cancel, mains, child, mediaTemp, reportTemp,
                    media, report>>

\* Mutant: a lost race for the media name leaves the report behind.
KeepReport ==
  /\ Goes("unlinkRolledReport", "unlinkRolledMedia")
  /\ UNCHANGED <<setup, gate, cancel, mains, child, disk>>

\* The media name could not be taken: take back the report, then the media
\* temporary.  The results of both calls are ignored.
RollBackReport ==
  /\ Goes("unlinkRolledReport", "unlinkRolledMedia")
  /\ \/ report' = "absent" /\ UNCHANGED stuck
     \/ DiskFaults /\ stuck' = stuck \cup {"report"} /\ UNCHANGED report
  /\ UNCHANGED <<setup, gate, cancel, mains, child, mediaTemp, reportTemp,
                 media>>

RollBackMedia ==
  /\ pc = "unlinkRolledMedia"
  /\ pc' = "clean" /\ result' = "err"
  /\ mediaTemp' \in {FALSE, DiskFaults}
  /\ UNCHANGED <<setup, gate, cancel, mains, terminal, event, child,
                 reportTemp, media, report, stuck>>

\* mark_published; the guard is disarmed.
Publish ==
  /\ pc = "publish"
  /\ pc' = "judge" /\ result' = "ok" /\ gate' = "published"
  /\ UNCHANGED <<setup, cancel, mains, terminal, event, disk, child>>

\* TempArtifactGuard::drop
Clean ==
  /\ Goes("clean", "judge")
  /\ mediaTemp' \in {FALSE, mediaTemp /\ DiskFaults}
  /\ reportTemp' \in {FALSE, reportTemp /\ DiskFaults}
  /\ UNCHANGED <<setup, gate, cancel, mains, child, media, report, stuck>>

\* The worker names its terminal state.
Judge ==
  /\ pc = "judge" /\ pc' = "send"
  /\ terminal' = IF result = "ok" THEN "succeeded"
                 ELSE IF cancel \/ gate = "cancelled" THEN "cancelled"
                 ELSE "failed"
  /\ UNCHANGED <<setup, gate, cancel, mains, result, event, disk, child>>

SendTerminal ==
  /\ pc = "send" /\ pc' = "ended"
  /\ event' = (outcome = "none")
  /\ UNCHANGED <<setup, gate, cancel, mains, result, terminal, disk, child>>

Worker ==
  \/ ReserveMedia \/ ReserveReport \/ OpenSink
  \/ CaptureSeesCancel \/ AwaitEncoder \/ WriteReport \/ Claim
  \/ LinkReport \/ UnlinkReportTemp \/ LinkMedia \/ UnlinkMediaTemp
  \/ RollBackReport \/ RollBackMedia \/ Publish
  \/ Clean \/ Judge \/ SendTerminal

-----------------------------------------------------------------------------

\* External: another program creates one of the final names.
ForeignFile ==
  \/ /\ media = "absent" /\ media' = "foreign"
     /\ UNCHANGED <<setup, gate, cancel, mains, worker, child, mediaTemp,
                    reportTemp, report, stuck>>
  \/ /\ report = "absent" /\ report' = "foreign"
     /\ UNCHANGED <<setup, gate, cancel, mains, worker, child, mediaTemp,
                    reportTemp, media, stuck>>

Next == Main \/ EncoderOpens \/ EncoderExits \/ Supervise
        \/ Worker \/ CaptureEnds \/ ForeignFile

Spec == Init /\ [][Next]_vars

\* Main runs every frame; the worker and the supervisor are threads whose
\* waits are bounded.  Nothing makes a capture end by itself.
FairSpec ==
  /\ Spec
  /\ WF_vars(CancelGate) /\ WF_vars(CancelFlag) /\ WF_vars(PollTerminal)
  /\ WF_vars(Supervise) /\ WF_vars(Worker)

-----------------------------------------------------------------------------
(* Properties *)

\* Every variable stays in its type.
TypeOK ==
  /\ setup \in Setups
  /\ gate \in {"open", "cancelled", "committing", "published"}
  /\ cancel \in BOOLEAN
  /\ main \in {"idle", "cancelling", "flagging"} /\ asked \in BOOLEAN
  /\ outcome \in {"none", "dropped"} \cup Terminals
  /\ pc \in Locations /\ result \in {"none", "ok", "err"}
  /\ result # "none" <=> pc \in {"clean", "judge", "send", "ended"}
  /\ terminal \in {"none"} \cup Terminals /\ event \in BOOLEAN
  /\ mediaTemp \in BOOLEAN /\ reportTemp \in BOOLEAN
  /\ media \in Names /\ report \in Names
  /\ stuck \subseteq {"reportTemp", "mediaTemp", "report"}
  /\ encoder \in {"none", "spawned", "writing", "exitedWell", "exitedBadly", "gone"}
  /\ stdinClosed \in BOOLEAN /\ completion \in {"none", "ok", "err"}

\* A cancellation that won the gate is final: no file of this capture ever has
\* its final name and the worker does not report success, wherever it was.
CancelWins ==
  gate = "cancelled" =>
    /\ media # "ours" /\ report # "ours"
    /\ terminal # "succeeded"

\* "Report first: once the media name appears, its durable clock/drop truth
\* already exists" (commit_artifact_pair_no_replace), also while a lost race or
\* an error is rolled back; only a media temporary that cannot be unlinked after
\* its link leaves the media without its report.
ReportPublishedFirst ==
  media = "ours" => report = "ours" \/ "mediaTemp" \in stuck

\* The terminal event tells what is on the disk: success means both names, and
\* any other event neither, except what the commit could not unlink: a
\* temporary after its link, whose name then stays, or the report in the
\* roll-back.
OutcomeIsTrue ==
  terminal # "none" =>
    IF terminal = "succeeded" THEN media = "ours" /\ report = "ours"
    ELSE /\ media = "ours" => "mediaTemp" \in stuck
         /\ report = "ours" => stuck \cap {"reportTemp", "report"} # {}

\* No step overwrites or removes a file another program created.
ForeignKept ==
  [][ /\ media = "foreign" => media' = "foreign"
      /\ report = "foreign" => report' = "foreign" ]_vars

\* A cancelled capture always reaches its terminal event in Main, however the
\* encoder behaves.
CancelSettles == asked ~> outcome # "none"

=============================================================================
