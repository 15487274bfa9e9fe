-------------------------- MODULE CaptureTimeline --------------------------
(***************************************************************************)
(* How accepted frames become the constant-rate picture sequence of a      *)
(* recording.  Main numbers the frames it captures, takes them back from   *)
(* the GPU in order, leases a buffer of a fixed pool and submits it        *)
(* (LiveCaptureSession and poll_live_capture in src/src/main.rs); the      *)
(* worker writes them, repeating the last picture over the numbers that    *)
(* never came (run_recorder_worker in src/src/program_recorder.rs).        *)
(*                                                                         *)
(* A frame is its capture index.  The two threads meet in the pool, the    *)
(* queue, the phase and the finish and cancel words.  What happens to the  *)
(* file after the last picture is in CapturePublication.                   *)
(***************************************************************************)
EXTENDS Integers, Sequences, SequencesExt

CONSTANTS
  Pool,      \* RECORDER_FRAME_POOL_CAPACITY
  Queue,     \* RECORDER_FRAME_QUEUE_CAPACITY
  Slots,     \* RECORDER_GPU_READBACK_SLOTS
  MaxGap,    \* MAX_DUPLICATION_GAP_FRAMES
  MaxIndex   \* bound on the captured frames

ASSUME TimelineAssumption ==
  /\ {Pool, Queue, Slots} \subseteq Nat \ {0}
  /\ MaxGap \in Nat /\ MaxIndex \in Nat

VARIABLES
  next_capture_index, readbacks,   \* numbered; copied to the GPU's slots
  accepting, cancelRequested, finish_dispatched,
  main, lease,        \* where Main is; the frame of its leased buffer
  phase, cancel, finish_requested, finish_capture_index,
  pool, queue,        \* free buffers; submitted frames
  accepted,           \* frames the queue took
  pc, item, idle, last, file,   \* the worker: place, the frame it writes,
                      \* finish_idle_since, the newest written frame, the
                      \* picture at each tick
  rejected,           \* frames the worker refused
  stalled             \* history: the loop ended on its first empty poll

session == <<next_capture_index, readbacks, accepting, cancelRequested,
             finish_dispatched, main, lease>>
shared == <<phase, cancel, finish_requested, finish_capture_index>>
worker == <<pc, item, idle, last, file, rejected, stalled>>
vars == <<session, shared, pool, queue, accepted, worker>>

NoFrame == -1
Frames == 0..MaxIndex

Init ==
  /\ next_capture_index = 0 /\ readbacks = <<>>
  /\ accepting = TRUE /\ cancelRequested = FALSE /\ finish_dispatched = FALSE
  /\ main = "idle" /\ lease = NoFrame
  /\ phase = "starting" /\ cancel = FALSE
  /\ finish_requested = FALSE /\ finish_capture_index = 0
  /\ pool = 0 /\ queue = <<>> /\ accepted = {}
  /\ pc = "starting" /\ item = NoFrame /\ idle = FALSE
  /\ last = NoFrame /\ file = <<>> /\ rejected = {} /\ stalled = FALSE

-----------------------------------------------------------------------------
(* Main *)

\* frame_intent: the number is used up even if no readback can be scheduled.
FrameIntent ==
  /\ main = "idle" /\ accepting /\ ~cancelRequested /\ phase = "recording"
  /\ next_capture_index <= MaxIndex
  /\ next_capture_index' = next_capture_index + 1
  /\ \/ Len(readbacks) < Slots /\ readbacks' = Append(readbacks, next_capture_index)
     \/ UNCHANGED readbacks
  /\ UNCHANGED <<accepting, cancelRequested, finish_dispatched, main, lease,
                 shared, pool, queue, accepted, worker>>

\* harvest_*_capture_readbacks, oldest first: a stale, unmapped or rejected
\* readback is recycled, and so is one for which there is no buffer.
HarvestReadback ==
  /\ main = "idle" /\ readbacks # <<>>
  /\ readbacks' = Tail(readbacks)
  /\ \/ UNCHANGED <<main, lease, pool>>
     \/ /\ ~cancelRequested /\ phase = "recording" /\ pool > 0
        /\ pool' = pool - 1 /\ lease' = Head(readbacks) /\ main' = "leased"
  /\ UNCHANGED <<next_capture_index, accepting, cancelRequested,
                 finish_dispatched, shared, queue, accepted, worker>>

\* The lease is dropped: its buffer returns to the pool.
ReturnLease ==
  /\ main' = "idle" /\ lease' = NoFrame
  /\ pool' = pool + 1
  /\ UNCHANGED <<queue, accepted>>

\* Mutant: a full queue loses the buffer it refused.
SubmitLosesBuffer ==
  /\ main = "leased"
  /\ IF phase # "recording" THEN ReturnLease
     ELSE /\ main' = "idle" /\ lease' = NoFrame /\ UNCHANGED pool
          /\ IF Len(queue) < Queue
             THEN queue' = Append(queue, lease) /\ accepted' = accepted \cup {lease}
             ELSE UNCHANGED <<queue, accepted>>
  /\ UNCHANGED <<next_capture_index, readbacks, accepting, cancelRequested,
                 finish_dispatched, shared, worker>>

\* try_submit: drop the newest when the queue is full or its worker is gone.
Submit ==
  /\ main = "leased"
  /\ IF phase = "recording" /\ Len(queue) < Queue /\ pc # "gone"
     THEN /\ queue' = Append(queue, lease)
          /\ accepted' = accepted \cup {lease}
          /\ main' = "idle" /\ lease' = NoFrame
          /\ UNCHANGED pool
     ELSE ReturnLease
  /\ UNCHANGED <<next_capture_index, readbacks, accepting, cancelRequested,
                 finish_dispatched, shared, worker>>

\* LiveCaptureSession::request_finish
RequestFinish ==
  /\ main = "idle" /\ accepting
  /\ accepting' = FALSE
  /\ UNCHANGED <<next_capture_index, readbacks, cancelRequested, main, lease,
                 finish_dispatched, shared, pool, queue, accepted, worker>>

\* poll_live_capture dispatches the finish when no readback is in flight:
\* ProgramRecorder::request_finish stores the last index, then the flag.
DispatchFinish ==
  /\ main = "idle" /\ ~accepting /\ ~cancelRequested /\ ~finish_dispatched
  /\ readbacks = <<>>
  /\ finish_capture_index' = IF next_capture_index = 0 THEN 0 ELSE next_capture_index - 1
  /\ main' = "finishing"
  /\ UNCHANGED <<next_capture_index, readbacks, accepting, cancelRequested,
                 finish_dispatched, lease, phase, cancel, finish_requested,
                 pool, queue, accepted, worker>>

RaiseFinish ==
  /\ main = "finishing"
  /\ finish_requested' = TRUE /\ main' = "marking"
  /\ UNCHANGED <<next_capture_index, readbacks, accepting, cancelRequested,
                 finish_dispatched, lease, phase, cancel, finish_capture_index,
                 pool, queue, accepted, worker>>

\* The phase moves on only from recording.
MarkFinishing ==
  /\ main = "marking"
  /\ phase' = IF phase = "recording" THEN "finishing" ELSE phase
  /\ finish_dispatched' = TRUE /\ main' = "idle"
  /\ UNCHANGED <<next_capture_index, readbacks, accepting, cancelRequested, lease,
                 cancel, finish_requested, finish_capture_index, pool, queue,
                 accepted, worker>>

\* LiveCaptureSession::request_cancel.  (The gate before the flag is in
\* CapturePublication.)
RequestCancel ==
  /\ main = "idle" /\ ~cancelRequested
  /\ cancelRequested' = TRUE /\ accepting' = FALSE /\ cancel' = TRUE
  /\ UNCHANGED <<next_capture_index, readbacks, finish_dispatched, main, lease,
                 phase, finish_requested, finish_capture_index, pool, queue,
                 accepted, worker>>

\* ProgramRecorder::drop: cancel, and both channels close on Main's side.
DropRecorder ==
  /\ main = "idle"
  /\ main' = "dropped" /\ cancel' = TRUE /\ accepting' = FALSE
  /\ UNCHANGED <<next_capture_index, readbacks, cancelRequested, finish_dispatched,
                 lease, phase, finish_requested, finish_capture_index, pool, queue,
                 accepted, worker>>

Main == FrameIntent \/ HarvestReadback \/ Submit \/ RequestFinish
        \/ DispatchFinish \/ RaiseFinish \/ MarkFinishing \/ RequestCancel
        \/ DropRecorder

-----------------------------------------------------------------------------
(* The worker *)

\* Fill the pool, reserve the temporaries, start the encoder; only then is the
\* recorder ready.
StartWorker ==
  /\ pc = "starting"
  /\ pool' = Pool
  /\ \/ pc' = "checking" /\ phase' = "recording"
     \/ pc' = "failed" /\ UNCHANGED phase
  /\ UNCHANGED <<session, cancel, finish_requested, finish_capture_index, queue,
                 accepted, item, idle, last, file, rejected, stalled>>

CheckCancel ==
  /\ pc = "checking"
  /\ pc' = IF cancel THEN "failed" ELSE "receiving"
  /\ UNCHANGED <<session, shared, pool, queue, accepted, item, idle, last, file,
                 rejected, stalled>>

Repeat(frame, n) == [k \in 1..n |-> frame]

Gap(frame) == IF last = NoFrame THEN 0 ELSE frame - last - 1

\* metadata_follows, and the gap is not absurd.
Follows(frame) == last = NoFrame \/ (frame > last /\ Gap(frame) <= MaxGap)

TakeFrame ==
  /\ pc = "receiving" /\ queue # <<>> /\ Follows(Head(queue))
  /\ queue' = Tail(queue) /\ item' = Head(queue) /\ idle' = FALSE
  /\ pc' = "writing"
  /\ UNCHANGED <<session, shared, pool, accepted, last, file, rejected, stalled>>

\* Mutant: frames that never came leave no trace in the timeline.
WriteWithoutGap ==
  /\ pc = "writing"
  /\ file' = Append(file, item)
  /\ last' = item /\ item' = NoFrame
  /\ pool' = IF last = NoFrame THEN pool ELSE pool + 1
  /\ pc' = "checking"
  /\ UNCHANGED <<session, shared, queue, accepted, idle, rejected, stalled>>

\* The encoder takes the pictures, for as long as it likes: first the ticks
\* the frame is late for.  The buffer of the frame it replaces returns to the
\* pool.
WriteFrame ==
  /\ pc = "writing"
  /\ file' = file \o Repeat(last, Gap(item)) \o <<item>>
  /\ last' = item /\ item' = NoFrame
  /\ pool' = IF last = NoFrame THEN pool ELSE pool + 1
  /\ pc' = "checking"
  /\ UNCHANGED <<session, shared, queue, accepted, idle, rejected, stalled>>

RejectFrame ==
  /\ pc = "receiving" /\ queue # <<>> /\ ~Follows(Head(queue))
  /\ queue' = Tail(queue) /\ idle' = FALSE
  /\ rejected' = rejected \cup {Head(queue)}
  /\ pool' = pool + 1
  /\ pc' = "checking"
  /\ UNCHANGED <<session, shared, accepted, item, last, file, stalled>>

\* The encoder does not take a picture: the frame and its buffer are gone.
WriteFails ==
  /\ pc = "writing"
  /\ item' = NoFrame /\ pc' = "failed"
  /\ UNCHANGED <<session, shared, pool, queue, accepted, idle, last, file,
                 rejected, stalled>>

\* recv_timeout: nothing came in an interval, or nothing can come any more.
ReceiveNothing ==
  /\ pc = "receiving" /\ queue = <<>>
  /\ pc' = IF main = "dropped" THEN "closing" ELSE "timedOut"
  /\ UNCHANGED <<session, shared, pool, queue, accepted, item, idle, last, file,
                 rejected, stalled>>

\* Mutant: one empty poll is enough.
ReadFinishOnce ==
  /\ pc = "timedOut"
  /\ pc' = IF finish_requested THEN "closing" ELSE "checking"
  /\ UNCHANGED <<session, shared, pool, queue, accepted, item, idle, last, file,
                 rejected, stalled>>

\* Mutant: the time of the first empty poll is not kept.
ReadFinishForgetful ==
  /\ pc = "timedOut"
  /\ idle' = FALSE
  /\ pc' = IF finish_requested /\ idle THEN "closing" ELSE "checking"
  /\ UNCHANGED <<session, shared, pool, queue, accepted, item, last, file,
                 rejected, stalled>>

\* The second empty poll under a raised finish flag ends the loop.  The first
\* one does too if a poll interval passes between the two readings of the
\* clock, Instant::now and elapsed: the worker lost the processor there.
ReadFinish ==
  /\ pc = "timedOut"
  /\ idle' = (idle \/ finish_requested)
  /\ \/ finish_requested /\ pc' = "closing" /\ stalled' = ~idle
     \/ ~(finish_requested /\ idle) /\ pc' = "checking" /\ UNCHANGED stalled
  /\ UNCHANGED <<session, shared, pool, queue, accepted, item, last, file,
                 rejected>>

FinalGap == finish_capture_index - last

\* The last picture fills the ticks up to the requested one.
CloseTimeline ==
  /\ pc = "closing"
  /\ \/ /\ last # NoFrame /\ FinalGap \in 0..MaxGap
        /\ file' = file \o Repeat(last, FinalGap)
        /\ pc' = "closed"
     \/ /\ pc' = "failed"  \* no frame, an impossible index, a failed write
        /\ UNCHANGED file
  /\ UNCHANGED <<session, shared, pool, queue, accepted, item, idle, last,
                 rejected, stalled>>

\* The terminal phase is stored and then the worker's receiver is dropped.
Terminate ==
  \/ /\ pc \in {"closed", "failed"} /\ phase # "terminal"
     /\ phase' = "terminal"
     /\ UNCHANGED <<session, cancel, finish_requested, finish_capture_index, pool,
                    queue, accepted, worker>>
  \/ /\ pc = "failed" /\ phase = "terminal"
     /\ pc' = "gone" /\ queue' = <<>>
     /\ UNCHANGED <<session, shared, pool, accepted, item, idle, last, file,
                    rejected, stalled>>

Worker == StartWorker \/ CheckCancel \/ TakeFrame \/ WriteFrame \/ RejectFrame
          \/ WriteFails \/ ReceiveNothing \/ ReadFinish \/ CloseTimeline
          \/ Terminate

Next == Main \/ Worker

Spec == Init /\ [][Next]_vars

\* The worker is in write_all, or about to be: the encoder decides when it
\* returns.
AtWrite ==
  \/ pc = "writing"
  \/ pc = "closing" /\ last # NoFrame /\ FinalGap \in 1..MaxGap

\* poll_live_capture runs in every frame and the GPU answers each readback.
\* The worker's waits are bounded except a write: nothing bounds that until a
\* cancellation, on which the supervisor kills the encoder and its pipe breaks.
FairSpec ==
  /\ Spec
  /\ WF_vars(HarvestReadback) /\ WF_vars(Submit)
  /\ WF_vars(DispatchFinish) /\ WF_vars(RaiseFinish) /\ WF_vars(MarkFinishing)
  /\ WF_vars(Worker /\ (AtWrite => cancel))

-----------------------------------------------------------------------------
(* Properties *)

\* Every variable stays in its type.
TypeOK ==
  /\ next_capture_index \in 0..(MaxIndex + 1)
  /\ readbacks \in Seq(Frames) /\ Len(readbacks) <= Slots
  /\ accepting \in BOOLEAN /\ cancelRequested \in BOOLEAN
  /\ finish_dispatched \in BOOLEAN
  /\ main \in {"idle", "leased", "finishing", "marking", "dropped"}
  /\ lease \in Frames \cup {NoFrame} /\ (lease # NoFrame <=> main = "leased")
  /\ phase \in {"starting", "recording", "finishing", "terminal"}
  /\ cancel \in BOOLEAN /\ finish_requested \in BOOLEAN
  /\ finish_capture_index \in Frames
  /\ pool \in 0..Pool
  /\ queue \in Seq(Frames) /\ Len(queue) <= Queue
  /\ accepted \subseteq Frames /\ rejected \subseteq Frames
  /\ pc \in {"starting", "checking", "receiving", "writing", "timedOut",
             "closing", "closed", "failed", "gone"}
  /\ item \in Frames \cup {NoFrame} /\ (item # NoFrame <=> pc = "writing")
  /\ idle \in BOOLEAN /\ stalled \in BOOLEAN
  /\ last \in Frames \cup {NoFrame} /\ file \in Seq(Frames)

One(b) == IF b THEN 1 ELSE 0

\* No buffer of the fixed pool is lost or made while the worker runs: each is
\* free, leased, queued, being written, or the picture the worker repeats.
BuffersConserved ==
  pc \in {"checking", "receiving", "writing", "timedOut", "closing", "closed"} =>
    pool + One(main = "leased") + Len(queue) + One(item # NoFrame)
      + One(last # NoFrame) = Pool

\* Each tick of the file shows the newest written frame that was captured by
\* then, and ticks start at the first frame: the constant-rate clock holds
\* whatever was dropped in between.
TimelineExact ==
  /\ \A k \in 1..Len(file) :
       LET tick == file[1] + k - 1 IN
       /\ file[k] <= tick
       /\ \A frame \in ToSet(file) : frame <= tick => frame <= file[k]
  /\ pc = "closed" => file # <<>> /\ Len(file) = finish_capture_index - file[1] + 1

\* A recording that ends well, and was not cancelled, shows every frame the
\* queue accepted, except those still in the queue when the worker stalled on
\* its first empty poll: two polls drain it, however Main and the worker are
\* scheduled between them.
AcceptedIsShown ==
  pc = "closed" /\ ~cancel =>
    /\ accepted = ToSet(file) \cup ToSet(queue)
    /\ ~stalled => queue = <<>>

\* "One empty poll after the finish flag proves the bounded queue is drained"
\* (run_recorder_worker); "Finish drains admitted work" (docs/remote-control.md).
AdmittedWorkDrained == pc = "closed" /\ ~cancel => ToSet(file) = accepted

\* After a finish, a cancellation or a drop the worker always ends, unless the
\* encoder stops reading in a recording that nobody cancels: the supervisor's
\* deadline starts only when the sink closes.
RecordingEnds ==
  \/ <>[](AtWrite /\ ~cancel)
  \/ ~accepting ~> pc \in {"closed", "gone"}
=============================================================================
