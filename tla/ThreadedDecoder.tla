-------------------------- MODULE ThreadedDecoder --------------------------
(***************************************************************************)
(* One video decoder: the render thread that selects source times and      *)
(* harvests frames, the decode worker, the one-slot command mailbox that   *)
(* carries desires down and the one-slot shared state that carries frames  *)
(* and errors up (src/src/video/threaded.rs).                              *)
(*                                                                         *)
(* The mailbox lock makes each selection one step.  Its two atomics are    *)
(* stored one after the other before the lock is released, but the worker  *)
(* cannot tell that from one store: it compares each of them on its own,   *)
(* and recv needs the lock.  What is NOT one step is the worker's end of   *)
(* an attempt: it reads both currency flags, and only then takes the lock  *)
(* of the shared state and acts on them (ReadCurrency, then the Publish,   *)
(* Fail and Drop actions).                                                 *)
(*                                                                         *)
(* Source seconds are whole frame periods, so that "within half a frame    *)
(* period" is equality.  Pixels, codec motion and durations are left out.  *)
(***************************************************************************)
EXTENDS Integers

CONSTANTS
  LastSecond,     \* the source positions are 0..LastSecond
  MaxGeneration,  \* bound on the source generations the host requests
  MaxEpoch,       \* bound on the number of accepted commands
  None,           \* an empty slot
  Stop            \* the DecodeCommand that ends the worker

Seconds     == 0..LastSecond
Generations == Nat
Epochs      == Nat

\* QueuedCommand: a Select with the epoch it was accepted under, the accepted
\* position it continues from, and whether it kept the generation.
Commands == [generation: Generations, epoch: Epochs, target: Seconds,
             prior: Seconds \cup {-1}, continuous: BOOLEAN]

\* DecodedFrame: source_generation, command_epoch, source_seconds.
Frames == [generation: Generations, epoch: Epochs, at: Seconds]

\* command_error: (generation, epoch, message).
Failures == [generation: Generations, epoch: Epochs]

\* The outcome of a decode and the position it landed on.
Results == [outcome: {"frame", "failed", "superseded"}, at: Seconds]

\* The accepted source generation and source seconds.
Uploads == [generation: Generations, at: Seconds]

ASSUME DecoderAssumption ==
  /\ LastSecond \in Nat
  /\ MaxGeneration \in Nat
  /\ MaxEpoch \in Nat
  /\ None \notin Commands \cup Frames \cup Failures \cup Results \cup Uploads
  /\ Stop \notin Commands \cup Frames \cup {None}

VARIABLES
  pending, epoch, generation, stopped,     \* CommandMailboxState
  wpc, job, result, currency,              \* the decode worker
  latest, commandError, failed,            \* SharedState
  hpc, meta, held, accepted, reported,     \* ThreadedDecoder, the host's half
  shown, answered                          \* history: what the host was given

mailbox == <<pending, epoch, generation, stopped>>
worker  == <<wpc, job, result, currency>>
shared  == <<latest, commandError, failed>>
host    == <<hpc, meta, held, accepted, reported>>
history == <<shown, answered>>
vars    == <<mailbox, worker, shared, host, history>>

Init ==
  /\ pending = None /\ epoch = 1 /\ generation = 0 /\ stopped = FALSE
  /\ wpc = "opening" /\ job = None /\ result = None
  /\ currency = [generation |-> FALSE, epoch |-> FALSE]
  /\ latest = None /\ commandError = None /\ failed = FALSE
  /\ hpc = "opening" /\ meta = "none" /\ held = None /\ accepted = None
  /\ reported = FALSE
  /\ shown = [generation |-> 0, epoch |-> 0] /\ answered = 0

----------------------------------------------------------------------------
\* The mailbox.

\* Mutant: a queued selection is not displaced by the stop.
StopBehindQueued ==
  IF stopped
  THEN UNCHANGED mailbox
  ELSE /\ stopped' = TRUE
       /\ epoch' = epoch + 1
       /\ pending' = IF pending = None THEN Stop ELSE pending
       /\ UNCHANGED generation

\* DecodeCommandMailbox::stop: idempotent, replaces whatever is queued.
StopMailbox ==
  IF stopped
  THEN UNCHANGED mailbox
  ELSE /\ stopped' = TRUE
       /\ epoch' = epoch + 1
       /\ pending' = Stop
       /\ UNCHANGED generation

IsCurrent(e)           == ~stopped /\ epoch = e
IsGenerationCurrent(g) == ~stopped /\ generation = g

QueuedSelect(g, t, prior) ==
  [generation |-> g, epoch |-> epoch + 1, target |-> t, prior |-> prior,
   continuous |-> g = generation]

\* Mutant: an occupied mailbox keeps the command it holds.
SelectKeepsQueued(g, t, prior) ==
  /\ ~stopped /\ g >= generation /\ epoch < MaxEpoch
  /\ epoch' = epoch + 1
  /\ generation' = g
  /\ pending' = IF pending = None THEN QueuedSelect(g, t, prior) ELSE pending
  /\ UNCHANGED stopped

\* DecodeCommandMailbox::select_after_with_kind, past its refusals (stopped,
\* or a generation older than the newest one), which change nothing.
Select(g, t, prior) ==
  /\ ~stopped /\ g >= generation /\ epoch < MaxEpoch
  /\ epoch' = epoch + 1
  /\ generation' = g
  /\ pending' = QueuedSelect(g, t, prior)
  /\ UNCHANGED stopped

----------------------------------------------------------------------------
\* The worker: opening, then run_decode_commands.

\* The seed frame is stored before the metadata is sent; a host that has gone
\* away makes the send fail and the worker return.
OpenSeed ==
  /\ wpc = "opening"
  /\ latest' = [generation |-> 0, epoch |-> epoch, at |-> 0]
  /\ IF hpc = "opening"
     THEN wpc' = "recv" /\ meta' = "ok"
     ELSE wpc' = "done" /\ UNCHANGED meta
  /\ UNCHANGED <<mailbox, job, result, currency, commandError, failed,
                 hpc, held, accepted, reported, history>>

\* The file cannot be opened, its first frame cannot be decoded, or either
\* panics: the host reads an error or a closed channel.
OpenRefused ==
  /\ wpc = "opening"
  /\ wpc' = "done"
  /\ meta' = "error"
  /\ UNCHANGED <<mailbox, job, result, currency, shared,
                 hpc, held, accepted, reported, history>>

\* Mutant: the slot is read but not emptied.
RecvWithoutTaking ==
  /\ wpc = "recv" /\ pending # None
  /\ IF pending = Stop
     THEN wpc' = "done" /\ UNCHANGED job
     ELSE wpc' = "taken" /\ job' = pending
  /\ UNCHANGED <<mailbox, result, currency, shared, host, history>>

Recv ==
  /\ wpc = "recv" /\ pending # None
  /\ pending' = None
  /\ IF pending = Stop
     THEN wpc' = "done" /\ UNCHANGED job
     ELSE wpc' = "taken" /\ job' = pending
  /\ UNCHANGED <<epoch, generation, stopped, result, currency, shared, host,
                 history>>

\* A command whose generation was superseded while it was queued or taken is
\* never decoded.
DropStaleCommand ==
  /\ wpc = "taken" /\ ~IsGenerationCurrent(job.generation)
  /\ wpc' = "recv" /\ job' = None
  /\ UNCHANGED <<mailbox, result, currency, shared, host, history>>

BeginDecode ==
  /\ wpc = "taken" /\ IsGenerationCurrent(job.generation)
  /\ wpc' = "decoding"
  /\ UNCHANGED <<mailbox, job, result, currency, shared, host, history>>

\* Where a decode may land (video/decoder.rs): a continuous selection may yield
\* after bounded forward progress, and a reverse one may use a cached picture
\* one period early; any other selection lands on its target.
Reachable(c) ==
  IF c.continuous THEN 0..c.target ELSE {c.target}

Decoded(outcome, s) ==
  /\ wpc' = "decoded"
  /\ result' = [outcome |-> outcome, at |-> s]
  /\ UNCHANGED <<mailbox, job, currency, shared, host, history>>

DecodeFrame ==
  /\ wpc = "decoding"
  /\ \E s \in Reachable(job): Decoded("frame", s)

DecodeFailed ==
  /\ wpc = "decoding"
  /\ Decoded("failed", 0)

\* The decoder polls the mailbox between pictures and gives up only for a
\* newer generation or a stop.
DecodeSuperseded ==
  /\ wpc = "decoding" /\ ~IsGenerationCurrent(job.generation)
  /\ Decoded("superseded", 0)

\* catch_unwind turns a panic into a terminal failure and ends the thread.
DecodePanics ==
  /\ wpc = "decoding"
  /\ wpc' = "done"
  /\ failed' = TRUE
  /\ UNCHANGED <<mailbox, job, result, currency, latest, commandError, host,
                 history>>

\* generation_is_current and epoch_is_latest, read before the shared lock.
ReadCurrency ==
  /\ wpc = "decoded"
  /\ wpc' = "commit"
  /\ currency' = [generation |-> IsGenerationCurrent(job.generation),
                  epoch |-> IsCurrent(job.epoch)]
  /\ UNCHANGED <<mailbox, job, result, shared, host, history>>

\* The end of an attempt, under the lock of the shared state.
EndAttempt ==
  /\ wpc = "commit"
  /\ wpc' = "recv" /\ job' = None /\ result' = None
  /\ UNCHANGED <<mailbox, currency, failed, host, history>>

DropSuperseded ==
  /\ EndAttempt
  /\ ~currency.generation \/ result.outcome = "superseded"
  /\ UNCHANGED <<latest, commandError>>

Publish ==
  /\ EndAttempt
  /\ currency.generation /\ result.outcome = "frame"
  /\ latest' = [generation |-> job.generation, epoch |-> job.epoch,
                at |-> result.at]
  /\ commandError' = None

Fail ==
  /\ EndAttempt
  /\ currency.generation /\ result.outcome = "failed"
  /\ commandError' = IF currency.epoch
                     THEN [generation |-> job.generation, epoch |-> job.epoch]
                     ELSE commandError
  /\ UNCHANGED latest

----------------------------------------------------------------------------
\* The host.

OpenSucceeds ==
  /\ hpc = "opening" /\ meta = "ok"
  /\ hpc' = "idle"
  /\ UNCHANGED <<mailbox, worker, shared, meta, held, accepted, reported,
                 history>>

\* The open failed, or took longer than DECODER_OPEN_TIMEOUT: the worker token
\* is dropped and the mailbox stopped.
OpenFails ==
  /\ hpc = "opening" /\ meta \in {"none", "error"}
  /\ hpc' = "dropped"
  /\ StopMailbox
  /\ UNCHANGED <<worker, shared, meta, held, accepted, reported, history>>

\* The host is one thread: a harvested frame is uploaded, or fails to upload,
\* before the next request or harvest.
Ready == hpc = "idle" /\ held = None

\* accepted_frame_remains_selected: the picture already uploaded is the one
\* this request asks for, so the request queues nothing.
RemainsSelected(g, t) ==
  accepted # None /\ accepted.generation = g /\ accepted.at = t

\* previous_accepted_codec_identity: the accepted picture, when this request
\* moves forward from it inside one generation; -1 for none.
Predecessor(g, t) ==
  IF accepted # None /\ accepted.generation = g /\ t > accepted.at
  THEN accepted.at ELSE -1

UnreportedFailure == failed /\ ~reported

RequestSourceTime(g, t) ==
  /\ Ready /\ ~UnreportedFailure
  /\ ~RemainsSelected(g, t)
  /\ Select(g, t, Predecessor(g, t))
  /\ UNCHANGED <<worker, shared, host, history>>

\* terminal_error_once, from a request or from a harvest that found nothing.
ReportFailure ==
  /\ Ready /\ UnreportedFailure
  /\ reported' = TRUE
  /\ UNCHANGED <<mailbox, worker, shared, hpc, meta, held, accepted, history>>

\* try_next_ready_frame_result: completions and errors of another generation
\* are discarded first, then the frame, then the error is taken.
\* Mutant: the worker's own check before publishing is trusted.
OfAnyGeneration(slot) == slot # None

OfCurrentGeneration(slot) == slot # None /\ slot.generation = generation

HarvestFrame ==
  /\ Ready /\ OfCurrentGeneration(latest)
  /\ held' = latest
  /\ latest' = None
  /\ commandError' = IF OfCurrentGeneration(commandError)
                     THEN commandError ELSE None
  /\ shown' = [generation |-> latest.generation, epoch |-> latest.epoch]
  /\ answered' = latest.epoch
  /\ UNCHANGED <<mailbox, worker, failed, hpc, meta, accepted, reported>>

HarvestError ==
  /\ Ready /\ ~OfCurrentGeneration(latest) /\ OfCurrentGeneration(commandError)
  /\ latest' = None
  /\ commandError' = None
  /\ answered' = commandError.epoch
  /\ UNCHANGED <<mailbox, worker, failed, host, shown>>

HarvestNothing ==
  /\ Ready
  /\ ~OfCurrentGeneration(latest) /\ ~OfCurrentGeneration(commandError)
  /\ latest # None \/ commandError # None
  /\ latest' = None
  /\ commandError' = None
  /\ UNCHANGED <<mailbox, worker, failed, host, history>>

\* record_accepted_upload runs only for a frame the GPU queue took.
UploadAccepted ==
  /\ hpc = "idle" /\ held # None
  /\ accepted' = [generation |-> held.generation, at |-> held.at]
  /\ held' = None
  /\ UNCHANGED <<mailbox, worker, shared, hpc, meta, reported, history>>

UploadFailed ==
  /\ hpc = "idle" /\ held # None
  /\ held' = None
  /\ UNCHANGED <<mailbox, worker, shared, hpc, meta, accepted, reported,
                 history>>

DropDecoder ==
  /\ Ready
  /\ hpc' = "dropped"
  /\ StopMailbox
  /\ UNCHANGED <<worker, shared, meta, held, accepted, reported, history>>

\* The retirement supervisor's shutdown drain stops a mailbox whose decoder is
\* still owned (video/retirement.rs).
SupervisorStops ==
  /\ ~stopped
  /\ StopMailbox
  /\ UNCHANGED <<worker, shared, host, history>>

----------------------------------------------------------------------------
DecodeEnds == DecodeFrame \/ DecodeFailed \/ DecodeSuperseded \/ DecodePanics

CommitEnds == DropSuperseded \/ Publish \/ Fail

WorkerStep ==
  \/ OpenSeed \/ OpenRefused
  \/ Recv \/ DropStaleCommand \/ BeginDecode
  \/ DecodeEnds \/ ReadCurrency \/ CommitEnds

Harvest == HarvestFrame \/ HarvestError \/ HarvestNothing \/ ReportFailure

Upload == UploadAccepted \/ UploadFailed

HostStep ==
  \/ OpenSucceeds \/ OpenFails
  \/ \E g \in 0..MaxGeneration, t \in Seconds: RequestSourceTime(g, t)
  \/ Harvest \/ Upload \/ DropDecoder

Next == WorkerStep \/ HostStep \/ SupervisorStops

Spec == Init /\ [][Next]_vars

\* The worker thread keeps running and a decode attempt is bounded
\* (MAX_SEEK_DECODE_FRAMES, the index wait's deadline); the render loop
\* harvests every frame, finishes an upload it began and waits for an open no
\* longer than its timeout.  Nothing obliges it to request or to drop.
Fairness ==
  /\ WF_vars(WorkerStep)
  /\ WF_vars(Harvest)
  /\ WF_vars(Upload)
  /\ WF_vars(OpenSucceeds \/ OpenFails)

FairSpec == Spec /\ Fairness

----------------------------------------------------------------------------

\* Every variable stays in its type.
TypeOK ==
  /\ pending \in Commands \cup {None, Stop}
  /\ epoch \in Epochs /\ generation \in Generations /\ stopped \in BOOLEAN
  /\ wpc \in {"opening", "recv", "taken", "decoding", "decoded", "commit",
              "done"}
  /\ job \in Commands \cup {None}
  /\ result \in Results \cup {None}
  /\ currency \in [generation: BOOLEAN, epoch: BOOLEAN]
  /\ latest \in Frames \cup {None}
  /\ commandError \in Failures \cup {None}
  /\ failed \in BOOLEAN
  /\ hpc \in {"opening", "idle", "dropped"}
  /\ meta \in {"none", "ok", "error"}
  /\ held \in Frames \cup {None}
  /\ accepted \in Uploads \cup {None}
  /\ reported \in BOOLEAN
  /\ shown \in Failures /\ answered \in Epochs

\* The two one-slot mailboxes and the worker between them form one pipeline,
\* and commands never pass each other in it: what the host has been shown is
\* older than the completed frame waiting for it, which is older than the
\* command being decoded, which is older than the one queued; generations
\* follow the same order.
InOrder(a, b) == a.epoch < b.epoch /\ a.generation <= b.generation

Pipelined ==
  /\ latest # None => InOrder(shown, latest)
  /\ job # None => InOrder(shown, job)
  /\ job # None /\ latest # None => InOrder(latest, job)
  /\ pending \notin {None, Stop} =>
       /\ InOrder(shown, pending)
       /\ latest # None => InOrder(latest, pending)
       /\ job # None => InOrder(job, pending)

\* Nothing in flight claims a command the mailbox has not issued yet.
Issued(x) == x.epoch <= epoch /\ x.generation <= generation

NoneFromTheFuture ==
  /\ Issued(shown)
  /\ \A x \in {latest, job, pending} \ {None, Stop}: Issued(x)

\* The frames the host receives never go backwards: each comes from a newer
\* command than the one before, and the source generation never returns to one
\* that a seek, cue or loop retired (try_next_ready_frame_result).
DeliveryMovesForward ==
  [][shown' # shown => InOrder(shown, shown')]_vars

\* "a completion from before the discontinuity must never reach the GPU"
\* (src/src/video/threaded.rs:2345): a delivered frame belongs to the source
\* generation that is current when it is delivered, although the worker read
\* the generation before it took the lock and published.
OnlyCurrentGenerationShown ==
  [][shown' # shown => shown'.generation = generation]_vars

\* The newest selection is always answered, by its frame or by its error, if
\* the host makes no newer one and the decoder neither stops nor fails
\* terminally: the coalescing mailbox loses no last desire.
NewestSelectionAnswered ==
  \A e \in 2..MaxEpoch:
    (epoch = e /\ ~stopped /\ pending # None)
      ~> (answered = e \/ epoch # e \/ stopped \/ failed)

\* A stopped worker exits, wherever the stop found it: opening, waiting on the
\* mailbox, in the middle of a decode or about to publish.
StoppedWorkerExits == stopped ~> wpc = "done"

\* What the comment on the failure arm of run_decode_commands says
\* (src/src/video/threaded.rs): a newer desire of the same generation makes a
\* failure obsolete, and an obsolete failure is not exposed to the host.
ObsoleteFailureNotExposed ==
  [][(answered' # answered /\ shown' = shown) => answered' = epoch]_vars
=============================================================================
