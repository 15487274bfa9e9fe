# A TLA+ specification of collide-o-scope

collide-o-scope is a live visual instrument: one Rust process that decodes video
layers, composes them on the GPU, shows the result, records it, and is played
from the keyboard, MIDI, OSC and a browser page. Its render loop must never
wait, so nearly everything that can block lives on a thread of its own and is
reached through a one-slot or bounded mailbox. What makes the program correct is
how these threads hand work to each other: what may be dropped, what may never
be shown, who owns a thread or a file when something stops halfway.

This directory specifies that part. Fourteen modules model the components whose
concurrency and failure handling carry the most risk, TLC checks them on small
instances, and TLAPS proves the safety properties those runs check for every
value of the constants. Paths below are relative to the repository
(`src/src/...` is its Rust source). `PROJECT.json` maps every definition to the
lines it models.

## The system

### Parts that are modelled

**Threaded video decoder** (`video/threaded.rs`, `video/frame_selection.rs`).
One worker thread per layer. State: `CommandMailboxState` (one pending command,
the newest epoch and generation, a stop flag), `SharedState` (one completed
frame, one error, a terminal failure), the host's last accepted upload.
Operations: the host selects a source time, harvests, accepts or refuses the
upload, drops; the worker receives, decodes, publishes or fails. A seek, a cue
or a loop starts a new generation; playback inside one generation only raises
the command epoch. *Hard:* the worker reads whether its command is still current
and takes the lock afterwards; both slots overwrite; a stop can arrive
anywhere. *Correct when:* nothing of a retired generation is ever shown,
playback never steps back, the last request is always answered, a stopped
worker ends.

**Frame loop and cadence** (`main.rs`, the transport pass and the media pump,
against the same worker). In each frame the loop first requests, then harvests,
so every completion is a little out of date when it is looked at. *Correct
when:* pictures keep coming at whatever rate requests are made.

**Decoder retirement supervisor** (`video/retirement.rs`). A process-wide
registry of decoder threads with a hard cap, a reaper that joins only finished
threads, a shutdown drain with a deadline, called again at exit. State: a record
with a life and a handle per worker, admission, counters. *Hard:* openers,
droppers, the reaper and the drain meet in any order; nothing signals the end of
a thread; a codec may hang for ever. *Correct when:* no thread is unowned, the
cap holds with hung threads included, a reservation survives a drain, a finished
drain is final, and joins never block.

**Latest-only publication gate** (`publication_gate.rs`). Pure counters shared by
background jobs: a token is an epoch and a generation, and only the newest
uncancelled one may publish. *Hard:* completions are late, repeated and out of
order. *Correct when:* stale work never becomes visible and fresh work is never
refused.

**Performance preparation** (`performance_runtime.rs`, the staging lane in
`main.rs`). Whole scenes and clip slots are opened in the background before they
are played. State: a newest-only mailbox, two workers, one completion slot, a
ledger of prepared sources, the pending and the ready generation; in Main, the
staged intent, a recency-ordered GPU cache and an armed transaction. *Hard:* both
workers compare their generation first and lock the slot afterwards; leases
are given back only when a superseded worker notices; eviction must spare what
is armed and what a scene displaces. *Correct when:* an answer belongs to the
intent that is staged, no intent waits for a cancelled request, and the newest
request is answered.

**Control server and action queue** (`web/state.rs`, `web/server.rs`,
`action_correlation.rs`, the drain in `main.rs`). Every browser action mints a
sequence, passes the gesture gate and a bounded queue that coalesces and
evicts, is applied by Main and settled with one receipt. State: the gesture's
owner on the server, the open gesture in Main, the queue, the batch, the
monitor of what is applied but not presented. *Hard:* a socket task may be
aborted at either lock; disconnects meet admissions; the full queue throws out
what another client sent; a loaded show replaces the queue. *Correct when:*
every sequence ends exactly once, a coalesced value does not jump over a reset or
a topology edit, and server and Main agree who owns the gesture.

**Manual history** (`history.rs`, its callers in `main.rs`, `patch/editor.rs`,
`static/app.js`). Undo and redo of whole authored worlds; a gesture is one entry
however many values it sets. State: two bounded stacks and at most one open
gesture with a number; each controller's own idea of its gesture. *Hard:* a page,
strokes of pointer and phones, the transform gizmo and the patch editor open and
close the one gesture, each at its own place in the frame and with its own
numbers; loads, undo and MIDI come in between. *Correct when:* what is changed
by hand is undone with its own gesture and nothing else, and an open gesture has
a controller that will close it.

**Media library index** (`library_index.rs`, with `request_library_scan`, the
thumbnail helpers and the upload handler). State: the scan mailbox, one
completion slot, a library generation, the published index, the preview cache.
*Hard:* a change of folder takes Main three steps; the worker tests that it is
current and stores afterwards; helpers and uploads read folder and generation
separately. *Correct when:* what the operator sees is of one folder, and an upload
that was answered is found.

**Spout output** (`spout_out.rs`, its calls in `main.rs`). A one-slot mailbox to a
thread that sends frames to other programs, with barriers: a cut to black and a
held transition must be final when the call returns. State: the mailbox's frame
and intent, the status with its generation, Main's epoch. *Hard:* a colour frame
already taken; a worker that ends and is started again while the status of the
last one is still readable. *Correct when:* no colour after a cut, and what
Main takes for delivered is on the receivers' screens.

**Proxy cache** (`proxy_worker.rs`). Re-encoded media under a byte limit, each
artifact with a digest seal. State: the directory, the index rebuilt from it, the
encode worker, two readers that validate outside the lock. *Hard:* artifact and
seal are two renames and a directory sync; eviction comes before publication;
discards go by key; power losses undo what was not synced. *Correct when:* what
was reported ready stays ready, and what is left on the disk fits the limit.

**Recovery journal and writer** (`recovery_journal.rs`). A bounded append-only
file of patch checkpoints. State: the journal's scan and next sequence, one
pending request, what has been acknowledged as durable. Operations: checkpoint,
discard, flush, drop, reopen. *Hard:* every file operation may fail, leave a torn
record, or be cut off by a kill or by a power loss, which may also undo what was
not synced. *Correct when:* an acknowledged checkpoint survives, a discarded one
stays away, and each request is settled.

**Flight recorder** (`flight_recorder.rs`). Facts about the show, for the time
after an accident: a bounded queue, a helper thread, numbered rotations that are
sealed by a marker, a file sync, a rename and a directory sync, and pruned to the
newest few; a new session removes what the last one left open. *Hard:* the
program dies at any of these steps and the next session cleans up. *Correct
when:* sealed rotations survive and a missing fact was counted as dropped.

**Live capture** (`program_recorder.rs`, with `LiveCaptureSession` in `main.rs`).
A recording or a still becomes a media file and a report. State: the gate that
arbitrates Cancel against commit, the cancel flag, the temporaries and final
names, the encoder process; for the timeline, the pool of buffers, the queue,
the readbacks, the finish word. *Hard:* Cancel races the commit; the pair is up
to four calls, each of which may fail; another program may create the same
names; the encoder outlives the thread that cleans up; frames get lost at four
different places while the file must keep its clock. *Correct when:* the event
tells what is on the disk, the report precedes the media, nobody else's file is
touched, every tick of the file shows the right picture and no buffer is lost.

### How they interact

The frame loop in `main.rs` drives everything: it drains the action queue,
selects and harvests on each decoder, drops decoders (whose tokens retire their
records), polls preparation, library and capture, and submits the finished frame
to Spout and the recorder. `ThreadedDecoder` and
`DecoderRetirement` meet in the stop: the drain's cancel is `SupervisorStops` in
the first and `DrainBegin` in the second, and what the second assumes about
stopped threads (`StoppedThreadsEnd`) is what the first shows
(`StoppedWorkerExits`). `PlaybackCadence` is the same worker seen at the loop's
rhythm, without the counters that bound `ThreadedDecoder`. `CaptureTimeline` is
the inside of the step at which `CapturePublication` captures. An upload's rescan
is one of the actions of `ActionQueue`; `LibraryIndex` models what becomes of
it. `ActionQueue` is about the page's boundaries up to Main, with one controller;
`ManualHistory` begins in Main, with four. Gate, journal, flight recorder and
proxy cache are called from the loop and share nothing with the others but the
disk, each in a directory of its own.

### Parts that are not modelled

Planned, because their control is delicate: Scene Autopilot, GPU
recovery, durable file publication, the GPU readback ring and the arithmetic of
program transport (see the plan).

Left aside: rendering, shaders and the creative domains (numeric image and signal
processing, evaluated once per frame in one thread); codecs and pixel formats;
patches, bundles, studies and presets (bounded parsing); gestures and takes
(sequential replay); offline export (a sequential loop whose publication repeats
the law of the capture); the NTSC worker (one job at a time); controllers
(single values through atomics or channels); diagnostics, stage map and
monitoring; the editor, the browser page, the tools and vendored crates.
`PROJECT.json` lists each with its files and the reason. By lines these parts are
the program: of some 330,000 lines of source, nearly all are rendering,
export, documents, user interface and tests in the same files, so the
modelled lines stay a small share whatever is added to the list above.

## The modules

| Module | Models | States of its instance |
|---|---|---|
| `ThreadedDecoder` (`MCThreadedDecoder`) | host, mailbox, worker and shared slot of one decoder | 113,219 |
| `PlaybackCadence` (`MCHandoffs`) | frame body against worker, for ever | 323 |
| `DecoderRetirement` | supervisor, openers, reaper, drain | 22,476 |
| `LatestOnly` | what the publication contract promises (abstract) | |
| `PublicationGate` (`MCAdmission`) | the gate and any workers; refines `LatestOnly` | 504 |
| `PreparedTransactions` | mailbox, two workers, slot, ledger, Main's lane | 162,920 |
| `ActionQueue` (`MCAdmission`) | sockets, gesture owner, queue, Main, monitor | 191,653 |
| `ManualHistory` (`MCAdmission`) | undo, redo, four controllers of gestures | 594,260 |
| `LibraryIndex` (`MCHandoffs`) | scan worker, generations, helpers, upload | 136,393 with the two others |
| `SpoutOutput` (`MCHandoffs`) | Main's frame, mailbox, barriers, sending worker | |
| `ProxyCache` (`MCStorage`) | directory, index, encoder, readers, crashes | about 39,900 |
| `DurableCheckpoint` | what the recovery journal promises (abstract) | |
| `RecoveryWriter` (`MCStorage`) | writer thread, journal, disk, crashes; refines `DurableCheckpoint` | 36,056 |
| `FlightRecorder` (`MCStorage`) | queue, helper thread, rotations, crashes | 228,346 |
| `CapturePublication` (`MCCapture`) | gate, worker tail, encoder, supervisor, names | 37,456 |
| `CaptureTimeline` (`MCCapture`) | capture indexes, readbacks, pool, queue, file | 30,075 |
| `*Proofs` | the theorems of the module they extend (`AdmissionProofs`, `HandoffsProofs` and `StorageProofs`: of every component of the MC module) | |

How to read them: a variable keeps the name of the field it stands for, an
action the name of the function. What one lock protects is one step; what the
code does before it takes a lock and after it releases it are different steps.
Definitions marked "Mutant" belong to no specification: each is a definition as
a plausible bug would have it, and shows that a property can fail.

`MCAdmission`, `MCHandoffs`, `MCStorage` and `MCCapture` check several components
that share no state in one run. The variable `part`, chosen in the initial state,
says which of them the behaviour runs; the others stay where they start. The
states explored are therefore the sum of the parts', not their product, and every
property is that of the part's own module under its own specification.

### ThreadedDecoder

`mailbox`, `worker`, `shared` and `host` are the four groups of state. `Select`,
`StopMailbox` and `Recv` are the mailbox's critical sections.
`RequestSourceTime` is `request_source_time` with its two early answers: a
terminal failure that has not been reported yet (`ReportFailure`, shared with
the harvest), and a target that is still selected. `Harvest*` is
`try_next_ready_frame_result`, with an outcome for each of its exits.
The end of an attempt is two steps, `ReadCurrency` and then `Publish`, `Fail` or
`DropSuperseded`: that is the window the code has. An attempt (`DecodeFrame`,
`DecodeFailed`, `DecodeSuperseded`, `DecodePanics`) is modelled by its result;
the position it may land on is `Reachable`: the target, or an earlier one where a
continuous decode may yield before it gets there. `DecodeSuperseded` needs a
newer generation or a stop, since that is what the decoder polls for.

The mailbox's two atomics are stored one after the other under its lock, and read
without it. They are one step here: the worker compares each on its own, so a
read between the two stores gives a pair of answers that reading just before or
just after gives as well.

Left out: the polling loop that waits for a prepared seed frame, the
keyframe-index pool, telemetry, pixels and codec motion.

### PlaybackCadence

An attempt or a completed picture is "newest" or "older", which is all the code
compares once the generation stays the same. With that the loop is finite
without a bound on requests, and properties about what happens *infinitely often*
can be checked. `MaxSkipped` is the number of rendered frames between two
samples of the source.

### DecoderRetirement

`life` and `handle` are the record, `owner` tells who holds the worker's token,
`thread` is the operating system's view. `Admit`, `Spawn`, `Attach` and `Abandon`
are an open, `Retire` and `RetireReaped` the drop of a token whose record exists
or is gone, `Take`, `Join`, `Rescan` and `Sleep` the reaper (joins happen outside
the lock, one by one), `DrainBegin`, `DrainCompletes` and `DrainExpires` the
drain. The reaper's timed wait is staying at `"scan"`, its untimed wait `"idle"`.
Worker identities are not reused, as in the code. Fingerprints, source
generations and ages are data no property tells apart.

### LatestOnly and PublicationGate

`LatestOnly` is three counters: asked, wanted, visible. `PublicationGate` has the
code's epoch and generation, wrapping at the word's `Limit`, and a set of tokens
that workers hold and may try for ever. `claim_latest` changes nothing, and a
claimant's only effect is a later `try_publish`, so it is no action. The
refinement mapping reads a token as its generation.

### PreparedTransactions

The variables come in three groups: the mailbox (`latest`, `pending`, `stopped`),
the runtime (`nextGen`, `pendingGen`, `ready`) and Main's lane (`staging`,
`cache`, `scheduled`), beside `completion` and the workers. A worker takes a job,
opens each source (`PrepareSource`, `PrepareFails`), asks the ledger (`Acquire`),
then looks at its generation (`StillCurrent` or `Superseded`) and stores
(`Store`) as two steps. Main's frame is `Poll*` and then `TakeReady`, which
uploads, caches, evicts (`Cached`: the oldest that is neither armed nor
protected) and may arm; `Commit` puts an armed transaction live. `Submit`,
`CancelPending`, `ClearTransactions`, `CancelOwned`, `InvalidateScene` and `Stop`
are the callers in `main.rs`. Opening, uploading and validating live targets are
one success or failure each; so is a lease refused for want of bytes.

### ActionQueue

A socket is at `"idle"`, `"gate"` or `"queue"`: it waits for the ownership lock,
or holds it and waits for the queue's. At both it may be aborted (`Vanish`,
the terminal guard's drop). `Enqueue` is `push_action` with its rules in the
code's order: a repeated rescan or seek, a keyed twin behind no barrier, a full
queue and what it evicts. `Owns` and `OwnerAfter` are the gate. `Drain` takes the
batch; `Apply*` is one action of each class: begin, end or cancel, a keyed value,
a load that supersedes the rest, a look that supersedes keyed values, anything
else. `Automate` is controller input, which changes the world whether or not a
gesture is open. `Present` settles what the monitor holds up to the high-water
mark. `lost` notes that a
boundary (an End or a Cancel) was superseded, refused or evicted.

Left out: HTTP, snapshots, the acknowledgement channel, the window of kept
receipts, clocks. `kind` stands for the classes of `ActionKind` the rules tell
apart.

### ManualHistory

`hist` is the history, with Main's note of the open gesture (`begin`, by which it
refuses a Cancel); `page`, `stroke`, `gizmo` and `editor` are what each
controller believes. `PageBegin`, `PageSet`, `PageEnd` and `PageCancel` are the
browser's actions as Main applies them. `EditorFrame` is a frame with input for
the patch editor: the press may mint an identity (`Mints`), the drawn field may
note boundaries or change the world, and at the frame's end Main applies the
boundaries if it finds work (`HasWork`, `ApplyBoundary`). The pointer's strokes
and the gizmo's drag are applied after that in the same frame, so their actions
contain one (`Frame`). `Settle` ends a drag at a barrier, `ResetGeneration` is
what a patch, a show or a restore does to strokes and drag, `ClearRecording` what
a Look or the master's reset does to strokes. Who replaces the program decides
what the history hears of it: a page's patch, Look, reset or journal
(`PageReplace`) is gated as a value is, so it is refused during a native gesture,
joins an open gesture of the browser's class, and else is an entry of its own; the
keyboard's (`NativeReplace`) waits for every gesture; an imported show (`Load`) is
performance-only and passes the history by. `Automation` is what changes
the world outside the history. A world is a fingerprint; prepare and commit of a
restore are one call of Main and one step.

`hand` and `slips` are not in the code. `hand` names who made the last change by
hand. `slips` collects the four ways in which the controllers do get at one
another or past the history: a boundary that meets another's gesture of the same
number (finding 4), a Cancel that Main refuses, text that reaches the editor
without a press, and a patch or Look that a page applies within a phone's stroke,
which joins the stroke's gesture and then cancels it (Observations). The two
properties speak of behaviours up to the first slip, and the run ends them there.

Left out: byte limits, failing captures of a checkpoint, deferred edits of clip
slots, the editor's 32 boundaries, a phone that vanishes in a stroke.

### LibraryIndex

A change of folder is three steps of Main: `ChooseFolder` or `Rescan` (the worker
takes the scan), `Admit` (the generation advances and the upload gate opens
again), `Switch` (folder, caches and lists follow). The worker is `Take`,
`Enumerate`, `Store`; its last test of currency is in `Enumerate`, before the
slot's lock. A helper publishes a
preview if the generation is still its own. An upload reads the folder, later the
generation, commits the file, and answers; its rescan goes through the action
queue, which may refuse it at once (`Answer`) or lose it later (`LoseRescan`: a
loaded show, an eviction, the shutdown, a worker that refuses). The handler
ignores the outcome. `rescan` holds the uploads the queued action stands for, the
history variable `unlisted` those whose action was lost.

### SpoutOutput

Main's frame is `BeginFrame`, then `NothingToSync`, `CutOnce` with `Cut`, or
`Stop` with `Joined`, then `Submit`; between frames `SetBlackout`, `NewEpoch` and
`Toggle` act. `QueueBlack`, `HoldColour` and `TryQueueRegular` are the mailbox's
critical sections. The worker is `Recv`, `Scale`, `Lock` (it checks the frame
under the barrier's lock), `Send` or `SendFails`, `Exit`; `Report` writes the
status only of its own generation.

### ProxyCache

The directory is four functions per key: what a read of artifact and seal
returns, and what a power loss may leave of each. A rename or unlink adds to the
second, a directory sync collapses it (`Synced`). The encode worker checks the
cache, encodes, evicts, renames, and syncs and inserts, the last four under the
store's lock; each has its failure. A reader consults (`Consult`), hashes outside
the lock (`HashMatches`, `ConsultRefuses`) and adopts or discards. `Rot` is
damage from outside. `promised` is what was reported ready, and is withdrawn by
evictions, discards and damage.

### FlightRecorder

`directory` says where each rotation's file is (nowhere, active, completed),
`directories` which listings a power loss may leave. `Prepare`, `Trim` and `Open`
are the start of a session; `Receive`, `AppendEncoded`, then `WriteMarker`,
`SyncFile`, `Rename`, `SyncDirectory`, `Retain`, `Reopen` the helper thread;
`TryRecord` and `Finish` the producer. With `Ordered` TRUE a power loss leaves the
listing of some moment since the last sync, with FALSE any mixture.

`sync_directory` does nothing on Windows (`flight_recorder.rs:1079`): with
`DirectorySyncs` FALSE `directories` keeps every listing since the last power loss.
There, as where no order is kept, a power loss may take a sealed rotation's name
back, or bring removed ones back in its place. `SealedSurvive` therefore speaks
of power losses only where both constants are TRUE (`NamesLast`), as the run has
them; elsewhere it speaks of the ends of the process, and the history variable
`sealed` starts again with each power loss. All four combinations were checked
once, with the run's bounds, and the theorem is about all four.

### DurableCheckpoint and RecoveryWriter

The disk is three variables: `file` is what a read returns now, `tails` are the
contents that a power loss may leave in the present file (without the last
record, with a torn one, or with all of it), `olds` what the directory entry may
still point to. `Restart` after `Killed` keeps `file`; after
`PowerLost` it takes any of `tails \cup olds`. An
append adds to `tails`, a synced file leaves one of them, a synced directory no
`olds`. One assumption is
made about the file system: a file sync that succeeds makes everything written
to that file so far durable, also what an earlier, failed sync left.

The worker goes `Take`, then `AppendRecord` and `SyncFile` or
`ReplaceByCheckpoint` (compaction) and `SyncDirectory`, then the rescan that
verifies, then `Acknowledge`. A failure anywhere is `OperationFails` or
`AppendFailsTorn` and leads through `Reopen`. Panics are caught at the same
place. `Request`, `FlushBegin`, `FlushEnds` and `DropWriter` are the host.
`promised` and `forgotten` record the acknowledgement in force and exist only to
state properties.

`DurableCheckpoint` is the journal as its user sees it: a register with the set of
checkpoints that a restart may find (`recoverable`), the request under way and the
one in force. A request is newer than all of them; while it is under way what is
found is what was there before or its effect; one that fails leaves either; once it
is acknowledged, only its effect is found. `MCStorage` has the mapping:
`recoverable` is what `Scan` finds in each content a crash may leave, `writing` and
`erasing` follow from the worker's place. `Take` begins a request, the appends,
replacements and syncs are `Write`, the acknowledgements `Written` and `Erased`,
every failure, panic or kill is `GiveUp`, a power loss is `Crash`, and opening,
reopening and the host's calls are no steps of it.

Left out: byte limits (the entry limit compacts instead), the encoding of
records, and telemetry. Explicit compaction is only called by tests.

### CapturePublication

`gate` is `PublicationGate` of `program_recorder.rs` (open, cancelled,
committing, published). `Main` cancels in two steps (first the gate, then the
flag), polls for the terminal event, or drops. The worker reserves both
temporaries, opens the sink, captures, waits for the encoder, writes the report,
claims the gate, commits report and then media, publishes; every failure goes to
`Clean`, `Judge` decides the event and `SendTerminal` delivers it. `Setups`
covers the code's three switches: a still or a recording, an atomic move or a
link followed by an unlink, disk calls that may fail or not. The encoder is
external: it opens its output some time after it was spawned and may hang; the
supervisor kills it. `ForeignFile` is another program creating a final name.
`stuck` is a history variable: which names the commit could not unlink, the
report's or the media's temporary after its link, or the report in the roll-back.
The properties excuse what such a call leaves behind and nothing else.

Left out: the audio temporaries and their mux, a still that waits for its first
readback, worker panics, what the report says. The names are those of a running
system: nothing is said of a power loss, for the directory is synced only after
both links. `ForeignFile` creates an absent name only; a program that replaces the
report just published, before a roll-back removes it by its path, is not modelled.

### CaptureTimeline

A frame is its capture index. `FrameIntent` numbers it, with or without a
readback slot; `HarvestReadback`, `Submit` and the worker can each lose it. The
worker takes a frame (`TakeFrame`, `item`) and hands it to the encoder
(`WriteFrame`, `WriteFails`), which may take for ever: `AtWrite` is where the
worker sits in `write_all`. `WriteFrame` repeats the last picture over a gap up to
`MaxGap`; `CloseTimeline` repeats it up to the finish index. The finish is
dispatched in the code's order: compute the index once nothing is in flight, store
it, raise the flag, set the phase.

The worker leaves its loop on the second empty poll under the flag, because the
first one starts the timer `finish_idle_since`. But it compares that timer with
the poll interval on the next line (`program_recorder.rs:1847`), so a worker that
loses the processor between the two readings of the clock leaves on the first.
`ReadFinish` allows both; the history variable `stalled` tells which it was.

## What is checked

Each run is a configuration file; all states of each instance are explored.

**`decoder`**: one decoder with two positions, two discontinuities after the first
generation and three selections after the seed frame; it can be stopped or
dropped, its attempts can fail or be superseded, and its worker can panic, at any
step. `Pipelined`: shown frame, waiting frame, running and queued command keep the
order of their commands. `OnlyCurrentGenerationShown`: a delivered frame is of the
current generation, although the worker tested it before the lock.
`NewestSelectionAnswered`: the last request is answered. `StoppedWorkerExits`: a
stop ends the worker wherever it finds it. *Bounds:* two discontinuities let a
completion be two generations old, and three selections let a queued, a running
and a waiting one exist beside the seed that is shown; no slot holds more.

**`retirement`**: three workers under a cap of two and a churn cap of one, with
every interleaving of open, failed spawn, drop, reaper, and drains that expire
and are repeated. `ThreadsBounded`: no more threads run than the cap allows and
each is owned. `CompletedDrainIsFinal`; `EndedRetireeReaped` and
`DrainLeavesNothing` under fairness. *Bounds:* the third worker meets the cap
and needs a place that was freed; one refusal is enough to take that path.

**`prepared`**: two clip slots of one layer's lane and a scene of two sources under
a budget of three, three submissions or cancels in all, with failing opens, both
workers at any of their steps, and Drop. `ReadyIsStaged`: what a poll answers is
of the staged intent. `StagedIsAwaited`: an intent never waits for a cancelled
request. `LostOnlyToOverwrite`: the newest request leaves the runtime unanswered
in one way only, by a superseded worker that stores over its result.
`NewestAnsweredUnlessLost`, under fairness: else it is answered. *Bounds:* three
generations make a worker two requests late; three sources let a scene and a slot
meet the budget's end together.

**`admission`**, the gate: four requests, three cancellations, any token at any
time, words that wrap at 15. `LatestOnlySpec`: the gate implements `LatestOnly`.
The queue: three actions of two browsers, one dragging a control and one sending
everything else, a queue of two with one place reserved for priority, a monitor of
two. `OnePlace`: every sequence is with its guard, in the queue, in the batch, in
the monitor or behind its one receipt, and nowhere twice. `OwnersAgreeUnlessLost`:
unless a boundary was thrown out, the gesture Main will have open is the one the
server owns. `BarriersKeepTheirView`: coalescing never changes the values a queued
reset or edit will find. *Bounds:* three sequences are a value, a barrier and a
newer value, or a full queue that evicts; four sequences on a queue of three were
explored once (3.6 million states) with the same result. The history: two worlds,
two entries, two gestures of each controller. `EditsAreUndoable`: up to a slip, a
change made by hand falls into a gesture of its controller, or Undo leads straight
back to the world before it. `OpenIsHeld`: an open gesture has a controller that
holds it under the same number. *Bounds:* two worlds tell a change from none; two
entries make an open gesture displace what is there; two gestures let an old
boundary meet a new gesture.

**`handoffs`**, playback over unboundedly many requests: `PlaybackNeverStarves`: if
pictures keep being finished they keep reaching the screen (a request may be due
in every frame or in every second one, the two sides of the source rate). Library:
two folders, one upload, two scans beside the first. `OneFolder`: between two
changes, index, lists and previews are of the library's folder.
`UploadedIsListed`, under fairness: an upload that was answered gets into the
index, unless its rescan was lost or the folder is left. Spout: four epochs, three
workers started.
`BarriersAreFinal`: after a cut no colour, after a hold nothing older.
`DeliveredIsShown`: a cut that the status calls delivered is on the receivers'
screens, whichever worker wrote the status. `BlackoutArrives`, under fairness.
*Bounds:* an epoch for the frame taken, one for the cut, one for its release and
one more; a third worker can find the status of the first.

**`storage`**, proxy cache: two keys for a capacity of one, three encodes, one
reader, one failing file operation, one damaged file, stops and power losses at
any step. `PublishedSurvives`: what was reported ready is what any stop leaves,
sealed and indexed. `CacheBounded`: as long as no file operation failed, no stop
leaves more sealed artifacts than the limit. Journal: three requests, two entries
(the third checkpoint compacts), two faults or panics. `AcknowledgedSurvives`;
`CheckpointSpec`, the refinement of `DurableCheckpoint`, which with
`DirectorySyncs` covers discards too (`DiscardForgets`); and, under fairness,
`RequestsSettled`. Flight recorder: three rotations with two retained, three facts
in a session, a queue of one, a fault. `SealedSurvive`: a sealed rotation stays
readable until as many newer ones are, through kills and power losses.
`GapsAreCounted`: a fact that a sealed rotation should have and has not was
counted. *Bounds:* every fault can be met by another stop while its repair runs;
the journal's two faults let the repair of a first one fail; four requests were
explored once. Four rotations were explored once (3.1 million states) with the
same result.

**`capture`**, the pair of files, all eight setups together. `CancelWins`: a
cancellation that won the gate leaves no name and no success.
`ReportPublishedFirst` and `OutcomeIsTrue`: no media without its report, and an
event that tells what is there, up to what a failed unlink left. `ForeignKept`;
`CancelSettles` under fairness: a cancelled capture ends whatever the encoder
does. *Bounds:* none; one capture is a finite system. The timeline: five frames on
the code's pool of four buffers, queue of two and ring of two readbacks.
`BuffersConserved`. `TimelineExact`: every tick of the file shows the right
picture. `AcceptedIsShown`: a recording that ends well shows every frame the queue
took, unless the worker stalled on its first empty poll. `RecordingEnds`, under
fairness: a finish, cancel or drop ends the worker, or the encoder has stopped
reading and nobody cancels. *Bounds:* five frames exceed the pool; a
`MaxGap` of one makes both a repeated and a refused gap happen.

Deadlock is checked in `retirement`, which can never stop. The other instances
come to a rightful end: a decoder is opened and dropped once, a capture ends once,
a runtime is dropped, a server shut down, and the counters of the rest are
bounded.

### Where the code and its words disagree

Five runs check a sentence of the repository's comments, documents or tests and
are violated by what the code does.

1. `decoder_obsolete_failure`, **a code bug.** A failure of the newest command is
   recorded; the host requests a newer time; the harvest that follows compares
   only generations and hands the old failure out. The worker reads
   `epoch_is_latest` before it takes the lock, which opens the same window
   between worker and host. The comment in `run_decode_commands` says that
   exposing the older error would "turn healthy coalescing into a visible false
   failure" (`threaded.rs:1690`).
2. `prepared_overwrite`, **a code bug.** A worker compares its generation with the
   mailbox's and takes the completion lock afterwards, so a superseded one
   stores over the newest result; the poll drops what it finds by its generation
   and answers Pending for ever (`performance_runtime.rs:1656`). The test of a
   newer submission calls this "newest request did not become ready" (2119).
3. `admission_orphan`. A loaded show supersedes the queue, with the End of the
   gesture Main has open; the server has cleared its owner, so nobody may end
   the gesture any more. A comment in `web/server.rs` has Main record the final
   value "instead of remaining permanently blocked by an orphaned gesture".
4. `history_collision`, **a code bug.** Page, editor, strokes and gizmo number
   their gestures from 1, and `finish_gesture` compares only the number. An End
   whose Begin was refused during a drag of the gizmo closes the drag's entry if
   the numbers meet: the page sends it as always, and a field entered during the
   drag leaves it in the editor. What the drag writes afterwards cannot be
   undone, against the "exactly one entry" and "cannot escape Undo" of
   `settle_transform_gizmo_drag_for_barrier` (`main.rs:20361`).
5. `capture_stall`, **a code bug.** The worker's poll comes back empty; Main queues
   its last frame and requests the finish; the worker finds the flag, starts its
   timer, is off the processor for a poll interval, and finds the timer expired
   (`program_recorder.rs:1847`). It leaves the loop with the frame in the queue and
   publishes without it, against "one empty poll after the finish flag proves the
   bounded queue is drained" (1848) and "Finish drains admitted work"
   (`docs/remote-control.md:1087`).

### Observations

Other things the modelling showed, checked by hand or by a variant of a module,
and not kept as runs.

- *Decoder.* Attempts that fail after the next request are never the newest, so
  their failures are not recorded while playback goes on; a layer whose decode
  only fails shows its last picture and says nothing, though
  `set_media_source_error` (`layers/mod.rs:2040`) "makes the failure speak".
- *Preparation.* Leases of a superseded transaction are given back when its worker
  notices; until then the newest may be refused for want of budget
  (`performance_runtime.rs:1698`).
- *Action queue.* `SetBlackout` and `ToggleBlackout` are refused by the web gate
  during a gesture although Main treats them as performance-only. 1024 receipts
  are kept for a sequence window of 512.
- *History.* Text that reaches a focused field of the patch editor by paste or an
  input method, without a press, before its gesture is open is applied and not
  recorded. A phone that vanishes in a stroke leaves the stroke's entry open. A
  patch, Look or reset that a page applies while a phone's stroke is open joins the
  stroke's gesture (`main.rs:21941`), which the same action then cancels
  (`main.rs:20573`): it cannot be undone, nor can what was set in the stroke before
  it. A Cancel of a gesture during which MIDI or a clip changed the world is
  refused, and the gesture stays open without its controller (`main.rs:18055`).
- *Library.* The upload handler reads the folder, and later the generation; a
  change of folder between the two lets it commit to the old folder under the new
  generation (`web/server.rs:1434`), against "Uploads land in the active library
  folder" (`docs/remote-control.md`). An upload whose client disconnects after the
  commit asks for no rescan; one whose rescan is refused, evicted or superseded by
  a loaded show has none either, because the handler ignores the outcome
  (`web/server.rs:1841`).
- *Proxy cache.* (a) A reader that was refused discards by key outside the lock it
  read under, so it may remove an intact artifact published meanwhile. (b) A
  failed unlink leaves sealed files that nothing counts; the next session's
  index exceeds the limits, and the preflight then refuses every encode. (c) An
  adopted path may be evicted before the decoder opens it, and the patch load
  fails. (d) `submit` says that a busy worker refuses, but the channel of one
  accepts another job. (e) "refused and discarded" is also reported when only
  the probe of the source failed.
- *Recovery journal.* Where directories cannot be opened, as on Windows,
  `sync_parent` counts them as synced, and the first publication does not write
  through: with `DirectorySyncs` FALSE `AcknowledgedSurvives` is violated, against
  the comment at `recovery_journal.rs:999`. A discard whose directory sync fails
  has emptied the journal already (516).
- *Flight recorder.* A power loss may lose a sealed rotation in two cases that
  `SealedSurvive` leaves out. On Windows, where nothing syncs the directory, it may
  undo the rename (1079). And if the file system does not keep the order of
  directory operations (`Ordered` FALSE): a kill after the rename and before its
  sync, a restart whose pruning counts that rotation and removes an older one, and
  a power loss that undoes the rename only. Any I/O
  error ends the recorder's thread; Main ignores the `WorkerUnavailable` that
  follows. A second process of the program would remove the first one's active
  file; the model has one process at a time.
- *Capture.* With link and unlink, a temporary that cannot be unlinked makes the
  commit of the media fail after its name became visible, and the report is
  rolled back behind it (`program_recorder.rs:2430`); one of the report makes the
  commit fail without any roll-back and leaves the report (2488). The directory is
  synced once, after both links, so a power loss may keep the media's name and
  take the report's. A cancelled worker removes
  the temporaries without waiting for the encoder, which may create its output
  again. A supervisor past its bound sets the cancel flag, so that its failure is
  judged Cancelled (1073). A still worker that panics ends its session without an
  event, and the poll takes that for "nothing yet" (2248).
- *Timeline.* An encoder that stops reading holds the worker in `write_all`
  (`program_recorder.rs:1057`) for as long as nobody cancels, also after Finish: the
  supervisor's deadline starts when the sink closes (1066, 1210).

## Fairness

Weak fairness is asked only of threads the code keeps running, and never of a
person, a device or a failure.

- Decoder: the worker's next step (its thread runs and a decode attempt is bounded
  by `MAX_SEEK_DECODE_FRAMES` and the index deadline), the harvest (every frame),
  the end of an upload, the answer or timeout of an open. Not of requests, drops,
  stops or panics.
- Cadence: the frame body and the worker, each as a whole.
- Retirement: the reaper, the drain's deadline, and each open that has begun. Not
  of threads ending: a codec may hang. `DrainLeavesNothing` carries the premise
  `StoppedThreadsEnd` in its statement instead.
- Preparation: polling, finishing what was polled, and each worker (an open ends
  with a frame, a failure or a superseded request). Not of submissions, cancels
  or commits.
- Library: the steps of a change that has begun, a rescan as long as it is
  queued, the poll, the worker. Not of uploads or helpers; and the queue may lose
  the rescan at any time.
- Spout: the drawing of frames, and the worker. Not of the toggles.
- Recovery: the writer thread. Flush, drop, kills and faults are free.
- Capture: the two halves of a cancel that was pressed, polling, supervisor and
  worker (their waits have deadlines). Not the encoder, and nothing makes a
  recording end by itself.
- Timeline: the readbacks the GPU owes, the poll that submits them, the finish
  once asked for, and the worker except in a write. A write has no bound until a
  cancellation, on which the supervisor kills the encoder and the broken pipe ends
  the write; the fairness is `Worker /\ (AtWrite => cancel)`. Not capturing,
  finishing or cancelling.

Of the gate, the action queue, the history, the proxy cache and the flight recorder
only safety is asked.

## What is proved

The theorems hold for all values of the constants that satisfy the assumptions
their modules name (`DecoderAssumption`, `RetirementAssumption`,
`GateAssumption`, `TimelineAssumption`, `KeysAssumption`, `BoundsAssumption`) or
the theorem states: lengths, caps and bounds are arbitrary
naturals, the capacities and caps positive, and empty slots are different from
what fills them. `MCAdmission`, `MCHandoffs`, `MCStorage` and `MCCapture` check
several components in one run, one at a time; the theorems are about the
specification of each component (`Control!Spec`, `History!Spec`, ...) and the
properties are
the very definitions those runs check. Each proof module states an inductive
invariant, shows that `Init` implies it, that every step keeps it (one step of
the proof per action), and derives the properties. Every safety property that a
passing run checks is a theorem; `PROJECT.json` lists the theorems a reader should
know of, the modules have some smaller ones besides (type correctness,
`ForwardDelivery`, `ReservationSafe`, `NonBlockingJoins`, `DrainReach`,
`HealthHonest`, `GateAdmits`, `GateFresh`, `PipelineIssued`, `WorkIsBounded`,
`ContractKeeps`).

- **`ThreadedDecoderProofs`**: `DecoderTyped`, `PipelineOrder`, `PipelineIssued`,
  `ForwardDelivery`, `CurrentDelivery`. `Pipelined` alone is not inductive: it
  must be known that nothing in the pipeline is newer than the mailbox has issued
  (`NoneFromTheFuture`), that the worker holds a command exactly while it works
  on one (`Holding`), and that nothing was selected before the open succeeded
  (`OpeningClean`). A frame of a retired generation may well be published; the
  host's comparison under the lock is what keeps it from being shown.
- **`DecoderRetirementProofs`**: `RetirementTyped`, `ThreadOwnership`,
  `ReservationSafe`, `DrainFinality`, `DrainReach`, `NonBlockingJoins`,
  `HealthHonest`. `Linked` ties each worker's record, handle, token and thread
  together and holds worker by worker; `Closing` ties the drain to the closed
  admission; the cap needs the lemmas on the cardinality of the records.
- **`AdmissionProofs`**, in three parts.
  - The publication gate: `GateTyped`, `GateAdmits`, `GateFresh`, and
    `GateImplements`, the refinement of `LatestOnly`. The outstanding token is
    exactly the newest one of its epoch, and what is visible is not newer than
    the last request; `NoWrap` is the arithmetic below the word's width. The
    proofs say nothing of 2^64 requests or cancellations, which the bounds
    exclude.
  - The control queue: `EverySequenceInOnePlace`, `OwnersAgree`,
    `BarriersObserve`. In `ControlInv` the guards, the queue, the batch, the
    monitor and the receipts share out what was minted (`SharedOut`) and none of
    them holds a sequence twice (`Distinct`). `OwnersInv` says what the owner's
    lock protects (`Locked`) and that, until a boundary is lost, the begins and
    finishes that are pending, Main's gesture and the server's controller fit
    (`Covered`). Every change of the queue is a thinning of it, with the new
    action at its end or in place of an older one of its key (`EnqueueCases`,
    `EnqueueTakes`), and each of these leaves what a barrier observes alone
    (`ViewsKept`). The assumptions: a positive capacity, and that `None` is no
    action, disposition, client, owner or gesture. `WorkIsBounded` adds that the
    queue and a frame's batch never outgrow `MAX_PENDING_ACTIONS`, nor the monitor
    `MAX_CORRELATED_ACTIONS_IN_FLIGHT`: an action goes to the end below the limit
    (`EnqueueBounded`), and every other outcome replaces or displaces one. It
    assumes that the priority reserve and the monitor's limit are naturals
    (`BoundsAssumed`).
  - The manual history: `OpenGestureIsHeld`, `EditsUndoable`. `HistoryInv` holds
    until a slip: what the text editor has noted but not applied alternates
    between begins and ends, and the next is the End of the gesture it has open
    (`Agree`); a focused field owns the native gesture (`FocusOwns`); page, stroke
    and gizmo know the gesture that is theirs (`SurfacesHold`), so that what
    replaces the program takes away the strokes' entry at most (`AbandonIs`,
    `ReplaceIsUndoable`). A frame applies any
    number of boundaries in one step; `Midway` is what holds after the first `i`
    of them, with the world to which Undo leads, and is proved by induction over
    `i`. Assumed is a history of two or more entries (the code keeps 128).
- **`PreparedTransactionsProofs`**: `AnswersAreStaged`, `IntentsAreAwaited`,
  `OnlyOverwritesLose`, for any number of workers, keys, sources and requests.
  The mailbox's generation is the runtime's and nothing is newer
  (`Generations`), a pending request has its intent (`Awaited`), and what bears
  the intent's generation bears its key (`Keyed`).
- **`HandoffsProofs`**, in two parts.
  - The Spout output: `SpoutTyped`, `BarriersFinal`, `DeliveryShown`, for any
    number of epochs and of workers. The intent does not overtake Main
    (`IntentFollows`) and stays black while a cut stands (`CutStands`); a frame
    being sent was checked against it (`Passed`), and no barrier is raised
    meanwhile; a status belongs to the newest generation (`StatusOwned`), and a
    delivery it tells of is shown (`Delivered`).
  - The library: `LibraryOneFolder`, for any folders, uploads and scans. No scan,
    wherever it is held, is ahead of the generation Main has admitted, and the
    newest is of the folder Main changes to (`ScansFollow`); a helper works for a
    published generation, an older one while Main switches (`HelpersPublished`).
- **`StorageProofs`**, in three parts.
  - The proxy cache: `ProxyTyped`, `PublishedIsKept`, `CacheStaysBounded`, for any
    keys, readers, limits, and numbers of encodes, failures and damages. A
    publication finds no promise under its key (`Fresh`), its content is in
    nobody's hands (`Newer`), and whoever is about to discard was refused
    something else than what is promised (`Refusers`). For the bound, while no
    file operation has failed, everything whole on the disk is indexed or just
    landing, and the two together are within the capacity (`Bound`).
  - The recovery journal: `CheckpointSurvives`, `DiscardIsFinal`,
    `JournalImplements`, `ContractKeeps`, for any number of lines, entries and
    requests. The ids rise from what was acknowledged or
    forgotten to what is in flight to what is pending (`JournalOrder`); what each
    place of the writer has put on the disk (`JournalPlaced`) says what a scan of
    every journal a crash may leave finds (`JournalFound`). `CheckpointSurvives`
    assumes `DirectorySyncs`, without which it is false (see *Recovery journal*
    above); `DiscardIsFinal` does not. `JournalImplements` is the refinement of
    `DurableCheckpoint`, also under `DirectorySyncs`: one lemma for each step of the
    contract, resting on what each line added to a file does to its scan
    (`FoundAfter`, `FoundStep`), and one more invariant, that nothing to be found is
    newer than the request that waits (`JournalNewest`), failed writes included.
    `ContractKeeps` shows that the contract is enough for its user: a register that
    keeps it finds the checkpoint in force or a newer one and nothing that was
    discarded (`Dependable`).
  - The flight recorder: `SealedRotationsSurvive`, `GapsCounted`, for any retention,
    capacity and number of rotations and events. `FlightInv`: in every directory a
    crash may leave, completed rotations have durable markers (`Durable`), none is
    above the newest one (`Top`) or the one being written (`Above`). `StreamInv`:
    the facts a session has recorded, holds and has queued are in the order they
    were offered in (`StreamOrdered`), and the others have been counted
    (`StreamCounted`), so what is missing up to a rotation's last fact was counted
    when its marker was written. `SealedSurvive` covers the ends of the process
    on every system and power losses where names last (`Keeping`); neither theorem
    assumes anything about the file system.
- **`CapturePublicationProofs`**: `CaptureTyped`, `CancelIsFinal`, `ReportFirst`,
  `OutcomeTruth`, `ForeignFilesKept`. A name is ours only under a claimed gate
  (`Visible`), a claimed gate cannot be cancelled (`GateFollows`), the event is a
  function of the worker's result (`Told`); `MediaIsLast` and
  `ReportIsRolledBack` say which failed calls leave a name behind. No theorem
  assumes anything about failing disk calls.
- **`CaptureTimelineProofs`**: `TimelineBuffers`, `ConstantRate`, `FinishDrains`, for
  every pool, queue and number of frames. A buffer is in exactly one of four
  places while the worker runs (`Counted`); before the worker is ready there are
  none (`NotYet`). Each tick of the file shows the newest of its frames that is
  not later (`Shape`), which the worker's repetition of the last frame keeps; the
  frame in its hands was taken because it follows the last one (`Fits`), and it
  holds one only while it writes (`InHand`). For
  the drain, the frames' numbers rise along readbacks, lease, queue and file
  (`Ordered`), a frame refused as too far ahead shuts out all later ones
  (`Refused`), and a queue found empty by the second poll under the finish flag
  stays empty (`Ending`). `FinishDrains` has no assumption besides the sizes: the
  stall is in its statement.

The inductive invariants also hold on the instances of the runs: TLC checks them
with the proof module as its root and the constants of the run.

The provers cannot instantiate the induction theorems of the library, which take a
predicate as a parameter. Where a proof needs induction - along the pending
boundaries of a frame, along a queue that is thinned, for the newest rotation that
is still readable - it takes the least number at which the statement fails
(`LeastNat`, from the well-foundedness of `<`) and refutes it. What the operators
in the modules compute over a sequence they compute by a recursive function or
describe by CHOOSE, quantifiers and sequence operators; nothing is declared
`RECURSIVE`.

### What is only model-checked

All liveness (the prover has neither ENABLED nor fairness): `NewestSelectionAnswered`,
`StoppedWorkerExits`, `EndedRetireeReaped`, `DrainLeavesNothing`,
`RequestsSettled`, `CancelSettles`, `RecordingEnds`, `NewestAnsweredUnlessLost`,
`BlackoutArrives`, `PlaybackNeverStarves` (with it all of `PlaybackCadence`) and
`UploadedIsListed`; and the runs that end in a violation.

## Plan

In this order:

1. `ManualHistory`, the rest: the deferred edits of clip slots, which carry the
   generation of their slot, and the stacks' byte limits.
2. Autopilot, GPU recovery, and the source-time arithmetic of `transport.rs`
   against a reference definition.
3. `durable_file.rs` (stage, sync, publish, sync the parent, the staging guard)
   and the readback ring.
4. Proofs: an abstract specification of the control queue with its refinement;
   safety properties of `PlaybackCadence`, then theorems about them.

The hazards are in `PROJECT.json` with their lines and the properties about them.

## Running

    tlc -config ThreadedDecoder.cfg MCThreadedDecoder.tla
    tlc -config MCStorage.cfg MCStorage.tla
    tlc -config CaptureTimeline_stall.cfg CaptureTimeline.tla
    tlapm ThreadedDecoderProofs.tla
    tlapm AdmissionProofs.tla

and likewise for the other configurations and proof modules; `PROJECT.json`
names the module and configuration of every run.
