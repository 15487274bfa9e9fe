-------------------------- MODULE PlaybackCadence --------------------------
(***************************************************************************)
(* The frame loop and the decode worker during continuous playback, when   *)
(* no seek, cue or loop changes the source generation.  ThreadedDecoder    *)
(* counts command epochs and so bounds them; here an attempt or a picture  *)
(* is only "newest" or "older", which is all the code compares, and the    *)
(* loop runs for ever.  That is where starvation shows.                    *)
(*                                                                         *)
(* One frame body first requests the selection that is due and then        *)
(* harvests (src/src/main.rs, the transport pass before the media pump).   *)
(***************************************************************************)
EXTENDS Naturals

CONSTANTS
  Outcomes,   \* what decode attempts may return: "frame", "failed"
  MaxSkipped  \* frames in a row for which no sample is due

VARIABLES
  turn,     \* the half of the frame body the render thread runs next
  skipped,  \* frames since the last request
  queued,   \* a selection waits in the mailbox
  attempt,  \* the worker's command: none, newest, or older than a newer one
  wpc,      \* recv, decoding, commit
  outcome,  \* of the attempt that is being committed
  latest,   \* epoch_is_latest as the worker read it
  picture,  \* the completed frame waiting: none, newest, older
  error,    \* a failure waits in command_error
  screen    \* what this frame's harvest gave: nothing, picture, error

vars == <<turn, skipped, queued, attempt, wpc, outcome, latest, picture, error,
          screen>>

Init ==
  /\ turn = "request" /\ skipped = 0
  /\ queued = FALSE
  /\ attempt = "none" /\ wpc = "recv" /\ outcome = "none" /\ latest = FALSE
  /\ picture = "newest" /\ error = FALSE /\ screen = "nothing"

\* A newer selection makes whatever is in flight older.
Aged(x) == IF x = "newest" THEN "older" ELSE x

\* request_source_time on a frame for which a sample is due.
Request ==
  /\ turn = "request"
  /\ turn' = "harvest"
  /\ skipped' = 0
  /\ queued' = TRUE
  /\ attempt' = Aged(attempt)
  /\ picture' = Aged(picture)
  /\ UNCHANGED <<wpc, outcome, latest, error, screen>>

\* The rendered frame falls between two samples of the source.
NotDue ==
  /\ turn = "request" /\ skipped < MaxSkipped
  /\ turn' = "harvest"
  /\ skipped' = skipped + 1
  /\ UNCHANGED <<queued, attempt, wpc, outcome, latest, picture, error, screen>>

Take ==
  /\ wpc = "recv" /\ queued
  /\ queued' = FALSE
  /\ attempt' = "newest"
  /\ wpc' = "decoding"
  /\ UNCHANGED <<turn, skipped, outcome, latest, picture, error, screen>>

\* The decode ends and the worker reads whether its epoch is the latest.
Decode ==
  /\ wpc = "decoding"
  /\ wpc' = "commit"
  /\ outcome' \in Outcomes
  /\ latest' = (attempt = "newest")
  /\ UNCHANGED <<turn, skipped, queued, attempt, picture, error, screen>>

Publish ==
  /\ wpc = "commit" /\ outcome = "frame"
  /\ wpc' = "recv" /\ attempt' = "none" /\ outcome' = "none"
  /\ picture' = attempt
  /\ error' = FALSE
  /\ UNCHANGED <<turn, skipped, queued, latest, screen>>

Fail ==
  /\ wpc = "commit" /\ outcome = "failed"
  /\ wpc' = "recv" /\ attempt' = "none" /\ outcome' = "none"
  /\ error' = (latest \/ error)
  /\ UNCHANGED <<turn, skipped, queued, latest, picture, screen>>

\* Mutant: only the completion of the newest command is shown, an older one
\* is discarded.
HarvestPictureOfLatestEpoch ==
  /\ turn = "harvest" /\ picture # "none"
  /\ turn' = "request"
  /\ picture' = "none"
  /\ screen' = IF picture = "newest" THEN "picture" ELSE "nothing"
  /\ UNCHANGED <<skipped, queued, attempt, wpc, outcome, latest, error>>

\* The completion of an earlier request is taken like the newest one's.
HarvestPicture ==
  /\ turn = "harvest" /\ picture # "none"
  /\ turn' = "request"
  /\ picture' = "none"
  /\ screen' = "picture"
  /\ UNCHANGED <<skipped, queued, attempt, wpc, outcome, latest, error>>

\* A failure is taken when there is no picture; a frame with neither keeps the
\* image it has.
HarvestOther ==
  /\ turn = "harvest" /\ picture = "none"
  /\ turn' = "request"
  /\ error' = FALSE
  /\ screen' = IF error THEN "error" ELSE "nothing"
  /\ UNCHANGED <<skipped, queued, attempt, wpc, outcome, latest, picture>>

FrameBody == Request \/ NotDue \/ HarvestPicture \/ HarvestOther

Worker == Take \/ Decode \/ Publish \/ Fail

Next == FrameBody \/ Worker

\* The render loop draws frame after frame and the worker thread runs.
Spec == Init /\ [][Next]_vars /\ WF_vars(FrameBody) /\ WF_vars(Worker)

----------------------------------------------------------------------------
\* "Playback stopped entirely for a source whose rate equals the render rate"
\* (the comment in try_next_ready_frame_result on why a completion is not
\* discarded by epoch): a worker that keeps finishing pictures keeps them
\* reaching the screen, however each request ages what is in flight.
PlaybackNeverStarves ==
  []<>(wpc = "commit" /\ outcome = "frame") => []<>(screen = "picture")

=============================================================================
