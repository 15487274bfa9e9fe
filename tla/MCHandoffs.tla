---------------------------- MODULE MCHandoffs ----------------------------
(***************************************************************************)
(* Three places where Main and its workers hand each other results that    *)
(* may be out of date when they arrive: the Spout mailbox, the decoder     *)
(* during continuous playback and the library scan.  They share no state,  *)
(* so each behaviour runs one of them (part) and leaves the others where   *)
(* they start.                                                             *)
(***************************************************************************)
EXTENDS SpoutOutput

CONSTANTS Outcomes, MaxSkipped,                        \* PlaybackCadence
          Folders, FirstFolder, Uploads, MaxScans      \* LibraryIndex

VARIABLES
  part,
  turn, skipped, queued, attempt, decoder, outcome, latest, picture, error,
  screen,
  library_generation, folder, libraryMain, wanted, requests, rescan, unlisted,
  current, scanPending, job, found, completion, index, listed, helpers, cache,
  upload, landed

cadenceVars ==
  <<turn, skipped, queued, attempt, decoder, outcome, latest, picture, error,
    screen>>

libraryVars ==
  <<library_generation, folder, libraryMain, wanted, requests, rescan, unlisted,
    current, scanPending, job, found, completion, index, listed, helpers, cache,
    upload, landed>>

Cadence == INSTANCE PlaybackCadence WITH wpc <- decoder

Library == INSTANCE LibraryIndex
             WITH MaxRequests <- MaxScans, mpc <- libraryMain,
                  pending <- scanPending

mcvars == <<part, vars, cadenceVars, libraryVars>>

MCInit ==
  /\ part \in {"spout", "cadence", "library"}
  /\ Init /\ Cadence!Init /\ Library!Init

RunSpout(step) ==
  part = "spout" /\ step /\ UNCHANGED <<part, cadenceVars, libraryVars>>

RunCadence(step) ==
  part = "cadence" /\ step /\ UNCHANGED <<part, vars, libraryVars>>

RunLibrary(step) ==
  part = "library" /\ step /\ UNCHANGED <<part, vars, cadenceVars>>

MCNext ==
  RunSpout(Next) \/ RunCadence(Cadence!Next) \/ RunLibrary(Library!Next)

\* The fairness of each part's own specification.
MCSpec ==
  /\ MCInit /\ [][MCNext]_mcvars
  /\ WF_mcvars(RunSpout(DrawFrame))
  /\ WF_mcvars(RunSpout(Worker))
  /\ WF_mcvars(RunCadence(Cadence!FrameBody))
  /\ WF_mcvars(RunCadence(Cadence!Worker))
  /\ WF_mcvars(RunLibrary(Library!Admit \/ Library!Switch))
  /\ WF_mcvars(RunLibrary(Library!Rescan))
  /\ WF_mcvars(RunLibrary(Library!Poll))
  /\ WF_mcvars(RunLibrary(Library!Worker))

----------------------------------------------------------------------------
\* Playback keeps reaching the screen (PlaybackCadence).
PlaybackNeverStarves == Cadence!PlaybackNeverStarves

\* Everything the operator sees comes from one folder (LibraryIndex).
OneFolder == Library!OneFolder

\* An answered upload gets into the index (LibraryIndex).
UploadedIsListed == Library!UploadedIsListed
=============================================================================
