--------------------------- MODULE LibraryIndex ---------------------------
(***************************************************************************)
(* The media library: the scan worker (src/src/library_index.rs), the      *)
(* generation its results carry (src/src/web/state.rs), the thumbnail      *)
(* helpers and Main (src/src/main.rs), and browser uploads                 *)
(* (src/src/web/server.rs).                                                *)
(*                                                                         *)
(* A change of folder takes Main three steps: the scan is admitted to the  *)
(* worker, the generation advances, caches and folder follow.  The worker, *)
(* helpers and upload handlers run between any two of them.                *)
(*                                                                         *)
(* An upload stands for the one file it brings; MaxRequests bounds the     *)
(* operator's scans, and generations do not wrap.                          *)
(***************************************************************************)
EXTENDS Naturals, FiniteSets

CONSTANTS
  Folders, FirstFolder, Uploads,
  MaxRequests,  \* bound on the scans the operator asks for
  None

Scans == [generation: Nat, folder: Folders]

VARIABLES
  library_generation,  \* WebState::library_generation
  folder,      \* the library folder of Main and of WebState
  mpc,         \* Main in request_library_scan: idle, admit, switch
  wanted,      \* the folder it changes to, or None for a rescan
  requests,    \* the operator's scans so far
  rescan,      \* the uploads the queued RescanLibrary stands for
  unlisted,    \* history: uploads whose RescanLibrary was lost
  current,     \* ScanMailbox::current_generation
  pending,     \* ScanMailbox::pending
  job,         \* the scan the worker is at
  found,       \* what it enumerated, or None before that
  completion,  \* the completion slot: scan and files
  index,       \* the published index
  listed,      \* the folder library_files came from
  helpers,     \* thumbnail helpers at work
  cache,       \* the folders the cached previews show
  upload,      \* per upload: its place, folder and generation
  landed       \* per upload, the folder its file was committed to

mainState ==
  <<library_generation, folder, mpc, wanted, requests, index, listed>>
scanState == <<current, pending, job, found, completion>>
rescanState == <<rescan, unlisted>>
vars ==
  <<mainState, rescanState, scanState, helpers, cache, upload, landed>>

Scanning(g) ==
  [generation |-> g, complete |-> FALSE, folder |-> None, files |-> {}]

FirstScan == [generation |-> 1, folder |-> FirstFolder]

Idle == [at |-> "idle", folder |-> None, generation |-> 0]

\* Start-up has asked for the first scan.
Init ==
  /\ library_generation = 1 /\ folder = FirstFolder
  /\ mpc = "idle" /\ wanted = None /\ requests = 0
  /\ rescan = {} /\ unlisted = {}
  /\ current = 1 /\ pending = FirstScan /\ job = None /\ found = None
  /\ completion = None
  /\ index = Scanning(1) /\ listed = None
  /\ helpers = {} /\ cache = {}
  /\ upload = [u \in Uploads |-> Idle] /\ landed = [u \in Uploads |-> None]

----------------------------------------------------------------------------
(***************************************************************************)
(* Main.                                                                   *)
(***************************************************************************)
\* As a bug: a scan that still waits in the mailbox keeps its place.
SubmitBehind(f) ==
  /\ current' = library_generation + 1
  /\ pending' = IF pending = None
                THEN [generation |-> library_generation + 1, folder |-> f]
                ELSE pending
  /\ completion' = None

\* LibraryIndexRuntime::request under the completion lock: the newest scan
\* replaces a waiting one, supersedes a running one and empties the slot.
Submit(f) ==
  /\ current' = library_generation + 1
  /\ pending' = [generation |-> library_generation + 1, folder |-> f]
  /\ completion' = None

\* The operator chooses a folder.
ChooseFolder(f) ==
  /\ mpc = "idle" /\ mpc' = "admit"
  /\ requests < MaxRequests /\ requests' = requests + 1
  /\ wanted' = f /\ Submit(f)
  /\ UNCHANGED <<library_generation, folder, index, listed, rescanState,
                 job, found, helpers, cache, upload, landed>>

\* A queued RescanLibrary: Main scans the folder it has.
Rescan ==
  /\ mpc = "idle" /\ mpc' = "admit"
  /\ rescan # {} /\ rescan' = {}
  /\ wanted' = None /\ Submit(folder)
  /\ UNCHANGED <<library_generation, folder, requests, unlisted, index, listed,
                 job, found, helpers, cache, upload, landed>>

\* The queued RescanLibrary is superseded by a loaded show, evicted from the
\* full queue, dropped by the shutdown, or refused by the worker.
LoseRescan ==
  /\ rescan # {} /\ rescan' = {}
  /\ unlisted' = unlisted \cup rescan
  /\ UNCHANGED <<mainState, scanState, helpers, cache, upload, landed>>

\* admit_library_generation ends: the upload gate is released and the index
\* says that it is scanning.
Admit ==
  /\ mpc = "admit" /\ mpc' = "switch"
  /\ library_generation' = library_generation + 1
  /\ index' = Scanning(library_generation')
  /\ UNCHANGED <<folder, wanted, requests, listed, rescanState, scanState,
                 helpers, cache, upload, landed>>

\* A changed folder empties the caches and the file lists.
Switch ==
  /\ mpc = "switch" /\ mpc' = "idle"
  /\ wanted' = None
  /\ IF wanted = None
     THEN UNCHANGED <<folder, listed, cache>>
     ELSE folder' = wanted /\ listed' = None /\ cache' = {}
  /\ UNCHANGED <<library_generation, requests, index, rescanState, scanState,
                 helpers, upload, landed>>

\* poll_library_index: a completion of the current generation is published and
\* may start helpers; any other is dropped.
Poll ==
  /\ mpc = "idle" /\ completion # None
  /\ completion' = None
  /\ IF completion.scan.generation = library_generation
     THEN /\ index' = [generation |-> library_generation, complete |-> TRUE,
                       folder |-> completion.scan.folder,
                       files |-> completion.files]
          /\ listed' = completion.scan.folder
          /\ helpers' \in {helpers, helpers \cup {completion.scan}}
     ELSE UNCHANGED <<index, listed, helpers>>
  /\ UNCHANGED <<library_generation, folder, mpc, wanted, requests, rescanState,
                 current, pending, job, found, cache, upload, landed>>

----------------------------------------------------------------------------
(***************************************************************************)
(* The scan worker and the thumbnail helpers.                              *)
(***************************************************************************)
IsCurrent(scan) == current = scan.generation

Take ==
  /\ job = None /\ pending # None
  /\ job' = pending /\ pending' = None
  /\ UNCHANGED <<mainState, rescanState, current, found, completion, helpers,
                 cache, upload, landed>>

\* The enumeration ends; a superseded one is given up, then or before.
Enumerate ==
  /\ job # None /\ found = None
  /\ IF IsCurrent(job)
     THEN found' = {u \in Uploads: landed[u] = job.folder} /\ UNCHANGED job
     ELSE job' = None /\ UNCHANGED found
  /\ UNCHANGED <<mainState, rescanState, current, pending, completion, helpers,
                 cache, upload, landed>>

\* The result is stored after the last check: a request may come between.
Store ==
  /\ found # None
  /\ completion' = [scan |-> job, files |-> found]
  /\ job' = None /\ found' = None
  /\ UNCHANGED <<mainState, rescanState, current, pending, helpers, cache,
                 upload, landed>>

\* As a bug: the generation is checked before the cache is locked.
HelpUnchecked(scan) ==
  /\ scan \in helpers
  /\ cache' = cache \cup {scan.folder}
  /\ helpers' \in {helpers, helpers \ {scan}}
  /\ UNCHANGED <<mainState, rescanState, scanState, upload, landed>>

\* publish_thumbnail_with_budget and its twin for previews; a helper ends with
\* its last candidate or when it sees another generation.
Help(scan) ==
  /\ scan \in helpers
  /\ cache' = IF scan.generation = library_generation
              THEN cache \cup {scan.folder} ELSE cache
  /\ helpers' \in {helpers, helpers \ {scan}}
  /\ UNCHANGED <<mainState, rescanState, scanState, upload, landed>>

----------------------------------------------------------------------------
(***************************************************************************)
(* upload_handler.                                                         *)
(***************************************************************************)
ReadFolder(u) ==
  /\ upload[u].at = "idle"
  /\ upload' = [upload EXCEPT ![u].at = "folder", ![u].folder = folder]
  /\ UNCHANGED <<mainState, rescanState, scanState, helpers, cache, landed>>

ReadGeneration(u) ==
  /\ upload[u].at = "folder"
  /\ upload' = [upload EXCEPT ![u].at = "staged",
                              ![u].generation = library_generation]
  /\ UNCHANGED <<mainState, rescanState, scanState, helpers, cache, landed>>

\* The publication gate excludes Main's change of generation.
Commit(u) ==
  /\ upload[u].at = "staged" /\ mpc # "admit"
  /\ IF upload[u].generation = library_generation
     THEN /\ landed' = [landed EXCEPT ![u] = upload[u].folder]
          /\ upload' = [upload EXCEPT ![u].at = "committed"]
     ELSE /\ upload' = [upload EXCEPT ![u].at = "refused"]
          /\ UNCHANGED landed
  /\ UNCHANGED <<mainState, rescanState, scanState, helpers, cache>>

\* A rescan is asked for unless a newer generation scans anyway; the queue may
\* refuse it, and the client is answered as well then.
Answer(u) ==
  /\ upload[u].at = "committed"
  /\ upload' = [upload EXCEPT ![u].at = "answered"]
  /\ IF upload[u].generation = library_generation
     THEN \/ rescan' = rescan \cup {u} /\ UNCHANGED unlisted
          \/ unlisted' = unlisted \cup {u} /\ UNCHANGED rescan
     ELSE UNCHANGED rescanState
  /\ UNCHANGED <<mainState, scanState, helpers, cache, landed>>

\* The client leaves, or a deadline passes: nothing after this await happens.
Leave(u) ==
  /\ upload[u].at \in {"folder", "staged", "committed"}
  /\ upload' = [upload EXCEPT ![u].at = "left"]
  /\ UNCHANGED <<mainState, rescanState, scanState, helpers, cache, landed>>

----------------------------------------------------------------------------
Main ==
  (\E f \in Folders: ChooseFolder(f)) \/ Rescan \/ LoseRescan \/ Admit
    \/ Switch \/ Poll

Worker == Take \/ Enumerate \/ Store

Helper == \E scan \in helpers: Help(scan)

Handler ==
  \E u \in Uploads:
    ReadFolder(u) \/ ReadGeneration(u) \/ Commit(u) \/ Answer(u) \/ Leave(u)

Next == Main \/ Worker \/ Helper \/ Handler

\* Main serves, frame after frame, what it has begun, what is queued and what
\* is completed; the worker thread runs.  What is queued may be lost first.
Fairness ==
  /\ WF_vars(Admit \/ Switch) /\ WF_vars(Rescan) /\ WF_vars(Poll)
  /\ WF_vars(Worker)

Spec == Init /\ [][Next]_vars /\ Fairness

----------------------------------------------------------------------------
\* Between two changes everything the operator sees comes from one folder: "A
\* folder change clears basename-keyed previews and advances a generation so
\* workers from the old folder cannot repopulate the new cache"
\* (src/docs/remote-control.md), nor a late scan the index.
OneFolder ==
  mpc = "idle" =>
    /\ index.generation = library_generation
    /\ {index.folder, listed} \subseteq {None, folder}
    /\ cache \subseteq {folder}

\* An answered upload gets into the index of its folder while that is the
\* library, whoever asks for the scan and whatever the worker was doing; only a
\* lost RescanLibrary, whose outcome upload_handler ignores, leaves it out.
UploadedIsListed ==
  \A u \in Uploads:
    upload[u].at = "answered"
      ~> \/ index.complete /\ u \in index.files
         \/ landed[u] # folder
         \/ u \in unlisted
=============================================================================
