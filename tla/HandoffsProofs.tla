--------------------------- MODULE HandoffsProofs ---------------------------
(***************************************************************************)
(* Two of the hand-offs of MCHandoffs, for every value of their constants. *)
(*                                                                         *)
(* Spout output: cuts and holds are final when they return, and what Main  *)
(* takes for delivered is what the receivers have.  Intents only move      *)
(* forward while one worker lives, a frame that passed the check under the *)
(* barrier matches the intent, and no barrier is raised while such a frame *)
(* is being sent.                                                          *)
(*                                                                         *)
(* Media library: what the operator sees comes from one folder.  No scan   *)
(* is ahead of the generation Main has admitted, the scans of that         *)
(* generation are of the folder Main changes to, and a helper works for a  *)
(* generation that was published.                                          *)
(***************************************************************************)
EXTENDS MCHandoffs, TLAPS

----------------------------------------------------------------------------
(***************************************************************************)
(* The Spout output.                                                       *)
(***************************************************************************)
\* The worker in a step with a frame has one.
Holding == wpc \in {"scale", "lock", "send"} => frame \in Frames

\* An intent is not ahead of Main, and black at Main's epoch only in blackout.
IntentFollows ==
  /\ intent.epoch <= visual_epoch
  /\ intent.blackout /\ intent.epoch = visual_epoch => blackout

\* A cut stays asked for as long as the mailbox is open.
CutStands == cut => blackout /\ (~shutdown => intent.blackout)

\* When Main comes to submit its frames a blackout has been cut.
CutBeforeSubmit ==
  mpc = "submit" /\ blackout /\ enabled /\ Running /\ ~shutdown
    => intent.epoch = visual_epoch /\ intent.blackout

\* What is being sent passed the barriers and is not ahead of the intent.
Passed ==
  wpc = "send" =>
    /\ cut => frame.black
    /\ held <= frame.epoch
    /\ frame.epoch <= intent.epoch
    /\ frame.epoch = intent.epoch /\ frame.black => intent.blackout

\* The status is of the newest generation; a worker of another one has not
\* written it.
StatusOwned ==
  /\ status.generation = generation
  /\ born # generation => status.black = None

\* A delivery the status tells of is not ahead of the intent, and shown.
Delivered ==
  status.black # None =>
    /\ status.black <= intent.epoch
    /\ status.black = intent.epoch => intent.blackout
    /\ Running => shown = [epoch |-> status.black, black |-> TRUE]

\* The inductive invariant.
SpoutInv ==
  /\ TypeOK /\ Holding /\ IntentFollows /\ held <= intent.epoch /\ CutStands
  /\ CutBeforeSubmit /\ Passed /\ StatusOwned /\ Delivered

----------------------------------------------------------------------------
\* SpoutOut starts without a worker, a cut or a delivery.
LEMMA SpoutInit == Init => SpoutInv
<1> SUFFICES ASSUME Init PROVE SpoutInv
  OBVIOUS
<1> USE DEF Init, Fresh, Colour
<1>1. TypeOK
  BY DEF TypeOK
<1>2. Holding /\ IntentFollows /\ held <= intent.epoch /\ CutStands
  BY DEF Holding, IntentFollows, CutStands
<1>3. CutBeforeSubmit /\ Passed /\ StatusOwned /\ Delivered
  BY DEF CutBeforeSubmit, Passed, StatusOwned, Delivered
<1> QED
  BY <1>1, <1>2, <1>3 DEF SpoutInv

\* queue_black either asks for black in its epoch or, closed or overtaken,
\* changes nothing; it never runs during a send.
CutOutcome(e) ==
  /\ wpc # "send" /\ shutdown' = shutdown /\ held' = held
  /\ pending' \in Frames \cup {None}
  /\ intent' \in [epoch: Nat, blackout: BOOLEAN]
  /\ \/ /\ ~shutdown /\ intent.epoch <= e
        /\ intent'.epoch = e /\ intent'.blackout = TRUE /\ cut' = TRUE
     \/ /\ shutdown \/ e < intent.epoch
        /\ intent' = intent /\ cut' = cut

\* What a cut may do to the mailbox.
LEMMA CutEffect ==
  ASSUME TypeOK, NEW e \in Nat, QueueBlack(e)
  PROVE  CutOutcome(e)
<1> USE DEF QueueBlack, CutOutcome
<1>1. CASE e >= intent.epoch /\ ~shutdown
  <2>1. intent' = [epoch |-> e, blackout |-> TRUE] /\ cut' = TRUE
    BY <1>1
  <2>2. pending' \in Frames \cup {None}
    <3>1. pending' = pending \/ pending' = [epoch |-> e, black |-> TRUE]
      BY <1>1
    <3>2. [epoch |-> e, black |-> TRUE] \in Frames
      BY DEF Frames
    <3> QED
      BY <3>1, <3>2 DEF TypeOK
  <2>3. /\ intent' \in [epoch: Nat, blackout: BOOLEAN]
        /\ intent.epoch <= e /\ intent'.epoch = e /\ intent'.blackout = TRUE
    BY <1>1, <2>1 DEF TypeOK
  <2> QED
    BY <1>1, <2>1, <2>2, <2>3
<1>2. CASE ~(e >= intent.epoch /\ ~shutdown)
  BY <1>2 DEF TypeOK
<1> QED
  BY <1>1, <1>2

\* Every step of Main and of the worker keeps the invariant.
LEMMA SpoutStep ==
  ASSUME None \notin Nat, SpoutInv, [Next]_vars
  PROVE  SpoutInv'
<1> USE DEF SpoutInv, TypeOK, Frames, Holding, IntentFollows, CutStands,
        CutBeforeSubmit, Passed, StatusOwned, Delivered, Running,
        main, mailbox, worker
<1>1. CASE SetBlackout
  <2>1. /\ mpc = "events" /\ visual_epoch' = visual_epoch + 1
        /\ UNCHANGED <<enabled, mpc, generation, status, worker>>
    BY <1>1 DEF SetBlackout
  <2>2. \/ blackout' = TRUE /\ blackout = FALSE
        \/ blackout' = FALSE /\ blackout = TRUE
    <3>1. blackout' = ~blackout
      BY <1>1 DEF SetBlackout
    <3> QED
      BY <3>1, Zenon
  <2>3. CASE blackout' /\ enabled /\ Running
    <3>1. QueueBlack(visual_epoch + 1)
      BY <1>1, <2>3 DEF SetBlackout
    <3>2. CutOutcome(visual_epoch + 1)
      BY <3>1, CutEffect
    <3>3. blackout' = TRUE /\ cut = FALSE
      BY <2>3, <2>2
    <3>4. TypeOK' /\ Holding'
      <4>1. visual_epoch' \in Nat
        BY <2>1
      <4>2. blackout' \in BOOLEAN
        BY <3>3
      <4>3. cut' \in BOOLEAN
        BY <3>2, <3>3 DEF CutOutcome
      <4> QED
        BY <2>1, <3>2, <4>1, <4>2, <4>3 DEF CutOutcome
    <3>5. IntentFollows' /\ (held <= intent.epoch)' /\ CutStands'
      BY <2>1, <3>2, <3>3 DEF CutOutcome
    <3>6. CutBeforeSubmit'
      BY <2>1, <3>2, <3>3 DEF CutOutcome
    <3>7. Passed'
      BY <2>1, <3>2, <3>3 DEF CutOutcome
    <3>8. StatusOwned' /\ Delivered'
      BY <2>1, <3>2, <3>3 DEF CutOutcome
    <3> QED
      BY <3>4, <3>5, <3>6, <3>7, <3>8
  <2>4. CASE ~(blackout' /\ enabled /\ Running)
    <3>1. cut' = FALSE /\ UNCHANGED <<mailbox, held>>
      BY <1>1, <2>4 DEF SetBlackout
    <3>4. TypeOK' /\ Holding'
      <4>1. visual_epoch' \in Nat
        BY <2>1
      <4>2. blackout' \in BOOLEAN
        BY <2>2
      <4>3. cut' \in BOOLEAN
        BY <3>1
      <4> QED
        BY <2>1, <3>1, <4>1, <4>2, <4>3
    <3>5. IntentFollows' /\ (held <= intent.epoch)' /\ CutStands'
      BY <2>1, <3>1
    <3>6. CutBeforeSubmit'
      BY <2>1, <3>1
    <3>7. Passed'
      BY <2>1, <3>1
    <3>8. StatusOwned' /\ Delivered'
      BY <2>1, <3>1
    <3> QED
      BY <3>4, <3>5, <3>6, <3>7, <3>8
  <2> QED
    BY <2>3, <2>4
<1>2. CASE NewEpoch
  BY <1>2 DEF NewEpoch
<1>3. CASE Toggle
  BY <1>3 DEF Toggle
<1>4. CASE BeginFrame
  <2>1. /\ mpc = "events" /\ mpc' = "sync"
        /\ UNCHANGED <<enabled, blackout, visual_epoch, generation, status,
                       worker>>
    BY <1>4 DEF BeginFrame
  <2>2. CASE ~blackout /\ enabled /\ Running /\ HoldColour(visual_epoch)
    <3>1. CASE ~shutdown
      <4>1. /\ intent' = [epoch |-> visual_epoch, blackout |-> FALSE]
            /\ pending' = None /\ held' = visual_epoch
            /\ wpc # "send" /\ UNCHANGED <<shutdown, cut>>
        BY <2>2, <3>1 DEF HoldColour
      <4> QED
        BY <2>1, <2>2, <4>1
    <3>2. CASE shutdown
      <4>1. UNCHANGED <<mailbox, cut, held>>
        BY <2>2, <3>2 DEF HoldColour
      <4> QED
        BY <2>1, <4>1
    <3> QED
      BY <3>1, <3>2
  <2>3. CASE UNCHANGED <<mailbox, cut, held>>
    BY <2>1, <2>3
  <2> QED
    BY <1>4, <2>2, <2>3 DEF BeginFrame
<1>5. CASE Start
  <2> USE <1>5 DEF Start, Fresh, Colour
  <2>1. TypeOK'
    <3>1. /\ born' \in Nat /\ generation' \in Nat
          /\ status' \in [generation: Nat, black: Nat \cup {None}]
      OBVIOUS
    <3>2. intent' \in [epoch: Nat, blackout: BOOLEAN]
      OBVIOUS
    <3>3. UNCHANGED <<enabled, blackout, visual_epoch>>
      OBVIOUS
    <3> QED
      BY <3>1, <3>2, <3>3
  <2>2. Holding' /\ IntentFollows' /\ (held <= intent.epoch)' /\ CutStands'
    OBVIOUS
  <2>3. CutBeforeSubmit' /\ Passed' /\ StatusOwned' /\ Delivered'
    OBVIOUS
  <2> QED
    BY <2>1, <2>2, <2>3
<1>6. CASE Stop
  BY <1>6 DEF Stop, Fresh
<1>7. CASE Joined
  BY <1>7 DEF Joined
<1>8. CASE NothingToSync
  BY <1>8 DEF NothingToSync
<1>9. CASE Cut
  <2>1. /\ mpc = "cut" /\ mpc' = "submit"
        /\ UNCHANGED <<enabled, blackout, visual_epoch, generation, status,
                       worker>>
    BY <1>9 DEF Cut
  <2>2. CASE blackout /\ enabled /\ Running /\ ~BlackDelivered
    <3>1. QueueBlack(visual_epoch)
      BY <1>9, <2>2 DEF Cut
    <3>2. CutOutcome(visual_epoch)
      BY <3>1, CutEffect
    <3>4. TypeOK' /\ Holding'
      BY <2>1, <2>2, <3>2 DEF CutOutcome
    <3>5. IntentFollows' /\ (held <= intent.epoch)' /\ CutStands'
      BY <2>1, <2>2, <3>2 DEF CutOutcome
    <3>6. CutBeforeSubmit'
      BY <2>1, <2>2, <3>2 DEF CutOutcome
    <3>7. Passed'
      BY <2>1, <2>2, <3>2 DEF CutOutcome
    <3>8. StatusOwned' /\ Delivered'
      BY <2>1, <2>2, <3>2 DEF CutOutcome
    <3> QED
      BY <3>4, <3>5, <3>6, <3>7, <3>8
  <2>3. CASE ~(blackout /\ enabled /\ Running /\ ~BlackDelivered)
    BY <1>9, <2>1, <2>3 DEF Cut, BlackDelivered
  <2> QED
    BY <2>2, <2>3
<1>10. CASE Submit
  <2> USE <1>10 DEF Submit
  <2>1. CASE enabled /\ Running /\ TryQueueRegular(visual_epoch)
    <3>1. CASE visual_epoch > intent.epoch
      BY <2>1, <3>1 DEF TryQueueRegular
    <3>2. CASE ~(visual_epoch > intent.epoch)
      BY <2>1, <3>2 DEF TryQueueRegular
    <3> QED
      BY <3>1, <3>2
  <2>2. CASE UNCHANGED <<mailbox, cut, held>>
    BY <2>2
  <2> QED
    BY <2>1, <2>2
<1>11. CASE Recv
  BY <1>11 DEF Recv
<1>12. CASE Exit
  BY <1>12 DEF Exit
<1>13. CASE Scale
  BY <1>13 DEF Scale, IsCurrent, Matches, Report
<1>14. CASE Lock
  BY <1>14 DEF Lock, IsCurrent, Matches
<1>15. CASE Send
  BY <1>15 DEF Send, Report
<1>16. CASE SendFails
  BY <1>16 DEF SendFails, Report
<1>17. CASE UNCHANGED vars
  BY <1>17 DEF vars
<1> QED
  BY <1>1, <1>2, <1>3, <1>4, <1>5, <1>6, <1>7, <1>8, <1>9, <1>10, <1>11, <1>12, <1>13, <1>14, <1>15, <1>16, <1>17
  DEF Next, Main, DrawFrame, Worker

----------------------------------------------------------------------------
\* The invariant holds in every reachable state.
THEOREM SpoutInvariant ==
  ASSUME None \notin Nat
  PROVE  Spec => []SpoutInv
<1>1. SpoutInv /\ [Next]_vars => SpoutInv'
  BY SpoutStep
<1> QED
  BY SpoutInit, <1>1, PTL DEF Spec

\* A cut or a hold is final when it returns (queue_black, hold_colour_epoch and
\* the check under the barrier), for every number of epochs and workers.
THEOREM BarriersFinal ==
  ASSUME None \notin Nat
  PROVE  Spec => BarriersAreFinal
<1>1. ASSUME SpoutInv, [Next]_vars
      PROVE  [shown' # shown /\ shown' # None =>
                /\ cut => shown'.black
                /\ shown'.epoch >= held]_vars
  <2> SUFFICES ASSUME shown' # shown, shown' # None
               PROVE  (cut => shown'.black) /\ shown'.epoch >= held
    OBVIOUS
  <2>1. Send
    BY <1>1 DEF Next, Main, DrawFrame, Worker, SetBlackout, NewEpoch, Toggle,
                BeginFrame, Start, Stop, Joined, NothingToSync, Cut, Submit,
                Recv, Exit, Scale, Lock, SendFails, worker, vars
  <2>2. wpc = "send" /\ shown' = frame
    BY <2>1 DEF Send
  <2>3. frame \in Frames /\ (cut => frame.black) /\ held <= frame.epoch
    BY <1>1, <2>2 DEF SpoutInv, Holding, Passed
  <2> QED
    BY <1>1, <2>2, <2>3 DEF SpoutInv, TypeOK, Frames
<1> QED
  BY SpoutInvariant, <1>1, PTL DEF Spec, BarriersAreFinal

\* When black_delivered answers TRUE the receivers have this epoch's black.
THEOREM DeliveryShown ==
  ASSUME None \notin Nat
  PROVE  Spec => []DeliveredIsShown
<1>1. SpoutInv => DeliveredIsShown
  BY DEF SpoutInv, TypeOK, Delivered, DeliveredIsShown, BlackDelivered
<1> QED
  BY SpoutInvariant, <1>1, PTL

\* Main, the mailbox and the worker stay in their types.
THEOREM SpoutTyped ==
  ASSUME None \notin Nat
  PROVE  Spec => []TypeOK
BY SpoutInvariant, PTL DEF SpoutInv

----------------------------------------------------------------------------
(***************************************************************************)
(* The media library.                                                      *)
(***************************************************************************)
\* The folder the newest scan is of: the one Main changes to, or has.
Target == IF wanted = None THEN folder ELSE wanted

\* The scans of the mailbox, the worker, the completion slot and the helpers.
ScansHeld ==
  ({scanPending, job} \ {None}) \cup helpers
    \cup (IF completion = None THEN {} ELSE {completion.scan})

\* What the proof needs of the types.
LibraryTyped ==
  /\ library_generation \in Nat /\ folder \in Folders
  /\ libraryMain \in {"idle", "admit", "switch"}
  /\ wanted \in Folders \cup {None} /\ (libraryMain = "idle" => wanted = None)
  /\ ScansHeld \subseteq Library!Scans
  /\ found # None => job # None

\* The generation Main has admitted to the worker.
GenerationFollows ==
  current = IF libraryMain = "admit" THEN library_generation + 1
            ELSE library_generation

\* No scan is ahead of Main, and the newest is of the folder it changes to.
ScansFollow ==
  \A scan \in ScansHeld:
    /\ scan.generation <= current
    /\ scan.generation = current => scan.folder = Target
    /\ libraryMain = "admit" /\ scan.generation = library_generation
         => scan.folder = folder

\* A helper is of a published generation.
HelpersPublished ==
  \A scan \in helpers:
    /\ scan.generation <= library_generation
    /\ libraryMain = "switch" => scan.generation < library_generation

\* What the operator sees is of the folder that is left at the next Switch.
SeenFromFolder ==
  /\ index.generation = library_generation
  /\ index.folder \in {None, folder}
  /\ libraryMain = "switch" => index.folder = None
  /\ listed \in {None, folder} /\ cache \subseteq {folder}

\* The inductive invariant of the library.
LibraryInv ==
  /\ LibraryTyped /\ GenerationFollows /\ ScansFollow /\ HelpersPublished
  /\ SeenFromFolder

----------------------------------------------------------------------------
\* Start-up has asked for the first scan and shows nothing yet.
LEMMA LibraryInit ==
  ASSUME FirstFolder \in Folders, None \notin Folders, Library!Init
  PROVE  LibraryInv
<1> USE DEF Library!Init
<1>1. ScansHeld = {scanPending} \ {None}
  BY DEF ScansHeld
<1>2. scanPending = [generation |-> 1, folder |-> FirstFolder]
  BY DEF Library!FirstScan
<1>3. LibraryTyped
  BY <1>1, <1>2 DEF LibraryTyped, Library!Scans
<1>4. GenerationFollows /\ ScansFollow /\ HelpersPublished
  BY <1>1, <1>2 DEF GenerationFollows, ScansFollow, HelpersPublished, Target
<1>5. SeenFromFolder
  BY DEF SeenFromFolder, Library!Scanning
<1> QED
  BY <1>3, <1>4, <1>5 DEF LibraryInv

\* Every step of Main, the worker, a helper or an upload keeps the invariant.
LEMMA LibraryStep ==
  ASSUME None \notin Folders, LibraryInv, [Library!Next]_(Library!vars)
  PROVE  LibraryInv'
<1> USE DEF LibraryInv, LibraryTyped, GenerationFollows, ScansFollow,
            HelpersPublished, SeenFromFolder, Target, ScansHeld, Library!Scans,
            Library!mainState, Library!scanState, Library!rescanState
<1>1. ASSUME NEW f \in Folders, Library!ChooseFolder(f) PROVE LibraryInv'
  BY <1>1 DEF Library!ChooseFolder, Library!Submit
<1>2. CASE Library!Rescan
  BY <1>2 DEF Library!Rescan, Library!Submit
<1>3. CASE Library!Admit
  BY <1>3 DEF Library!Admit, Library!Scanning
<1>4. CASE Library!Switch
  BY <1>4 DEF Library!Switch
<1>5. CASE Library!Poll
  BY <1>5 DEF Library!Poll
<1>6. CASE Library!Take
  BY <1>6 DEF Library!Take
<1>7. CASE Library!Enumerate
  BY <1>7 DEF Library!Enumerate
<1>8. CASE Library!Store
  BY <1>8 DEF Library!Store
<1>9. ASSUME NEW scan \in helpers, Library!Help(scan) PROVE LibraryInv'
  BY <1>9 DEF Library!Help
<1>10. CASE Library!Handler
  BY <1>10 DEF Library!Handler, Library!ReadFolder, Library!ReadGeneration,
               Library!Commit, Library!Answer, Library!Leave
<1>11. CASE Library!LoseRescan
  BY <1>11 DEF Library!LoseRescan
<1>12. CASE UNCHANGED Library!vars
  BY <1>12 DEF Library!vars
<1> QED
  BY <1>1, <1>2, <1>3, <1>4, <1>5, <1>6, <1>7, <1>8, <1>9, <1>10, <1>11, <1>12
  DEF Library!Next, Library!Main, Library!Worker, Library!Helper

----------------------------------------------------------------------------
\* Between two changes index, lists and previews come from the library's folder
\* (admit_library_generation and the generation every late result is compared
\* with), for every set of folders and uploads and any number of scans.
THEOREM LibraryOneFolder ==
  ASSUME FirstFolder \in Folders, None \notin Folders
  PROVE  Library!Spec => []OneFolder
<1>1. Library!Init => LibraryInv
  BY LibraryInit
<1>2. LibraryInv /\ [Library!Next]_(Library!vars) => LibraryInv'
  BY LibraryStep
<1>3. LibraryInv => OneFolder
  BY DEF LibraryInv, SeenFromFolder, OneFolder, Library!OneFolder
<1> QED
  BY <1>1, <1>2, <1>3, PTL DEF Library!Spec
=============================================================================
