--------------------------- MODULE FlightRecorder ---------------------------
(***************************************************************************)
(* The flight recorder (src/src/flight_recorder.rs): Main offers facts to  *)
(* a bounded queue and never waits; a helper thread appends them to the    *)
(* active rotation, seals it by a marker, a file sync, a rename and a      *)
(* directory sync, prunes old rotations and opens the next.  The process   *)
(* and the machine may stop anywhere, and the next session cleans up.      *)
(*                                                                         *)
(* A directory gives for each rotation number the place of its file.       *)
(* directories are those a power loss may leave: the one of the last sync  *)
(* (which on Windows syncs nothing) and each one since.  If the file       *)
(* system keeps no order, a power loss may also mix them, entry by entry.  *)
(***************************************************************************)
EXTENDS Naturals, Sequences, FiniteSetsExt

CONSTANTS
  QueueCapacity,   \* QUEUE_CAPACITY
  Retained,        \* RETAINED_COMPLETED_ROTATIONS
  FileEvents,      \* the events that fit a rotation's byte cap
  DirectorySyncs,  \* sync_directory does something: it does on Unix
  Ordered,         \* directory operations reach the disk in their order
  MaxRotation,     \* bound on the rotation numbers
  MaxEvents,       \* bound on the facts offered in a session
  MaxIoFaults      \* bound on the file operations that fail

Rotations == 1..MaxRotation

Nothing == 0                     \* no rotation, or a receive that timed out
Disconnected == MaxEvents + 1    \* the channel is closed and empty

VARIABLES
  directory, directories,  \* what a read returns, what a power loss leaves
  marker,        \* per rotation: its marker is missing, written or durable
  body,          \* per rotation of this session: its events, and the marker's
                 \* dropped_full
  pc,            \* the helper thread; "off" without a process
  rotation,      \* the active one
  hand,          \* what its last receive gave: an event, Disconnected, Nothing
  queue,
  next_sequence, dropped_full, closing,  \* FlightRecorder; the sender is gone
  mine,          \* history: the rotations this session opened
  sealed,        \* history: the rotations whose seal succeeded
  io_faults

disk     == <<directory, directories, marker, body>>
producer == <<next_sequence, dropped_full, closing>>
vars     == <<disk, pc, rotation, hand, queue, producer, mine, sealed, io_faults>>

Empty == [events |-> {}, dropped |-> 0]

Init ==
  /\ directory = [n \in Rotations |-> "none"] /\ directories = {directory}
  /\ marker = [n \in Rotations |-> "missing"]
  /\ body = [n \in Rotations |-> Empty]
  /\ pc = "off" /\ rotation = Nothing /\ hand = Nothing /\ queue = <<>>
  /\ next_sequence = 1 /\ dropped_full = 0 /\ closing = FALSE
  /\ mine = {} /\ sealed = {} /\ io_faults = 0

----------------------------------------------------------------------------
At(place) == {n \in Rotations : directory[n] = place}

Highest(numbers) == Max(numbers \cup {Nothing})

Unsynced == directories' = directories \cup {directory'}

\* sync_directory, after which a power loss leaves the directory as it is; on
\* Windows it answers without a sync.
Synced ==
  /\ UNCHANGED directory
  /\ IF DirectorySyncs THEN directories' = {directory} ELSE UNCHANGED directories

Fault == io_faults < MaxIoFaults /\ io_faults' = io_faults + 1

\* The newest ones stay, whether their marker is valid or not.
Excess(numbers) ==
  {n \in numbers : Cardinality({m \in numbers : m > n}) >= Retained}

\* retain_latest_completed, oldest first: a file that cannot be removed ends
\* it with those before it gone.  Only a removal is followed by a sync.
RetainLatest(synced, then, failed) ==
  LET excess == Excess(At("completed"))
      Without(gone) ==
        directory' = [n \in Rotations |-> IF n \in gone THEN "none" ELSE directory[n]]
  IN \/ excess = {} /\ pc' = then /\ UNCHANGED <<directory, directories, io_faults>>
     \/ excess # {} /\ pc' = synced /\ Without(excess) /\ Unsynced /\ UNCHANGED io_faults
     \/ \E k \in excess :
          /\ Without({n \in excess : n < k}) /\ Unsynced
          /\ Fault /\ pc' = failed

SyncRetained(then) == pc' = then /\ Synced

\* RotationFile::open; create_new refuses a name in use.
OpenRotation(n) ==
  /\ n <= MaxRotation /\ directory[n] # "active"
  /\ rotation' = n /\ mine' = mine \cup {n}
  /\ directory' = [directory EXCEPT ![n] = "active"] /\ Unsynced
  /\ marker' = [marker EXCEPT ![n] = "missing"]
  /\ body' = [body EXCEPT ![n] = Empty]

----------------------------------------------------------------------------
(***************************************************************************)
(* FlightRecorder::start_at, try_record and drop.                          *)
(***************************************************************************)

\* prepare_artifacts: active files are leftovers; one that cannot be removed
\* stays, and the next number is above all of them.
Prepare ==
  /\ pc = "off" /\ pc' = "trim"
  /\ rotation' = Highest(At("active") \cup At("completed")) + 1
  /\ \E left \in SUBSET At("active") :
       /\ IF left = {} THEN UNCHANGED io_faults ELSE Fault
       /\ directory' = [n \in Rotations |->
            IF n \in At("active") \ left THEN "none" ELSE directory[n]]
  /\ Unsynced
  /\ UNCHANGED <<marker, body, hand, queue, producer, mine, sealed>>

Trim ==
  /\ \/ pc = "trim" /\ RetainLatest("trimmed", "open", "off")
     \/ pc = "trimmed" /\ SyncRetained("open") /\ UNCHANGED io_faults
  /\ UNCHANGED <<marker, body, rotation, hand, queue, producer, mine, sealed>>

Open ==
  /\ pc = "open" /\ OpenRotation(rotation) /\ pc' = "receive"
  /\ UNCHANGED <<hand, queue, producer, sealed, io_faults>>

StartFails ==
  /\ pc \in {"trim", "trimmed", "open"} /\ Fault /\ pc' = "off"
  /\ UNCHANGED <<disk, rotation, hand, queue, producer, mine, sealed>>

Started == pc \notin {"off", "trim", "trimmed", "open"}

Ended == pc \in {"failed", "done"}

TryRecord ==
  /\ Started /\ ~closing /\ next_sequence <= MaxEvents
  /\ next_sequence' = next_sequence + 1
  /\ CASE Ended -> UNCHANGED <<queue, dropped_full>>
       [] ~Ended /\ Len(queue) < QueueCapacity ->
            queue' = Append(queue, next_sequence) /\ UNCHANGED dropped_full
       [] OTHER -> dropped_full' = dropped_full + 1 /\ UNCHANGED queue
  /\ UNCHANGED <<disk, pc, rotation, hand, closing, mine, sealed, io_faults>>

\* finish: the sender goes first, the join waits for the thread to end.
Finish ==
  /\ Started /\ ~closing /\ closing' = TRUE
  /\ UNCHANGED <<disk, pc, rotation, hand, queue, next_sequence, dropped_full,
                 mine, sealed, io_faults>>

----------------------------------------------------------------------------
(***************************************************************************)
(* writer_loop.                                                            *)
(***************************************************************************)

\* The event may find the rotation's time over.
Receive ==
  /\ pc = "receive" /\ queue # <<>>
  /\ hand' = Head(queue) /\ queue' = Tail(queue)
  /\ pc' \in {"append", "seal"}
  /\ UNCHANGED <<disk, rotation, producer, mine, sealed, io_faults>>

\* The rotation's time is over, or the channel is empty and disconnected.
Silence ==
  /\ pc = "receive" /\ queue = <<>> /\ pc' = "seal"
  /\ hand' = IF closing THEN Disconnected ELSE Nothing
  /\ UNCHANGED <<disk, rotation, queue, producer, mine, sealed, io_faults>>


CanAppend == Cardinality(body[rotation].events) < FileEvents

AppendEncoded ==
  /\ pc = "append" /\ CanAppend /\ pc' = "receive"
  /\ body' = [body EXCEPT ![rotation].events = @ \cup {hand}]
  /\ hand' = Nothing
  /\ UNCHANGED <<directory, directories, marker, rotation, queue, producer, mine,
                 sealed, io_faults>>

\* RotationFile::seal writes the marker, with the drops so far ...
WriteMarker ==
  /\ pc = "seal" \/ (pc = "append" /\ ~CanAppend)
  /\ pc' = "sync"
  /\ marker' = [marker EXCEPT ![rotation] = "written"]
  /\ body' = [body EXCEPT ![rotation].dropped = dropped_full]
  /\ UNCHANGED <<directory, directories, rotation, hand, queue, producer, mine,
                 sealed, io_faults>>

\* ... syncs the file ...
SyncFile ==
  /\ pc = "sync" /\ pc' = "rename"
  /\ marker' = [marker EXCEPT ![rotation] = "durable"]
  /\ UNCHANGED <<directory, directories, body, rotation, hand, queue, producer,
                 mine, sealed, io_faults>>

\* ... publishes it; an active file that is gone cannot be renamed ...
Rename ==
  /\ pc = "rename" /\ directory[rotation] = "active" /\ pc' = "syncdir"
  /\ directory' = [directory EXCEPT ![rotation] = "completed"] /\ Unsynced
  /\ UNCHANGED <<marker, body, rotation, hand, queue, producer, mine, sealed,
                 io_faults>>

\* As a bug: the rename is taken for durable.
SyncDirectorySkipped ==
  /\ pc = "syncdir" /\ pc' = "retain"
  /\ sealed' = sealed \cup {rotation}
  /\ UNCHANGED <<disk, rotation, hand, queue, producer, mine, io_faults>>

\* ... and makes the name durable.
SyncDirectory ==
  /\ pc = "syncdir" /\ pc' = "retain" /\ Synced
  /\ sealed' = sealed \cup {rotation}
  /\ UNCHANGED <<marker, body, rotation, hand, queue, producer, mine, io_faults>>

Retain ==
  /\ LET then == IF hand = Disconnected THEN "done" ELSE "reopen"
     IN \/ pc = "retain" /\ RetainLatest("retained", then, "failed")
        \/ pc = "retained" /\ SyncRetained(then) /\ UNCHANGED io_faults
  /\ UNCHANGED <<marker, body, rotation, hand, queue, producer, mine, sealed>>

\* As a bug: the event that made the rotation full goes with it.
ReopenForgets ==
  /\ pc = "reopen" /\ OpenRotation(Highest(At("completed")) + 1)
  /\ pc' = "receive"
  /\ UNCHANGED <<hand, queue, producer, sealed, io_faults>>

Reopen ==
  /\ pc = "reopen" /\ OpenRotation(Highest(At("completed")) + 1)
  /\ pc' = IF hand = Nothing THEN "receive" ELSE "append"
  /\ UNCHANGED <<hand, queue, producer, sealed, io_faults>>

\* An error ends the thread and with it the receiver; nobody is told.
WorkerFails ==
  /\ pc \in {"append", "seal", "sync", "rename", "syncdir", "retain",
             "retained", "reopen"}
  /\ Fault /\ pc' = "failed" /\ queue' = <<>> /\ hand' = Nothing
  /\ UNCHANGED <<disk, rotation, producer, mine, sealed>>

Worker ==
  \/ Receive \/ Silence \/ AppendEncoded \/ WriteMarker \/ SyncFile \/ Rename
  \/ SyncDirectory \/ Retain \/ Reopen

----------------------------------------------------------------------------
Gone ==
  /\ pc # "off" /\ pc' = "off" /\ rotation' = Nothing /\ hand' = Nothing
  /\ queue' = <<>> /\ next_sequence' = 1 /\ dropped_full' = 0
  /\ closing' = FALSE /\ mine' = {}
  /\ body' = [n \in Rotations |-> Empty]
  /\ UNCHANGED io_faults

\* The process ends, by itself or by force.
Killed == Gone /\ UNCHANGED <<directory, directories, marker, sealed>>

Leftovers ==
  IF Ordered THEN directories
  ELSE {d \in [Rotations -> {"none", "active", "completed"}] :
          \A n \in Rotations : \E e \in directories : d[n] = e[n]}

\* Where directories are synced and their operations keep their order, a power
\* loss takes back nothing that was synced.
NamesLast == DirectorySyncs /\ Ordered

\* The machine stops; where names do not last, the history starts again.
PowerLost ==
  /\ Gone
  /\ directory' \in Leftovers /\ directories' = {directory'}
  /\ sealed' = IF NamesLast THEN sealed ELSE {}
  /\ marker' \in [Rotations -> {"missing", "durable"}]
  /\ \A n \in Rotations : marker[n] # "written" => marker'[n] = marker[n]

Next ==
  \/ Prepare \/ Trim \/ Open \/ StartFails
  \/ TryRecord \/ Finish
  \/ Worker \/ WorkerFails
  \/ Killed \/ PowerLost

Spec == Init /\ [][Next]_vars

----------------------------------------------------------------------------
Readable(d) == {n \in Rotations : d[n] = "completed" /\ marker[n] = "durable"}

\* A forced termination can damage only the active rotation: however often the
\* process ends, a rotation that was sealed stays readable, until as many newer
\* ones as are retained are readable in its place; and so after a power loss,
\* where names last.
SealedSurvive ==
  \A d \in IF NamesLast THEN directories ELSE {directory} :
  \A n \in sealed \ Readable(d) :
    Cardinality({m \in Readable(d) : m > n}) >= Retained

\* The facts 1 .. k this session has in no rotation up to n.
Missing(k, n) ==
  (1..k) \ UNION {body[m].events : m \in {m \in mine : m <= n}}

\* Queue pressure is explicit evidence: where a sealed rotation lacks a fact
\* offered before its last one, its marker has counted it as dropped; and after
\* a finish that went well every fact of the session is sealed or counted.
GapsAreCounted ==
  \A n \in mine \cap sealed :
    LET all == pc = "done" /\ n = rotation
        last == IF all THEN next_sequence - 1 ELSE Highest(body[n].events)
    IN Cardinality(Missing(last, n)) <= body[n].dropped
=============================================================================
