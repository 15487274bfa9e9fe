--------------------------- MODULE RecoveryWriter ---------------------------
(***************************************************************************)
(* The recovery writer and its journal (src/src/recovery_journal.rs): the  *)
(* event loop puts the newest request into one pending slot, one worker    *)
(* appends it to the journal or replaces the journal by it, and only a     *)
(* checkpoint that was synced and read back is acknowledged.  The process  *)
(* may be killed, or lose power, between any two steps; in the second case *)
(* the disk keeps what the syncs so far allow.                             *)
(*                                                                         *)
(* A checkpoint is the number of its request.  A successful sync of a file *)
(* makes everything written to it so far durable.  Byte sizes are left     *)
(* out: the limit that compacts is the one on entries.                     *)
(***************************************************************************)
EXTENDS Integers, Sequences, FiniteSets

CONSTANTS
  MaxEntries,   \* RecoveryLimits.max_entries
  MaxRequests,  \* bound on the accepted requests
  MaxFaults,    \* bound on the input/output errors and panics
  DirectorySyncs,  \* a directory can be opened and synced; not on Windows,
                   \* where replacing a file writes through instead
  None,         \* an empty slot, a journal without a checkpoint, no file
  Torn          \* a record that is not complete

Ids      == 1..MaxRequests
Records  == [sequence: Nat \ {0}, id: Ids]
Requests == [id: Ids, op: {"checkpoint", "discard"}]
Scans    == [latest: Records \cup {None}, entries: Nat, bad: BOOLEAN]

VARIABLES
  file,                               \* the journal as reads see it
  tails, olds,                        \* what its inode, and the directory,
                                      \* may hold after a crash
  scan, next_sequence,                \* RecoveryJournal
  wpc, in_flight,                     \* the worker
  pending, accepting, shutdown,       \* RecoveryWriterShared
  durable, error, stopped,
  flush,                              \* flush_with_deadline: none, waiting,
                                      \* completed, expired
  issued, outcome,                    \* history: what became of each request
  promised, forgotten,                \* the checkpoint, the discard in force
  faults

disk    == <<file, tails, olds>>
journal == <<scan, next_sequence>>
shared  == <<pending, accepting, shutdown, durable, error, stopped>>
history == <<issued, outcome, promised, forgotten>>
vars    == <<disk, journal, wpc, in_flight, shared, flush, history, faults>>

----------------------------------------------------------------------------
\* scan_bytes: the valid prefix, up to a record that is incomplete, out of
\* order or beyond the limit.
Contents(f) == IF f = None THEN <<>> ELSE f

Readable(c, i) ==
  /\ i <= MaxEntries /\ c[i] # Torn
  /\ i > 1 => c[i-1].sequence < c[i].sequence

ValidPrefix(c) ==
  CHOOSE n \in 0..Len(c):
    /\ \A i \in 1..n: Readable(c, i)
    /\ n < Len(c) => ~Readable(c, n + 1)

Scan(f) ==
  LET c == Contents(f)
      n == ValidPrefix(c)
  IN  [latest |-> IF n = 0 THEN None ELSE c[n], entries |-> n, bad |-> n < Len(c)]

EmptyScan == Scan(<<>>)

After(s) == IF s.latest = None THEN 1 ELSE s.latest.sequence + 1

\* What a crash may leave.
Survivors == tails \cup olds

Init ==
  /\ file = None /\ tails = {None} /\ olds = {}
  /\ scan = EmptyScan /\ next_sequence = 1
  /\ wpc = "opening" /\ in_flight = None
  /\ pending = None /\ accepting = TRUE /\ shutdown = FALSE
  /\ durable = EmptyScan /\ error = FALSE /\ stopped = FALSE
  /\ flush = "none"
  /\ issued = 0 /\ outcome = [i \in Ids |-> "none"]
  /\ promised = 0 /\ forgotten = 0
  /\ faults = 0

Fault == faults < MaxFaults /\ faults' = faults + 1

----------------------------------------------------------------------------
\* The event loop.

\* RecoveryWriter::request: the newest wins the one pending slot.
Request(op) ==
  /\ accepting /\ issued < MaxRequests
  /\ issued' = issued + 1
  /\ pending' = [id |-> issued', op |-> op]
  /\ outcome' = [i \in Ids |->
       IF i = issued' THEN "accepted"
       ELSE IF pending # None /\ i = pending.id THEN "superseded"
       ELSE outcome[i]]
  /\ UNCHANGED <<disk, journal, wpc, in_flight, accepting, shutdown, durable,
                 error, stopped, flush, promised, forgotten, faults>>

Close == accepting' = FALSE /\ shutdown' = TRUE

\* flush_with_deadline, at a clean exit.
FlushBegin ==
  /\ flush = "none" /\ Close
  /\ flush' = "waiting"
  /\ UNCHANGED <<disk, journal, wpc, in_flight, pending, durable, error,
                 stopped, history, faults>>

FlushEnds ==
  /\ flush = "waiting"
  /\ flush' = IF stopped THEN "completed" ELSE "expired"
  /\ UNCHANGED <<disk, journal, wpc, in_flight, shared, history, faults>>

\* The writer is dropped without a flush.
DropWriter ==
  /\ flush = "none" /\ ~shutdown /\ Close
  /\ UNCHANGED <<disk, journal, wpc, in_flight, pending, durable, error,
                 stopped, flush, history, faults>>

----------------------------------------------------------------------------
\* The worker: opening, then one request at a time.

Opened ==
  /\ wpc = "opening"
  /\ wpc' = "idle"
  /\ scan' = Scan(file) /\ next_sequence' = After(scan')
  /\ durable' = scan' /\ error' = scan'.bad
  /\ UNCHANGED <<disk, in_flight, pending, accepting, shutdown, stopped, flush,
                 history, faults>>

\* Mutant: what was pending when the open failed is dropped without a word.
ForgetPending == UNCHANGED outcome

FailPending ==
  outcome' = [i \in Ids |-> IF pending # None /\ i = pending.id
                            THEN "failed" ELSE outcome[i]]

OpenFails ==
  /\ wpc = "opening" /\ Fault
  /\ wpc' = "done" /\ accepting' = FALSE /\ stopped' = TRUE /\ error' = TRUE
  /\ pending' = None /\ FailPending
  /\ UNCHANGED <<disk, journal, in_flight, shutdown, durable, flush, issued,
                 promised, forgotten>>

\* A discard gives up the checkpoint in force as soon as it is under way.
Take ==
  /\ wpc = "idle" /\ pending # None
  /\ wpc' = pending.op
  /\ in_flight' = pending.id /\ pending' = None
  /\ promised' = IF pending.op = "discard" THEN 0 ELSE promised
  /\ forgotten' = IF pending.op = "discard" THEN 0 ELSE forgotten
  /\ UNCHANGED <<disk, journal, accepting, shutdown, durable, error, stopped,
                 flush, issued, outcome, faults>>

\* A shutdown still writes what is pending, then the worker stops.
StopWhenDrained ==
  /\ wpc = "idle" /\ pending = None /\ shutdown
  /\ wpc' = "done" /\ accepting' = FALSE /\ stopped' = TRUE
  /\ UNCHANGED <<disk, journal, in_flight, pending, shutdown, durable, error,
                 flush, history, faults>>

Record == [sequence |-> next_sequence, id |-> in_flight]

Compacts == file = None \/ scan.bad \/ scan.entries >= MaxEntries

\* append_record has written its bytes and not synced them.
AppendRecord ==
  /\ wpc = "checkpoint" /\ ~Compacts
  /\ file' = Append(file, Record)
  /\ tails' = tails \cup {Append(file, Torn), file'}
  /\ wpc' = "written"
  /\ UNCHANGED <<olds, journal, in_flight, shared, flush, history, faults>>

\* Mutant: the file is not synced.
SyncSkipped ==
  /\ wpc = "written"
  /\ wpc' = "placed"
  /\ UNCHANGED <<disk, journal, in_flight, shared, flush, history, faults>>

SyncFile ==
  /\ wpc = "written"
  /\ tails' = {file}
  /\ wpc' = "placed"
  /\ UNCHANGED <<file, olds, journal, in_flight, shared, flush, history, faults>>

\* write_atomic_replacement: a synced temporary file takes the journal's name;
\* the directory may still forget that.  On Windows the move writes through
\* when it replaces a file (MOVEFILE_WRITE_THROUGH), not when it creates one.
Replace(contents) ==
  /\ file' = contents
  /\ tails' = {contents}
  /\ olds' = IF DirectorySyncs \/ file = None THEN olds \cup tails ELSE {}
  /\ wpc' = IF wpc = "discard" THEN "emptied" ELSE "placed"
  /\ UNCHANGED <<journal, in_flight, shared, flush, history, faults>>

ReplaceByCheckpoint ==
  wpc = "checkpoint" /\ Compacts /\ Replace(<<Record>>)

ReplaceByNothing == wpc = "discard" /\ Replace(<<>>)

\* Mutant: the directory is not synced.
SyncDirectorySkipped ==
  /\ wpc \in {"placed", "emptied"}
  /\ wpc' = IF wpc = "placed" THEN "verify" ELSE "discarded"
  /\ UNCHANGED <<disk, journal, in_flight, shared, flush, history, faults>>

\* sync_parent: a directory that cannot be opened is not an error.
SyncDirectory ==
  /\ wpc \in {"placed", "emptied"}
  /\ olds' = IF DirectorySyncs THEN {} ELSE olds
  /\ wpc' = IF wpc = "placed" THEN "verify" ELSE "discarded"
  /\ UNCHANGED <<file, tails, journal, in_flight, shared, flush, history, faults>>

\* The journal is read back, and its latest record must be the one written.
Verified(s) ==
  s.latest # None /\ s.latest.sequence = next_sequence /\ ~s.bad

\* The end of a request that succeeded.
Settle(how) ==
  /\ wpc' = "idle" /\ in_flight' = None
  /\ durable' = scan' /\ error' = FALSE
  /\ outcome' = [outcome EXCEPT ![in_flight] = how]
  /\ UNCHANGED <<disk, pending, accepting, shutdown, stopped, flush, issued,
                 faults>>

Acknowledge ==
  /\ wpc = "verify" /\ Verified(Scan(file))
  /\ scan' = Scan(file) /\ next_sequence' = next_sequence + 1
  /\ Settle("durable")
  /\ promised' = in_flight /\ forgotten' = 0

AcknowledgeDiscard ==
  /\ wpc = "discarded"
  /\ scan' = EmptyScan /\ next_sequence' = 1
  /\ Settle("durable")
  /\ promised' = 0 /\ forgotten' = in_flight

\* The end of a request that failed: the acknowledged scan stays, and the
\* worker will reopen the journal.
Failed ==
  /\ wpc' = "reopen" /\ in_flight' = None
  /\ error' = TRUE
  /\ outcome' = [outcome EXCEPT ![in_flight] = "failed"]
  /\ UNCHANGED <<pending, accepting, shutdown, durable, stopped, flush, issued,
                 promised, forgotten>>

\* The patch does not survive its round trip, a file cannot be opened, created,
\* renamed, synced or read.
OperationFails ==
  /\ wpc \in {"checkpoint", "discard", "written", "placed", "emptied", "verify"}
  /\ Fault /\ Failed
  /\ UNCHANGED <<disk, journal>>

\* A write fails part-way.
AppendFailsTorn ==
  /\ wpc = "checkpoint" /\ ~Compacts /\ Fault /\ Failed
  /\ file' = Append(file, Torn)
  /\ tails' = tails \cup {file'}
  /\ UNCHANGED <<olds, journal>>

\* What was read back is not what was written; the scan of it is kept.
Refuted ==
  /\ wpc = "verify" /\ ~Verified(Scan(file))
  /\ scan' = Scan(file)
  /\ Failed
  /\ UNCHANGED <<disk, next_sequence, faults>>

\* recover_after_failure.
Reopen ==
  /\ wpc = "reopen"
  /\ wpc' = "idle"
  /\ scan' = Scan(file) /\ next_sequence' = After(scan')
  /\ UNCHANGED <<disk, in_flight, shared, flush, history, faults>>

ReopenFails ==
  /\ wpc = "reopen" /\ Fault
  /\ wpc' = "idle"
  /\ UNCHANGED <<disk, journal, in_flight, shared, flush, history>>

\* run_recovery_writer_guarded.
Busy == {"checkpoint", "discard", "written", "placed", "emptied", "verify",
         "discarded"}

WorkerPanics ==
  /\ wpc \in Busy /\ Fault
  /\ wpc' = "done" /\ Close /\ stopped' = TRUE /\ error' = TRUE
  /\ in_flight' = None /\ pending' = None
  /\ outcome' = [i \in Ids |->
       IF i = in_flight \/ (pending # None /\ i = pending.id)
       THEN "failed" ELSE outcome[i]]
  /\ UNCHANGED <<disk, journal, durable, flush, issued, promised, forgotten>>

----------------------------------------------------------------------------
\* The process ends, killed or after its flush, and starts again.  What it had
\* not settled is lost with it.
Restart ==
  /\ scan' = EmptyScan /\ next_sequence' = 1
  /\ wpc' = "opening" /\ in_flight' = None
  /\ pending' = None /\ accepting' = TRUE /\ shutdown' = FALSE
  /\ durable' = EmptyScan /\ error' = FALSE /\ stopped' = FALSE
  /\ flush' = "none"
  /\ outcome' = [i \in Ids |-> IF i <= issued THEN "past" ELSE "none"]
  /\ UNCHANGED <<issued, promised, forgotten, faults>>

Killed == Restart /\ UNCHANGED disk

\* The machine loses power: the disk keeps one of what the syncs allow.
PowerLost ==
  /\ Restart
  /\ \E f \in Survivors: file' = f /\ tails' = {f}
  /\ olds' = {}

WorkerStep ==
  \/ Opened \/ OpenFails \/ Take \/ StopWhenDrained
  \/ AppendRecord \/ SyncFile \/ ReplaceByCheckpoint \/ ReplaceByNothing
  \/ SyncDirectory \/ Acknowledge \/ AcknowledgeDiscard
  \/ OperationFails \/ AppendFailsTorn \/ Refuted \/ Reopen \/ ReopenFails
  \/ WorkerPanics

HostStep ==
  \/ \E op \in {"checkpoint", "discard"}: Request(op)
  \/ FlushBegin \/ FlushEnds \/ DropWriter

Next == WorkerStep \/ HostStep \/ Killed \/ PowerLost

Spec == Init /\ [][Next]_vars

\* The worker thread runs.
FairSpec == Spec /\ WF_vars(WorkerStep)

----------------------------------------------------------------------------
\* Every variable stays in its type.
TypeOK ==
  /\ next_sequence \in Nat \ {0} /\ scan \in Scans /\ durable \in Scans
  /\ file \in Survivors
  /\ wpc \in Busy \cup {"opening", "idle", "reopen", "done"}
  /\ in_flight \in Ids \cup {None} /\ pending \in Requests \cup {None}
  /\ in_flight # None <=> wpc \in Busy
  /\ {accepting, shutdown, error, stopped} \subseteq BOOLEAN
  /\ flush \in {"none", "waiting", "completed", "expired"}
  /\ issued \in 0..MaxRequests /\ promised \in 0..issued /\ forgotten \in 0..issued
  /\ outcome \in [Ids -> {"none", "accepted", "superseded", "durable", "failed",
                          "past"}]
  /\ faults \in 0..MaxFaults

\* An acknowledged checkpoint is never lost: whenever the power fails, a scan
\* finds it or a newer one, until a discard is under way.  "A torn/corrupt tail
\* never invalidates a preceding checkpoint" (src/src/recovery_journal.rs:4).
AcknowledgedSurvives ==
  promised # 0 => \A f \in Survivors:
    Scan(f).latest # None /\ Scan(f).latest.id >= promised

\* A discard "leaves no recoverable checkpoint": once it is acknowledged,
\* nothing older can come back, not after a power loss either.
DiscardForgets ==
  forgotten # 0 => \A f \in Survivors:
    Scan(f).latest # None => Scan(f).latest.id > forgotten

\* Every accepted request is settled: written, discarded, failed or superseded
\* by a newer one; none is left in the slot.
RequestsSettled ==
  \A i \in Ids: outcome[i] = "accepted" ~> outcome[i] # "accepted"
=============================================================================
