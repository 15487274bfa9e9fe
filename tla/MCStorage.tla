----------------------------- MODULE MCStorage -----------------------------
(***************************************************************************)
(* The three places where the program keeps something over a stop of the   *)
(* process or of the machine: the proxy cache, the recovery journal and    *)
(* the flight recorder's rotations.  They share no state, so each          *)
(* behaviour runs one of them (part) and leaves the others where they      *)
(* start.                                                                  *)
(***************************************************************************)
EXTENDS ProxyCache

CONSTANTS MaxEntries, MaxRequests, MaxJournalFaults,      \* RecoveryWriter
          DirectorySyncs, None, Torn,
          QueueCapacity, Retained, FileEvents, Ordered,   \* FlightRecorder
          MaxRotation, MaxEvents, MaxIoFaults

VARIABLES
  part,
  file, tails, olds, scan, next_record, wpc, in_flight, pending, accepting,
  shutdown, durable, error, stopped, flush, issued, outcome, acknowledged,
  forgotten, journal_faults,
  directory, directories, marker, body, pc, rotation, hand, queue,
  next_sequence, dropped_full, closing, mine, sealed, io_faults

journalVars ==
  <<file, tails, olds, scan, next_record, wpc, in_flight, pending, accepting,
    shutdown, durable, error, stopped, flush, issued, outcome, acknowledged,
    forgotten, journal_faults>>

flightVars ==
  <<directory, directories, marker, body, pc, rotation, hand, queue,
    next_sequence, dropped_full, closing, mine, sealed, io_faults>>

Journal == INSTANCE RecoveryWriter
             WITH next_sequence <- next_record, promised <- acknowledged,
                  faults <- journal_faults, MaxFaults <- MaxJournalFaults

Flight == INSTANCE FlightRecorder

\* What RecoveryJournal::scan finds in a journal, as its contract names it.
Found(f) ==
  LET latest == Journal!Scan(f).latest IN IF latest = None THEN 0 ELSE latest.id

Erasing == {"discard", "emptied", "discarded"}

Recoverable == {Found(f): f \in Journal!Survivors}
WritingNow  == IF wpc \in Journal!Busy \ Erasing THEN {in_flight} ELSE {}
ErasingNow  == IF wpc \in Erasing THEN {in_flight} ELSE {}

Contract == INSTANCE DurableCheckpoint
              WITH Numbers <- Journal!Ids, recoverable <- Recoverable,
                   writing <- WritingNow, erasing <- ErasingNow,
                   kept <- acknowledged, gone <- forgotten

mcvars == <<part, vars, journalVars, flightVars>>

MCInit ==
  /\ part \in {"proxy", "journal", "flight"}
  /\ Init /\ Journal!Init /\ Flight!Init

RunProxy ==
  part = "proxy" /\ Next /\ UNCHANGED <<part, journalVars, flightVars>>

RunJournal(step) ==
  part = "journal" /\ step /\ UNCHANGED <<part, vars, flightVars>>

RunFlight ==
  part = "flight" /\ Flight!Next /\ UNCHANGED <<part, vars, journalVars>>

MCNext == RunProxy \/ RunJournal(Journal!Next) \/ RunFlight

\* The journal's writer runs; of the others only safety is asked.
MCSpec ==
  MCInit /\ [][MCNext]_mcvars /\ WF_mcvars(RunJournal(Journal!WorkerStep))

----------------------------------------------------------------------------
\* An acknowledged checkpoint is never lost (RecoveryWriter).
AcknowledgedSurvives == Journal!AcknowledgedSurvives

\* The journal is a durable register: it implements DurableCheckpoint, through
\* failed writes, torn records, compactions, discards, panics, kills and power
\* losses (RecoveryWriter).
CheckpointSpec == Contract!Spec

\* Every accepted request is settled (RecoveryWriter).
RequestsSettled == Journal!RequestsSettled

\* A sealed rotation outlives every stop (FlightRecorder).
SealedSurvive == Flight!SealedSurvive

\* A fact that is missing was counted as dropped (FlightRecorder).
GapsAreCounted == Flight!GapsAreCounted
=============================================================================
