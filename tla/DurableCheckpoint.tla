------------------------- MODULE DurableCheckpoint -------------------------
(***************************************************************************)
(* What the recovery journal promises to the event loop                    *)
(* (src/src/recovery_journal.rs), without files, syncs or records: one     *)
(* checkpoint that a restart finds.  While a request is under way either   *)
(* its effect or what was there before may be found; once it is            *)
(* acknowledged its effect and nothing else is, until the next one.        *)
(***************************************************************************)
EXTENDS Naturals

CONSTANT Numbers    \* the requests, in the order they were made

VARIABLES
  recoverable,      \* the checkpoints a restart may find, 0 for none
  writing, erasing, \* the checkpoint, the discard under way, if any
  kept, gone        \* the checkpoint, the discard in force, or 0

vars == <<recoverable, writing, erasing, kept, gone>>

Init ==
  /\ recoverable = {0}
  /\ writing = {} /\ erasing = {}
  /\ kept = 0 /\ gone = 0

\* A request is newer than all that is to be found or in force.
Fresh(n) == \A m \in recoverable \cup {kept, gone}: m < n

Checkpoint(n) ==
  /\ writing = {} /\ erasing = {} /\ Fresh(n)
  /\ writing' = {n}
  /\ UNCHANGED <<recoverable, erasing, kept, gone>>

\* Whoever discards gives up the checkpoint in force.
Discard(n) ==
  /\ writing = {} /\ erasing = {} /\ Fresh(n)
  /\ erasing' = {n}
  /\ kept' = 0 /\ gone' = 0
  /\ UNCHANGED <<recoverable, writing>>

\* What is under way may be found from now on, or is found for certain.
Effect == writing \cup {0 : n \in erasing}

Write ==
  /\ Effect # {}
  /\ recoverable' \in (SUBSET (recoverable \cup Effect)) \ {{}}
  /\ UNCHANGED <<writing, erasing, kept, gone>>

Written ==
  \E n \in writing:
    /\ recoverable' = {n} /\ kept' = n /\ gone' = 0
    /\ writing' = {} /\ UNCHANGED erasing

Erased ==
  \E n \in erasing:
    /\ recoverable' = {0} /\ kept' = 0 /\ gone' = n
    /\ erasing' = {} /\ UNCHANGED writing

\* A request that failed, or whose process died, may have had its effect.
GiveUp ==
  /\ writing' = {} /\ erasing' = {}
  /\ UNCHANGED <<recoverable, kept, gone>>

\* A restart after a power loss finds one of them, and it stays.
Crash ==
  /\ \E c \in recoverable: recoverable' = {c}
  /\ writing' = {} /\ erasing' = {}
  /\ UNCHANGED <<kept, gone>>

Next ==
  \/ \E n \in Numbers: Checkpoint(n) \/ Discard(n)
  \/ Write \/ Written \/ Erased \/ GiveUp \/ Crash

Spec == Init /\ [][Next]_vars

----------------------------------------------------------------------------
\* A restart finds the checkpoint in force or a newer one, and nothing older than
\* the discard in force (RecoveryJournal::checkpoint, RecoveryJournal::discard).
Dependable ==
  /\ kept # 0 => \A c \in recoverable: c >= kept
  /\ gone # 0 => \A c \in recoverable: c = 0 \/ c > gone
=============================================================================
