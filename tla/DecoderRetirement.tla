------------------------- MODULE DecoderRetirement -------------------------
(***************************************************************************)
(* The process-wide owner of decoder threads                               *)
(* (src/src/video/retirement.rs): openers on several threads reserve a     *)
(* record, spawn the worker and attach its handle; dropping a decoder only *)
(* marks its record; one reaper thread joins workers that have ended; the  *)
(* shutdown drain waits for all of them, up to a deadline.                 *)
(*                                                                         *)
(* Every action that names the records is one critical section of the      *)
(* supervisor's mutex.  Joins run outside it.  The reaper's timed wait is  *)
(* staying at "scan"; its untimed wait is "idle", left only by a           *)
(* notification.  Fingerprints, generations and ages are left out.         *)
(***************************************************************************)
EXTENDS Integers, FiniteSets

CONSTANTS
  HardCap,     \* DECODER_WORKER_HARD_CAP
  ChurnCap,    \* DECODER_RETIREMENT_CHURN_CAP
  MaxWorkers,  \* bound on the worker identities that are handed out
  MaxRefusals  \* bound on the refusals that are counted

\* SupervisorConfig, as DecoderRetirementSupervisor::new asserts it.
ASSUME RetirementAssumption ==
  /\ HardCap \in Nat /\ ChurnCap \in Nat
  /\ 0 < ChurnCap /\ ChurnCap <= HardCap
  /\ MaxWorkers \in Nat /\ MaxRefusals \in Nat

Workers == 1..MaxWorkers

VARIABLES
  life,       \* of each record; "none" when the worker has no record
  handle,     \* of each record: none, attached, or taken by the reaper
  accepting, nextId,
  count,      \* completed, panicked, refusals
  peak,       \* owned, retiring
  owner,      \* the opener, then the decoder that holds the worker's token
  thread,     \* the worker's thread
  stopped,    \* its cancel flag is raised and its mailbox stopped
  reaper,     \* scan, idle, join
  joining,    \* workers whose handles the reaper holds
  drain       \* none, waiting, completed, expired

state   == <<life, handle, accepting, nextId, count, peak>>
outside == <<owner, thread, stopped>>
vars    == <<state, outside, reaper, joining, drain>>

Init ==
  /\ life = [w \in Workers |-> "none"]
  /\ handle = [w \in Workers |-> "none"]
  /\ accepting = TRUE /\ nextId = 0
  /\ count = [completed |-> 0, panicked |-> 0, refusals |-> 0]
  /\ peak = [owned |-> 0, retiring |-> 0]
  /\ owner = [w \in Workers |-> "none"]
  /\ thread = [w \in Workers |-> "none"]
  /\ stopped = [w \in Workers |-> FALSE]
  /\ reaper = "scan" /\ joining = {} /\ drain = "none"

Retirees == {"retiring", "stuck"}

Records(l)  == {w \in Workers: l[w] # "none"}
Retiring(l) == {w \in Workers: l[w] \in Retirees}

Larger(a, b) == IF a < b THEN b ELSE a

\* update_retirement_peak.
RetirementPeak(l) ==
  [peak EXCEPT !.retiring = Larger(@, Cardinality(Retiring(l)))]

\* Condvar::notify_all, as far as the reaper's untimed wait is concerned.
Notify == reaper' = IF reaper = "idle" THEN "scan" ELSE reaper

----------------------------------------------------------------------------
\* Opening a decoder.

\* Mutant: shutdown does not close admission.
AdmissibleWhileDraining ==
  /\ Cardinality(Records(life)) < HardCap
  /\ Cardinality(Retiring(life)) < ChurnCap

Admissible ==
  /\ accepting
  /\ Cardinality(Records(life)) < HardCap
  /\ Cardinality(Retiring(life)) < ChurnCap

Admit ==
  /\ Admissible /\ nextId < MaxWorkers
  /\ nextId' = nextId + 1
  /\ life' = [life EXCEPT ![nextId'] = "starting"]
  /\ peak' = [peak EXCEPT !.owned = Larger(@, Cardinality(Records(life')))]
  /\ owner' = [owner EXCEPT ![nextId'] = "reserved"]
  /\ Notify
  /\ UNCHANGED <<handle, accepting, count, thread, stopped, joining, drain>>

Refuse ==
  /\ ~Admissible /\ count.refusals < MaxRefusals
  /\ count' = [count EXCEPT !.refusals = @ + 1]
  /\ UNCHANGED <<life, handle, accepting, nextId, peak, outside, reaper,
                 joining, drain>>

Spawn(w) ==
  /\ owner[w] = "reserved"
  /\ owner' = [owner EXCEPT ![w] = "spawned"]
  /\ thread' = [thread EXCEPT ![w] = "running"]
  /\ UNCHANGED <<state, stopped, reaper, joining, drain>>

\* The thread could not be spawned: the reservation is given back.
Abandon(w) ==
  /\ owner[w] = "reserved"
  /\ owner' = [owner EXCEPT ![w] = "gone"]
  /\ life' = [life EXCEPT ![w] = "none"]
  /\ Notify
  /\ UNCHANGED <<handle, accepting, nextId, count, peak, thread, stopped,
                 joining, drain>>

Attach(w) ==
  /\ owner[w] = "spawned"
  /\ owner' = [owner EXCEPT ![w] = "holding"]
  /\ handle' = [handle EXCEPT ![w] = "attached"]
  /\ life' = [life EXCEPT ![w] = IF @ = "starting" THEN "active" ELSE @]
  /\ Notify
  /\ UNCHANGED <<accepting, nextId, count, peak, thread, stopped, joining,
                 drain>>

\* retire_worker, when an open fails or a decoder is dropped.  A drain may
\* have reaped the record before.
RetireReaped(w) ==
  /\ owner[w] = "holding" /\ life[w] = "none"
  /\ owner' = [owner EXCEPT ![w] = "gone"]
  /\ UNCHANGED <<state, thread, stopped, reaper, joining, drain>>

Retired(l, w) ==
  [l EXCEPT ![w] = IF @ \in {"starting", "active"} THEN "retiring" ELSE @]

\* Mutant: the reaper is not woken.
RetireQuietly(w) ==
  /\ owner[w] = "holding" /\ life[w] # "none"
  /\ owner' = [owner EXCEPT ![w] = "gone"]
  /\ stopped' = [stopped EXCEPT ![w] = TRUE]
  /\ life' = Retired(life, w)
  /\ peak' = RetirementPeak(life')
  /\ UNCHANGED <<handle, accepting, nextId, count, thread, reaper, joining,
                 drain>>

Retire(w) ==
  /\ owner[w] = "holding" /\ life[w] # "none"
  /\ owner' = [owner EXCEPT ![w] = "gone"]
  /\ stopped' = [stopped EXCEPT ![w] = TRUE]
  /\ life' = Retired(life, w)
  /\ peak' = RetirementPeak(life')
  /\ Notify
  /\ UNCHANGED <<handle, accepting, nextId, count, thread, joining, drain>>

\* The worker's thread ends: it was stopped, could not open its source, or
\* panicked.  Nobody is notified of it.
ThreadEnds(w) ==
  /\ thread[w] = "running"
  /\ thread' = [thread EXCEPT ![w] = "ended"]
  /\ UNCHANGED <<state, owner, stopped, reaper, joining, drain>>

----------------------------------------------------------------------------
\* The reaper.

Ready ==
  {w \in Retiring(life): handle[w] = "attached" /\ thread[w] = "ended"}

Take ==
  /\ reaper = "scan" /\ Ready # {}
  /\ reaper' = "join"
  /\ joining' = Ready
  /\ handle' = [w \in Workers |-> IF w \in Ready THEN "taken" ELSE handle[w]]
  /\ UNCHANGED <<life, accepting, nextId, count, peak, outside, drain>>

Sleep ==
  /\ reaper = "scan" /\ Ready = {} /\ Retiring(life) = {}
  /\ reaper' = "idle"
  /\ UNCHANGED <<state, outside, joining, drain>>

First(w, S) == w \in S /\ \A v \in S: w <= v

\* Mutant: the first join removes the records of the whole batch.
JoinForgetsBatch(w, panicked) ==
  /\ reaper = "join" /\ First(w, joining)
  /\ joining' = joining \ {w}
  /\ life' = [v \in Workers |-> IF v \in joining THEN "none" ELSE life[v]]
  /\ handle' = [handle EXCEPT ![w] = "none"]
  /\ thread' = [thread EXCEPT ![w] = "joined"]
  /\ count' = [count EXCEPT !.completed = @ + 1,
                            !.panicked = @ + (IF panicked THEN 1 ELSE 0)]
  /\ UNCHANGED <<accepting, nextId, peak, owner, stopped, reaper, drain>>

\* The handles are joined one by one, each outside the lock; then its record
\* is removed and the drain notified.
Join(w, panicked) ==
  /\ reaper = "join" /\ First(w, joining)
  /\ joining' = joining \ {w}
  /\ life' = [life EXCEPT ![w] = "none"]
  /\ handle' = [handle EXCEPT ![w] = "none"]
  /\ thread' = [thread EXCEPT ![w] = "joined"]
  /\ count' = [count EXCEPT !.completed = @ + 1,
                            !.panicked = @ + (IF panicked THEN 1 ELSE 0)]
  /\ UNCHANGED <<accepting, nextId, peak, owner, stopped, reaper, drain>>

Rescan ==
  /\ reaper = "join" /\ joining = {}
  /\ reaper' = "scan"
  /\ UNCHANGED <<state, outside, joining, drain>>

----------------------------------------------------------------------------
\* drain_with_deadline, at shutdown and again from the atexit handler.

\* Mutant: workers that are still starting are left alone.
DrainBeginActiveOnly ==
  /\ drain # "waiting"
  /\ drain' = "waiting"
  /\ accepting' = FALSE
  /\ stopped' = [w \in Workers |-> stopped[w] \/ life[w] = "active"]
  /\ life' = [w \in Workers |-> IF life[w] = "active" THEN "retiring"
                                                       ELSE life[w]]
  /\ peak' = RetirementPeak(life')
  /\ Notify
  /\ UNCHANGED <<handle, nextId, count, owner, thread, joining>>

DrainBegin ==
  /\ drain # "waiting"
  /\ drain' = "waiting"
  /\ accepting' = FALSE
  /\ stopped' = [w \in Workers |-> stopped[w] \/ life[w] # "none"]
  /\ life' = [w \in Workers |-> IF life[w] \in {"starting", "active"}
                                THEN "retiring" ELSE life[w]]
  /\ peak' = RetirementPeak(life')
  /\ Notify
  /\ UNCHANGED <<handle, nextId, count, owner, thread, joining>>

DrainCompletes ==
  /\ drain = "waiting" /\ Records(life) = {}
  /\ drain' = "completed"
  /\ UNCHANGED <<state, outside, reaper, joining>>

\* Every record left becomes stuck.
DrainExpires ==
  /\ drain = "waiting" /\ Records(life) # {}
  /\ drain' = "expired"
  /\ life' = [w \in Workers |-> IF life[w] = "none" THEN "none" ELSE "stuck"]
  /\ peak' = RetirementPeak(life')
  /\ UNCHANGED <<handle, accepting, nextId, count, outside, reaper, joining>>

----------------------------------------------------------------------------
\* snapshot_locked.
Stuck == {w \in Workers: life[w] = "stuck"}

Health ==
  IF Stuck # {} THEN "stuck"
  ELSE IF \/ ~accepting
          \/ Cardinality(Records(life)) >= HardCap
          \/ Cardinality(Retiring(life)) >= ChurnCap
       THEN "saturated" ELSE "healthy"

----------------------------------------------------------------------------
OpenerStep(w) == Spawn(w) \/ Abandon(w) \/ Attach(w)

TokenDropped(w) == RetireReaped(w) \/ Retire(w)

ReaperStep ==
  \/ Take \/ Sleep \/ Rescan
  \/ \E w \in Workers, panicked \in BOOLEAN: Join(w, panicked)

DrainEnds == DrainCompletes \/ DrainExpires

Next ==
  \/ Admit \/ Refuse
  \/ \E w \in Workers: OpenerStep(w) \/ TokenDropped(w) \/ ThreadEnds(w)
  \/ ReaperStep
  \/ DrainBegin \/ DrainEnds

Spec == Init /\ [][Next]_vars

\* The reaper thread runs, a thread that has begun to open goes on, and the
\* drain's deadline passes.  A worker's thread may hang in a codec for ever and
\* a decoder may be held for ever.
FairSpec ==
  Spec /\ WF_vars(ReaperStep) /\ WF_vars(DrainEnds)
       /\ \A w \in Workers: WF_vars(OpenerStep(w))

\* A worker that was stopped ends (StoppedWorkerExits in ThreadedDecoder).
StoppedThreadsEnd == \A w \in Workers: WF_vars(stopped[w] /\ ThreadEnds(w))

----------------------------------------------------------------------------
\* Every variable stays in its type; the peaks stay below the cap.
TypeOK ==
  /\ life \in [Workers -> {"none", "starting", "active", "retiring", "stuck"}]
  /\ handle \in [Workers -> {"none", "attached", "taken"}]
  /\ accepting \in BOOLEAN /\ nextId \in 0..MaxWorkers
  /\ count \in [completed: Nat, panicked: Nat, refusals: 0..MaxRefusals]
  /\ peak \in [owned: 0..HardCap, retiring: 0..HardCap]
  /\ owner \in [Workers -> {"none", "reserved", "spawned", "holding", "gone"}]
  /\ thread \in [Workers -> {"none", "running", "ended", "joined"}]
  /\ stopped \in [Workers -> BOOLEAN]
  /\ reaper \in {"scan", "idle", "join"}
  /\ joining \in SUBSET Workers
  /\ drain \in {"none", "waiting", "completed", "expired"}

\* The process never owns more decoder threads than the hard cap, stuck ones
\* and reservations included, and every spawned thread that was not joined is
\* owned: a stuck codec cannot make process handles grow (the constant's doc).
Unjoined == {w \in Workers: thread[w] \in {"running", "ended"}}

ThreadsBounded ==
  /\ Unjoined \subseteq Records(life)
  /\ Cardinality(Records(life)) <= HardCap

\* What attach and abandon assert: until the handle is attached, the
\* reservation keeps its record and nobody else has put a handle in it, also
\* when a shutdown drain retires it in between.
ReservationKept ==
  \A w \in Workers: owner[w] \in {"reserved", "spawned"} =>
    life[w] # "none" /\ handle[w] = "none"

\* A drain that reports completion is final: no decoder thread runs or will
\* ever run again, so the process may exit (drain_decoder_retirements_at_exit).
CompletedDrainIsFinal ==
  drain = "completed" => Unjoined = {} /\ ~accepting /\ Records(life) = {}

\* From the shutdown drain on, every worker is cancelled and on its way out, a
\* worker whose open was under way included.
DrainReachesEveryWorker ==
  ~accepting => \A w \in Records(life): stopped[w] /\ life[w] \in Retirees

\* The health that is published agrees with what the next open will meet.
HealthTellsAdmission == (Health = "healthy") <=> Admissible

\* Joins never wait for a running thread, and a worker is joined at most once
\* ("it joins only handles which already report is_finished()").
JoinsNeverBlock ==
  \A w \in joining: thread[w] = "ended" /\ handle[w] = "taken"

\* A retired worker whose thread has ended is joined and its record removed,
\* although nothing tells the reaper that a thread ended and also after a drain
\* gave it up as stuck.
EndedRetireeReaped ==
  \A w \in Workers:
    (life[w] \in Retirees /\ handle[w] = "attached" /\ thread[w] = "ended")
      ~> life[w] = "none"

\* If stopped workers end, a drain leaves nothing behind, whatever was being
\* opened when it began and however early its deadline passed.
DrainLeavesNothing ==
  StoppedThreadsEnd => (~accepting ~> Records(life) = {})
=============================================================================
