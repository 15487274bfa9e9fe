------------------------ MODULE PreparedTransactions ------------------------
(***************************************************************************)
(* Performance preparation (performance_runtime.rs) with the editor's      *)
(* staging lane on top of it (main.rs).                                    *)
(*                                                                         *)
(* Main asks for one transaction at a time: a whole scene or one clip slot *)
(* of a layer.  Two workers behind a newest-only mailbox open its sources, *)
(* taking one lease of the prepared-source ledger for each, and leave the  *)
(* result in a single completion slot.  Once a frame Main polls that slot, *)
(* uploads the transaction to the GPU, keeps it in a recency-ordered cache *)
(* and, when it is armed and due, commits it onto the live layers.  A      *)
(* newer request, a cancel or a cleared lane supersedes what is running:   *)
(* the workers find out by comparing their generation with the mailbox's.  *)
(*                                                                         *)
(* A generation 0 stands for None.  Media bytes are charged beside the     *)
(* source count under the same lock and with the same outcome, a refused   *)
(* lease: the refusal for want of bytes is one of the causes of            *)
(* PrepareFails.  Submit and Cancel are atomic: a worker only reads        *)
(* `latest' between their steps, and reading it late is reading it before  *)
(* the call.                                                               *)
(***************************************************************************)
EXTENDS Naturals, Sequences, FiniteSets, FiniteSetsExt, SequencesExt

CONSTANTS
  Slots,          \* keys of one-source transactions (a layer's clip slot)
  Scenes,         \* keys of whole-scene transactions
  SceneSize,      \* sources a scene replaces
  NoKey,          \* the absent key
  Workers,        \* the staging workers, two in the program
  MaxSources,     \* max_prepared_sources of the host budget
  MaxGeneration   \* bound of the model: submissions and cancels in all

Keys == Slots \cup Scenes

ASSUME KeysAssumption == NoKey \notin Keys
ASSUME BoundsAssumption == /\ SceneSize \in Nat \ {0}
                           /\ MaxSources \in Nat
                           /\ MaxGeneration \in Nat

VARIABLES
  nextGen,      \* PerformancePreparationRuntime.next_generation
  pendingGen,   \* ... .pending_generation
  ready,        \* the answer in ... .ready that Main has not taken yet
  latest,       \* JobMailbox.latest_generation
  pending,      \* JobMailbox.pending: the generation and key of the job
  stopped,      \* JobMailbox.stopped
  completion,   \* the completion slot shared by the workers
  worker,       \* each worker's place, its job and the leases it holds
  staging,      \* App.performance_staging
  cache,        \* App.performance_gpu_cache, oldest first
  scheduled     \* App.performance_scheduled

mailbox == <<latest, pending, stopped>>
runtime == <<nextGen, pendingGen, ready>>
lane == <<staging, cache, scheduled>>
vars == <<nextGen, pendingGen, ready, latest, pending, stopped,
          completion, worker, staging, cache, scheduled>>

Job == [gen : 0 .. MaxGeneration, key : Keys \cup {NoKey}]
Intent == [gen : 0 .. MaxGeneration, key : Keys \cup {NoKey}, arm : BOOLEAN]
Completion == [gen : 0 .. MaxGeneration, key : Keys \cup {NoKey}, ok : BOOLEAN]
WorkerState ==
  [pc : {"idle", "prepare", "admit", "prepared", "failed",
         "storePrepared", "storeFailed", "ended"},
   gen : 0 .. MaxGeneration, key : Keys \cup {NoKey}, held : Nat]

NoJob == [gen |-> 0, key |-> NoKey]
NoIntent == [gen |-> 0, key |-> NoKey, arm |-> FALSE]
NoCompletion == [gen |-> 0, key |-> NoKey, ok |-> FALSE]
Idle == [pc |-> "idle", gen |-> 0, key |-> NoKey, held |-> 0]

Init ==
  /\ nextGen = 0 /\ pendingGen = 0 /\ ready = NoJob
  /\ latest = 0 /\ pending = NoJob /\ stopped = FALSE
  /\ completion = NoCompletion
  /\ worker = [w \in Workers |-> Idle]
  /\ staging = NoIntent /\ cache = <<>> /\ scheduled = NoKey

-----------------------------------------------------------------------------
(* The ledger: one lease per prepared source, wherever the source is.      *)

Size(key) == IF key \in Scenes THEN SceneSize ELSE 1

LeasesOf(keys) ==
  Cardinality(keys \cap Slots) + SceneSize * Cardinality(keys \cap Scenes)

SourceCount ==
  MapThenSumSet(LAMBDA w : worker[w].held, Workers)
  + (IF completion.ok THEN Size(completion.key) ELSE 0)
  + (IF ready # NoJob THEN Size(ready.key) ELSE 0)
  + LeasesOf(ToSet(cache))

-----------------------------------------------------------------------------
(* The workers.                                                            *)

\* As a bug: asks whether the job is still the mailbox's pending one.
IsCurrentByPending(gen) == ~stopped /\ pending.gen = gen

IsCurrent(gen) == ~stopped /\ latest = gen

Take(w) ==
  /\ worker[w].pc = "idle"
  /\ ~stopped /\ pending # NoJob
  /\ worker' = [worker EXCEPT ![w] = [pc |-> "prepare", gen |-> pending.gen,
                                      key |-> pending.key, held |-> 0]]
  /\ pending' = NoJob
  /\ UNCHANGED <<latest, stopped, runtime, completion, lane>>

\* mailbox.take() returns None and the thread ends.
TakeStopped(w) ==
  /\ worker[w].pc = "idle" /\ stopped
  /\ worker' = [worker EXCEPT ![w].pc = "ended"]
  /\ UNCHANGED <<mailbox, runtime, completion, lane>>

\* The source opened and the generation was current when it did.
PrepareSource(w) ==
  /\ worker[w].pc = "prepare" /\ IsCurrent(worker[w].gen)
  /\ worker' = [worker EXCEPT ![w].pc = "admit"]
  /\ UNCHANGED <<mailbox, runtime, completion, lane>>

\* An Err drops the sources prepared so far, and their leases with them.
Failed(job) == [pc |-> "failed", gen |-> job.gen, key |-> job.key, held |-> 0]

\* An open that fails or panics, or a lease refused for want of bytes.
PrepareFails(w) ==
  /\ worker[w].pc \in {"prepare", "admit"}
  /\ worker' = [worker EXCEPT ![w] = Failed(@)]
  /\ UNCHANGED <<mailbox, runtime, completion, lane>>

\* As a bug: only an open under way notices, a finished one does not.
SupersededEarly(w) ==
  /\ worker[w].pc = "prepare"
  /\ ~IsCurrent(worker[w].gen)
  /\ worker' = [worker EXCEPT ![w] = Idle]
  /\ UNCHANGED <<mailbox, runtime, completion, lane>>

Superseded(w) ==
  /\ worker[w].pc \in {"prepare", "prepared", "failed"}
  /\ ~IsCurrent(worker[w].gen)
  /\ worker' = [worker EXCEPT ![w] = Idle]
  /\ UNCHANGED <<mailbox, runtime, completion, lane>>

\* admit_prepared_source: the count before the lease is below the budget.
Admitted(count) == count < MaxSources

\* One more source with its lease: the last one completes the transaction.
Leased(job) ==
  [pc |-> IF job.held + 1 = Size(job.key) THEN "prepared" ELSE "prepare",
   gen |-> job.gen, key |-> job.key, held |-> job.held + 1]

\* ledger.acquire: the generation is not looked at again.
Acquire(w) ==
  /\ worker[w].pc = "admit"
  /\ worker' = [worker EXCEPT ![w] = IF Admitted(SourceCount) THEN Leased(@)
                                     ELSE Failed(@)]
  /\ UNCHANGED <<mailbox, runtime, completion, lane>>

\* The last look at the generation, before the completion lock.
StillCurrent(w) ==
  /\ worker[w].pc \in {"prepared", "failed"}
  /\ IsCurrent(worker[w].gen)
  /\ worker' = [worker EXCEPT ![w].pc = IF @ = "prepared" THEN "storePrepared"
                                        ELSE "storeFailed"]
  /\ UNCHANGED <<mailbox, runtime, completion, lane>>

\* The result replaces whatever the slot holds.
Store(w) ==
  /\ worker[w].pc \in {"storePrepared", "storeFailed"}
  /\ completion' = [gen |-> worker[w].gen, key |-> worker[w].key,
                    ok |-> worker[w].pc = "storePrepared"]
  /\ worker' = [worker EXCEPT ![w] = Idle]
  /\ UNCHANGED <<mailbox, runtime, lane>>

WorkerStep(w) ==
  \/ Take(w) \/ TakeStopped(w) \/ PrepareSource(w) \/ PrepareFails(w)
  \/ Superseded(w) \/ Acquire(w) \/ StillCurrent(w) \/ Store(w)

-----------------------------------------------------------------------------
(* Main: the recency-ordered GPU cache.                                    *)

Without(seq, keys) == SelectSeq(seq, LAMBDA k : k \notin keys)

\* The n oldest entries that are not protected from eviction.
OldestUnarmed(seq, protected, n) ==
  {seq[i] : i \in {j \in DOMAIN seq :
                     /\ seq[j] \notin protected
                     /\ Cardinality({h \in 1 .. j : seq[h] \notin protected}) <= n}}

\* evict_oldest_unarmed_performance called until `excess' leases are free or
\* nothing more may go.
Evicted(seq, protected, excess) ==
  LET chain == {OldestUnarmed(seq, protected, n) : n \in 0 .. Len(seq)}
      enough == {E \in chain : LeasesOf(E) >= excess}
  IN IF enough = {} THEN UNION chain
     ELSE CHOOSE E \in enough : \A F \in enough : E \subseteq F

Excess(count, wanted) ==
  IF count + wanted > MaxSources THEN count + wanted - MaxSources ELSE 0

\* cache_gpu_payload after evict_cached_performance_key.
Cached(seq, protected, key) ==
  LET others == Without(seq, {key})
      excess == Excess(LeasesOf(ToSet(others)), Size(key))
  IN Append(Without(others, Evicted(others, protected, excess)), key)

Unscheduled(key) == IF scheduled = key THEN NoKey ELSE scheduled

-----------------------------------------------------------------------------
(* Main: the runtime's front end and the staging lane.                     *)

\* Main takes a Ready answer in the frame that polled it, before anything
\* else it does: whenever Main may submit or cancel, the runtime's own cache
\* of prepared transactions is empty and has nothing to evict or clear.
MainFree == ready = NoJob /\ ~stopped

\* The newer job replaces what waits, and the flags of the older one rise.
MailboxSubmit(gen, key) ==
  /\ latest' = gen
  /\ pending' = [gen |-> gen, key |-> key]

MailboxCancel(gen) ==
  /\ latest' = gen
  /\ pending' = NoJob

RuntimeSubmit(key) ==
  /\ nextGen' = nextGen + 1
  /\ pendingGen' = nextGen + 1
  /\ MailboxSubmit(nextGen + 1, key)

\* submit_performance_request_owned and runtime.submit.  `expected' is the
\* scene the Autopilot expects next, which eviction spares like the armed one.
Submit(key, arm, expected) ==
  LET armed == Unscheduled(key)
      others == Without(cache, {key})
      freed == LeasesOf(ToSet(cache)) - LeasesOf(ToSet(others))
      excess == Excess(SourceCount - freed, Size(key))
      victims == Evicted(others, {armed, expected}, excess)
  IN /\ MainFree
     /\ nextGen < MaxGeneration
     /\ cache' = Without(others, victims)
     /\ scheduled' = armed
     /\ IF LeasesOf(victims) >= excess
        THEN /\ RuntimeSubmit(key)
             /\ staging' = [gen |-> nextGen + 1, key |-> key, arm |-> arm]
        ELSE UNCHANGED <<nextGen, pendingGen, latest, pending, staging>>
     /\ UNCHANGED <<ready, stopped, completion, worker>>

\* cancel_pending, which also forgets a completion nobody polled yet.
CancelPending ==
  /\ nextGen < MaxGeneration
  /\ nextGen' = nextGen + 1
  /\ pendingGen' = 0
  /\ MailboxCancel(nextGen + 1)
  /\ completion' = NoCompletion

\* clear_performance_transactions, and Autopilot Play taking the lane.
ClearTransactions ==
  /\ MainFree
  /\ CancelPending
  /\ cache' = <<>>
  /\ staging' = NoIntent /\ scheduled' = NoKey
  /\ UNCHANGED <<ready, stopped, worker>>

\* cancel_autopilot_owned_epoch: the cache and what is armed stay.
CancelOwned ==
  /\ MainFree
  /\ staging # NoIntent
  /\ CancelPending
  /\ staging' = NoIntent
  /\ UNCHANGED <<ready, stopped, worker, cache, scheduled>>

\* As a bug: the request is cancelled under an intent that stays.
InvalidateSceneKeepsIntent(key) ==
  /\ MainFree
  /\ cache' = Without(cache, {key})
  /\ scheduled' = Unscheduled(key)
  /\ IF staging.key = key
     THEN CancelPending
     ELSE UNCHANGED <<nextGen, pendingGen, latest, pending, completion>>
  /\ UNCHANGED <<ready, stopped, worker, staging>>

\* invalidate_prepared_scene
InvalidateScene(key) ==
  /\ MainFree
  /\ cache' = Without(cache, {key})
  /\ scheduled' = Unscheduled(key)
  /\ IF staging.key = key
     THEN CancelPending /\ staging' = NoIntent
     ELSE UNCHANGED <<nextGen, pendingGen, latest, pending, completion, staging>>
  /\ UNCHANGED <<ready, stopped, worker>>

\* The answer of a request that is no longer the pending one is dropped.
PollDiscards ==
  /\ MainFree
  /\ completion # NoCompletion
  /\ completion.gen # pendingGen
  /\ completion' = NoCompletion
  /\ UNCHANGED <<mailbox, runtime, worker, lane>>

PollFailed ==
  /\ MainFree
  /\ completion # NoCompletion
  /\ completion.gen = pendingGen /\ ~completion.ok
  /\ completion' = NoCompletion
  /\ pendingGen' = 0
  /\ staging' = NoIntent
  /\ UNCHANGED <<mailbox, nextGen, ready, worker, cache, scheduled>>

\* As a bug: any successful completion is an answer.
PollReadyUnchecked ==
  /\ MainFree
  /\ completion # NoCompletion /\ completion.ok
  /\ completion' = NoCompletion
  /\ pendingGen' = 0
  /\ ready' = [gen |-> completion.gen, key |-> completion.key]
  /\ UNCHANGED <<mailbox, nextGen, worker, lane>>

PollReady ==
  /\ MainFree
  /\ completion # NoCompletion
  /\ completion.gen = pendingGen /\ completion.ok
  /\ completion' = NoCompletion
  /\ pendingGen' = 0
  /\ ready' = [gen |-> completion.gen, key |-> completion.key]
  /\ UNCHANGED <<mailbox, nextGen, worker, lane>>

\* The rest of the frame that saw Ready: take_ready, and for a staged intent
\* the GPU activation, which may fail, and the cache.
TakeReady(activated, expected) ==
  LET owned == staging.gen = ready.gen /\ staging.key = ready.key
      kept == owned /\ activated
  IN /\ ready # NoJob /\ ~stopped
     /\ ready' = NoJob
     /\ staging' = NoIntent
     /\ cache' = IF kept
                 THEN Cached(cache, {Unscheduled(ready.key), expected}, ready.key)
                 ELSE cache
     /\ scheduled' = IF ~kept THEN scheduled
                     ELSE IF staging.arm THEN ready.key
                     ELSE Unscheduled(ready.key)
     /\ UNCHANGED <<mailbox, nextGen, pendingGen, completion, worker>>

\* arm_performance_activation of an entry a user triggers.
Arm(key) ==
  /\ MainFree
  /\ key \in ToSet(cache)
  /\ cache' = Append(Without(cache, {key}), key)
  /\ scheduled' = key
  /\ UNCHANGED <<mailbox, runtime, completion, worker, staging>>

\* The cache without the committed transaction and with what it displaced.
Returned(displaced, expected) ==
  FoldLeft(LAMBDA kept, key : Cached(kept, {expected}, key),
           Without(cache, {scheduled}), displaced)

\* The armed activation is due.  A commit whose targets changed is rejected
\* and dropped; otherwise each source it displaces may inherit the lease of
\* the one that replaced it and come back into the cache as a slot of its own.
Commit(displaced, expected) ==
  /\ MainFree /\ scheduled # NoKey
  /\ scheduled' = NoKey
  /\ IF scheduled \in ToSet(cache)
     THEN /\ Len(displaced) <= Size(scheduled)
          /\ cache' = Returned(displaced, expected)
     ELSE UNCHANGED cache
  /\ UNCHANGED <<mailbox, runtime, completion, worker, staging>>

\* Drop: the editor closes; the workers are stopped and joined.
Stop ==
  /\ MainFree
  /\ stopped' = TRUE
  /\ pending' = NoJob
  /\ UNCHANGED <<latest, runtime, completion, worker, lane>>
-----------------------------------------------------------------------------
Expected == Scenes \cup {NoKey}
Displaced == {d \in UNION {[1 .. n -> Slots] : n \in 0 .. SceneSize} :
                Cardinality(ToSet(d)) = Len(d)}

MainStep ==
  \/ \E key \in Keys, arm \in BOOLEAN, e \in Expected : Submit(key, arm, e)
  \/ ClearTransactions \/ CancelOwned
  \/ \E key \in Scenes : InvalidateScene(key)
  \/ PollDiscards \/ PollFailed \/ PollReady
  \/ \E activated \in BOOLEAN, e \in Expected : TakeReady(activated, e)
  \/ \E key \in Keys : Arm(key)
  \/ \E d \in Displaced, e \in Expected : Commit(d, e)
  \/ Stop

Next == MainStep \/ \E w \in Workers : WorkerStep(w)

Spec == Init /\ [][Next]_vars

\* Every frame polls and finishes what it polled; an open ends, with its
\* first frame, a failure or a superseded request, and the scheduler runs
\* every thread.
FairSpec ==
  /\ Spec
  /\ WF_vars(PollDiscards \/ PollFailed \/ PollReady)
  /\ WF_vars(\E activated \in BOOLEAN, e \in Expected : TakeReady(activated, e))
  /\ \A w \in Workers : WF_vars(WorkerStep(w))

-----------------------------------------------------------------------------
(* Properties.                                                             *)

TypeOK ==
  /\ nextGen \in 0 .. MaxGeneration /\ pendingGen \in 0 .. MaxGeneration
  /\ ready \in Job
  /\ latest \in 0 .. MaxGeneration /\ pending \in Job /\ stopped \in BOOLEAN
  /\ completion \in Completion
  /\ worker \in [Workers -> WorkerState]
  /\ staging \in Intent
  /\ cache \in Seq(Keys) /\ scheduled \in Keys \cup {NoKey}

\* A Ready answer always belongs to the intent Main has staged: the result
\* of a superseded or cancelled request never reaches the GPU cache.
ReadyIsStaged ==
  ready # NoJob => /\ ready.gen = staging.gen
                   /\ ready.key = staging.key
                   /\ ready.gen = nextGen

\* A staged intent waits for the runtime's own pending request or for the
\* answer just polled, never for one that was cancelled under it.
StagedIsAwaited ==
  staging # NoIntent =>
    /\ staging.gen = nextGen
    /\ pendingGen = staging.gen \/ ready.gen = staging.gen

\* The request is in the mailbox, with a worker, or in the completion slot.
InFlight(gen) ==
  \/ pending.gen = gen
  \/ \E w \in Workers : worker[w].gen = gen
  \/ completion.gen = gen

\* The newest request leaves the runtime unanswered in one way only: its
\* result is in the slot and a superseded worker, which looked at its
\* generation before the slot's lock, stores over it.
LostOnlyToOverwrite ==
  [][pendingGen # 0 /\ pendingGen' = pendingGen
     /\ InFlight(pendingGen) /\ ~InFlight(pendingGen)' /\ ~stopped'
       => /\ completion.gen = pendingGen
          /\ completion'.gen \in 1 .. pendingGen - 1]_vars

\* As long as it is not lost that way, the newest request is answered,
\* superseded or cancelled.
NewestAnsweredUnlessLost ==
  \A gen \in 1 .. MaxGeneration :
    pendingGen = gen ~> pendingGen # gen \/ stopped \/ ~InFlight(gen)

\* "newest request did not become ready": the newest request always gets an
\* answer.
NewestAnswered ==
  \A gen \in 1 .. MaxGeneration : pendingGen = gen ~> pendingGen # gen \/ stopped

=============================================================================
