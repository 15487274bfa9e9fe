--------------------- MODULE PreparedTransactionsProofs ---------------------
(***************************************************************************)
(* What the preparation runtime and the staging lane promise each other,   *)
(* for every number of workers, every budget and every number of requests. *)
(* The inductive invariant says that the mailbox's generation is the       *)
(* runtime's, that no job, answer or intent is newer, that a pending       *)
(* request has its intent, and that whatever bears the intent's generation *)
(* bears its key.                                                          *)
(***************************************************************************)
EXTENDS PreparedTransactions, TLAPS

Pcs == {"idle", "prepare", "admit", "prepared", "failed",
        "storePrepared", "storeFailed", "ended"}

RuntimeTypeOK ==
  /\ nextGen \in Nat /\ pendingGen \in Nat /\ latest \in Nat
  /\ stopped \in BOOLEAN
  /\ ready \in [gen : Nat, key : Keys \cup {NoKey}]
  /\ pending \in [gen : Nat, key : Keys \cup {NoKey}]
  /\ completion \in [gen : Nat, key : Keys \cup {NoKey}, ok : BOOLEAN]
  /\ staging \in [gen : Nat, key : Keys \cup {NoKey}, arm : BOOLEAN]
  /\ worker \in [Workers -> [pc : Pcs, gen : Nat, key : Keys \cup {NoKey}, held : Nat]]

Generations ==
  /\ latest = nextGen
  /\ pendingGen \in {0, nextGen}
  /\ staging.gen \in {0, nextGen}
  /\ pending.gen <= nextGen /\ completion.gen <= nextGen
  /\ \A w \in Workers : worker[w].gen <= nextGen

Awaited ==
  /\ pendingGen # 0 => staging.gen = pendingGen /\ ready = NoJob
  /\ ready # NoJob => /\ ready.gen = staging.gen /\ ready.gen # 0
                      /\ ready.key = staging.key
  /\ staging.gen # 0 => pendingGen = staging.gen \/ ready.gen = staging.gen
  /\ staging.gen = 0 => staging = NoIntent

Keyed ==
  /\ pending.gen = 0 => pending = NoJob
  /\ completion.gen = 0 => completion = NoCompletion
  /\ staging.gen # 0 =>
       /\ pending.gen = staging.gen => pending.key = staging.key
       /\ completion.gen = staging.gen => completion.key = staging.key
       /\ \A w \in Workers : worker[w].gen = staging.gen
                               => worker[w].key = staging.key
  /\ \A w \in Workers : /\ worker[w].pc = "idle" => worker[w].gen = 0
                        /\ worker[w].pc \in {"idle", "ended"} \/ worker[w].gen # 0

IInv == RuntimeTypeOK /\ Generations /\ Awaited /\ Keyed

-----------------------------------------------------------------------------
\* The lane starts empty and every generation is 0.
LEMMA InitIInv == Init => IInv
<1> SUFFICES ASSUME Init PROVE IInv
  OBVIOUS
<1> USE DEF Init, NoJob, NoIntent, NoCompletion, Idle
<1>1. RuntimeTypeOK
  BY DEF RuntimeTypeOK, Pcs
<1>2. Generations
  BY DEF Generations
<1>3. Awaited
  BY DEF Awaited
<1>4. Keyed
  BY DEF Keyed
<1> QED
  BY <1>1, <1>2, <1>3, <1>4 DEF IInv

\* A worker takes jobs, keeps their generation and key, and stores them.
LEMMA WorkerIInv ==
  ASSUME IInv, NEW w \in Workers, WorkerStep(w)
  PROVE  IInv'
<1> USE DEF IInv, RuntimeTypeOK, Pcs, Generations, Awaited, Keyed, mailbox, runtime, lane
<1>1. CASE Take(w)
  BY <1>1 DEF Take, NoJob
<1>2. CASE TakeStopped(w)
  BY <1>2 DEF TakeStopped
<1>3. CASE PrepareSource(w)
  BY <1>3 DEF PrepareSource
<1>4. CASE PrepareFails(w)
  BY <1>4 DEF PrepareFails, Failed
<1>5. CASE Superseded(w)
  BY <1>5 DEF Superseded, Idle
<1>6. CASE Acquire(w)
  BY <1>6 DEF Acquire, Leased, Failed
<1>7. CASE StillCurrent(w)
  BY <1>7 DEF StillCurrent
<1>8. CASE Store(w)
  BY <1>8 DEF Store, Idle
<1> HIDE DEF IInv, RuntimeTypeOK, Pcs, Generations, Awaited, Keyed
<1> QED
  BY <1>1, <1>2, <1>3, <1>4, <1>5, <1>6, <1>7, <1>8 DEF WorkerStep

\* Main opens a generation with its intent and closes both together.
LEMMA MainIInv ==
  ASSUME IInv, MainStep
  PROVE  IInv'
<1> USE DEF IInv, RuntimeTypeOK, Pcs, Generations, Awaited, Keyed, mailbox, runtime, lane,
            MainFree
<1>1. ASSUME NEW key \in Keys, NEW arm \in BOOLEAN, NEW e \in Expected,
             Submit(key, arm, e)
      PROVE  IInv'
  BY <1>1 DEF Submit, RuntimeSubmit, MailboxSubmit
<1>2. CASE ClearTransactions
  BY <1>2 DEF ClearTransactions, CancelPending, MailboxCancel, NoJob, NoCompletion, NoIntent
<1>3. CASE CancelOwned
  BY <1>3 DEF CancelOwned, CancelPending, MailboxCancel, NoJob, NoCompletion, NoIntent
<1>4. ASSUME NEW key \in Scenes, InvalidateScene(key)
      PROVE  IInv'
  <2>1. CASE staging.key = key
    <3>1. CancelPending /\ staging' = NoIntent /\ UNCHANGED <<ready, stopped, worker>>
      BY <1>4, <2>1 DEF InvalidateScene
    <3> QED
      BY <1>4, <3>1 DEF InvalidateScene, CancelPending, MailboxCancel, NoJob, NoCompletion, NoIntent
  <2>2. CASE staging.key # key
    BY <1>4, <2>2 DEF InvalidateScene
  <2> QED
    BY <2>1, <2>2
<1>5. CASE PollDiscards
  BY <1>5 DEF PollDiscards, NoCompletion
<1>6. CASE PollFailed
  BY <1>6 DEF PollFailed, NoCompletion, NoIntent
<1>7. CASE PollReady
  BY <1>7 DEF PollReady, NoCompletion, NoJob
<1>8. ASSUME NEW activated \in BOOLEAN, NEW e \in Expected, TakeReady(activated, e)
      PROVE  IInv'
  BY <1>8 DEF TakeReady, NoJob, NoIntent
<1>9. ASSUME NEW key \in Keys, Arm(key)
      PROVE  IInv'
  BY <1>9 DEF Arm
<1>10. ASSUME NEW d \in Displaced, NEW e \in Expected, Commit(d, e)
       PROVE  IInv'
  BY <1>10 DEF Commit
<1>11. CASE Stop
  BY <1>11 DEF Stop, NoJob
<1> HIDE DEF IInv, RuntimeTypeOK, Pcs, Generations, Awaited, Keyed, MainFree
<1> QED
  BY <1>1, <1>2, <1>3, <1>4, <1>5, <1>6, <1>7, <1>8, <1>9, <1>10, <1>11 DEF MainStep

\* The inductive invariant holds in every reachable state.
THEOREM RuntimeInvariant == Spec => []IInv
<1>1. IInv /\ [Next]_vars => IInv'
  <2> SUFFICES ASSUME IInv, [Next]_vars PROVE IInv'
    OBVIOUS
  <2>1. CASE UNCHANGED vars
    BY <2>1 DEF vars, IInv, RuntimeTypeOK, Generations, Awaited, Keyed
  <2> QED
    BY <2>1, MainIInv, WorkerIInv DEF Next
<1> QED
  BY InitIInv, <1>1, PTL DEF Spec

\* Whatever poll answers belongs to the staged intent (poll's generation
\* check and the intent filter of poll_and_release_performance).
THEOREM AnswersAreStaged == Spec => []ReadyIsStaged
<1>1. IInv => ReadyIsStaged
  BY DEF IInv, RuntimeTypeOK, Generations, Awaited, ReadyIsStaged
<1> QED
  BY <1>1, RuntimeInvariant, PTL

\* A staged intent is never left waiting for a cancelled request
\* (cancel_pending and its callers).
THEOREM IntentsAreAwaited == Spec => []StagedIsAwaited
<1>1. IInv => StagedIsAwaited
  BY DEF IInv, RuntimeTypeOK, Generations, Awaited, StagedIsAwaited, NoIntent
<1> QED
  BY <1>1, RuntimeInvariant, PTL

\* The one step that loses the newest request is a superseded worker's store
\* over its result (worker_loop).
THEOREM OnlyOverwritesLose == Spec => LostOnlyToOverwrite
<1> DEFINE Loses == /\ pendingGen # 0 /\ pendingGen' = pendingGen
                    /\ InFlight(pendingGen) /\ ~InFlight(pendingGen)'
                    /\ ~stopped'
           Overwritten == /\ completion.gen = pendingGen
                          /\ completion'.gen \in 1 .. pendingGen - 1
<1>1. ASSUME IInv, [Next]_vars, Loses PROVE Overwritten
  <2> USE <1>1 DEF IInv, RuntimeTypeOK, Generations, Awaited, Keyed, InFlight,
                   mailbox, runtime, lane
  <2>1. CASE UNCHANGED vars
    BY <2>1 DEF vars
  <2>2. ASSUME NEW w \in Workers, WorkerStep(w) PROVE Overwritten
    <3>1. CASE Take(w)
      <4>1. worker'[w].gen = pending.gen /\ completion' = completion
        BY <3>1 DEF Take
      <4>2. \A v \in Workers \ {w} : worker'[v] = worker[v]
        BY <3>1 DEF Take
      <4>3. worker[w].gen = pendingGen => worker[w].gen = 0
        BY <3>1 DEF Take
      <4> QED
        BY <4>1, <4>2, <4>3
    <3>2. CASE TakeStopped(w)
      BY <3>2 DEF TakeStopped
    <3>3. CASE PrepareSource(w) \/ PrepareFails(w) \/ Acquire(w) \/ StillCurrent(w)
      BY <3>3 DEF PrepareSource, PrepareFails, Acquire, StillCurrent, Leased, Failed
    <3>4. CASE Superseded(w)
      BY <3>4 DEF Superseded, Idle, IsCurrent
    <3>5. CASE Store(w)
      BY <3>5 DEF Store, Idle
    <3> QED
      BY <2>2, <3>1, <3>2, <3>3, <3>4, <3>5 DEF WorkerStep
  <2>3. ASSUME MainStep PROVE pendingGen' # pendingGen \/ (InFlight(pendingGen) => InFlight(pendingGen)') \/ stopped'
    <3> USE DEF MainFree, NoCompletion
    <3>1. ASSUME NEW key \in Keys, NEW arm \in BOOLEAN, NEW e \in Expected,
                 Submit(key, arm, e)
          PROVE  pendingGen' # pendingGen \/ UNCHANGED <<pending, worker, completion>>
      BY <3>1 DEF Submit, RuntimeSubmit, MailboxSubmit
    <3>2. CASE ClearTransactions \/ CancelOwned
      BY <3>2 DEF ClearTransactions, CancelOwned, CancelPending, MailboxCancel
    <3>3. ASSUME NEW key \in Scenes, InvalidateScene(key)
          PROVE  pendingGen' # pendingGen \/ UNCHANGED <<pending, worker, completion>>
      BY <3>3 DEF InvalidateScene, CancelPending, MailboxCancel
    <3>4. CASE PollDiscards
      BY <3>4 DEF PollDiscards
    <3>5. CASE PollFailed \/ PollReady
      BY <3>5 DEF PollFailed, PollReady
    <3>6. ASSUME NEW activated \in BOOLEAN, NEW e \in Expected, TakeReady(activated, e)
          PROVE  UNCHANGED <<pending, worker, completion>>
      BY <3>6 DEF TakeReady
    <3>7. ASSUME NEW key \in Keys, Arm(key)
          PROVE  UNCHANGED <<pending, worker, completion>>
      BY <3>7 DEF Arm
    <3>8. ASSUME NEW d \in Displaced, NEW e \in Expected, Commit(d, e)
          PROVE  UNCHANGED <<pending, worker, completion>>
      BY <3>8 DEF Commit
    <3>9. CASE Stop
      BY <3>9 DEF Stop
    <3> QED
      BY <2>3, <3>1, <3>2, <3>3, <3>4, <3>5, <3>6, <3>7, <3>8, <3>9 DEF MainStep
  <2> QED
    BY <2>1, <2>2, <2>3 DEF Next
<1>2. IInv /\ [Next]_vars => [Loses => Overwritten]_vars
  BY <1>1
<1> QED
  BY <1>2, RuntimeInvariant, PTL DEF Spec, LostOnlyToOverwrite
=============================================================================
