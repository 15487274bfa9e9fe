---------------------- MODULE DecoderRetirementProofs ----------------------
(***************************************************************************)
(* What DecoderRetirement promises for every cap and every number of       *)
(* workers.  The inductive invariant is TypeOK, the bound on the records,  *)
(* Linked (which ties a worker's record, handle, token and thread to each  *)
(* other, one worker at a time) and Closing (which ties the drain to the   *)
(* closed admission and the reaper's batch to its state).                  *)
(***************************************************************************)
EXTENDS DecoderRetirement, FiniteSetTheorems, TLAPS

Linked ==
  \A w \in Workers:
    /\ w > nextId => owner[w] = "none"
    /\ owner[w] = "none" =>
         life[w] = "none" /\ handle[w] = "none" /\ thread[w] = "none"
    /\ owner[w] = "reserved" =>
         life[w] # "none" /\ handle[w] = "none" /\ thread[w] = "none"
    /\ owner[w] = "spawned" =>
         life[w] # "none" /\ handle[w] = "none" /\ thread[w] \in {"running", "ended"}
    /\ owner[w] \in {"holding", "gone"} /\ thread[w] \in {"running", "ended"} =>
         life[w] # "none" /\ handle[w] # "none"
    /\ owner[w] = "gone" /\ thread[w] = "none" =>
         life[w] = "none" /\ handle[w] = "none"
    /\ owner[w] = "holding" => thread[w] # "none"
    /\ thread[w] = "joined" => life[w] = "none" /\ handle[w] = "none"
    /\ handle[w] = "taken" => thread[w] = "ended" /\ life[w] \in Retirees
    /\ w \in joining <=> handle[w] = "taken"
    /\ ~accepting /\ life[w] # "none" => stopped[w] /\ life[w] \in Retirees
    /\ life[w] = "stuck" => ~accepting

Closing ==
  /\ drain # "none" => ~accepting
  /\ drain = "completed" => Records(life) = {}
  /\ reaper # "join" => joining = {}

Capped == Cardinality(Records(life)) <= HardCap

IInv == TypeOK /\ Linked /\ Closing /\ Capped

----------------------------------------------------------------------------
\* The records and the retiring ones among them are finitely many.
LEMMA RecordsFinite ==
  ASSUME NEW l
  PROVE  /\ IsFiniteSet(Records(l)) /\ Cardinality(Records(l)) \in Nat
         /\ Cardinality(Retiring(l)) \in Nat
         /\ Cardinality(Retiring(l)) <= Cardinality(Records(l))
<1>1. IsFiniteSet(Workers)
  BY FS_Interval, RetirementAssumption DEF Workers
<1>2. Records(l) \subseteq Workers /\ Retiring(l) \subseteq Records(l)
  BY DEF Records, Retiring, Retirees
<1>3. IsFiniteSet(Records(l))
  BY <1>1, <1>2, FS_Subset
<1>4. IsFiniteSet(Retiring(l)) /\ Cardinality(Retiring(l)) <= Cardinality(Records(l))
  BY <1>2, <1>3, FS_Subset
<1> QED
  BY <1>3, <1>4, FS_CardinalityType

\* A record list without new workers is not longer.
LEMMA RecordsShrink ==
  ASSUME NEW l, NEW m, Records(m) \subseteq Records(l)
  PROVE  Cardinality(Records(m)) <= Cardinality(Records(l))
BY RecordsFinite, FS_Subset

\* One new worker makes it at most one longer.
LEMMA RecordsGrow ==
  ASSUME NEW l, NEW m, NEW w, Records(m) \subseteq Records(l) \cup {w}
  PROVE  Cardinality(Records(m)) <= Cardinality(Records(l)) + 1
<1>1. /\ IsFiniteSet(Records(l) \cup {w})
      /\ Cardinality(Records(l) \cup {w}) <= Cardinality(Records(l)) + 1
  BY RecordsFinite, FS_AddElement
<1>2. Cardinality(Records(m)) <= Cardinality(Records(l) \cup {w})
  BY <1>1, FS_Subset
<1> QED
  BY <1>1, <1>2, RecordsFinite, FS_CardinalityType

\* Only an admission adds a record, and it stays below the cap.
LEMMA CapStep == IInv /\ [Next]_vars => Capped'
<1> SUFFICES ASSUME IInv, [Next]_vars PROVE Capped'
  OBVIOUS
<1> USE RetirementAssumption DEF IInv, TypeOK, Capped
<1>0. SUFFICES ASSUME ~(Records(life') \subseteq Records(life))
      PROVE  Cardinality(Records(life')) <= HardCap
  BY RecordsShrink, RecordsFinite
<1>1. CASE Admit
  <2>1. Records(life') \subseteq Records(life) \cup {nextId'}
    BY <1>1 DEF Admit, Records
  <2>2. Cardinality(Records(life)) < HardCap
    BY <1>1 DEF Admit, Admissible
  <2>3. Cardinality(Records(life')) <= Cardinality(Records(life)) + 1
    BY <2>1, RecordsGrow
  <2>4. Cardinality(Records(life)) \in Nat /\ Cardinality(Records(life')) \in Nat
    BY RecordsFinite
  <2> QED
    BY <2>2, <2>3, <2>4
<1>2. ASSUME ~Admit PROVE FALSE
  <2>1. CASE Refuse
    BY <2>1, <1>0 DEF Refuse, Records
  <2>2. ASSUME NEW w \in Workers, OpenerStep(w) \/ TokenDropped(w) \/ ThreadEnds(w)
        PROVE  FALSE
    BY <2>2, <1>0 DEF OpenerStep, Spawn, Abandon, Attach, TokenDropped,
       RetireReaped, Retire, Retired, ThreadEnds, Records, state
  <2>3. CASE ReaperStep
    BY <2>3, <1>0 DEF ReaperStep, Take, Sleep, Rescan, Join, Records, state
  <2>4. CASE DrainBegin \/ DrainEnds
    BY <2>4, <1>0 DEF DrainBegin, DrainEnds, DrainCompletes, DrainExpires,
       Records, state
  <2>5. CASE UNCHANGED vars
    BY <2>5, <1>0 DEF vars, state, Records
  <2> QED
    BY <1>2, <2>1, <2>2, <2>3, <2>4, <2>5 DEF Next
<1> QED
  BY <1>1, <1>2

\* A new peak is one of the old peak and what is counted now.
LEMMA PeakType ==
  ASSUME peak \in [owned: 0..HardCap, retiring: 0..HardCap],
         NEW l, Cardinality(Records(l)) <= HardCap
  PROVE  /\ RetirementPeak(l) \in [owned: 0..HardCap, retiring: 0..HardCap]
         /\ [peak EXCEPT !.owned = Larger(@, Cardinality(Records(l)))]
              \in [owned: 0..HardCap, retiring: 0..HardCap]
<1>1. Cardinality(Retiring(l)) \in 0..HardCap /\ Cardinality(Records(l)) \in 0..HardCap
  BY RecordsFinite, RetirementAssumption
<1> QED
  BY <1>1 DEF RetirementPeak, Larger

\* Every step keeps the types.
LEMMA TypeStep == IInv /\ Capped' /\ [Next]_vars => TypeOK'
<1> SUFFICES ASSUME IInv, Capped', [Next]_vars PROVE TypeOK'
  OBVIOUS
<1> USE RetirementAssumption DEF IInv, TypeOK, Notify
<1>1. /\ RetirementPeak(life') \in [owned: 0..HardCap, retiring: 0..HardCap]
      /\ [peak EXCEPT !.owned = Larger(@, Cardinality(Records(life')))]
           \in [owned: 0..HardCap, retiring: 0..HardCap]
  BY PeakType DEF Capped
<1>2. CASE Admit
  <2>1. nextId' \in Workers /\ nextId' \in 0..MaxWorkers
    BY <1>2 DEF Admit, Workers
  <2> QED
    BY <1>1, <1>2, <2>1 DEF Admit
<1>3. CASE Refuse
  BY <1>3 DEF Refuse, outside
<1>4. ASSUME NEW w \in Workers, OpenerStep(w) PROVE TypeOK'
  BY <1>4 DEF OpenerStep, Spawn, Abandon, Attach, state
<1>5. ASSUME NEW w \in Workers, TokenDropped(w) PROVE TypeOK'
  <2>1. CASE RetireReaped(w)
    BY <2>1 DEF RetireReaped, state
  <2>2. CASE Retire(w)
    BY <1>1, <2>2 DEF Retire, Retired, state
  <2> QED
    BY <1>5, <2>1, <2>2 DEF TokenDropped
<1>6. ASSUME NEW w \in Workers, ThreadEnds(w) PROVE TypeOK'
  BY <1>6 DEF ThreadEnds, state
<1>7. CASE Take \/ Sleep \/ Rescan
  BY <1>7 DEF Take, Sleep, Rescan, Ready, Retiring, state, outside
<1>8. ASSUME NEW w \in Workers, NEW p \in BOOLEAN, Join(w, p) PROVE TypeOK'
  <2>1. count' \in [completed: Nat, panicked: Nat, refusals: 0..MaxRefusals]
    <3>1. (IF p THEN 1 ELSE 0) \in Nat
      OBVIOUS
    <3>2. PICK k \in Nat: k = IF p THEN 1 ELSE 0
      BY <3>1
    <3>3. count' = [count EXCEPT !.completed = @ + 1, !.panicked = @ + k]
      BY <1>8, <3>2 DEF Join
    <3>4. count \in [completed: Nat, panicked: Nat, refusals: 0..MaxRefusals]
      OBVIOUS
    <3> HIDE DEF TypeOK, IInv
    <3>5. count.completed + 1 \in Nat /\ count.panicked + k \in Nat
      BY <3>2, <3>4
    <3> QED
      BY <3>3, <3>4, <3>5
  <2>2. joining' \in SUBSET Workers
    BY <1>8 DEF Join
  <2> QED
    BY <1>8, <2>1, <2>2 DEF Join
<1>9. CASE DrainBegin
  BY <1>1, <1>9 DEF DrainBegin
<1>10. CASE DrainEnds
  BY <1>1, <1>10 DEF DrainEnds, DrainCompletes, DrainExpires, state, outside
<1>11. CASE UNCHANGED vars
  BY <1>11 DEF vars, state, outside
<1> QED
  BY <1>2, <1>3, <1>4, <1>5, <1>6, <1>7, <1>8, <1>9, <1>10, <1>11
  DEF Next, ReaperStep

\* Every step keeps record, handle, token and thread of each worker together.
LEMMA LinkedStep == IInv /\ [Next]_vars => Linked'
<1> SUFFICES ASSUME IInv, [Next]_vars PROVE Linked'
  OBVIOUS
<1> USE RetirementAssumption DEF IInv, TypeOK, Linked, Closing, Retirees, Workers
<1>2. CASE Admit
  BY <1>2 DEF Admit, Admissible
<1>3. CASE Refuse
  BY <1>3 DEF Refuse, outside
<1>4. ASSUME NEW w \in Workers, OpenerStep(w) PROVE Linked'
  <2>1. CASE Spawn(w)
    BY <2>1 DEF Spawn, state
  <2>2. CASE Abandon(w)
    BY <2>2 DEF Abandon
  <2>3. CASE Attach(w)
    <3>1. \A v \in Workers: v # w =>
            owner'[v] = owner[v] /\ handle'[v] = handle[v] /\ life'[v] = life[v]
      BY <2>3 DEF Attach
    <3>2. /\ owner'[w] = "holding" /\ handle'[w] = "attached" /\ life'[w] # "none"
          /\ thread[w] \in {"running", "ended"} /\ ~(w > nextId)
          /\ w \notin joining /\ (life'[w] = "stuck" => ~accepting)
          /\ ~accepting => stopped[w] /\ life'[w] \in Retirees
      BY <2>3 DEF Attach
    <3>3. UNCHANGED <<thread, nextId, joining, accepting, stopped>>
      BY <2>3 DEF Attach
    <3>4. Linked
      OBVIOUS
    <3> HIDE DEF IInv, TypeOK, Closing
    <3> QED
      BY <3>1, <3>2, <3>3, <3>4
  <2> QED
    BY <1>4, <2>1, <2>2, <2>3 DEF OpenerStep
<1>5. ASSUME NEW w \in Workers, TokenDropped(w) PROVE Linked'
  <2>1. CASE RetireReaped(w)
    BY <2>1 DEF RetireReaped, state
  <2>2. CASE Retire(w)
    BY <2>2 DEF Retire, Retired
  <2> QED
    BY <1>5, <2>1, <2>2 DEF TokenDropped
<1>6. ASSUME NEW w \in Workers, ThreadEnds(w) PROVE Linked'
  BY <1>6 DEF ThreadEnds, state
<1>7. CASE Take
  BY <1>7 DEF Take, Ready, Retiring, outside
<1>8. CASE Sleep \/ Rescan
  BY <1>8 DEF Sleep, Rescan, state, outside
<1>9. ASSUME NEW w \in Workers, NEW p \in BOOLEAN, Join(w, p) PROVE Linked'
  <2>1. w \in joining
    BY <1>9 DEF Join, First
  <2> QED
    <3>1. \A v \in Workers: v # w =>
            /\ thread'[v] = thread[v] /\ handle'[v] = handle[v] /\ life'[v] = life[v]
            /\ v \in joining' <=> v \in joining
      BY <1>9 DEF Join
    <3>2. /\ thread'[w] = "joined" /\ handle'[w] = "none" /\ life'[w] = "none"
          /\ owner[w] \notin {"none", "reserved", "spawned"} /\ w \notin joining'
      BY <1>9, <2>1 DEF Join
    <3>3. UNCHANGED <<owner, nextId, accepting, stopped>>
      BY <1>9 DEF Join
    <3>4. Linked
      OBVIOUS
    <3> HIDE DEF IInv, TypeOK, Closing
    <3> QED
      BY <3>1, <3>2, <3>3, <3>4
<1>10. CASE DrainBegin
  BY <1>10 DEF DrainBegin
<1>11. CASE DrainEnds
  BY <1>11 DEF DrainEnds, DrainCompletes, DrainExpires, state, outside
<1>12. CASE UNCHANGED vars
  BY <1>12 DEF vars, state, outside
<1> QED
  BY <1>2, <1>3, <1>4, <1>5, <1>6, <1>7, <1>8, <1>9, <1>10, <1>11, <1>12
  DEF Next, ReaperStep

\* Every step keeps the drain tied to the closed admission.
LEMMA ClosingStep == IInv /\ [Next]_vars => Closing'
<1> SUFFICES ASSUME IInv, [Next]_vars PROVE Closing'
  OBVIOUS
<1> USE RetirementAssumption DEF IInv, TypeOK, Closing, Records, Notify
<1>2. CASE Admit \/ Refuse
  BY <1>2 DEF Admit, Admissible, Refuse, outside
<1>3. ASSUME NEW w \in Workers, OpenerStep(w) \/ TokenDropped(w) \/ ThreadEnds(w)
      PROVE  Closing'
  BY <1>3 DEF OpenerStep, Spawn, Abandon, Attach, TokenDropped, RetireReaped,
     Retire, Retired, ThreadEnds, state
<1>4. CASE ReaperStep
  <2>1. CASE Take \/ Sleep \/ Rescan
    BY <2>1 DEF Take, Sleep, Rescan, state, outside
  <2>2. ASSUME NEW w \in Workers, NEW p \in BOOLEAN, Join(w, p) PROVE Closing'
    BY <2>2 DEF Join
  <2> QED
    BY <1>4, <2>1, <2>2 DEF ReaperStep
<1>5. CASE DrainBegin \/ DrainEnds
  BY <1>5 DEF DrainBegin, DrainEnds, DrainCompletes, DrainExpires, state, outside
<1>6. CASE UNCHANGED vars
  BY <1>6 DEF vars, state, outside
<1> QED
  BY <1>2, <1>3, <1>4, <1>5, <1>6 DEF Next

\* The empty supervisor satisfies the invariant.
LEMMA InitIInv == Init => IInv
<1> SUFFICES ASSUME Init PROVE IInv
  OBVIOUS
<1>1. Records(life) = {}
  BY DEF Init, Records
<1>2. Capped
  BY <1>1, FS_EmptySet, RetirementAssumption DEF Capped
<1>3. TypeOK
  BY RetirementAssumption DEF Init, TypeOK, Workers
<1>4. Linked /\ Closing
  BY <1>1 DEF Init, Linked, Closing, Retirees
<1> QED
  BY <1>2, <1>3, <1>4 DEF IInv

\* The strengthening is invariant.
THEOREM RetirementInvariant == Spec => []IInv
<1>1. IInv /\ [Next]_vars => IInv'
  BY CapStep, TypeStep, LinkedStep, ClosingStep DEF IInv
<1> QED
  BY InitIInv, <1>1, PTL DEF Spec

\* The supervisor's variables stay in their types and the peaks under the cap.
THEOREM RetirementTyped == Spec => []TypeOK
BY RetirementInvariant, PTL DEF IInv

\* No number of stuck workers, opens and drains makes the process own more
\* threads than the cap, or run a decoder thread it does not own.
THEOREM ThreadOwnership == Spec => []ThreadsBounded
<1>1. IInv => ThreadsBounded
  BY DEF IInv, TypeOK, Linked, Capped, ThreadsBounded, Unjoined, Records
<1> QED
  BY <1>1, RetirementInvariant, PTL

\* attach and abandon find the record they reserved.
THEOREM ReservationSafe == Spec => []ReservationKept
<1>1. IInv => ReservationKept
  BY DEF IInv, Linked, ReservationKept
<1> QED
  BY <1>1, RetirementInvariant, PTL

\* A completed drain means that no decoder thread runs or will run.
THEOREM DrainFinality == Spec => []CompletedDrainIsFinal
<1>1. IInv => CompletedDrainIsFinal
  <2> SUFFICES ASSUME IInv, drain = "completed"
               PROVE  Unjoined = {} /\ ~accepting /\ Records(life) = {}
    BY DEF CompletedDrainIsFinal
  <2>1. ~accepting /\ Records(life) = {}
    BY DEF IInv, Closing
  <2>2. Unjoined \subseteq Records(life)
    BY DEF IInv, TypeOK, Linked, Unjoined, Records
  <2> QED
    BY <2>1, <2>2
<1> QED
  BY <1>1, RetirementInvariant, PTL

\* A drain reaches every worker, those being opened included.
THEOREM DrainReach == Spec => []DrainReachesEveryWorker
<1>1. IInv => DrainReachesEveryWorker
  BY DEF IInv, Linked, DrainReachesEveryWorker, Records
<1> QED
  BY <1>1, RetirementInvariant, PTL

\* The reaper joins ended threads only.
THEOREM NonBlockingJoins == Spec => []JoinsNeverBlock
<1>1. IInv => JoinsNeverBlock
  BY DEF IInv, TypeOK, Linked, JoinsNeverBlock
<1> QED
  BY <1>1, RetirementInvariant, PTL

\* Health says "healthy" exactly when an open would be admitted.
THEOREM HealthHonest == Spec => []HealthTellsAdmission
<1>1. IInv => HealthTellsAdmission
  <2> SUFFICES ASSUME IInv PROVE HealthTellsAdmission
    OBVIOUS
  <2>1. accepting => Stuck = {}
    BY DEF IInv, Linked, Stuck
  <2>2. /\ Cardinality(Records(life)) \in Nat /\ Cardinality(Retiring(life)) \in Nat
        /\ HardCap \in Nat /\ ChurnCap \in Nat
    BY RecordsFinite, RetirementAssumption
  <2> QED
    BY <2>1, <2>2 DEF HealthTellsAdmission, Health, Admissible
<1> QED
  BY <1>1, RetirementInvariant, PTL
=============================================================================
