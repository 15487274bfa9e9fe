---------------------- MODULE ThreadedDecoderProofs ------------------------
(***************************************************************************)
(* Proofs about ThreadedDecoder, for every length of source and every      *)
(* bound on generations and commands.                                      *)
(***************************************************************************)
EXTENDS ThreadedDecoder, TLAPS

\* The worker holds a command exactly from recv to the end of its attempt (and
\* past a panic), and an outcome from the end of the decode on.
Holding ==
  /\ wpc \in {"opening", "recv"} => job = None
  /\ wpc \in {"taken", "decoding", "decoded", "commit"} => job # None
  /\ wpc \in {"decoded", "commit"} => result # None

\* Until the worker has opened its file nobody can have queued a selection or
\* been shown a frame.
OpeningClean ==
  /\ epoch > 0
  /\ hpc = "idle" => meta = "ok"
  /\ meta = "ok" => wpc # "opening"
  /\ wpc = "opening" =>
       /\ pending \in {None, Stop}
       /\ latest = None
       /\ shown.epoch = 0 /\ shown.generation = 0

\* The inductive invariant.
IInv == TypeOK /\ Holding /\ OpeningClean /\ Pipelined /\ NoneFromTheFuture

\* A stop leaves a well-typed mailbox and never lowers the epoch.
LEMMA StopTyped ==
  ASSUME TypeOK, StopMailbox
  PROVE  /\ pending' \in Commands \cup {None, Stop}
         /\ pending' = Stop \/ pending' = pending
         /\ epoch' \in Epochs /\ epoch' >= epoch
         /\ generation' = generation
         /\ stopped' \in BOOLEAN
<1> USE DEF TypeOK, StopMailbox, mailbox, Epochs
<1>1. CASE stopped
  BY <1>1
<1>2. CASE ~stopped
  BY <1>2
<1> QED
  BY <1>1, <1>2

\* Every step keeps the types; an attempt's end needs the command it ends.
LEMMA TypeStep == TypeOK /\ Holding /\ [Next]_vars => TypeOK'
<1> SUFFICES ASSUME TypeOK /\ Holding, [Next]_vars PROVE TypeOK'
  OBVIOUS
<1> USE DecoderAssumption DEF TypeOK, Commands, Frames, Failures,
        Results, Uploads, Seconds, Generations, Epochs, Holding, mailbox, worker, shared, host,
        history
<1>1. CASE OpenSeed
  BY <1>1 DEF OpenSeed
<1>2. CASE OpenRefused
  BY <1>2 DEF OpenRefused
<1>3. CASE Recv
  BY <1>3 DEF Recv
<1>4. CASE DropStaleCommand
  BY <1>4 DEF DropStaleCommand
<1>5. CASE BeginDecode
  BY <1>5 DEF BeginDecode
<1>6. CASE DecodeFrame
  BY <1>6 DEF DecodeFrame, Decoded, Reachable
<1>7. CASE DecodeFailed
  BY <1>7 DEF DecodeFailed, Decoded
<1>8. CASE DecodeSuperseded
  BY <1>8 DEF DecodeSuperseded, Decoded
<1>9. CASE DecodePanics
  BY <1>9 DEF DecodePanics
<1>10. CASE ReadCurrency
  BY <1>10 DEF ReadCurrency, IsGenerationCurrent, IsCurrent
<1>11. CASE DropSuperseded
  BY <1>11 DEF DropSuperseded, EndAttempt
<1>12. CASE Publish
  BY <1>12 DEF Publish, EndAttempt
<1>13. CASE Fail
  BY <1>13 DEF Fail, EndAttempt
<1>14. CASE OpenSucceeds
  BY <1>14 DEF OpenSucceeds
<1>15. CASE OpenFails
  BY StopTyped, <1>15 DEF OpenFails
<1>16. CASE HarvestFrame
  BY <1>16 DEF HarvestFrame, OfCurrentGeneration, Ready
<1>17. CASE HarvestError
  BY <1>17 DEF HarvestError, OfCurrentGeneration, Ready
<1>18. CASE HarvestNothing
  BY <1>18 DEF HarvestNothing
<1>19. CASE ReportFailure
  BY <1>19 DEF ReportFailure
<1>20. CASE UploadAccepted
  BY <1>20 DEF UploadAccepted
<1>21. CASE UploadFailed
  BY <1>21 DEF UploadFailed
<1>22. CASE DropDecoder
  BY StopTyped, <1>22 DEF DropDecoder, Ready
<1>23. CASE SupervisorStops
  BY <1>23 DEF SupervisorStops, StopMailbox
<1>24. ASSUME NEW g \in 0..MaxGeneration, NEW t \in Seconds,
            RequestSourceTime(g, t)
      PROVE TypeOK'
  BY <1>24 DEF RequestSourceTime, Select, QueuedSelect, Predecessor,
                 Ready
<1>25. CASE UNCHANGED vars
  BY <1>25 DEF vars
<1> QED
  BY <1>1, <1>2, <1>3, <1>4, <1>5, <1>6, <1>7, <1>8, <1>9, <1>10, <1>11,
     <1>12, <1>13, <1>14, <1>15, <1>16, <1>17, <1>18, <1>19, <1>20, <1>21,
     <1>22, <1>23, <1>24, <1>25
  DEF Next, WorkerStep, HostStep, DecodeEnds, CommitEnds, Harvest, Upload

\* The worker's slots follow its program counter.
LEMMA HoldingStep == TypeOK /\ Holding /\ [Next]_vars => Holding'
<1> SUFFICES ASSUME TypeOK /\ Holding, [Next]_vars PROVE Holding'
  OBVIOUS
<1> USE DecoderAssumption DEF TypeOK, Commands, Frames, Failures,
        Results, Uploads, Seconds, Generations, Epochs, Holding, mailbox, worker, shared, host,
        history
<1>1. CASE OpenSeed
  BY <1>1 DEF OpenSeed
<1>2. CASE OpenRefused
  BY <1>2 DEF OpenRefused
<1>3. CASE Recv
  BY <1>3 DEF Recv
<1>4. CASE DropStaleCommand
  BY <1>4 DEF DropStaleCommand
<1>5. CASE BeginDecode
  BY <1>5 DEF BeginDecode
<1>6. CASE DecodeFrame
  BY <1>6 DEF DecodeFrame, Decoded, Reachable
<1>7. CASE DecodeFailed
  BY <1>7 DEF DecodeFailed, Decoded
<1>8. CASE DecodeSuperseded
  BY <1>8 DEF DecodeSuperseded, Decoded
<1>9. CASE DecodePanics
  BY <1>9 DEF DecodePanics
<1>10. CASE ReadCurrency
  BY <1>10 DEF ReadCurrency, IsGenerationCurrent, IsCurrent
<1>11. CASE DropSuperseded
  BY <1>11 DEF DropSuperseded, EndAttempt
<1>12. CASE Publish
  BY <1>12 DEF Publish, EndAttempt
<1>13. CASE Fail
  BY <1>13 DEF Fail, EndAttempt
<1>14. CASE OpenSucceeds
  BY <1>14 DEF OpenSucceeds
<1>15. CASE OpenFails
  BY <1>15 DEF OpenFails, StopMailbox
<1>16. CASE HarvestFrame
  BY <1>16 DEF HarvestFrame, OfCurrentGeneration, Ready
<1>17. CASE HarvestError
  BY <1>17 DEF HarvestError, OfCurrentGeneration, Ready
<1>18. CASE HarvestNothing
  BY <1>18 DEF HarvestNothing
<1>19. CASE ReportFailure
  BY <1>19 DEF ReportFailure
<1>20. CASE UploadAccepted
  BY <1>20 DEF UploadAccepted
<1>21. CASE UploadFailed
  BY <1>21 DEF UploadFailed
<1>22. CASE DropDecoder
  BY <1>22 DEF DropDecoder, StopMailbox, Ready
<1>23. CASE SupervisorStops
  BY <1>23 DEF SupervisorStops, StopMailbox
<1>24. ASSUME NEW g \in 0..MaxGeneration, NEW t \in Seconds,
            RequestSourceTime(g, t)
      PROVE Holding'
  BY <1>24 DEF RequestSourceTime, Select, QueuedSelect, Predecessor,
                 Ready
<1>25. CASE UNCHANGED vars
  BY <1>25 DEF vars
<1> QED
  BY <1>1, <1>2, <1>3, <1>4, <1>5, <1>6, <1>7, <1>8, <1>9, <1>10, <1>11,
     <1>12, <1>13, <1>14, <1>15, <1>16, <1>17, <1>18, <1>19, <1>20, <1>21,
     <1>22, <1>23, <1>24, <1>25
  DEF Next, WorkerStep, HostStep, DecodeEnds, CommitEnds, Harvest, Upload

\* No step lets a newer command or frame pass an older one.
LEMMA OrderStep == IInv /\ [Next]_vars => (OpeningClean /\ Pipelined /\ NoneFromTheFuture)'
<1> SUFFICES ASSUME IInv, [Next]_vars PROVE (OpeningClean /\ Pipelined /\ NoneFromTheFuture)'
  OBVIOUS
<1> USE DecoderAssumption DEF IInv, TypeOK, Commands, Frames, Failures,
        Results, Generations, Epochs, Holding,
        OpeningClean, Pipelined, NoneFromTheFuture, InOrder, Issued, mailbox, worker, shared, host,
        history
<1>1. CASE OpenSeed
  BY <1>1 DEF OpenSeed
<1>2. CASE OpenRefused
  BY <1>2 DEF OpenRefused
<1>3. CASE Recv
  BY <1>3 DEF Recv
<1>4. CASE DropStaleCommand
  BY <1>4 DEF DropStaleCommand
<1>5. CASE BeginDecode
  BY <1>5 DEF BeginDecode
<1>6. CASE DecodeFrame
  BY <1>6 DEF DecodeFrame, Decoded
<1>7. CASE DecodeFailed
  BY <1>7 DEF DecodeFailed, Decoded
<1>8. CASE DecodeSuperseded
  BY <1>8 DEF DecodeSuperseded, Decoded
<1>9. CASE DecodePanics
  BY <1>9 DEF DecodePanics
<1>10. CASE ReadCurrency
  BY <1>10 DEF ReadCurrency
<1>11. CASE DropSuperseded
  BY <1>11 DEF DropSuperseded, EndAttempt
<1>12. CASE Publish
  BY <1>12 DEF Publish, EndAttempt
<1>13. CASE Fail
  BY <1>13 DEF Fail, EndAttempt
<1>14. CASE OpenSucceeds
  BY <1>14 DEF OpenSucceeds
<1>15. CASE OpenFails
  BY StopTyped, <1>15 DEF OpenFails
<1>16. CASE HarvestFrame
  <2>1. /\ latest \in Frames /\ latest # None
        /\ shown' = [generation |-> latest.generation, epoch |-> latest.epoch]
        /\ latest' = None
    BY <1>16 DEF HarvestFrame, OfCurrentGeneration
  <2>2. UNCHANGED <<pending, epoch, generation, wpc, job, hpc, meta>>
    BY <1>16 DEF HarvestFrame
  <2>3. hpc = "idle"
    BY <1>16 DEF HarvestFrame, Ready
  <2>4. shown'.generation = latest.generation /\ shown'.epoch = latest.epoch
    BY <2>1
  <2>5. OpeningClean'
    BY <2>2, <2>3
  <2>6. Pipelined'
    BY <2>1, <2>2, <2>4
  <2>7. NoneFromTheFuture'
    BY <2>1, <2>2, <2>4
  <2> QED
    BY <2>5, <2>6, <2>7
<1>17. CASE HarvestError
  BY <1>17 DEF HarvestError, OfCurrentGeneration, Ready
<1>18. CASE HarvestNothing
  BY <1>18 DEF HarvestNothing, OfCurrentGeneration, Ready
<1>19. CASE ReportFailure
  BY <1>19 DEF ReportFailure, Ready
<1>20. CASE UploadAccepted
  BY <1>20 DEF UploadAccepted
<1>21. CASE UploadFailed
  BY <1>21 DEF UploadFailed
<1>22. CASE DropDecoder
  BY StopTyped, <1>22 DEF DropDecoder, Ready
<1>23. CASE SupervisorStops
  BY StopTyped, <1>23 DEF SupervisorStops
<1>24. ASSUME NEW g \in 0..MaxGeneration, NEW t \in Seconds,
            RequestSourceTime(g, t)
      PROVE (OpeningClean /\ Pipelined /\ NoneFromTheFuture)'
  <2>1. /\ pending' = QueuedSelect(g, t, Predecessor(g, t))
        /\ epoch' = epoch + 1 /\ generation' = g /\ g >= generation
    BY <1>24 DEF RequestSourceTime, Select
  <2>2. UNCHANGED <<latest, wpc, job, hpc, meta, shown>>
    BY <1>24 DEF RequestSourceTime
  <2>3. wpc # "opening"
    BY <1>24 DEF RequestSourceTime, Ready
  <2>4. pending'.epoch = epoch + 1 /\ pending'.generation = g
    BY <2>1 DEF QueuedSelect
  <2>5. OpeningClean'
    BY <2>1, <2>2, <2>3
  <2>6. Pipelined'
    BY <2>1, <2>2, <2>4
  <2>7. NoneFromTheFuture'
    BY <2>1, <2>2, <2>4
  <2> QED
    BY <2>5, <2>6, <2>7
<1>25. CASE UNCHANGED vars
  BY <1>25 DEF vars
<1> QED
  BY <1>1, <1>2, <1>3, <1>4, <1>5, <1>6, <1>7, <1>8, <1>9, <1>10, <1>11,
     <1>12, <1>13, <1>14, <1>15, <1>16, <1>17, <1>18, <1>19, <1>20, <1>21,
     <1>22, <1>23, <1>24, <1>25
  DEF Next, WorkerStep, HostStep, DecodeEnds, CommitEnds, Harvest, Upload

----------------------------------------------------------------------------
\* The invariant holds of a decoder that is about to open its file.
LEMMA InitInv == Init => IInv
<1> SUFFICES ASSUME Init PROVE IInv
  OBVIOUS
<1> USE DecoderAssumption DEF Init
<1>1. TypeOK
  <2>1. currency \in [generation: BOOLEAN, epoch: BOOLEAN] /\ shown \in Failures
    BY DEF Failures, Generations, Epochs
  <2> QED
    BY <2>1 DEF TypeOK, Generations, Epochs
<1>2. Holding /\ OpeningClean
  BY DEF Holding, OpeningClean
<1>3. Pipelined
  BY DEF Pipelined
<1>4. NoneFromTheFuture
  BY DEF NoneFromTheFuture, Issued
<1> QED
  BY <1>1, <1>2, <1>3, <1>4 DEF IInv

\* The invariant is inductive.
LEMMA StepInv == IInv /\ [Next]_vars => IInv'
BY TypeStep, HoldingStep, OrderStep DEF IInv

\* The invariant holds in every reachable state.
THEOREM DecoderInvariant == Spec => []IInv
BY InitInv, StepInv, PTL DEF Spec

\* Every variable of the decoder stays in its type.
THEOREM DecoderTyped == Spec => []TypeOK
<1>1. IInv => TypeOK
  BY DEF IInv
<1> QED
  BY <1>1, DecoderInvariant, PTL

\* Shown frame, waiting frame, running command and queued command are always
\* in the order in which their commands were issued.
THEOREM PipelineOrder == Spec => []Pipelined
<1>1. IInv => Pipelined
  BY DEF IInv
<1> QED
  BY <1>1, DecoderInvariant, PTL

\* Nothing in the pipeline is newer than what the mailbox has issued.
THEOREM PipelineIssued == Spec => []NoneFromTheFuture
<1>1. IInv => NoneFromTheFuture
  BY DEF IInv
<1> QED
  BY <1>1, DecoderInvariant, PTL

\* What one step may do to the frame last shown: harvest the waiting one, of
\* the current generation, or leave it alone.
LEMMA ShownByHarvest ==
  ASSUME IInv, [Next]_vars, shown' # shown
  PROVE  /\ HarvestFrame
         /\ shown' = [generation |-> latest.generation, epoch |-> latest.epoch]
<1> USE DEF history
<1>1. HarvestFrame
  BY DEF Next, vars, WorkerStep, HostStep, DecodeEnds, CommitEnds, Harvest,
         Upload, OpenSeed, OpenRefused, Recv, DropStaleCommand, BeginDecode,
         DecodeFrame, DecodeFailed, DecodeSuperseded, Decoded, DecodePanics,
         ReadCurrency, DropSuperseded, Publish, Fail, EndAttempt, OpenSucceeds,
         OpenFails, RequestSourceTime, ReportFailure, HarvestError,
         HarvestNothing, UploadAccepted, UploadFailed, DropDecoder,
         SupervisorStops
<1> QED
  BY <1>1 DEF HarvestFrame

\* The host's frames move forward in command and in generation.
THEOREM ForwardDelivery == Spec => DeliveryMovesForward
<1>1. IInv /\ [Next]_vars => [shown' # shown => InOrder(shown, shown')]_vars
  <2> SUFFICES ASSUME IInv, [Next]_vars, shown' # shown
               PROVE  InOrder(shown, shown')
    OBVIOUS
  <2>1. shown' = [generation |-> latest.generation, epoch |-> latest.epoch]
    BY ShownByHarvest
  <2>2. latest # None
    BY ShownByHarvest DEF HarvestFrame, OfCurrentGeneration
  <2>3. InOrder(shown, latest)
    BY <2>2 DEF IInv, Pipelined
  <2> QED
    BY <2>1, <2>3 DEF InOrder
<1> QED
  BY <1>1, DecoderInvariant, PTL DEF Spec, DeliveryMovesForward

\* A frame from before a discontinuity is never handed to the host.
THEOREM CurrentDelivery == Spec => OnlyCurrentGenerationShown
<1>1. IInv /\ [Next]_vars =>
        [shown' # shown => shown'.generation = generation]_vars
  <2> SUFFICES ASSUME IInv, [Next]_vars, shown' # shown
               PROVE  shown'.generation = generation
    OBVIOUS
  <2>1. shown' = [generation |-> latest.generation, epoch |-> latest.epoch]
    BY ShownByHarvest
  <2>2. latest.generation = generation
    BY ShownByHarvest DEF HarvestFrame, OfCurrentGeneration
  <2> QED
    BY <2>1, <2>2
<1> QED
  BY <1>1, DecoderInvariant, PTL DEF Spec, OnlyCurrentGenerationShown
=============================================================================
