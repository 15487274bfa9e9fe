--------------------- MODULE CapturePublicationProofs ---------------------
(***************************************************************************)
(* CapturePublication (MCCapture's Pair) is safe for stills and            *)
(* recordings, for atomic moves and for links, and whatever disk calls     *)
(* fail.  The argument: a final name is ours only under a claimed gate     *)
(* (Visible), a claimed gate is never open to a cancellation               *)
(* (GateFollows), the terminal event is a function of the worker's result  *)
(* (Told), and a name an error leaves behind is due to a call that failed  *)
(* (MediaIsLast, ReportIsRolledBack).                                      *)
(***************************************************************************)
EXTENDS MCCapture, TLAPS

AfterReport == {"unlinkReport", "linkMedia", "unlinkMedia",
                "unlinkRolledReport", "publish"}

\* The gate and the worker agree on whose the commit is.
GateFollows ==
  /\ pairPc \in Pair!Commits => gate = "committing"
  /\ gate = "committing" => pairPc \in Pair!Commits \/ result = "err"
  /\ gate = "published" <=> result = "ok"

\* The terminal event is decided once, from the result.
Told ==
  /\ terminal # "none" <=> pairPc \in {"send", "ended"}
  /\ terminal = "succeeded" => result = "ok"
  /\ terminal # "none" /\ result = "ok" => terminal = "succeeded"

\* Names are ours only under a claimed gate, the report's first.
Visible ==
  /\ media = "ours" \/ report = "ours" => gate \in {"committing", "published"}
  /\ pairPc \in AfterReport => report = "ours"
  /\ pairPc \in {"unlinkMedia", "publish"} \/ result = "ok" =>
       media = "ours" /\ report = "ours"
  /\ pairPc \in {"unlinkReport", "unlinkMedia"} => ~Pair!AtomicMove

\* An error leaves a media name only if its temporary could not be unlinked.
MediaIsLast ==
  media = "ours" =>
    pairPc \in {"unlinkMedia", "publish"} \/ result = "ok"
       \/ "mediaTemp" \in stuck

\* It leaves a report name only if the temporary, or in the roll-back the report
\* itself, could not be unlinked.
ReportIsRolledBack ==
  report = "ours" =>
    \/ pairPc \in AfterReport \/ result = "ok"
    \/ stuck \cap {"reportTemp", "report"} # {}

Safe == GateFollows /\ Told /\ Visible /\ MediaIsLast /\ ReportIsRolledBack

IInv == Pair!TypeOK /\ Safe

\* At first nothing is on the disk and the gate is open.
LEMMA CaptureInit == Pair!Init => IInv
<1> USE DEF Pair!Init
<1>1. Pair!Init => Pair!TypeOK
  BY DEF Pair!TypeOK, Pair!Names, Pair!Terminals, Pair!Locations, Pair!Commits
<1>2. Pair!Init => Safe
  BY DEF Safe, GateFollows, Told, Visible, MediaIsLast, ReportIsRolledBack,
         Pair!Commits, AfterReport
<1> QED
  BY <1>1, <1>2 DEF IInv

\* The types of the gate, the flag and Main.
MainTypes ==
  /\ gate \in {"open", "cancelled", "committing", "published"}
  /\ pairCancel \in BOOLEAN
  /\ pairMain \in {"idle", "cancelling", "flagging"} /\ asked \in BOOLEAN
  /\ outcome \in {"none", "dropped"} \cup Pair!Terminals

\* The types of the worker.
WorkerTypes ==
  /\ pairPc \in Pair!Locations /\ result \in {"none", "ok", "err"}
  /\ result # "none" <=> pairPc \in {"clean", "judge", "send", "ended"}
  /\ terminal \in {"none"} \cup Pair!Terminals /\ event \in BOOLEAN

\* The types of the disk.
DiskTypes ==
  /\ mediaTemp \in BOOLEAN /\ reportTemp \in BOOLEAN
  /\ media \in Pair!Names /\ report \in Pair!Names
  /\ stuck \subseteq {"reportTemp", "mediaTemp", "report"}

\* The types of the encoder.
ChildTypes ==
  /\ encoder \in {"none", "spawned", "writing", "exitedWell", "exitedBadly",
     "gone"}
  /\ stdinClosed \in BOOLEAN /\ completion \in {"none", "ok", "err"}

\* What the capture runs on is decided at the start.
LEMMA SetupStep == [Pair!Next]_(Pair!vars) => setup' = setup
<1> SUFFICES ASSUME [Pair!Next]_(Pair!vars) PROVE setup' = setup
  OBVIOUS
<1> USE DEF Pair!mains, Pair!worker, Pair!disk, Pair!child, Pair!Goes,
            Pair!Fails
<1>1. CASE Pair!Main
  BY <1>1 DEF Pair!Main, Pair!RequestCancel, Pair!CancelGate, Pair!CancelFlag,
              Pair!PollTerminal, Pair!DropCapture
<1>2. CASE Pair!EncoderOpens \/ Pair!EncoderExits \/ Pair!Supervise
  BY <1>2 DEF Pair!EncoderOpens, Pair!EncoderExits, Pair!Supervise
<1>3. CASE Pair!ReserveMedia \/ Pair!ReserveReport \/ Pair!OpenSink
  BY <1>3 DEF Pair!ReserveMedia, Pair!ReserveReport, Pair!OpenSink
<1>4. CASE Pair!CaptureEnds \/ Pair!CaptureSeesCancel \/ Pair!AwaitEncoder
           \/ Pair!WriteReport
           \/ Pair!Claim
  BY <1>4 DEF Pair!CaptureEnds, Pair!CaptureSeesCancel, Pair!AwaitEncoder,
              Pair!WriteReport, Pair!Claim
<1>5. CASE Pair!LinkReport \/ Pair!UnlinkReportTemp \/ Pair!LinkMedia
           \/ Pair!UnlinkMediaTemp
  BY <1>5 DEF Pair!LinkReport, Pair!UnlinkReportTemp, Pair!LinkMedia,
              Pair!UnlinkMediaTemp
<1>6. CASE Pair!RollBackReport \/ Pair!RollBackMedia \/ Pair!Publish
  BY <1>6 DEF Pair!RollBackReport, Pair!RollBackMedia, Pair!Publish
<1>7. CASE Pair!Clean \/ Pair!Judge \/ Pair!SendTerminal \/ Pair!ForeignFile
  BY <1>7 DEF Pair!Clean, Pair!Judge, Pair!SendTerminal, Pair!ForeignFile
<1>8. CASE UNCHANGED Pair!vars
  BY <1>8 DEF Pair!vars
<1> QED
  BY <1>1, <1>2, <1>3, <1>4, <1>5, <1>6, <1>7, <1>8 DEF Pair!Next, Pair!Worker

\* The type of the setup.
SetupTypes == setup \in Pair!Setups

\* They make up TypeOK.
LEMMA TypesTogether ==
  Pair!TypeOK <=> SetupTypes /\ MainTypes /\ WorkerTypes /\ DiskTypes
     /\ ChildTypes
  BY DEF Pair!TypeOK, SetupTypes, MainTypes, WorkerTypes, DiskTypes, ChildTypes

\* Each step keeps the types of the gate, the flag and Main.
LEMMA MainTypesStep == MainTypes /\ WorkerTypes /\ [Pair!Next]_(Pair!vars)
   => MainTypes'
<1> SUFFICES ASSUME MainTypes /\ WorkerTypes, [Pair!Next]_(Pair!vars)
    PROVE MainTypes'
  OBVIOUS
<1> USE DEF MainTypes, WorkerTypes, Pair!Terminals, Pair!mains, Pair!worker,
            Pair!disk, Pair!child, Pair!Goes, Pair!Fails
<1>1. CASE Pair!Main
  BY <1>1 DEF Pair!Main, Pair!RequestCancel, Pair!CancelGate, Pair!CancelFlag,
              Pair!PollTerminal, Pair!DropCapture
<1>2. CASE Pair!EncoderOpens \/ Pair!EncoderExits \/ Pair!Supervise
  BY <1>2 DEF Pair!EncoderOpens, Pair!EncoderExits, Pair!Supervise
<1>3. CASE Pair!ReserveMedia \/ Pair!ReserveReport \/ Pair!OpenSink
  BY <1>3 DEF Pair!ReserveMedia, Pair!ReserveReport, Pair!OpenSink
<1>4. CASE Pair!CaptureEnds \/ Pair!CaptureSeesCancel \/ Pair!AwaitEncoder
           \/ Pair!WriteReport
           \/ Pair!Claim
  <2>1. CASE Pair!CaptureEnds \/ Pair!CaptureSeesCancel \/ Pair!AwaitEncoder
    BY <2>1 DEF Pair!CaptureEnds, Pair!CaptureSeesCancel, Pair!AwaitEncoder
  <2>2. CASE Pair!WriteReport \/ Pair!Claim
    BY <2>2 DEF Pair!WriteReport, Pair!Claim
  <2> QED
    BY <1>4, <2>1, <2>2
<1>5. CASE Pair!LinkReport \/ Pair!UnlinkReportTemp \/ Pair!LinkMedia
           \/ Pair!UnlinkMediaTemp
  BY <1>5 DEF Pair!LinkReport, Pair!UnlinkReportTemp, Pair!LinkMedia,
              Pair!UnlinkMediaTemp
<1>6. CASE Pair!RollBackReport \/ Pair!RollBackMedia \/ Pair!Publish
  BY <1>6 DEF Pair!RollBackReport, Pair!RollBackMedia, Pair!Publish
<1>7. CASE Pair!Clean \/ Pair!Judge \/ Pair!SendTerminal \/ Pair!ForeignFile
  BY <1>7 DEF Pair!Clean, Pair!Judge, Pair!SendTerminal, Pair!ForeignFile
<1>8. CASE UNCHANGED Pair!vars
  BY <1>8 DEF Pair!vars
<1> QED
  BY <1>1, <1>2, <1>3, <1>4, <1>5, <1>6, <1>7, <1>8 DEF Pair!Next, Pair!Worker

\* Each step keeps the types of the worker.
LEMMA WorkerTypesStep == WorkerTypes /\ [Pair!Next]_(Pair!vars)
   => WorkerTypes'
<1> SUFFICES ASSUME WorkerTypes, [Pair!Next]_(Pair!vars) PROVE WorkerTypes'
  OBVIOUS
<1> USE DEF WorkerTypes, Pair!Locations, Pair!Commits, Pair!Terminals,
            Pair!mains, Pair!worker, Pair!disk, Pair!child, Pair!Goes,
            Pair!Fails
<1>1. CASE Pair!Main
  BY <1>1 DEF Pair!Main, Pair!RequestCancel, Pair!CancelGate, Pair!CancelFlag,
              Pair!PollTerminal, Pair!DropCapture
<1>2. CASE Pair!EncoderOpens \/ Pair!EncoderExits \/ Pair!Supervise
  BY <1>2 DEF Pair!EncoderOpens, Pair!EncoderExits, Pair!Supervise
<1>3. CASE Pair!ReserveMedia \/ Pair!ReserveReport \/ Pair!OpenSink
  BY <1>3 DEF Pair!ReserveMedia, Pair!ReserveReport, Pair!OpenSink
<1>4. CASE Pair!CaptureEnds \/ Pair!CaptureSeesCancel \/ Pair!AwaitEncoder
           \/ Pair!WriteReport
           \/ Pair!Claim
  BY <1>4 DEF Pair!CaptureEnds, Pair!CaptureSeesCancel, Pair!AwaitEncoder,
              Pair!WriteReport, Pair!Claim
<1>5. CASE Pair!LinkReport \/ Pair!UnlinkReportTemp \/ Pair!LinkMedia
           \/ Pair!UnlinkMediaTemp
  BY <1>5 DEF Pair!LinkReport, Pair!UnlinkReportTemp, Pair!LinkMedia,
              Pair!UnlinkMediaTemp
<1>6. CASE Pair!RollBackReport \/ Pair!RollBackMedia \/ Pair!Publish
  BY <1>6 DEF Pair!RollBackReport, Pair!RollBackMedia, Pair!Publish
<1>7. CASE Pair!Clean \/ Pair!Judge \/ Pair!SendTerminal \/ Pair!ForeignFile
  BY <1>7 DEF Pair!Clean, Pair!Judge, Pair!SendTerminal, Pair!ForeignFile
<1>8. CASE UNCHANGED Pair!vars
  BY <1>8 DEF Pair!vars
<1> QED
  BY <1>1, <1>2, <1>3, <1>4, <1>5, <1>6, <1>7, <1>8 DEF Pair!Next, Pair!Worker

\* Each step keeps the types of the disk.
LEMMA DiskTypesStep == setup \in Pair!Setups /\ DiskTypes
   /\ [Pair!Next]_(Pair!vars) => DiskTypes'
<1> SUFFICES ASSUME setup \in Pair!Setups, DiskTypes,
    [Pair!Next]_(Pair!vars) PROVE DiskTypes'
  OBVIOUS
<1> USE DEF Pair!Setups, Pair!AtomicMove, Pair!DiskFaults, DiskTypes,
            Pair!Names, Pair!mains, Pair!worker, Pair!disk, Pair!child,
            Pair!Goes, Pair!Fails
<1>1. CASE Pair!Main
  BY <1>1 DEF Pair!Main, Pair!RequestCancel, Pair!CancelGate, Pair!CancelFlag,
              Pair!PollTerminal, Pair!DropCapture
<1>2. CASE Pair!EncoderOpens \/ Pair!EncoderExits \/ Pair!Supervise
  BY <1>2 DEF Pair!EncoderOpens, Pair!EncoderExits, Pair!Supervise
<1>3. CASE Pair!ReserveMedia \/ Pair!ReserveReport \/ Pair!OpenSink
  BY <1>3 DEF Pair!ReserveMedia, Pair!ReserveReport, Pair!OpenSink
<1>4. CASE Pair!CaptureEnds \/ Pair!CaptureSeesCancel \/ Pair!AwaitEncoder
           \/ Pair!WriteReport
           \/ Pair!Claim
  BY <1>4 DEF Pair!CaptureEnds, Pair!CaptureSeesCancel, Pair!AwaitEncoder,
              Pair!WriteReport, Pair!Claim
<1>5. CASE Pair!LinkReport \/ Pair!UnlinkReportTemp \/ Pair!LinkMedia
           \/ Pair!UnlinkMediaTemp
  BY <1>5 DEF Pair!LinkReport, Pair!UnlinkReportTemp, Pair!LinkMedia,
              Pair!UnlinkMediaTemp
<1>6. CASE Pair!RollBackReport \/ Pair!RollBackMedia \/ Pair!Publish
  BY <1>6 DEF Pair!RollBackReport, Pair!RollBackMedia, Pair!Publish
<1>7. CASE Pair!Clean \/ Pair!Judge \/ Pair!SendTerminal \/ Pair!ForeignFile
  BY <1>7 DEF Pair!Clean, Pair!Judge, Pair!SendTerminal, Pair!ForeignFile
<1>8. CASE UNCHANGED Pair!vars
  BY <1>8 DEF Pair!vars
<1> QED
  BY <1>1, <1>2, <1>3, <1>4, <1>5, <1>6, <1>7, <1>8 DEF Pair!Next, Pair!Worker

\* Each step keeps the types of the encoder.
LEMMA ChildTypesStep == ChildTypes /\ [Pair!Next]_(Pair!vars) => ChildTypes'
<1> SUFFICES ASSUME ChildTypes, [Pair!Next]_(Pair!vars) PROVE ChildTypes'
  OBVIOUS
<1> USE DEF ChildTypes, Pair!mains, Pair!worker, Pair!disk, Pair!child,
            Pair!Goes, Pair!Fails
<1>1. CASE Pair!Main
  BY <1>1 DEF Pair!Main, Pair!RequestCancel, Pair!CancelGate, Pair!CancelFlag,
              Pair!PollTerminal, Pair!DropCapture
<1>2. CASE Pair!EncoderOpens \/ Pair!EncoderExits \/ Pair!Supervise
  BY <1>2 DEF Pair!EncoderOpens, Pair!EncoderExits, Pair!Supervise
<1>3. CASE Pair!ReserveMedia \/ Pair!ReserveReport \/ Pair!OpenSink
  BY <1>3 DEF Pair!ReserveMedia, Pair!ReserveReport, Pair!OpenSink
<1>4. CASE Pair!CaptureEnds \/ Pair!CaptureSeesCancel \/ Pair!AwaitEncoder
           \/ Pair!WriteReport
           \/ Pair!Claim
  BY <1>4 DEF Pair!CaptureEnds, Pair!CaptureSeesCancel, Pair!AwaitEncoder,
              Pair!WriteReport, Pair!Claim
<1>5. CASE Pair!LinkReport \/ Pair!UnlinkReportTemp \/ Pair!LinkMedia
           \/ Pair!UnlinkMediaTemp
  BY <1>5 DEF Pair!LinkReport, Pair!UnlinkReportTemp, Pair!LinkMedia,
              Pair!UnlinkMediaTemp
<1>6. CASE Pair!RollBackReport \/ Pair!RollBackMedia \/ Pair!Publish
  BY <1>6 DEF Pair!RollBackReport, Pair!RollBackMedia, Pair!Publish
<1>7. CASE Pair!Clean \/ Pair!Judge \/ Pair!SendTerminal \/ Pair!ForeignFile
  BY <1>7 DEF Pair!Clean, Pair!Judge, Pair!SendTerminal, Pair!ForeignFile
<1>8. CASE UNCHANGED Pair!vars
  BY <1>8 DEF Pair!vars
<1> QED
  BY <1>1, <1>2, <1>3, <1>4, <1>5, <1>6, <1>7, <1>8 DEF Pair!Next, Pair!Worker

\* Each step keeps the types.
LEMMA TypeStep == Pair!TypeOK /\ [Pair!Next]_(Pair!vars) => Pair!TypeOK'
<1>1. SetupTypes /\ [Pair!Next]_(Pair!vars) => SetupTypes'
  BY SetupStep DEF SetupTypes
<1>2. SetupTypes => setup \in Pair!Setups
  BY DEF SetupTypes
<1> QED
  BY <1>1, <1>2, TypesTogether, MainTypesStep, WorkerTypesStep, DiskTypesStep,
     ChildTypesStep, PTL

\* The part of the types that the argument needs: there is a result exactly
\* after the worker has returned.
Returned == result # "none" <=> pairPc \in {"clean", "judge", "send", "ended"}

\* Each step of Main, the encoder, the supervisor, the worker and the other
\* programs keeps the argument's invariant.
LEMMA SafeStep == Returned /\ Safe /\ [Pair!Next]_(Pair!vars) => Safe'
<1> SUFFICES ASSUME Returned, Safe, [Pair!Next]_(Pair!vars) PROVE Safe'
  OBVIOUS
<1>0. Pair!AtomicMove' = Pair!AtomicMove /\ Pair!DiskFaults' = Pair!DiskFaults
  BY SetupStep DEF Pair!AtomicMove, Pair!DiskFaults
<1> USE DEF Returned, Safe, GateFollows, Told, Visible, MediaIsLast,
            ReportIsRolledBack, Pair!Commits, AfterReport, Pair!mains,
            Pair!worker, Pair!disk, Pair!child, Pair!Goes, Pair!Fails
<1>1. CASE Pair!RequestCancel
  BY <1>0, <1>1 DEF Pair!RequestCancel
<1>2. CASE Pair!CancelGate
  BY <1>0, <1>2 DEF Pair!CancelGate
<1>3. CASE Pair!CancelFlag
  BY <1>0, <1>3 DEF Pair!CancelFlag
<1>4. CASE Pair!PollTerminal
  BY <1>0, <1>4 DEF Pair!PollTerminal
<1>5. CASE Pair!DropCapture
  BY <1>0, <1>5 DEF Pair!DropCapture
<1>6. CASE Pair!EncoderOpens
  BY <1>0, <1>6 DEF Pair!EncoderOpens
<1>7. CASE Pair!EncoderExits
  BY <1>0, <1>7 DEF Pair!EncoderExits
<1>8. CASE Pair!Supervise
  BY <1>0, <1>8 DEF Pair!Supervise
<1>9. CASE Pair!ReserveMedia
  BY <1>0, <1>9 DEF Pair!ReserveMedia
<1>10. CASE Pair!ReserveReport
  BY <1>0, <1>10 DEF Pair!ReserveReport
<1>11. CASE Pair!OpenSink
  BY <1>0, <1>11 DEF Pair!OpenSink
<1>12. CASE Pair!CaptureEnds
  BY <1>0, <1>12 DEF Pair!CaptureEnds
<1>13. CASE Pair!CaptureSeesCancel
  BY <1>0, <1>13 DEF Pair!CaptureSeesCancel
<1>14. CASE Pair!AwaitEncoder
  BY <1>0, <1>14 DEF Pair!AwaitEncoder
<1>15. CASE Pair!WriteReport
  BY <1>0, <1>15 DEF Pair!WriteReport
<1>16. CASE Pair!Claim
  BY <1>0, <1>16 DEF Pair!Claim
<1>17. CASE Pair!LinkReport
  BY <1>0, <1>17 DEF Pair!LinkReport
<1>18. CASE Pair!UnlinkReportTemp
  BY <1>0, <1>18 DEF Pair!UnlinkReportTemp
<1>19. CASE Pair!LinkMedia
  BY <1>0, <1>19 DEF Pair!LinkMedia
<1>20. CASE Pair!UnlinkMediaTemp
  BY <1>0, <1>20 DEF Pair!UnlinkMediaTemp
<1>21. CASE Pair!RollBackReport
  BY <1>0, <1>21 DEF Pair!RollBackReport
<1>22. CASE Pair!RollBackMedia
  BY <1>0, <1>22 DEF Pair!RollBackMedia
<1>23. CASE Pair!Publish
  BY <1>0, <1>23 DEF Pair!Publish
<1>24. CASE Pair!Clean
  BY <1>0, <1>24 DEF Pair!Clean
<1>25. CASE Pair!Judge
  BY <1>0, <1>25 DEF Pair!Judge
<1>26. CASE Pair!SendTerminal
  BY <1>0, <1>26 DEF Pair!SendTerminal
<1>27. CASE Pair!ForeignFile
  BY <1>0, <1>27 DEF Pair!ForeignFile
<1>28. CASE UNCHANGED Pair!vars
  BY <1>0, <1>28 DEF Pair!vars
<1> QED
  BY <1>1, <1>2, <1>3, <1>4, <1>5, <1>6, <1>7, <1>8, <1>9, <1>10, <1>11,
     <1>12, <1>13, <1>14, <1>15, <1>16, <1>17, <1>18, <1>19, <1>20,
     <1>21, <1>22, <1>23, <1>24, <1>25, <1>26, <1>27, <1>28
  DEF Pair!Next, Pair!Main, Pair!Worker

\* Together they are inductive.
LEMMA CaptureStep == IInv /\ [Pair!Next]_(Pair!vars) => IInv'
<1>1. Pair!TypeOK => Returned
  BY DEF Pair!TypeOK, Returned
<1> QED
  BY <1>1, TypeStep, SafeStep DEF IInv

\* The inductive invariant of the publication.
THEOREM CaptureInvariant == Pair!Spec => []IInv
  BY CaptureInit, CaptureStep, PTL DEF Pair!Spec

\* The variables stay in their types.
THEOREM CaptureTyped == Pair!Spec => []Pair!TypeOK
<1>1. IInv => Pair!TypeOK
  BY DEF IInv
<1> QED
  BY <1>1, CaptureInvariant, PTL

\* A cancellation that won the gate is final, whatever the disk does.
THEOREM CancelIsFinal == Pair!Spec => []CancelWins
<1>1. IInv => CancelWins
  BY DEF IInv, Safe, Pair!TypeOK, GateFollows, Told, Visible, CancelWins,
         Pair!CancelWins
<1> QED
  BY <1>1, CaptureInvariant, PTL

\* The media never has its name without its report, except where the media's
\* temporary could not be unlinked after its link
\* (commit_artifact_pair_no_replace).
THEOREM ReportFirst == Pair!Spec => []ReportPublishedFirst
<1>1. IInv => ReportPublishedFirst
  BY DEF IInv, Safe, Visible, MediaIsLast, ReportPublishedFirst,
         Pair!ReportPublishedFirst
<1> QED
  BY <1>1, CaptureInvariant, PTL

\* The terminal event tells what is on the disk, up to the names that calls
\* which failed have left (commit_artifact_pair_linearized, its roll-back).
THEOREM OutcomeTruth == Pair!Spec => []OutcomeIsTrue
<1>1. IInv => OutcomeIsTrue
  BY DEF IInv, Safe, Pair!TypeOK, GateFollows, Told, Visible, MediaIsLast,
         ReportIsRolledBack, OutcomeIsTrue, Pair!OutcomeIsTrue, AfterReport
<1> QED
  BY <1>1, CaptureInvariant, PTL

\* No step takes a name from another program's file: the links need a free
\* name and only a report that is ours is rolled back.
THEOREM ForeignFilesKept == Pair!Spec => ForeignKept
<1>1. IInv /\ [Pair!Next]_(Pair!vars) =>
        [ /\ media = "foreign" => media' = "foreign"
          /\ report = "foreign" => report' = "foreign" ]_(Pair!vars)
  <2> SUFFICES ASSUME IInv, Pair!Next
               PROVE  /\ media = "foreign" => media' = "foreign"
                      /\ report = "foreign" => report' = "foreign"
    OBVIOUS
  <2> USE DEF IInv, Safe, Pair!TypeOK, Visible, AfterReport, Pair!Names,
              Pair!mains, Pair!worker, Pair!disk, Pair!child, Pair!Goes,
              Pair!Fails
  <2>1. CASE Pair!Main
    BY <2>1 DEF Pair!Main, Pair!RequestCancel, Pair!CancelGate,
                Pair!CancelFlag, Pair!PollTerminal, Pair!DropCapture
  <2>2. CASE Pair!EncoderOpens \/ Pair!EncoderExits \/ Pair!Supervise
    BY <2>2 DEF Pair!EncoderOpens, Pair!EncoderExits, Pair!Supervise
  <2>3. CASE Pair!ReserveMedia \/ Pair!ReserveReport \/ Pair!OpenSink
             \/ Pair!CaptureEnds
             \/ Pair!CaptureSeesCancel \/ Pair!AwaitEncoder
                \/ Pair!WriteReport \/ Pair!Claim
    BY <2>3 DEF Pair!ReserveMedia, Pair!ReserveReport, Pair!OpenSink,
                Pair!CaptureEnds, Pair!CaptureSeesCancel, Pair!AwaitEncoder,
                Pair!WriteReport, Pair!Claim
  <2>4. CASE Pair!LinkReport \/ Pair!UnlinkReportTemp \/ Pair!LinkMedia
             \/ Pair!UnlinkMediaTemp
    BY <2>4 DEF Pair!LinkReport, Pair!UnlinkReportTemp, Pair!LinkMedia,
                Pair!UnlinkMediaTemp
  <2>5. CASE Pair!RollBackReport \/ Pair!RollBackMedia \/ Pair!Publish
    BY <2>5 DEF Pair!RollBackReport, Pair!RollBackMedia, Pair!Publish
  <2>6. CASE Pair!Clean \/ Pair!Judge \/ Pair!SendTerminal \/ Pair!ForeignFile
    BY <2>6 DEF Pair!Clean, Pair!Judge, Pair!SendTerminal, Pair!ForeignFile
  <2> QED
    BY <2>1, <2>2, <2>3, <2>4, <2>5, <2>6 DEF Pair!Next, Pair!Worker
<1> QED
  BY <1>1, CaptureInvariant, PTL DEF Pair!Spec, ForeignKept, Pair!ForeignKept
=============================================================================
