----------------------- MODULE CaptureTimelineProofs -----------------------
(***************************************************************************)
(* Three facts about CaptureTimeline, for every pool, queue, number of     *)
(* readback slots and number of frames.                                    *)
(*                                                                         *)
(* The fixed pool loses no buffer: a buffer is counted in exactly one of   *)
(* five places; the equality holds while the worker runs, and once it has  *)
(* failed the sum can only be smaller.                                     *)
(*                                                                         *)
(* The file keeps the constant-rate clock (Shape), and a finish drains     *)
(* what was admitted unless the worker stalls: the frames' numbers rise    *)
(* along the readbacks, the lease, the queue, the worker's hand and the    *)
(* file (Ordered, InHand), a refused frame shuts out all later ones        *)
(* (Refused), and an empty poll under a finish flag that was already up at *)
(* the poll before means that nothing can come any more (Ending).          *)
(***************************************************************************)
EXTENDS CaptureTimeline, SequenceTheorems, TLAPS

Sum == pool + One(main = "leased") + Len(queue) + One(item # NoFrame)
         + One(last # NoFrame)

\* Nothing is leased, queued or written before the worker is ready.
NotYet ==
  pc = "starting" =>
    /\ phase = "starting" /\ pool = 0
    /\ main # "leased" /\ queue = <<>> /\ last = NoFrame

Counted ==
  /\ pc \notin {"starting", "failed", "gone"} => Sum = Pool
  /\ pc \in {"failed", "gone"} => Sum <= Pool

\* What the count needs of the types.
Kinds ==
  /\ queue \in Seq(Frames)
  /\ readbacks \in Seq(Frames)
  /\ next_capture_index \in 0..(MaxIndex + 1)
  /\ main = "leased" => lease \in Frames

\* The worker has a frame in hand while it writes one that fits the timeline.
Fits ==
  /\ item # NoFrame <=> pc = "writing"
  /\ pc = "writing" => item \in Frames /\ Follows(item)

IInv == Kinds /\ Fits /\ pool \in Nat /\ NotYet /\ Counted

\* At first no buffer is anywhere.
LEMMA TimelineInit == Init => IInv
  BY TimelineAssumption
  DEF Init, IInv, Kinds, Fits, NotYet, Counted, NoFrame, Frames

\* Each step keeps frames in the queues.
LEMMA KindsStep == Kinds /\ [Next]_vars => Kinds'
<1> SUFFICES ASSUME Kinds, [Next]_vars PROVE Kinds'
  OBVIOUS
<1> USE TimelineAssumption DEF Kinds, session, shared, worker
<1>1. CASE FrameIntent
  <2>1. next_capture_index \in Frames /\ next_capture_index' \in 0..(MaxIndex + 1)
    BY <1>1 DEF FrameIntent, Frames
  <2>2. Append(readbacks, next_capture_index) \in Seq(Frames)
    BY <2>1
  <2> QED
    BY <1>1, <2>1, <2>2 DEF FrameIntent
<1>2. CASE HarvestReadback
  <2>1. Head(readbacks) \in Frames /\ Tail(readbacks) \in Seq(Frames)
    BY <1>2 DEF HarvestReadback
  <2> QED
    BY <1>2, <2>1 DEF HarvestReadback
<1>3. CASE Submit
  <2>1. lease \in Frames
    BY <1>3 DEF Submit
  <2>2. Append(queue, lease) \in Seq(Frames)
    BY <2>1
  <2> QED
    BY <1>3, <2>1, <2>2 DEF Submit, ReturnLease
<1>4. CASE RequestFinish
  BY <1>4 DEF RequestFinish
<1>5. CASE DispatchFinish
  BY <1>5 DEF DispatchFinish
<1>6. CASE RaiseFinish
  BY <1>6 DEF RaiseFinish
<1>7. CASE MarkFinishing
  BY <1>7 DEF MarkFinishing
<1>8. CASE RequestCancel
  BY <1>8 DEF RequestCancel
<1>9. CASE DropRecorder
  BY <1>9 DEF DropRecorder
<1>10. CASE StartWorker
  BY <1>10 DEF StartWorker
<1>11. CASE CheckCancel
  BY <1>11 DEF CheckCancel
<1>12. CASE TakeFrame
  <2>1. Head(queue) \in Frames /\ Tail(queue) \in Seq(Frames)
    BY <1>12 DEF TakeFrame
  <2> QED
    BY <1>12, <2>1 DEF TakeFrame
<1>13. CASE RejectFrame
  <2>1. Head(queue) \in Frames /\ Tail(queue) \in Seq(Frames)
    BY <1>13 DEF RejectFrame
  <2> QED
    BY <1>13, <2>1 DEF RejectFrame
<1>14. CASE WriteFrame \/ WriteFails
  BY <1>14 DEF WriteFrame, WriteFails
<1>15. CASE ReceiveNothing
  BY <1>15 DEF ReceiveNothing
<1>16. CASE ReadFinish
  BY <1>16 DEF ReadFinish
<1>17. CASE CloseTimeline
  BY <1>17 DEF CloseTimeline
<1>18. CASE Terminate
  <2>1. <<>> \in Seq(Frames)
    OBVIOUS
  <2> QED
    BY <1>18, <2>1 DEF Terminate
<1>19. CASE UNCHANGED vars
  BY <1>19 DEF vars
<1> QED
  BY <1>1, <1>2, <1>3, <1>4, <1>5, <1>6, <1>7, <1>8, <1>9, <1>10, <1>11,
     <1>12, <1>13, <1>14, <1>15, <1>16, <1>17, <1>18, <1>19
  DEF Next, Main, Worker

\* A frame is taken only if it fits, and nothing else is written meanwhile.
LEMMA FitsStep == Kinds /\ Fits /\ [Next]_vars => Fits'
<1> SUFFICES ASSUME Kinds, Fits, [Next]_vars PROVE Fits'
  OBVIOUS
<1> USE DEF Fits, Follows, Gap, session, shared, worker
<1>1. CASE TakeFrame
  <2>1. Head(queue) \in Frames
    BY <1>1 DEF TakeFrame, Kinds
  <2>2. NoFrame \notin Frames
    BY TimelineAssumption DEF NoFrame, Frames
  <2> QED
    BY <1>1, <2>1, <2>2 DEF TakeFrame
<1>2. CASE WriteFrame \/ WriteFails
  BY <1>2 DEF WriteFrame, WriteFails
<1>3. CASE StartWorker \/ CheckCancel \/ ReceiveNothing \/ ReadFinish
  BY <1>3 DEF StartWorker, CheckCancel, ReceiveNothing, ReadFinish
<1>4. CASE RejectFrame
  BY <1>4 DEF RejectFrame
<1>5. CASE CloseTimeline \/ Terminate
  BY <1>5 DEF CloseTimeline, Terminate
<1>6. CASE UNCHANGED worker
  BY <1>6
<1>7. CASE Main
  BY <1>6, <1>7 DEF Main, FrameIntent, HarvestReadback, Submit, RequestFinish,
    DispatchFinish, RaiseFinish, MarkFinishing, RequestCancel, DropRecorder
<1> QED
  BY <1>1, <1>2, <1>3, <1>4, <1>5, <1>6, <1>7 DEF Next, Worker, vars

\* A sum of naturals.
LEMMA SumNat == Kinds /\ pool \in Nat => Sum \in Nat /\ Len(queue) \in Nat
<1> SUFFICES ASSUME Kinds, pool \in Nat PROVE Sum \in Nat /\ Len(queue) \in Nat
  OBVIOUS
<1>1. /\ One(main = "leased") \in Nat /\ One(item # NoFrame) \in Nat
      /\ One(last # NoFrame) \in Nat
  BY DEF One
<1>2. Len(queue) \in Nat
  BY DEF Kinds
<1> QED
  BY <1>1, <1>2 DEF Sum

\* The step leaves every buffer where it is and the worker where it is.
Unmoved ==
  /\ pool' = pool /\ queue' = queue /\ last' = last /\ pc' = pc
  /\ item' = item
  /\ main' = "leased" <=> main = "leased"
  /\ phase' = phase \/ phase # "starting"

LEMMA UnmovedCounts ==
  ASSUME NotYet, Counted, Unmoved
  PROVE  NotYet' /\ Counted'
<1>1. Sum' = Sum
  BY DEF Unmoved, Sum, One
<1>2. Counted'
  BY <1>1 DEF Unmoved, Counted
<1> QED
  BY <1>2 DEF Unmoved, NotYet

\* A running worker's step, or Main's while it runs, keeps the sum; a failing
\* one does not raise it.
LEMMA RunningCounts ==
  ASSUME Counted, Sum \in Nat, Sum' \in Nat, pc # "starting", pc' # "starting",
         pc \in {"failed", "gone"} => pc' \in {"failed", "gone"},
         Sum' = Sum \/ (Sum' <= Sum /\ pc' \in {"failed", "gone"})
  PROVE  NotYet' /\ Counted'
<1>1. Pool \in Nat
  BY TimelineAssumption
<1> QED
  BY <1>1 DEF NotYet, Counted

\* Each step moves a buffer from one place to another, or the worker fails.
LEMMA CountStep ==
  Kinds /\ Kinds' /\ Fits /\ pool \in Nat /\ NotYet /\ Counted /\ [Next]_vars =>
    pool' \in Nat /\ NotYet' /\ Counted'
<1> SUFFICES ASSUME Kinds, Kinds', Fits, pool \in Nat, NotYet, Counted,
                    [Next]_vars
             PROVE  pool' \in Nat /\ NotYet' /\ Counted'
  OBVIOUS
<1>0. Len(queue) \in Nat /\ Pool \in Nat /\ MaxIndex \in Nat /\ Sum \in Nat
  BY TimelineAssumption, SumNat
<1>1. CASE FrameIntent
  <2>1. Unmoved
    BY <1>1 DEF FrameIntent, Unmoved, session, shared, worker
  <2> QED
    BY <2>1, UnmovedCounts DEF Unmoved
<1>2. CASE RequestFinish
  <2>1. Unmoved
    BY <1>2 DEF RequestFinish, Unmoved, session, shared, worker
  <2> QED
    BY <2>1, UnmovedCounts DEF Unmoved
<1>3. CASE DispatchFinish
  <2>1. Unmoved
    BY <1>3 DEF DispatchFinish, Unmoved, session, shared, worker
  <2> QED
    BY <2>1, UnmovedCounts DEF Unmoved
<1>4. CASE RaiseFinish
  <2>1. Unmoved
    BY <1>4 DEF RaiseFinish, Unmoved, session, shared, worker
  <2> QED
    BY <2>1, UnmovedCounts DEF Unmoved
<1>5. CASE MarkFinishing
  <2>1. Unmoved
    BY <1>5 DEF MarkFinishing, Unmoved, session, shared, worker
  <2> QED
    BY <2>1, UnmovedCounts DEF Unmoved
<1>6. CASE RequestCancel
  <2>1. Unmoved
    BY <1>6 DEF RequestCancel, Unmoved, session, shared, worker
  <2> QED
    BY <2>1, UnmovedCounts DEF Unmoved
<1>7. CASE DropRecorder
  <2>1. Unmoved
    BY <1>7 DEF DropRecorder, Unmoved, session, shared, worker
  <2> QED
    BY <2>1, UnmovedCounts DEF Unmoved
<1>8. CASE HarvestReadback
  <2>1. CASE Unmoved
    BY <2>1, UnmovedCounts DEF Unmoved
  <2>2. CASE ~Unmoved
    <3>1. /\ main = "idle" /\ main' = "leased" /\ pool > 0 /\ pool' = pool - 1
          /\ phase = "recording"
          /\ queue' = queue /\ last' = last /\ item' = item /\ pc' = pc
      BY <1>8, <2>2 DEF HarvestReadback, Unmoved, session, shared, worker
    <3>2. pool' \in Nat /\ Sum' = Sum
      BY <3>1, <1>0 DEF Sum, One
    <3>3. pc # "starting"
      BY <3>1 DEF NotYet
    <3> QED
      BY <1>0, <3>1, <3>2, <3>3, RunningCounts
  <2> QED
    BY <2>1, <2>2
<1>9. CASE Submit
  <2>1. /\ main = "leased" /\ main' = "idle" /\ last' = last /\ item' = item /\ pc' = pc
        /\ \/ pool' = pool /\ queue' = Append(queue, lease)
           \/ pool' = pool + 1 /\ queue' = queue
    BY <1>9 DEF Submit, ReturnLease, session, shared, worker
  <2>3. /\ One(main = "leased") = 1 /\ One(main' = "leased") = 0
        /\ One(item' # NoFrame) = One(item # NoFrame) /\ One(item # NoFrame) \in Nat
        /\ One(last' # NoFrame) = One(last # NoFrame) /\ One(last # NoFrame) \in Nat
    BY <2>1 DEF One
  <2>5. pool' \in Nat /\ Sum' = Sum
    <3>1. CASE pool' = pool /\ queue' = Append(queue, lease)
      <4>1. Len(queue') = Len(queue) + 1
        BY <3>1 DEF Kinds
      <4> QED
        BY <3>1, <4>1, <2>3, <1>0 DEF Sum
    <3>2. CASE pool' = pool + 1 /\ queue' = queue
      BY <3>2, <2>3, <1>0 DEF Sum
    <3> QED
      BY <2>1, <3>1, <3>2
  <2>4. pc # "starting"
    BY <2>1 DEF NotYet
  <2> QED
    BY <1>0, <2>1, <2>5, <2>4, RunningCounts
<1>10. CASE StartWorker
  <2>1. /\ pc = "starting" /\ pc' \in {"checking", "failed"}
        /\ main' = main /\ queue' = queue /\ last' = last /\ item' = item /\ pool' = Pool
    BY <1>10 DEF StartWorker, session, shared, worker
  <2>2. Sum' = Pool
    BY <2>1, <1>0 DEF NotYet, Fits, Sum, One
  <2> QED
    BY <2>1, <2>2, <1>0 DEF NotYet, Counted
<1>11. CASE CheckCancel
  <2>1. /\ pool' = pool /\ queue' = queue /\ main' = main /\ last' = last /\ item' = item
        /\ pc \notin {"starting", "failed", "gone"} /\ pc' # "starting"
    BY <1>11 DEF CheckCancel, session, shared, worker
  <2>2. Sum' = Sum
    BY <2>1 DEF Sum
  <2> QED
    BY <1>0, <2>1, <2>2, RunningCounts
<1>12. CASE ReceiveNothing
  <2>1. /\ pool' = pool /\ queue' = queue /\ main' = main /\ last' = last /\ item' = item
        /\ pc \notin {"starting", "failed", "gone"} /\ pc' # "starting"
    BY <1>12 DEF ReceiveNothing, session, shared, worker
  <2>2. Sum' = Sum
    BY <2>1 DEF Sum
  <2> QED
    BY <1>0, <2>1, <2>2, RunningCounts
<1>13. CASE ReadFinish
  <2>1. /\ pool' = pool /\ queue' = queue /\ main' = main /\ last' = last /\ item' = item
        /\ pc \notin {"starting", "failed", "gone"} /\ pc' # "starting"
    BY <1>13 DEF ReadFinish, session, shared, worker
  <2>2. Sum' = Sum
    BY <2>1 DEF Sum
  <2> QED
    BY <1>0, <2>1, <2>2, RunningCounts
<1>14. CASE CloseTimeline
  <2>1. /\ pool' = pool /\ queue' = queue /\ main' = main /\ last' = last /\ item' = item
        /\ pc \notin {"starting", "failed", "gone"} /\ pc' # "starting"
    BY <1>14 DEF CloseTimeline, session, shared, worker
  <2>2. Sum' = Sum
    BY <2>1 DEF Sum
  <2> QED
    BY <1>0, <2>1, <2>2, RunningCounts
<1>15. CASE WriteFrame
  <2>1. /\ pc = "writing" /\ pc' = "checking" /\ queue' = queue
        /\ item' = NoFrame /\ last' = item /\ main' = main
        /\ pool' = IF last = NoFrame THEN pool ELSE pool + 1
    BY <1>15 DEF WriteFrame, session, shared, worker
  <2>2. last' # NoFrame /\ item # NoFrame
    BY <2>1 DEF Fits
  <2>5. /\ One(main' = "leased") = One(main = "leased") /\ One(main = "leased") \in Nat
        /\ One(item # NoFrame) = 1 /\ One(item' # NoFrame) = 0
        /\ One(last' # NoFrame) = 1
    BY <2>1, <2>2 DEF One
  <2>9. pool' \in Nat /\ Sum' = Sum
    <3>1. CASE last = NoFrame
      <4>1. One(last # NoFrame) = 0 /\ pool' = pool
        BY <2>1, <3>1 DEF One
      <4> QED
        BY <4>1, <2>1, <2>5, <1>0 DEF Sum
    <3>2. CASE last # NoFrame
      <4>1. One(last # NoFrame) = 1 /\ pool' = pool + 1
        BY <2>1, <3>2 DEF One
      <4> QED
        BY <4>1, <2>1, <2>5, <1>0 DEF Sum
    <3> QED
      BY <3>1, <3>2
  <2> QED
    BY <1>0, <2>1, <2>9, RunningCounts
<1>16. CASE RejectFrame
  <2>1. /\ pc = "receiving" /\ pc' = "checking" /\ queue # <<>>
        /\ queue' = Tail(queue) /\ last' = last /\ item' = item /\ main' = main /\ pool' = pool + 1
    BY <1>16 DEF RejectFrame, session, shared, worker
  <2>2. Len(queue') = Len(queue) - 1
    BY <2>1 DEF Kinds
  <2>4. /\ One(main' = "leased") = One(main = "leased") /\ One(main = "leased") \in Nat
        /\ One(last' # NoFrame) = One(last # NoFrame) /\ One(last # NoFrame) \in Nat
        /\ One(item' # NoFrame) = One(item # NoFrame) /\ One(item # NoFrame) \in Nat
    BY <2>1 DEF One
  <2>3. pool' \in Nat /\ Sum' = Sum
    BY <2>1, <2>2, <2>4, <1>0 DEF Sum
  <2> QED
    BY <1>0, <2>1, <2>3, RunningCounts
<1>17. CASE WriteFails
  <2>1. /\ pc = "writing" /\ pc' = "failed" /\ item' = NoFrame /\ item # NoFrame
        /\ queue' = queue /\ last' = last /\ main' = main /\ pool' = pool
    BY <1>17 DEF WriteFails, Fits, session, shared, worker
  <2>4. /\ One(main' = "leased") = One(main = "leased") /\ One(main = "leased") \in Nat
        /\ One(item # NoFrame) = 1 /\ One(item' # NoFrame) = 0
        /\ One(last' # NoFrame) = One(last # NoFrame) /\ One(last # NoFrame) \in Nat
    BY <2>1 DEF One
  <2>3. Sum' = Sum - 1 /\ Sum' \in Nat
    BY <2>1, <2>4, <1>0 DEF Sum
  <2> QED
    BY <1>0, <2>1, <2>3, RunningCounts
<1>20. CASE TakeFrame
  <2>1. /\ pc = "receiving" /\ pc' = "writing" /\ queue # <<>>
        /\ item = NoFrame /\ item' = Head(queue) /\ queue' = Tail(queue)
        /\ last' = last /\ main' = main /\ pool' = pool
    BY <1>20 DEF TakeFrame, Fits, session, shared, worker
  <2>2. Len(queue') = Len(queue) - 1 /\ item' # NoFrame
    BY <2>1, <1>0 DEF Kinds, Frames, NoFrame
  <2>4. /\ One(main' = "leased") = One(main = "leased") /\ One(main = "leased") \in Nat
        /\ One(item # NoFrame) = 0 /\ One(item' # NoFrame) = 1
        /\ One(last' # NoFrame) = One(last # NoFrame) /\ One(last # NoFrame) \in Nat
    BY <2>1, <2>2 DEF One
  <2>3. pool' \in Nat /\ Sum' = Sum
    BY <2>1, <2>2, <2>4, <1>0 DEF Sum
  <2> QED
    BY <1>0, <2>1, <2>3, RunningCounts
<1>18. CASE Terminate
  <2>1. CASE pc' = pc
    <3>1. /\ pool' = pool /\ queue' = queue /\ main' = main /\ last' = last /\ item' = item
          /\ pc # "starting"
      BY <1>18, <2>1 DEF Terminate, session, shared, worker
    <3>2. Sum' = Sum
      BY <3>1 DEF Sum
    <3> QED
      BY <1>0, <2>1, <3>1, <3>2, RunningCounts
  <2>2. CASE pc' # pc
    <3>1. /\ pool' = pool /\ queue' = <<>> /\ main' = main /\ last' = last /\ item' = item
          /\ pc = "failed" /\ pc' = "gone"
      BY <1>18, <2>2 DEF Terminate, session, shared, worker
    <3>2. Sum' <= Sum /\ Sum' \in Nat
      BY <3>1, <1>0 DEF Sum, One
    <3> QED
      BY <1>0, <3>1, <3>2, RunningCounts
  <2> QED
    BY <2>1, <2>2
<1>19. CASE UNCHANGED vars
  <2>1. Unmoved
    BY <1>19 DEF vars, Unmoved, session, shared, worker
  <2> QED
    BY <2>1, UnmovedCounts DEF Unmoved
<1> QED
  BY <1>1, <1>2, <1>3, <1>4, <1>5, <1>6, <1>7, <1>8, <1>9, <1>10, <1>11,
     <1>12, <1>13, <1>14, <1>15, <1>16, <1>17, <1>18, <1>19, <1>20
  DEF Next, Main, Worker

\* Together they are inductive.
LEMMA TimelineStep == IInv /\ [Next]_vars => IInv'
  BY KindsStep, FitsStep, CountStep DEF IInv

\* While the worker runs every buffer of the fixed pool is free, leased, queued,
\* being written or the picture it repeats, however many frames came and were dropped.
THEOREM TimelineBuffers == Spec => []BuffersConserved
<1>1. IInv => BuffersConserved
  BY DEF IInv, Counted, Sum, BuffersConserved
<1> QED
  BY <1>1, TimelineInit, TimelineStep, PTL DEF Spec

-----------------------------------------------------------------------------
(***************************************************************************)
(* The picture sequence.  Written frames come in order, so a picture that  *)
(* repeats the last one over the missed ticks keeps the file exact; the    *)
(* order comes from Main, which numbers the frames and keeps it through    *)
(* the readbacks, the lease and the queue.                                 *)
(***************************************************************************)
\* Position k of a sequence that starts at its first frame's tick.
At(s, k) == s[1] + k - 1

\* Every position shows the newest frame of the sequence up to its tick.
Exact(s) ==
  \A k \in 1..Len(s) :
    /\ s[k] <= At(s, k)
    /\ \A j \in 1..Len(s) : s[j] <= At(s, k) => s[j] <= s[k]

Shape ==
  /\ file \in Seq(Frames) /\ Exact(file)
  /\ last = NoFrame <=> file = <<>>
  /\ last # NoFrame => last \in Frames
  /\ pc # "closed" /\ file # <<>> =>
       file[Len(file)] = last /\ At(file, Len(file)) = last
  /\ pc = "closed" =>
       /\ file # <<>> /\ At(file, Len(file)) = finish_capture_index
       /\ finish_capture_index <= last + MaxGap

\* The last index is stored once, before the worker can see the flag.
FinishOnce ==
  /\ finish_capture_index \in Frames
  /\ finish_requested => main \in {"marking", "dropped"} \/ finish_dispatched
  /\ pc \in {"closing", "closed"} => finish_requested \/ main = "dropped"

Rising(s) == \A i, j \in 1..Len(s) : i < j => s[i] < s[j]
Behind(S, s) == \A f \in S, k \in 1..Len(s) : f < s[k]
Leased == IF main = "leased" THEN {lease} ELSE {}

\* Written and refused frames are behind the queued ones, these behind the
\* leased one, that behind the readbacks, and all of them behind the next number.
Ordered ==
  /\ accepted \subseteq Frames
  /\ Rising(readbacks) /\ Behind(accepted \cup Leased, readbacks)
  /\ \A f \in accepted \cup Leased : f < next_capture_index
  /\ \A k \in 1..Len(readbacks) : readbacks[k] < next_capture_index
  /\ \A f \in accepted, g \in Leased : f < g
  /\ Rising(queue) /\ Behind(ToSet(file) \cup rejected, queue)
  /\ ToSet(queue) \cup ToSet(file) \cup rejected \subseteq accepted

\* The frame in hand is between the written and the queued ones.
InHand ==
  pc = "writing" =>
    /\ item \in accepted
    /\ \A f \in ToSet(file) \cup rejected : f < item
    /\ \A k \in 1..Len(queue) : item < queue[k]

\* Once Main prepares the finish nothing is submitted any more, so a queue
\* found empty with the flag up stays empty.
Ending ==
  /\ main \in {"finishing", "marking"} \/ finish_requested =>
       /\ ~accepting /\ readbacks = <<>> /\ main # "leased"
       /\ \A f \in accepted : f <= finish_capture_index
  /\ idle => finish_requested
  /\ (pc = "timedOut" /\ idle) \/ (pc \in {"closing", "closed"} /\ ~stalled)
       => queue = <<>>
  /\ main = "dropped" => cancel

\* A refused frame is too far ahead of the last written one, and so is every
\* frame after it.
Refused == \A r \in rejected : last # NoFrame /\ r > last + MaxGap + 1

Taken == IF pc = "writing" THEN {item} ELSE {}

\* While the worker runs a submitted frame is in the file, in hand, waits or was
\* refused.
Held ==
  pc \notin {"failed", "gone"} =>
    accepted = ToSet(file) \cup Taken \cup ToSet(queue) \cup rejected

\* A nonempty sequence is its head and its tail.
LEMMA HeadTail ==
  ASSUME NEW S, NEW s \in Seq(S), s # <<>>
  PROVE  /\ Head(s) = s[1] /\ Head(s) \in S /\ 1 \in 1..Len(s)
         /\ Tail(s) \in Seq(S) /\ Len(Tail(s)) = Len(s) - 1
         /\ \A k \in 1..Len(Tail(s)) : Tail(s)[k] = s[k + 1] /\ k + 1 \in 1..Len(s)
         /\ ToSet(s) = {Head(s)} \cup ToSet(Tail(s))
<1>1. /\ Head(s) = s[1] /\ Head(s) \in S /\ 1 \in 1..Len(s)
      /\ Tail(s) \in Seq(S) /\ Len(Tail(s)) = Len(s) - 1
      /\ DOMAIN s = 1..Len(s) /\ DOMAIN Tail(s) = 1..Len(Tail(s))
  OBVIOUS
<1>2. \A k \in 1..Len(Tail(s)) : Tail(s)[k] = s[k + 1] /\ k + 1 \in 1..Len(s)
  OBVIOUS
<1>3. \A k \in 1..Len(s) : k = 1 \/ k - 1 \in 1..Len(Tail(s))
  BY <1>1
<1>4. ASSUME NEW x \in ToSet(s) PROVE x \in {Head(s)} \cup ToSet(Tail(s))
  <2>1. PICK k \in 1..Len(s) : x = s[k]
    BY <1>4 DEF ToSet
  <2>2. CASE k = 1
    BY <2>1, <2>2, <1>1
  <2>3. CASE k # 1
    <3>1. k - 1 \in 1..Len(Tail(s)) /\ Tail(s)[k - 1] = s[k]
      BY <2>3, <1>1, <1>2, <1>3
    <3> QED
      BY <2>1, <3>1, <1>1 DEF ToSet
  <2> QED
    BY <2>2, <2>3
<1>5. ASSUME NEW x \in {Head(s)} \cup ToSet(Tail(s)) PROVE x \in ToSet(s)
  <2>1. CASE x = Head(s)
    BY <2>1, <1>1 DEF ToSet
  <2>2. CASE x \in ToSet(Tail(s))
    <3>1. PICK k \in 1..Len(Tail(s)) : x = Tail(s)[k]
      BY <2>2, <1>1 DEF ToSet
    <3> QED
      BY <3>1, <1>2 DEF ToSet
  <2> QED
    BY <1>5, <2>1, <2>2
<1> QED
  BY <1>1, <1>2, <1>4, <1>5

\* What is appended comes last.
LEMMA AppendLast ==
  ASSUME NEW S, NEW s \in Seq(S), NEW x \in S
  PROVE  /\ Append(s, x) \in Seq(S) /\ Len(Append(s, x)) = Len(s) + 1
         /\ \A k \in 1..Len(s) : Append(s, x)[k] = s[k]
         /\ Append(s, x)[Len(s) + 1] = x
         /\ ToSet(Append(s, x)) = ToSet(s) \cup {x}
<1>1. /\ Append(s, x) \in Seq(S) /\ Len(Append(s, x)) = Len(s) + 1
      /\ \A k \in 1..Len(s) : Append(s, x)[k] = s[k]
      /\ Append(s, x)[Len(s) + 1] = x
  OBVIOUS
<1>2. \A k \in 1..(Len(s) + 1) : k \in 1..Len(s) \/ k = Len(s) + 1
  OBVIOUS
<1>3. \A k \in 1..Len(s) : k \in 1..(Len(s) + 1)
  OBVIOUS
<1>4. Len(s) + 1 \in 1..(Len(s) + 1)
  OBVIOUS
<1>5. ToSet(Append(s, x)) \subseteq ToSet(s) \cup {x}
  BY <1>1, <1>2 DEF ToSet
<1>6. ToSet(s) \cup {x} \subseteq ToSet(Append(s, x))
  BY <1>1, <1>3, <1>4 DEF ToSet
<1> QED
  BY <1>1, <1>5, <1>6

\* The tail of a rising sequence rises, and its head is behind it.
LEMMA RisingTail ==
  ASSUME NEW s \in Seq(Frames), s # <<>>, Rising(s)
  PROVE  Rising(Tail(s)) /\ Behind({Head(s)}, Tail(s))
<1>1. ASSUME NEW i \in 1..Len(Tail(s)), NEW j \in 1..Len(Tail(s)), i < j
      PROVE  Tail(s)[i] < Tail(s)[j]
  BY <1>1, HeadTail DEF Rising
<1>2. ASSUME NEW k \in 1..Len(Tail(s)) PROVE Head(s) < Tail(s)[k]
  <2>1. 1 < k + 1 /\ k + 1 \in 1..Len(s) /\ 1 \in 1..Len(s)
    BY HeadTail
  <2> QED
    BY <2>1, HeadTail DEF Rising
<1> QED
  BY <1>1, <1>2 DEF Rising, Behind

\* A later frame keeps a rising sequence rising.
LEMMA RisingAppend ==
  ASSUME NEW s \in Seq(Frames), NEW x \in Frames, Rising(s),
         \A k \in 1..Len(s) : s[k] < x
  PROVE  Rising(Append(s, x))
<1>1. SUFFICES ASSUME NEW i \in 1..(Len(s) + 1), NEW j \in 1..(Len(s) + 1), i < j
               PROVE  Append(s, x)[i] < Append(s, x)[j]
  BY AppendLast DEF Rising
<1>2. i \in 1..Len(s) /\ (j \in 1..Len(s) \/ j = Len(s) + 1)
  BY <1>1
<1> QED
  BY <1>1, <1>2, AppendLast DEF Rising

\* A sequence with a frame starts at one.
LEMMA Started ==
  ASSUME NEW s \in Seq(Frames), s # <<>>
  PROVE  Len(s) \in Nat /\ Len(s) > 0 /\ s[1] \in Int
<1>1. Frames \subseteq Int
  BY TimelineAssumption DEF Frames
<1>2. Len(s) \in Nat /\ Len(s) > 0 /\ s[1] \in Frames
  OBVIOUS
<1> QED
  BY <1>1, <1>2

\* One frame starts an exact sequence.
LEMMA Single ==
  ASSUME NEW x \in Frames, NEW s, s = <<x>>
  PROVE  s # <<>> /\ Exact(s) /\ s[Len(s)] = x /\ At(s, Len(s)) = x
<1>1. x \in Int
  BY TimelineAssumption DEF Frames
<1>2. Len(s) = 1 /\ s[1] = x /\ s # <<>>
  OBVIOUS
<1>3. At(s, 1) = x
  BY <1>1, <1>2 DEF At
<1>4. Exact(s)
  BY <1>1, <1>2, <1>3 DEF Exact
<1> QED
  BY <1>2, <1>3, <1>4

\* Repeating the last picture over missed ticks leaves the sequence exact.
LEMMA Padded ==
  ASSUME NEW s \in Seq(Frames), s # <<>>, Exact(s),
         s[Len(s)] = At(s, Len(s)), NEW n \in Nat,
         NEW p, p = s \o Repeat(s[Len(s)], n)
  PROVE  /\ p \in Seq(Frames) /\ Len(p) = Len(s) + n
         /\ p[1] = s[1] /\ p[Len(p)] = s[Len(s)]
         /\ Exact(p) /\ ToSet(p) = ToSet(s)
<1> DEFINE v == s[Len(s)]
<1>0. /\ Len(s) \in Nat /\ Len(s) > 0 /\ v \in Frames /\ Frames \subseteq Int
      /\ s[1] \in Int /\ \A k \in 1..Len(s) : s[k] \in Int
  BY TimelineAssumption DEF Frames
<1>1. Repeat(v, n) \in Seq(Frames) /\ Len(Repeat(v, n)) = n
  BY <1>0 DEF Repeat
<1>2. \A k \in 1..n : Repeat(v, n)[k] = v
  BY DEF Repeat
<1>3. p \in Seq(Frames) /\ Len(p) = Len(s) + n /\ DOMAIN p = 1..Len(p)
  <2>1. ASSUME NEW r \in Seq(Frames)
        PROVE  s \o r \in Seq(Frames) /\ Len(s \o r) = Len(s) + Len(r)
    OBVIOUS
  <2>2. p \in Seq(Frames) /\ Len(p) = Len(s) + Len(Repeat(v, n))
    BY <1>1, <2>1, Zenon
  <2> QED
    BY <1>1, <2>2
<1>4. \A k \in 1..Len(s) : p[k] = s[k]
  BY <1>1
<1>5. \A k \in (Len(s) + 1)..(Len(s) + n) : p[k] = v
  <2> TAKE k \in (Len(s) + 1)..(Len(s) + n)
  <2>1. k - Len(s) \in 1..n /\ p[k] = Repeat(v, n)[k - Len(s)]
    BY <1>0, <1>1
  <2> QED
    BY <2>1, <1>2
<1>6. \A k \in 1..Len(p) : k \in 1..Len(s) \/ k \in (Len(s) + 1)..(Len(s) + n)
  BY <1>0, <1>3
<1>7. 1 \in 1..Len(s) /\ Len(s) \in 1..Len(s) /\ \A k \in 1..Len(s) : k \in 1..Len(p)
  BY <1>0, <1>3
<1>8. \A k \in 1..Len(p) : \E j \in 1..Len(s) : p[k] = s[j]
  BY <1>4, <1>5, <1>6, <1>7
<1>9. \A j \in 1..Len(s) : s[j] <= v
  <2> TAKE j \in 1..Len(s)
  <2>1. s[Len(s)] <= At(s, Len(s))
    BY <1>7 DEF Exact
  <2>2. v = At(s, Len(s))
    OBVIOUS
  <2>3. s[j] <= At(s, j)
    BY DEF Exact
  <2>4. At(s, j) <= At(s, Len(s))
    BY <1>0 DEF At
  <2> QED
    BY <2>2, <2>3, <2>4, <1>0 DEF At
<1>10. p[1] = s[1] /\ \A k \in Int : At(p, k) = At(s, k)
  BY <1>4, <1>7 DEF At
<1>11. p[Len(p)] = v
  <2>1. CASE n = 0
    BY <2>1, <1>3, <1>4, <1>7
  <2>2. CASE n # 0
    <3>1. Len(p) \in (Len(s) + 1)..(Len(s) + n)
      BY <2>2, <1>0, <1>3
    <3> QED
      BY <3>1, <1>5
  <2> QED
    BY <2>1, <2>2
<1>12. Exact(p)
  <2> SUFFICES ASSUME NEW k \in 1..Len(p)
               PROVE  /\ p[k] <= At(p, k)
                      /\ \A j \in 1..Len(p) : p[j] <= At(p, k) => p[j] <= p[k]
    BY DEF Exact
  <2>1. CASE k \in 1..Len(s)
    <3>1. p[k] = s[k] /\ At(p, k) = At(s, k)
      BY <2>1, <1>4, <1>10
    <3> QED
      BY <2>1, <3>1, <1>8 DEF Exact
  <2>2. CASE k \in (Len(s) + 1)..(Len(s) + n)
    <3>1. p[k] = v /\ At(p, k) = At(s, k)
      BY <2>2, <1>5, <1>10
    <3>2. v <= At(s, k)
      <4>1. v = At(s, Len(s))
        OBVIOUS
      <4> HIDE DEF v
      <4> QED
        BY <2>2, <4>1, <1>0 DEF At
    <3>3. \A j \in 1..Len(p) : p[j] <= v
      BY <1>8, <1>9
    <3> HIDE DEF v
    <3> QED
      BY <3>1, <3>2, <3>3
  <2> QED
    BY <2>1, <2>2, <1>6
<1>13. ToSet(p) = ToSet(s)
  <2>1. ToSet(p) \subseteq ToSet(s)
    <3>1. DOMAIN s = 1..Len(s)
      OBVIOUS
    <3> SUFFICES ASSUME NEW x \in ToSet(p) PROVE x \in ToSet(s)
      OBVIOUS
    <3>2. PICK k \in 1..Len(p) : x = p[k]
      BY <1>3 DEF ToSet
    <3>3. PICK j \in DOMAIN s : x = s[j]
      BY <1>8, <3>1, <3>2, Zenon
    <3> QED
      BY <3>3, Zenon DEF ToSet
  <2>2. ToSet(s) \subseteq ToSet(p)
    BY <1>3, <1>4, <1>7 DEF ToSet
  <2> QED
    BY <2>1, <2>2
<1> QED
  BY <1>3, <1>10, <1>11, <1>12, <1>13

\* The frame of the next tick keeps the sequence exact.
LEMMA ThenFrame ==
  ASSUME NEW p \in Seq(Frames), p # <<>>, Exact(p), NEW x \in Frames,
         x = At(p, Len(p) + 1)
  PROVE  Exact(Append(p, x)) /\ At(Append(p, x), Len(Append(p, x))) = x
<1> DEFINE q == Append(p, x)
<1>0. /\ Len(p) \in Nat /\ Len(p) > 0 /\ Frames \subseteq Int /\ x \in Int
      /\ p[1] \in Int /\ \A k \in 1..Len(p) : p[k] \in Int
  BY TimelineAssumption DEF Frames
<1>1. /\ Len(q) = Len(p) + 1 /\ q[Len(p) + 1] = x
      /\ \A k \in 1..Len(p) : q[k] = p[k]
  BY AppendLast
<1> HIDE DEF q
<1>2. q[1] = p[1] /\ \A k \in Int : At(q, k) = At(p, k)
  BY <1>0, <1>1 DEF At
<1>3. \A k \in 1..Len(p) : p[k] <= At(p, k) /\ At(p, k) < x
  <2> TAKE k \in 1..Len(p)
  <2>1. p[k] <= At(p, k)
    BY DEF Exact
  <2> QED
    BY <2>1, <1>0 DEF At
<1>4. \A k \in 1..Len(q) : k \in 1..Len(p) \/ k = Len(p) + 1
  BY <1>0, <1>1
<1>5. Exact(q)
  <2> SUFFICES ASSUME NEW k \in 1..Len(q)
               PROVE  /\ q[k] <= At(q, k)
                      /\ \A j \in 1..Len(q) : q[j] <= At(q, k) => q[j] <= q[k]
    BY DEF Exact
  <2>1. CASE k \in 1..Len(p)
    <3>1. q[k] = p[k] /\ At(q, k) = At(p, k) /\ At(p, k) \in Int
      BY <2>1, <1>0, <1>1, <1>2 DEF At
    <3>2. ASSUME NEW j \in 1..Len(q), q[j] <= At(q, k) PROVE q[j] <= q[k]
      <4>1. j # Len(p) + 1
        BY <2>1, <3>1, <3>2, <1>0, <1>1, <1>3
      <4>2. j \in 1..Len(p) /\ q[j] = p[j]
        BY <4>1, <1>1, <1>4
      <4> QED
        BY <2>1, <3>1, <3>2, <4>2 DEF Exact
    <3> QED
      BY <2>1, <3>1, <3>2, <1>3
  <2>2. CASE k = Len(p) + 1
    <3>1. q[k] = x /\ At(q, k) = x
      BY <2>2, <1>0, <1>1, <1>2
    <3>2. ASSUME NEW j \in 1..Len(q) PROVE q[j] <= x
      <4>1. CASE j \in 1..Len(p)
        <5>1. q[j] = p[j] /\ p[j] <= At(p, j) /\ At(p, j) < x /\ At(p, j) \in Int
          BY <4>1, <1>0, <1>1, <1>3 DEF At
        <5> QED
          BY <4>1, <5>1, <1>0
      <4>2. CASE j = Len(p) + 1
        BY <4>2, <1>0, <1>1
      <4> QED
        BY <4>1, <4>2, <1>4
    <3> QED
      BY <3>1, <3>2, <1>0
  <2> QED
    BY <2>1, <2>2, <1>4
<1> QED
  BY <1>0, <1>1, <1>2, <1>5 DEF q

-----------------------------------------------------------------------------
(* Each part of the invariant is kept by every step. *)

\* Nothing is numbered, held or written at first.
LEMMA DrainInit ==
  Init => Shape /\ FinishOnce /\ Ordered /\ InHand /\ Ending /\ Refused /\ Held
<1> SUFFICES ASSUME Init
             PROVE  Shape /\ FinishOnce /\ Ordered /\ InHand /\ Ending /\ Refused
                    /\ Held
  OBVIOUS
<1> USE TimelineAssumption DEF Init, NoFrame, Frames
<1>1. ToSet(<<>>) = {}
  BY DEF ToSet
<1>2. Shape
  BY DEF Shape, Exact
<1>3. FinishOnce
  BY DEF FinishOnce
<1>4. Ordered
  BY <1>1 DEF Ordered, Rising, Behind, Leased
<1>5. InHand /\ Ending /\ Refused /\ Held
  BY <1>1 DEF InHand, Ending, Refused, Held, Taken
<1> QED
  BY <1>2, <1>3, <1>4, <1>5

\* The index is stored, then the flag, then the session remembers it.
LEMMA FinishOnceStep == Kinds /\ FinishOnce /\ [Next]_vars => FinishOnce'
<1> SUFFICES ASSUME Kinds, FinishOnce, [Next]_vars PROVE FinishOnce'
  OBVIOUS
<1> USE TimelineAssumption DEF FinishOnce, session, shared, worker
<1>1. CASE Main
  <2>1. CASE DispatchFinish
    <3>1. next_capture_index # 0 => next_capture_index - 1 \in Frames
      BY DEF Kinds, Frames
    <3>2. 0 \in Frames
      BY DEF Frames
    <3> QED
      BY <2>1, <3>1, <3>2 DEF DispatchFinish
  <2> QED
    BY <1>1, <2>1 DEF Main, FrameIntent, HarvestReadback, Submit, ReturnLease,
      RequestFinish, RaiseFinish, MarkFinishing, RequestCancel, DropRecorder
<1>2. CASE Worker
  BY <1>2 DEF Worker, StartWorker, CheckCancel, TakeFrame, WriteFrame, RejectFrame,
    WriteFails, ReceiveNothing, ReadFinish, CloseTimeline, Terminate
<1>3. CASE UNCHANGED vars
  BY <1>3 DEF vars
<1> QED
  BY <1>1, <1>2, <1>3 DEF Next

\* A written frame comes after the last one by its gap.
LEMMA ShapeStep ==
  Kinds /\ Fits /\ Shape /\ FinishOnce /\ [Next]_vars => Shape'
<1> SUFFICES ASSUME Kinds, Fits, Shape, FinishOnce, [Next]_vars PROVE Shape'
  OBVIOUS
<1>0. MaxGap \in Nat /\ Frames \subseteq Int /\ NoFrame \notin Frames /\ Frames \subseteq Nat
  BY TimelineAssumption DEF Frames, NoFrame
<1>1. CASE WriteFrame
  <2> DEFINE frame == item
  <2>1. frame \in Frames /\ frame # NoFrame
    BY <1>1, <1>0 DEF WriteFrame, Fits
  <2>2. /\ Follows(frame) /\ last' = frame /\ pc' = "checking"
        /\ file' = file \o Repeat(last, Gap(frame)) \o <<frame>>
    BY <1>1 DEF WriteFrame, Fits
  <2>3. CASE last = NoFrame
    <3>1. file = <<>> /\ Repeat(last, Gap(frame)) = <<>>
      BY <2>3 DEF Shape, Repeat, Gap
    <3> HIDE DEF frame
    <3>2. file' = <<frame>>
      <4>1. \A r : r = <<>> => r \o r \o <<frame>> = <<frame>>
        OBVIOUS
      <4> QED
        BY <2>2, <3>1, <4>1
    <3>3. /\ file' \in Seq(Frames) /\ Len(file') = 1 /\ file'[1] = frame
      BY <3>2, <2>1
    <3>4. /\ Exact(file') /\ At(file', Len(file')) = frame /\ file' # <<>>
          /\ file'[Len(file')] = frame
      BY <3>2, <2>1, Single
    <3> QED
      BY <3>3, <3>4, <2>1, <2>2 DEF Shape
  <2>4. CASE last # NoFrame
    <3>1. /\ file \in Seq(Frames) /\ file # <<>> /\ last \in Frames /\ Exact(file)
          /\ pc = "writing"
      BY <2>4, <1>1 DEF Shape, WriteFrame
    <3>2. file[Len(file)] = last /\ At(file, Len(file)) = last
      BY <3>1 DEF Shape
    <3>3. Gap(frame) \in Nat /\ Gap(frame) = frame - last - 1
      <4> HIDE DEF frame
      <4>1. frame > last /\ Gap(frame) = frame - last - 1 /\ frame \in Int /\ last \in Int
        BY <2>1, <2>2, <2>4, <3>1, <1>0 DEF Follows, Gap
      <4> QED
        BY <4>1
    <3> DEFINE p == file \o Repeat(last, Gap(frame))
    <3>4. /\ p \in Seq(Frames) /\ Len(p) = Len(file) + Gap(frame)
          /\ p[1] = file[1] /\ Exact(p)
      BY <3>1, <3>2, <3>3, Padded
    <3>5. file' = Append(p, frame)
      BY <2>1, <2>2, <3>4
    <3> HIDE DEF p, frame
    <3>6. p # <<>> /\ frame = At(p, Len(p) + 1)
      <4>1. Len(file) \in Nat /\ Len(file) > 0 /\ file[1] \in Int
        BY <3>1, Started
      <4>2. Len(p) \in Nat /\ Len(p) > 0
        BY <3>3, <3>4, <4>1
      <4>3. file[1] + Len(file) - 1 = last
        BY <3>2 DEF At
      <4>4. frame \in Int /\ last \in Int
        BY <2>1, <3>1, <1>0
      <4>5. frame = file[1] + (Len(file) + Gap(frame) + 1) - 1
        BY <3>3, <4>1, <4>3, <4>4
      <4>6. p # <<>>
        BY <4>2
      <4> QED
        BY <3>4, <4>5, <4>6 DEF At
    <3>7. Exact(file') /\ At(file', Len(file')) = frame
      BY <3>4, <3>5, <3>6, <2>1, ThenFrame
    <3>8. file' \in Seq(Frames) /\ file' # <<>> /\ file'[Len(file')] = frame
      BY <3>4, <3>5, <2>1
    <3> QED
      BY <3>7, <3>8, <2>1, <2>2 DEF Shape, frame
  <2> QED
    BY <2>3, <2>4
<1>2. CASE CloseTimeline
  <2>1. CASE pc' = "failed"
    <3>1. UNCHANGED <<file, last>> /\ pc = "closing"
      BY <1>2, <2>1 DEF CloseTimeline
    <3> QED
      BY <2>1, <3>1 DEF Shape
  <2>2. CASE pc' # "failed"
    <3> DEFINE gap == finish_capture_index - last
    <3>1. /\ last # NoFrame /\ gap \in 0..MaxGap /\ pc = "closing" /\ pc' = "closed"
          /\ last' = last /\ finish_capture_index' = finish_capture_index
          /\ file' = file \o Repeat(last, gap)
      BY <1>2, <2>2 DEF CloseTimeline, FinalGap, shared
    <3>2. /\ file \in Seq(Frames) /\ file # <<>> /\ last \in Frames /\ Exact(file)
          /\ file[Len(file)] = last /\ At(file, Len(file)) = last
      BY <3>1 DEF Shape
    <3>3. gap \in Nat /\ finish_capture_index \in Int /\ last \in Int
      BY <3>1, <3>2, <1>0 DEF FinishOnce
    <3>4. /\ file' \in Seq(Frames) /\ Len(file') = Len(file) + gap
          /\ file'[1] = file[1] /\ Exact(file')
      <4> HIDE DEF gap
      <4> QED
        BY <3>1, <3>2, <3>3, Padded
    <3>5. file' # <<>> /\ At(file', Len(file')) = finish_capture_index
      <4>1. Len(file) \in Nat /\ Len(file) > 0 /\ file[1] \in Int
        BY <3>2, Started
      <4> QED
        BY <4>1, <3>2, <3>3, <3>4 DEF At
    <3>6. finish_capture_index <= last + MaxGap
      BY <3>1, <3>3, <1>0
    <3> QED
      BY <3>1, <3>2, <3>4, <3>5, <3>6 DEF Shape
  <2> QED
    BY <2>1, <2>2
<1>3. CASE DispatchFinish
  <2>1. UNCHANGED <<file, last, pc>> /\ pc # "closed"
    BY <1>3 DEF DispatchFinish, worker, FinishOnce
  <2> QED
    BY <2>1 DEF Shape
<1>4. CASE /\ UNCHANGED <<file, last, finish_capture_index>>
           /\ pc' = "closed" <=> pc = "closed"
  BY <1>4 DEF Shape
<1>5. CASE Main /\ ~DispatchFinish
  <2>1. UNCHANGED <<file, last, finish_capture_index, pc>>
    BY <1>5 DEF Main, FrameIntent, HarvestReadback, Submit, RequestFinish,
      RaiseFinish, MarkFinishing, RequestCancel, DropRecorder, shared, worker
  <2> QED
    BY <2>1, <1>4
<1>6. CASE Worker /\ ~WriteFrame /\ ~CloseTimeline
  <2>1. /\ UNCHANGED <<file, last, finish_capture_index>>
        /\ pc' = "closed" <=> pc = "closed"
    BY <1>6 DEF Worker, StartWorker, CheckCancel, TakeFrame, RejectFrame,
      WriteFails, ReceiveNothing, ReadFinish, Terminate, shared, worker
  <2> QED
    BY <2>1, <1>4
<1>7. CASE UNCHANGED vars
  <2>1. UNCHANGED <<file, last, finish_capture_index, pc>>
    BY <1>7 DEF vars, shared, worker
  <2> QED
    BY <2>1, <1>4
<1> QED
  BY <1>1, <1>2, <1>3, <1>5, <1>6, <1>7 DEF Next

\* The set of frames in a written file grows by the frame.
LEMMA WrittenSet ==
  ASSUME Fits, Shape, WriteFrame
  PROVE  ToSet(file') = ToSet(file) \cup {item} /\ item \in Frames
<1> DEFINE frame == item
<1>0. MaxGap \in Nat /\ Frames \subseteq Int /\ NoFrame \notin Frames /\ Frames \subseteq Nat
  BY TimelineAssumption DEF Frames, NoFrame
<1>1. frame \in Frames
  BY DEF WriteFrame, Fits
<1>2. /\ Follows(frame)
      /\ file' = file \o Repeat(last, Gap(frame)) \o <<frame>>
  BY DEF WriteFrame, Fits
<1>3. CASE last = NoFrame
  <2>1. file = <<>> /\ Repeat(last, Gap(frame)) = <<>>
    BY <1>3 DEF Shape, Repeat, Gap
  <2> HIDE DEF frame
  <2>2. file' = Append(file, frame) /\ file \in Seq(Frames)
    <3>1. \A r : r = <<>> => r \o r \o <<frame>> = Append(r, frame) /\ r \in Seq(Frames)
      OBVIOUS
    <3> QED
      BY <1>2, <2>1, <3>1
  <2>3. ToSet(file') = ToSet(file) \cup {frame}
    BY <2>2, <1>1, AppendLast
  <2> QED
    BY <1>1, <2>3 DEF frame
<1>4. CASE last # NoFrame
  <2>1. /\ file \in Seq(Frames) /\ file # <<>> /\ last \in Frames /\ Exact(file)
        /\ pc = "writing"
    BY <1>4 DEF Shape, WriteFrame
  <2>2. file[Len(file)] = last /\ At(file, Len(file)) = last
    BY <2>1 DEF Shape
  <2>3. Gap(frame) \in Nat
    <3> HIDE DEF frame
    <3>1. frame > last /\ Gap(frame) = frame - last - 1 /\ frame \in Int /\ last \in Int
      BY <1>1, <1>2, <1>4, <2>1, <1>0 DEF Follows, Gap
    <3> QED
      BY <3>1
  <2> DEFINE p == file \o Repeat(last, Gap(frame))
  <2>4. p \in Seq(Frames) /\ ToSet(p) = ToSet(file)
    BY <2>1, <2>2, <2>3, Padded
  <2>5. file' = Append(p, frame)
    BY <1>1, <1>2, <2>4
  <2> HIDE DEF p, frame
  <2>6. ToSet(file') = ToSet(file) \cup {frame}
    BY <2>4, <2>5, <1>1, AppendLast
  <2> QED
    BY <1>1, <2>6 DEF frame
<1> QED
  BY <1>3, <1>4

\* The last pictures add no frame.
LEMMA ClosedSet ==
  ASSUME Shape, FinishOnce, CloseTimeline
  PROVE  ToSet(file') = ToSet(file)
<1>0. MaxGap \in Nat /\ Frames \subseteq Int
  BY TimelineAssumption DEF Frames
<1>1. CASE file' = file
  BY <1>1
<1>2. CASE file' # file
  <2> DEFINE gap == finish_capture_index - last
  <2>1. /\ last # NoFrame /\ gap \in 0..MaxGap /\ pc = "closing"
        /\ file' = file \o Repeat(last, gap)
    BY <1>2 DEF CloseTimeline, FinalGap
  <2>2. /\ file \in Seq(Frames) /\ file # <<>> /\ Exact(file)
        /\ file[Len(file)] = last /\ At(file, Len(file)) = last
    BY <2>1 DEF Shape
  <2>3. gap \in Nat
    BY <2>1, <1>0
  <2> HIDE DEF gap
  <2> QED
    BY <2>1, <2>2, <2>3, Padded
<1> QED
  BY <1>1, <1>2

\* A popped queue stays in order behind what was popped.
LEMMA Popped ==
  ASSUME Kinds, Ordered, queue # <<>>
  PROVE  /\ Rising(Tail(queue)) /\ Tail(queue) \in Seq(Frames)
         /\ Behind(ToSet(file) \cup rejected \cup {Head(queue)}, Tail(queue))
         /\ ToSet(queue) = {Head(queue)} \cup ToSet(Tail(queue))
         /\ \A f \in ToSet(file) \cup rejected : f < Head(queue)
<1>1. queue \in Seq(Frames) /\ Rising(queue) /\ Behind(ToSet(file) \cup rejected, queue)
  BY DEF Kinds, Ordered
<1>2. Rising(Tail(queue)) /\ Behind({Head(queue)}, Tail(queue))
  BY <1>1, RisingTail
<1>3. Behind(ToSet(file) \cup rejected, Tail(queue))
  BY <1>1, HeadTail DEF Behind
<1>4. \A f \in ToSet(file) \cup rejected : f < Head(queue)
  BY <1>1, HeadTail DEF Behind
<1> QED
  BY <1>1, <1>2, <1>3, <1>4, HeadTail DEF Behind

\* Frames stay in the order of their numbers wherever they are.
LEMMA OrderedStep ==
  Kinds /\ Fits /\ Shape /\ FinishOnce /\ Ordered /\ InHand /\ [Next]_vars =>
    Ordered'
<1> SUFFICES ASSUME Kinds, Fits, Shape, FinishOnce, Ordered, InHand, [Next]_vars
             PROVE  Ordered'
  OBVIOUS
<1>0. Frames \subseteq Int /\ Frames \subseteq Nat /\ MaxIndex \in Nat
  BY TimelineAssumption DEF Frames
<1>1. CASE FrameIntent
  <2> DEFINE n == next_capture_index
  <2>1. /\ n \in Frames /\ n \in Nat /\ next_capture_index' = n + 1
        /\ main = "idle" /\ main' = "idle"
        /\ readbacks' = readbacks \/ readbacks' = Append(readbacks, n)
        /\ UNCHANGED <<accepted, rejected, file, queue>>
    BY <1>1, <1>0 DEF FrameIntent, Kinds, worker, Frames
  <2> HIDE DEF n
  <2>2. \A k \in 1..Len(readbacks) : readbacks[k] < n /\ readbacks[k] \in Int
    <3>1. readbacks \in Seq(Frames)
      BY DEF Kinds
    <3>2. \A k \in 1..Len(readbacks) : readbacks[k] \in Frames
      BY <3>1
    <3> QED
      BY <3>2, <1>0 DEF Ordered, n
  <2>3. readbacks \in Seq(Frames) /\ Rising(readbacks) /\ Behind(accepted, readbacks)
    BY <2>1 DEF Kinds, Ordered, Behind
  <2>4. \A f \in accepted : f < n /\ f \in Int
    BY <1>0 DEF Ordered, n
  <2>5. CASE readbacks' = readbacks
    <3>1. \A k \in 1..Len(readbacks') : readbacks'[k] < next_capture_index'
      BY <2>1, <2>2, <2>5
    <3>2. \A f \in accepted' : f < next_capture_index'
      BY <2>1, <2>4
    <3> QED
      BY <2>1, <2>3, <2>5, <3>1, <3>2 DEF Ordered, Leased, Behind
  <2>6. CASE readbacks' = Append(readbacks, n)
    <3>1. Rising(readbacks')
      BY <2>1, <2>2, <2>3, <2>6, RisingAppend
    <3>2. \A k \in 1..Len(readbacks') : \/ k \in 1..Len(readbacks) /\ readbacks'[k] = readbacks[k]
                                        \/ readbacks'[k] = n
      BY <2>1, <2>3, <2>6, AppendLast
    <3>3. \A k \in 1..Len(readbacks') : readbacks'[k] < next_capture_index'
      BY <2>1, <2>2, <3>2
    <3>4. Behind(accepted', readbacks')
      BY <2>1, <2>3, <2>4, <3>2 DEF Behind
    <3>5. \A f \in accepted' : f < next_capture_index'
      BY <2>1, <2>4
    <3> QED
      BY <2>1, <3>1, <3>3, <3>4, <3>5 DEF Ordered, Leased
  <2> QED
    BY <2>1, <2>5, <2>6
<1>2. CASE HarvestReadback
  <2>1. /\ readbacks # <<>> /\ readbacks' = Tail(readbacks)
        /\ main = "idle" /\ (main' = "idle" \/ (main' = "leased" /\ lease' = Head(readbacks)))
        /\ UNCHANGED <<accepted, rejected, file, queue, next_capture_index>>
    BY <1>2 DEF HarvestReadback, worker
  <2>2. /\ readbacks \in Seq(Frames) /\ Rising(readbacks) /\ Behind(accepted, readbacks)
        /\ \A k \in 1..Len(readbacks) : readbacks[k] < next_capture_index
    BY DEF Kinds, Ordered, Behind
  <2>3. Rising(readbacks') /\ Behind({Head(readbacks)}, readbacks')
    BY <2>1, <2>2, RisingTail
  <2>4. \A k \in 1..Len(readbacks') : readbacks'[k] = readbacks[k + 1] /\ k + 1 \in 1..Len(readbacks)
    BY <2>1, <2>2, HeadTail
  <2>5. Leased' \subseteq {Head(readbacks)}
    BY <2>1 DEF Leased
  <2>6. Behind(accepted' \cup Leased', readbacks')
    BY <2>1, <2>2, <2>3, <2>4, <2>5 DEF Behind
  <2>7. /\ \A f \in accepted : f < Head(readbacks)
        /\ Head(readbacks) < next_capture_index
    BY <2>1, <2>2, HeadTail DEF Behind
  <2>8. /\ \A f \in accepted' \cup Leased' : f < next_capture_index'
        /\ \A f \in accepted', g \in Leased' : f < g
    BY <2>1, <2>5, <2>7 DEF Ordered
  <2>9. \A k \in 1..Len(readbacks') : readbacks'[k] < next_capture_index'
    BY <2>1, <2>2, <2>4
  <2> QED
    BY <2>1, <2>3, <2>6, <2>8, <2>9 DEF Ordered
<1>3. CASE Submit
  <2>1. /\ main = "leased" /\ main' = "idle" /\ lease \in Frames
        /\ UNCHANGED <<readbacks, next_capture_index, rejected, file>>
        /\ \/ UNCHANGED <<queue, accepted>>
           \/ queue' = Append(queue, lease) /\ accepted' = accepted \cup {lease}
    BY <1>3 DEF Submit, ReturnLease, worker, Kinds
  <2>2. Leased = {lease} /\ Leased' = {}
    BY <2>1 DEF Leased
  <2>3. CASE UNCHANGED <<queue, accepted>>
    BY <2>1, <2>2, <2>3 DEF Ordered, Behind
  <2>4. CASE queue' = Append(queue, lease) /\ accepted' = accepted \cup {lease}
    <3>1. /\ \A f \in accepted : f < lease
          /\ ToSet(queue) \cup ToSet(file) \cup rejected \subseteq accepted
          /\ queue \in Seq(Frames) /\ Rising(queue)
          /\ Behind(ToSet(file) \cup rejected, queue)
      BY <2>2 DEF Ordered, Kinds
    <3>2. \A k \in 1..Len(queue) : queue[k] < lease
      BY <3>1 DEF ToSet
    <3>3. Rising(queue') /\ ToSet(queue') = ToSet(queue) \cup {lease}
      BY <2>1, <2>4, <3>1, <3>2, RisingAppend, AppendLast
    <3>4. \A k \in 1..Len(queue') : \/ k \in 1..Len(queue) /\ queue'[k] = queue[k]
                                    \/ queue'[k] = lease
      BY <2>1, <2>4, <3>1, AppendLast
    <3>5. Behind(ToSet(file') \cup rejected', queue')
      BY <2>1, <3>1, <3>4 DEF Behind
    <3>6. accepted' \subseteq Frames /\ accepted' = accepted \cup Leased
      BY <2>1, <2>2, <2>4 DEF Ordered
    <3> QED
      BY <2>1, <2>2, <3>1, <3>3, <3>5, <3>6 DEF Ordered
  <2> QED
    BY <2>1, <2>3, <2>4
<1>4. CASE /\ UNCHANGED <<readbacks, next_capture_index, accepted>>
           /\ Leased' = Leased
           /\ Rising(queue') /\ Behind(ToSet(file') \cup rejected', queue')
           /\ ToSet(queue') \cup ToSet(file') \cup rejected' \subseteq accepted
  BY <1>4 DEF Ordered
<1>5. CASE Main /\ ~FrameIntent /\ ~HarvestReadback /\ ~Submit
  <2>1. /\ UNCHANGED <<readbacks, next_capture_index, accepted, queue, file, rejected>>
        /\ Leased' = Leased
    BY <1>5 DEF Main, RequestFinish, DispatchFinish, RaiseFinish, MarkFinishing,
      RequestCancel, DropRecorder, worker, Leased
  <2> QED
    BY <2>1 DEF Ordered
<1>6. CASE Worker
  <2>1. UNCHANGED <<readbacks, next_capture_index, accepted>> /\ Leased' = Leased
    BY <1>6 DEF Worker, StartWorker, CheckCancel, TakeFrame, WriteFrame, RejectFrame,
      WriteFails, ReceiveNothing, ReadFinish, CloseTimeline, Terminate, session, Leased
  <2>2. CASE WriteFrame
    <3>1. ToSet(file') = ToSet(file) \cup {item}
      BY <2>2, WrittenSet
    <3>2. pc = "writing" /\ UNCHANGED <<queue, rejected>>
      BY <2>2 DEF WriteFrame
    <3>3. Rising(queue') /\ Behind(ToSet(file) \cup rejected \cup {item}, queue')
      BY <3>2 DEF Ordered, InHand, Behind
    <3>4. ToSet(file) \cup rejected \cup {item} = ToSet(file') \cup rejected'
      BY <3>1, <3>2
    <3>5. ToSet(queue') \cup ToSet(file') \cup rejected' \subseteq accepted
      BY <3>1, <3>2 DEF Ordered, InHand
    <3> QED
      BY <2>1, <3>3, <3>4, <3>5, <1>4
  <2>3. CASE RejectFrame
    <3>1. /\ queue # <<>> /\ queue' = Tail(queue) /\ file' = file
          /\ rejected' = rejected \cup {Head(queue)}
      BY <2>3 DEF RejectFrame
    <3>2. /\ Rising(queue')
          /\ Behind(ToSet(file) \cup rejected \cup {Head(queue)}, queue')
          /\ ToSet(queue) = {Head(queue)} \cup ToSet(queue')
      BY <3>1, Popped
    <3>3. ToSet(file) \cup rejected \cup {Head(queue)} = ToSet(file') \cup rejected'
      BY <3>1
    <3>4. ToSet(queue') \cup ToSet(file') \cup rejected' \subseteq accepted
      BY <3>1, <3>2 DEF Ordered
    <3> QED
      BY <2>1, <3>2, <3>3, <3>4, <1>4
  <2>4. CASE TakeFrame
    <3>1. queue # <<>> /\ queue' = Tail(queue) /\ file' = file /\ rejected' = rejected
      BY <2>4 DEF TakeFrame
    <3>2. /\ Rising(queue')
          /\ Behind(ToSet(file) \cup rejected \cup {Head(queue)}, queue')
          /\ ToSet(queue) = {Head(queue)} \cup ToSet(queue')
      BY <3>1, Popped
    <3>3. ToSet(queue') \cup ToSet(file') \cup rejected' \subseteq accepted
      BY <3>1, <3>2 DEF Ordered
    <3>4. Behind(ToSet(file') \cup rejected', queue')
      BY <3>1, <3>2 DEF Behind
    <3> QED
      BY <2>1, <3>2, <3>3, <3>4, <1>4
  <2>5. CASE CloseTimeline
    <3>1. UNCHANGED <<queue, rejected>> /\ ToSet(file') = ToSet(file)
      BY <2>5, ClosedSet DEF CloseTimeline
    <3> QED
      BY <2>1, <3>1, <1>4 DEF Ordered
  <2>6. CASE Terminate
    <3>1. file' = file /\ rejected' = rejected /\ (queue' = queue \/ queue' = <<>>)
      BY <2>6 DEF Terminate, worker
    <3>2. CASE queue' = queue
      BY <2>1, <3>1, <3>2, <1>4 DEF Ordered
    <3>3. CASE queue' = <<>>
      <4>1. ToSet(queue') = {} /\ Rising(queue') /\ Behind(ToSet(file') \cup rejected', queue')
        BY <3>3 DEF ToSet, Rising, Behind
      <4> QED
        BY <2>1, <3>1, <4>1, <1>4 DEF Ordered
    <3> QED
      BY <3>1, <3>2, <3>3
  <2>7. CASE StartWorker \/ CheckCancel \/ WriteFails \/ ReceiveNothing \/ ReadFinish
    <3>1. UNCHANGED <<queue, file, rejected>>
      BY <2>7 DEF StartWorker, CheckCancel, WriteFails, ReceiveNothing, ReadFinish
    <3> QED
      BY <2>1, <3>1, <1>4 DEF Ordered
  <2> QED
    BY <1>6, <2>2, <2>3, <2>4, <2>5, <2>6, <2>7 DEF Worker
<1>7. CASE UNCHANGED vars
  <2>1. /\ UNCHANGED <<readbacks, next_capture_index, accepted, queue, file, rejected>>
        /\ Leased' = Leased
    BY <1>7 DEF vars, session, worker, Leased
  <2> QED
    BY <2>1 DEF Ordered
<1> QED
  BY <1>1, <1>2, <1>3, <1>5, <1>6, <1>7 DEF Next

\* A frame is taken from the front of the queue and later ones come behind it.
LEMMA InHandStep ==
  Kinds /\ Ordered /\ InHand /\ [Next]_vars => InHand'
<1> SUFFICES ASSUME Kinds, Ordered, InHand, [Next]_vars PROVE InHand'
  OBVIOUS
<1>1. CASE TakeFrame
  <2>1. /\ queue # <<>> /\ queue' = Tail(queue) /\ item' = Head(queue)
        /\ UNCHANGED <<file, rejected, accepted>>
    BY <1>1 DEF TakeFrame
  <2>2. /\ Behind(ToSet(file) \cup rejected \cup {Head(queue)}, queue')
        /\ ToSet(queue) = {Head(queue)} \cup ToSet(queue')
        /\ \A f \in ToSet(file) \cup rejected : f < Head(queue)
    BY <2>1, Popped
  <2>3. Head(queue) \in accepted
    BY <2>2 DEF Ordered
  <2> QED
    BY <2>1, <2>2, <2>3 DEF InHand, Behind
<1>2. CASE Submit
  <2>1. /\ lease \in Frames /\ queue \in Seq(Frames) /\ main = "leased"
        /\ UNCHANGED <<pc, item, file, rejected>>
        /\ \/ UNCHANGED <<queue, accepted>>
           \/ queue' = Append(queue, lease) /\ accepted' = accepted \cup {lease}
    BY <1>2 DEF Submit, ReturnLease, worker, Kinds
  <2>2. CASE UNCHANGED <<queue, accepted>>
    BY <2>1, <2>2 DEF InHand
  <2>3. CASE queue' = Append(queue, lease) /\ accepted' = accepted \cup {lease}
    <3>1. \A f \in accepted : f < lease
      BY <2>1 DEF Ordered, Leased
    <3>2. \A k \in 1..Len(queue') : \/ k \in 1..Len(queue) /\ queue'[k] = queue[k]
                                    \/ queue'[k] = lease
      BY <2>1, <2>3, AppendLast
    <3> QED
      BY <2>1, <2>3, <3>1, <3>2 DEF InHand
  <2> QED
    BY <2>1, <2>2, <2>3
<1>3. CASE Main /\ ~Submit
  BY <1>3 DEF Main, FrameIntent, HarvestReadback, RequestFinish, DispatchFinish,
    RaiseFinish, MarkFinishing, RequestCancel, DropRecorder, worker, InHand
<1>4. CASE Worker /\ ~TakeFrame
  <2>1. pc' # "writing" \/ UNCHANGED <<worker, queue, accepted>>
    BY <1>4 DEF Worker, StartWorker, CheckCancel, WriteFrame, RejectFrame,
      WriteFails, ReceiveNothing, ReadFinish, CloseTimeline, Terminate, worker
  <2> QED
    BY <2>1 DEF InHand, worker
<1>5. CASE UNCHANGED vars
  BY <1>5 DEF vars, worker, InHand
<1> QED
  BY <1>1, <1>2, <1>3, <1>4, <1>5 DEF Next

\* Finish comes after the last submission, and two empty polls after the finish
\* unless the worker stalls in the first.
LEMMA EndingStep ==
  Kinds /\ Ordered /\ FinishOnce /\ Ending /\ [Next]_vars => Ending'
<1> SUFFICES ASSUME Kinds, Ordered, FinishOnce, Ending, [Next]_vars
             PROVE  Ending'
  OBVIOUS
<1>1. CASE DispatchFinish
  <2>1. \A f \in accepted : f <= finish_capture_index'
    <3> SUFFICES ASSUME NEW f \in accepted PROVE f <= finish_capture_index'
      OBVIOUS
    <3>1. f \in Nat /\ f < next_capture_index /\ next_capture_index \in Nat
      BY TimelineAssumption DEF Ordered, Kinds, Frames
    <3> QED
      BY <1>1, <3>1 DEF DispatchFinish
  <2>2. ~finish_requested
    BY <1>1 DEF DispatchFinish, FinishOnce
  <2> QED
    BY <1>1, <2>1, <2>2 DEF DispatchFinish, Ending, worker
<1>2. CASE Submit
  BY <1>2 DEF Submit, ReturnLease, Ending, FinishOnce, shared, worker
<1>3. CASE FrameIntent \/ HarvestReadback \/ RequestFinish \/ RaiseFinish \/ MarkFinishing
           \/ RequestCancel \/ DropRecorder
  BY <1>3 DEF FrameIntent, HarvestReadback, RequestFinish, RaiseFinish, MarkFinishing,
    RequestCancel, DropRecorder, Ending, shared, worker
<1>4. CASE StartWorker \/ CheckCancel \/ ReceiveNothing \/ CloseTimeline \/ Terminate
  BY <1>4 DEF StartWorker, CheckCancel, ReceiveNothing, CloseTimeline,
    Terminate, Ending, session, shared, worker
<1>7. CASE ReadFinish
  <2>1. /\ UNCHANGED <<session, shared, queue, accepted>>
        /\ pc = "timedOut" /\ idle' = (idle \/ finish_requested)
        /\ pc' = "checking" \/ (pc' = "closing" /\ (idle \/ stalled'))
    BY <1>7 DEF ReadFinish
  <2> QED
    BY <2>1 DEF Ending, session, shared
<1>5. CASE TakeFrame \/ WriteFrame \/ RejectFrame \/ WriteFails
  BY <1>5 DEF TakeFrame, WriteFrame, RejectFrame, WriteFails, Ending, session, shared, worker
<1>6. CASE UNCHANGED vars
  BY <1>6 DEF vars, Ending, session, shared, worker
<1> QED
  BY <1>1, <1>2, <1>3, <1>4, <1>5, <1>6, <1>7 DEF Next, Main, Worker

\* After a refusal no later frame is written.
LEMMA RefusedStep ==
  Kinds /\ Fits /\ Shape /\ Ordered /\ InHand /\ Refused /\ [Next]_vars =>
    Refused'
<1> SUFFICES ASSUME Kinds, Fits, Shape, Ordered, InHand, Refused, [Next]_vars
             PROVE  Refused'
  OBVIOUS
<1>0. /\ MaxGap \in Nat /\ Frames \subseteq Int
      /\ rejected \subseteq Frames /\ (last # NoFrame => last \in Int)
  <2>1. MaxGap \in Nat /\ Frames \subseteq Int
    BY TimelineAssumption DEF Frames
  <2>2. rejected \subseteq Frames /\ (last # NoFrame => last \in Frames)
    BY DEF Ordered, Shape
  <2> QED
    BY <2>1, <2>2
<1>1. CASE WriteFrame
  <2>1. last' = item /\ Follows(item) /\ rejected' = rejected
    BY <1>1 DEF WriteFrame, Fits
  <2>2. item \in Int /\ \A r \in rejected : r < item
    BY <1>1, <1>0 DEF WriteFrame, Fits, InHand
  <2>3. ASSUME NEW r \in rejected PROVE FALSE
    <3>1. /\ last # NoFrame /\ r > last + MaxGap + 1 /\ r < item
          /\ r \in Int /\ last \in Int
      BY <2>2, <2>3, <1>0 DEF Refused
    <3>2. item - last - 1 <= MaxGap
      BY <2>1, <3>1 DEF Follows, Gap
    <3> QED
      BY <3>1, <3>2, <2>2, <1>0
  <2> QED
    BY <2>1, <2>3 DEF Refused
<1>2. CASE RejectFrame
  <2>1. /\ queue # <<>> /\ ~Follows(Head(queue)) /\ last' = last
        /\ rejected' = rejected \cup {Head(queue)} /\ pc = "receiving"
    BY <1>2 DEF RejectFrame
  <2>2. Head(queue) \in Int /\ \A f \in ToSet(file) : f < Head(queue)
    <3>1. queue \in Seq(Frames)
      BY DEF Kinds
    <3>2. Head(queue) \in Frames
      BY <2>1, <3>1
    <3> QED
      BY <2>1, <3>2, <1>0, Popped
  <2>3. last # NoFrame
    BY <2>1 DEF Follows
  <2>4. last \in ToSet(file)
    <3>1. file \in Seq(Frames) /\ file # <<>> /\ file[Len(file)] = last
      BY <2>1, <2>3 DEF Shape
    <3>2. Len(file) \in DOMAIN file
      BY <3>1
    <3> QED
      BY <3>1, <3>2 DEF ToSet
  <2>5. Head(queue) > last + MaxGap + 1
    BY <2>1, <2>2, <2>3, <2>4, <1>0 DEF Follows, Gap
  <2> QED
    BY <2>1, <2>3, <2>5 DEF Refused
<1>3. CASE UNCHANGED <<last, rejected>>
  BY <1>3 DEF Refused
<1>4. CASE Main
  BY <1>3, <1>4 DEF Main, FrameIntent, HarvestReadback, Submit, RequestFinish,
    DispatchFinish, RaiseFinish, MarkFinishing, RequestCancel, DropRecorder, worker
<1>5. CASE Worker /\ ~WriteFrame /\ ~RejectFrame
  BY <1>3, <1>5 DEF Worker, StartWorker, CheckCancel, TakeFrame, WriteFails,
    ReceiveNothing, ReadFinish, CloseTimeline, Terminate, worker
<1>6. CASE UNCHANGED vars
  BY <1>3, <1>6 DEF vars, worker
<1> QED
  BY <1>1, <1>2, <1>4, <1>5, <1>6 DEF Next

\* Only a failed worker loses a frame.
LEMMA HeldStep ==
  Kinds /\ Fits /\ Shape /\ FinishOnce /\ Ordered /\ Held /\ [Next]_vars => Held'
<1> SUFFICES ASSUME Kinds, Fits, Shape, FinishOnce, Ordered, Held, [Next]_vars
             PROVE  Held'
  OBVIOUS
<1> USE DEF Held, Taken
<1>1. CASE Submit
  <2>1. /\ lease \in Frames /\ queue \in Seq(Frames)
        /\ UNCHANGED <<pc, item, file, rejected>>
        /\ \/ UNCHANGED <<queue, accepted>>
           \/ queue' = Append(queue, lease) /\ accepted' = accepted \cup {lease}
    BY <1>1 DEF Submit, ReturnLease, worker, Kinds
  <2>2. ToSet(Append(queue, lease)) = ToSet(queue) \cup {lease}
    BY <2>1, AppendLast
  <2> QED
    BY <2>1, <2>2
<1>2. CASE WriteFrame
  <2>1. /\ pc = "writing" /\ pc' = "checking"
        /\ UNCHANGED <<queue, accepted, rejected>>
    BY <1>2 DEF WriteFrame
  <2>2. ToSet(file') = ToSet(file) \cup {item}
    BY <1>2, WrittenSet
  <2> QED
    BY <2>1, <2>2
<1>3. CASE RejectFrame
  <2>1. /\ queue # <<>> /\ queue' = Tail(queue) /\ UNCHANGED <<accepted, file>>
        /\ rejected' = rejected \cup {Head(queue)}
        /\ pc = "receiving" /\ pc' = "checking"
    BY <1>3 DEF RejectFrame
  <2>2. ToSet(queue) = {Head(queue)} \cup ToSet(queue')
    BY <2>1, Popped
  <2> QED
    BY <2>1, <2>2
<1>4. CASE WriteFails
  BY <1>4 DEF WriteFails
<1>5. CASE CloseTimeline
  <2>1. ToSet(file') = ToSet(file)
    BY <1>5, ClosedSet
  <2> QED
    BY <1>5, <2>1 DEF CloseTimeline
<1>6. CASE Main /\ ~Submit
  BY <1>6 DEF Main, FrameIntent, HarvestReadback, RequestFinish, DispatchFinish,
    RaiseFinish, MarkFinishing, RequestCancel, DropRecorder, worker
<1>7. CASE StartWorker \/ CheckCancel \/ ReceiveNothing \/ ReadFinish \/ Terminate
  BY <1>7 DEF StartWorker, CheckCancel, ReceiveNothing, ReadFinish, Terminate, worker
<1>8. CASE UNCHANGED vars
  BY <1>8 DEF vars, worker
<1>9. CASE TakeFrame
  <2>1. /\ queue # <<>> /\ queue' = Tail(queue) /\ item' = Head(queue)
        /\ pc = "receiving" /\ pc' = "writing"
        /\ UNCHANGED <<accepted, file, rejected>>
    BY <1>9 DEF TakeFrame
  <2>2. ToSet(queue) = {Head(queue)} \cup ToSet(queue')
    BY <2>1, Popped
  <2> QED
    BY <2>1, <2>2
<1> QED
  BY <1>1, <1>2, <1>3, <1>4, <1>5, <1>6, <1>7, <1>8, <1>9 DEF Next, Worker

-----------------------------------------------------------------------------
\* The file keeps the constant-rate clock: each tick shows the newest written
\* frame captured by then, and a closed file ends at the requested tick,
\* whatever was dropped, refused or missed.
THEOREM ConstantRate == Spec => []TimelineExact
<1> DEFINE Inv == Kinds /\ Fits /\ Shape /\ FinishOnce
<1>1. Init => Inv
  BY TimelineInit, DrainInit DEF IInv
<1>2. Inv /\ [Next]_vars => Inv'
  BY KindsStep, FitsStep, ShapeStep, FinishOnceStep
<1>3. Inv => TimelineExact
  <2> SUFFICES ASSUME Shape, FinishOnce PROVE TimelineExact
    OBVIOUS
  <2>1. pc = "closed" => Len(file) = finish_capture_index - file[1] + 1
    <3>1. ASSUME pc = "closed" PROVE Len(file) = finish_capture_index - file[1] + 1
      <4>1. /\ file \in Seq(Frames) /\ file # <<>>
            /\ At(file, Len(file)) = finish_capture_index
        BY <3>1 DEF Shape
      <4>2. Len(file) \in Nat /\ file[1] \in Int
        BY <4>1, Started
      <4> QED
        BY <4>1, <4>2 DEF At
    <3> QED
      BY <3>1
  <2>2. ASSUME NEW k \in 1..Len(file)
        PROVE  /\ file[k] <= file[1] + k - 1
               /\ \A frame \in ToSet(file) :
                    frame <= file[1] + k - 1 => frame <= file[k]
    <3>1. file \in Seq(Frames) /\ Exact(file)
      BY DEF Shape
    <3>2. \A frame \in ToSet(file) : \E j \in 1..Len(file) : frame = file[j]
      BY <3>1 DEF ToSet
    <3> QED
      BY <3>1, <3>2 DEF Exact, At
  <2>3. pc = "closed" => file # <<>>
    BY DEF Shape
  <2> QED
    BY <2>1, <2>2, <2>3 DEF TimelineExact
<1> HIDE DEF Inv
<1> QED
  BY <1>1, <1>2, <1>3, PTL DEF Spec

\* A recording that ends well and was not cancelled shows every frame the queue
\* took, except those still queued; none is unless the worker lost the processor
\* for a poll interval between two readings of its clock (run_recorder_worker).
THEOREM FinishDrains == Spec => []AcceptedIsShown
<1> DEFINE Inv == /\ Kinds /\ Fits /\ Shape /\ FinishOnce /\ Ordered /\ InHand
                  /\ Ending /\ Refused /\ Held
<1>1. Init => Inv
  BY TimelineInit, DrainInit DEF IInv
<1>2. Inv /\ [Next]_vars => Inv'
  BY KindsStep, FitsStep, ShapeStep, FinishOnceStep, OrderedStep, InHandStep,
     EndingStep, RefusedStep, HeldStep
<1>3. Inv => AcceptedIsShown
  <2> SUFFICES ASSUME Inv, pc = "closed", ~cancel
               PROVE  /\ accepted = ToSet(file) \cup ToSet(queue)
                      /\ ~stalled => queue = <<>>
    BY DEF AcceptedIsShown
  <2>1. /\ ~stalled => queue = <<>>
        /\ \A f \in accepted : f <= finish_capture_index
    BY DEF Ending, FinishOnce
  <2>3. accepted = ToSet(file) \cup ToSet(queue) \cup rejected
    BY DEF Held, Taken
  <2>4. ASSUME NEW r \in rejected PROVE FALSE
    <3>1. /\ r > last + MaxGap + 1 /\ last \in Frames /\ r \in accepted /\ r \in Frames
          /\ finish_capture_index <= last + MaxGap /\ finish_capture_index \in Frames
      BY <2>3, <2>4 DEF Refused, Shape, FinishOnce, Ordered
    <3>2. /\ MaxGap \in Int /\ last \in Int /\ r \in Int /\ finish_capture_index \in Int
          /\ r <= finish_capture_index
      BY <2>1, <3>1, TimelineAssumption DEF Frames
    <3> QED
      BY <3>1, <3>2
  <2> QED
    BY <2>1, <2>3, <2>4
<1> HIDE DEF Inv
<1> QED
  BY <1>1, <1>2, <1>3, PTL DEF Spec
=============================================================================
