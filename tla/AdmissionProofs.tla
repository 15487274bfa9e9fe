--------------------------- MODULE AdmissionProofs ---------------------------
(***************************************************************************)
(* Three of the parts of MCAdmission, for every value of their constants.  *)
(*                                                                         *)
(* PublicationGate implements LatestOnly below the width of the counters:  *)
(* the outstanding token is exactly the newest one of this epoch, and      *)
(* nothing visible is newer than the last request.                         *)
(*                                                                         *)
(* In the control queue every minted sequence is in exactly one place: the *)
(* guards, the queue, the batch, the monitor and the receipts share out    *)
(* what was minted, and no two guards or positions hold the same.  Unless  *)
(* a boundary was lost the server's owner holds whatever gesture Main will *)
(* have open, because the last pending boundary agrees with the owner and  *)
(* those before it come in pairs.  A barrier keeps its view because what   *)
(* is appended, replaced or applied leaves the keys before it alone.       *)
(*                                                                         *)
(* In the manual history an open gesture is held by whoever opened it, and *)
(* what is changed by hand is undone with its own gesture.  A frame of     *)
(* text edits is followed from one of its boundaries to the next (Midway). *)
(***************************************************************************)
EXTENDS MCAdmission, FiniteSetTheorems, WellFoundedInduction, SequenceTheorems, TLAPS

----------------------------------------------------------------------------
(***************************************************************************)
(* The publication gate.                                                   *)
(***************************************************************************)
\* The outstanding token is the newest one of this epoch.
Outstanding ==
  requested # None =>
    /\ requested \in held
    /\ requested.epoch = epoch
    /\ requested.generation = next_generation
    /\ published_generation # None => published_generation < next_generation

\* Nothing visible is newer than the last request.
Visible ==
  published_generation # None =>
    published_generation \in 1..next_generation

GateInv == TypeOK /\ Outstanding /\ Visible

\* Below the width of the word the counters count.
LEMMA NoWrap ==
  ASSUME NEW n \in Nat, n < Limit
  PROVE  WrappingSucc(n) = n + 1 /\ AtLeastOne(n + 1) = n + 1
<1>1. n + 1 \in 0..Limit
  BY GateAssumption
<1>2. (n + 1) % (Limit + 1) = n + 1
  BY <1>1, GateAssumption
<1> QED
  BY <1>2 DEF WrappingSucc, AtLeastOne

\* The gate starts in the invariant.
LEMMA GateInit == Init => GateInv
BY GateAssumption DEF Init, GateInv, TypeOK, Outstanding, Visible

\* Every call preserves it.
LEMMA GateStep == GateInv /\ [Next]_vars => GateInv'
<1> SUFFICES ASSUME GateInv, [Next]_vars PROVE GateInv'
  OBVIOUS
<1> USE GateAssumption DEF GateInv, TypeOK, Outstanding, Visible, Tokens
<1>1. CASE Request
  <2>1. next_generation' = next_generation + 1
    BY <1>1, NoWrap DEF Request
  <2>2. requested' \in [epoch: 0..epoch, generation: 1..next_generation']
    BY <1>1, <2>1 DEF Request
  <2>3. held' \in SUBSET [epoch: 0..epoch', generation: 1..next_generation']
    BY <1>1, <2>1, <2>2 DEF Request
  <2> QED
    BY <1>1, <2>1, <2>2, <2>3 DEF Request
<1>2. CASE CancelAll
  <2>1. epoch' = epoch + 1
    BY <1>2, NoWrap DEF CancelAll
  <2> QED
    BY <1>2, <2>1 DEF CancelAll
<1>3. ASSUME NEW token \in held, Publish(token) PROVE GateInv'
  BY <1>3 DEF Publish, Publishable
<1>4. CASE UNCHANGED vars
  BY <1>4 DEF vars
<1> QED
  BY <1>1, <1>2, <1>3, <1>4 DEF Next

\* The strengthening is invariant.
THEOREM GateInvariant == Spec => []GateInv
BY GateInit, GateStep, PTL DEF Spec

\* The gate's variables stay in their types and no token is from the future.
THEOREM GateTyped == Spec => []TypeOK
BY GateInvariant, PTL DEF GateInv

\* The newest request is never refused unless it was cancelled.
THEOREM GateAdmits == Spec => []OutstandingMayPublish
<1>1. GateInv => OutstandingMayPublish
  BY GateAssumption
  DEF GateInv, TypeOK, Outstanding, Visible, OutstandingMayPublish, Publishable,
      Tokens
<1> QED
  BY <1>1, GateInvariant, PTL

\* What becomes visible is the newest request, made in the current epoch.
LEMMA FreshStep ==
  GateInv /\ [Next]_vars =>
    [published_generation' # published_generation =>
       /\ \E token \in held:
            token.epoch = epoch /\ token.generation = published_generation'
       /\ published_generation' = next_generation]_vars
<1> SUFFICES ASSUME GateInv, [Next]_vars, published_generation' # published_generation
    PROVE /\ \E token \in held:
               token.epoch = epoch /\ token.generation = published_generation'
          /\ published_generation' = next_generation
  BY DEF vars
<1>1. PICK token \in held: Publish(token)
  BY DEF Next, Request, CancelAll, vars
<1>2. requested = token /\ requested # None
  BY <1>1, GateAssumption DEF Publish, Publishable, GateInv, TypeOK, Tokens
<1> QED
  BY <1>1, <1>2 DEF Publish, Publishable, GateInv, Outstanding

\* The same of every behaviour.
THEOREM GateFresh == Spec => PublishedIsFresh
BY FreshStep, GateInvariant, PTL DEF Spec, PublishedIsFresh

----------------------------------------------------------------------------
\* A new gate is an empty promise.
LEMMA InitPromise == Init => Promise!Init
BY DEF Init, Promise!Init

\* Every call is a step the promise allows, or none of it.
LEMMA StepPromise ==
  GateInv /\ [Next]_vars =>
    [Promise!Next]_<<next_generation,
                     IF requested = None THEN 0 ELSE requested.generation,
                     IF published_generation = None THEN 0
                                                    ELSE published_generation>>
<1> SUFFICES ASSUME GateInv, [Next]_vars
    PROVE [Promise!Next]_<<next_generation,
                     IF requested = None THEN 0 ELSE requested.generation,
                     IF published_generation = None THEN 0
                                                    ELSE published_generation>>
  OBVIOUS
<1> USE GateAssumption DEF GateInv, TypeOK, Outstanding, Visible, Tokens
<1>1. CASE Request
  <2>1. next_generation' = next_generation + 1
    BY <1>1, NoWrap DEF Request
  <2>2. requested' \in Tokens /\ requested'.generation = next_generation'
    BY <1>1, <2>1 DEF Request
  <2>3. Promise!Ask
    BY <1>1, <2>1, <2>2 DEF Request, Promise!Ask
  <2> QED
    BY <2>3 DEF Promise!Next
<1>2. CASE CancelAll
  <2>1. Promise!Cancel
    BY <1>2 DEF CancelAll, Promise!Cancel
  <2> QED
    BY <2>1 DEF Promise!Next
<1>3. ASSUME NEW token \in held, Publish(token) PROVE Promise!Show
  BY <1>3 DEF Publish, Publishable, Promise!Show
<1>4. CASE UNCHANGED vars
  BY <1>4 DEF vars
<1> QED
  BY <1>1, <1>2, <1>3, <1>4 DEF Next, Promise!Next

\* The gate implements the latest-only contract.
THEOREM GateImplements == Spec => LatestOnlySpec
BY InitPromise, StepPromise, GateInvariant, PTL
DEF Spec, LatestOnlySpec, Promise!Spec

----------------------------------------------------------------------------
(***************************************************************************)
(* The control queue: sequences of actions.                                *)
(***************************************************************************)
\* Every inhabited set of naturals has a least element: what the inductions
\* below rest on, over the positions of a sequence.
LEMMA LeastNat ==
  ASSUME NEW T \in SUBSET Nat, T # {}
  PROVE  \E x \in T : \A y \in T : x <= y
<1> DEFINE R == {ss \in Nat \X Nat : ss[1] < ss[2]}
<1>1. IsWellFoundedOn(R, Nat)
  BY NatLessThanWellFounded DEF OpToRel
<1>2. PICK x \in T : \A y \in T : ~(<<y, x>> \in R)
  <2> HIDE DEF R
  <2> QED
    BY <1>1, WFMin, Zenon
<1>3. ASSUME NEW y \in T
      PROVE  x <= y
  <2>1. <<y, x>> \in Nat \X Nat
    OBVIOUS
  <2>2. ~(<<y, x>> \in R)
    BY <1>2
  <2> QED
    BY <2>1, <2>2
<1> QED
  BY <1>3

\* Min and Max of a bounded set of positions are among them (FiniteSetsExt).
LEMMA MinIn ==
  ASSUME NEW T \in SUBSET Nat, T # {}
  PROVE  Control!Min(T) \in T /\ \A y \in T : Control!Min(T) <= y
<1>1. \E x \in T : \A y \in T : x <= y
  BY LeastNat
<1> QED
  BY <1>1 DEF Control!Min

LEMMA MaxIn ==
  ASSUME NEW n \in Nat, NEW T \in SUBSET (1..n), T # {}
  PROVE  Control!Max(T) \in T /\ \A y \in T : Control!Max(T) >= y
<1> DEFINE D == {n - x : x \in T}
<1>1. D \in SUBSET Nat /\ D # {}
  <2>1. \A x \in T : n - x \in Nat
    OBVIOUS
  <2> QED
    BY <2>1
<1>2. PICK d \in D : \A e \in D : d <= e
  <2> HIDE DEF D
  <2> QED
    BY <1>1, LeastNat
<1>3. PICK x \in T : d = n - x
  OBVIOUS
<1>4. ASSUME NEW y \in T
      PROVE  x >= y
  <2>1. n - x <= n - y
    BY <1>2, <1>3
  <2> QED
    BY <2>1
<1>5. \E z \in T : \A y \in T : z >= y
  BY <1>4
<1> QED
  BY <1>5 DEF Control!Max

\* No two positions hold the same sequence.
Distinct(q) == \A i, j \in DOMAIN q: q[i].seq = q[j].seq => i = j

\* RemoveAt, position by position.
LEMMA RemoveAtIs ==
  ASSUME NEW S, NEW q \in Seq(S), NEW i \in DOMAIN q
  PROVE  /\ Control!RemoveAt(q, i) \in Seq(S)
         /\ Len(Control!RemoveAt(q, i)) = Len(q) - 1
         /\ \A j \in 1..(Len(q) - 1):
              Control!RemoveAt(q, i)[j] = IF j < i THEN q[j] ELSE q[j + 1]
<1> DEFINE front == SubSeq(q, 1, i - 1)
           rest == SubSeq(q, i + 1, Len(q))
<1>1. front \in Seq(S) /\ Len(front) = i - 1 /\ \A j \in 1..(i - 1): front[j] = q[j]
  OBVIOUS
<1>2. /\ rest \in Seq(S) /\ Len(rest) = Len(q) - i
      /\ \A j \in 1..(Len(q) - i): rest[j] = q[i + j]
  OBVIOUS
<1>3. Control!RemoveAt(q, i) = front \o rest
  BY DEF Control!RemoveAt
<1>4. Len(q) \in Nat /\ i \in 1..Len(q)
  OBVIOUS
<1> HIDE DEF front, rest
<1>5. /\ front \o rest \in Seq(S) /\ Len(front \o rest) = (i - 1) + (Len(q) - i)
      /\ \A j \in 1..((i - 1) + (Len(q) - i)):
           (front \o rest)[j] = IF j <= i - 1 THEN front[j] ELSE rest[j - (i - 1)]
  <2>1. /\ front \o rest \in Seq(S) /\ Len(front \o rest) = Len(front) + Len(rest)
        /\ \A j \in 1..(Len(front) + Len(rest)):
             (front \o rest)[j] = IF j <= Len(front) THEN front[j]
                                 ELSE rest[j - Len(front)]
    BY <1>1, <1>2, ConcatProperties, Zenon
  <2> QED
    BY <2>1, <1>1, <1>2, <1>4
<1>6. ASSUME NEW j \in 1..(Len(q) - 1)
      PROVE  (front \o rest)[j] = IF j < i THEN q[j] ELSE q[j + 1]
  <2>1. CASE j < i
    BY <1>1, <1>4, <1>5, <2>1
  <2>2. CASE ~(j < i)
    <3>1. j - (i - 1) \in 1..(Len(q) - i)
      BY <1>4, <2>2
    <3>2. rest[j - (i - 1)] = q[i + (j - (i - 1))]
      BY <1>2, <3>1
    <3>3. i + (j - (i - 1)) = j + 1
      BY <1>4
    <3>4. j \in 1..((i - 1) + (Len(q) - i)) /\ ~(j <= i - 1)
      BY <1>4, <2>2
    <3>5. (front \o rest)[j] = rest[j - (i - 1)]
      BY <1>5, <3>4, Zenon
    <3>6. (front \o rest)[j] = q[j + 1]
      BY <3>2, <3>3, <3>5, Zenon
    <3> QED
      BY <2>2, <3>6, Zenon
  <2> QED
    BY <2>1, <2>2
<1> QED
  BY <1>3, <1>4, <1>5, <1>6

\* Removing one position removes its sequence.
LEMMA RemoveAtEffect ==
  ASSUME NEW S, NEW q \in Seq(S), Distinct(q), NEW i \in DOMAIN q
  PROVE  /\ Control!RemoveAt(q, i) \in Seq(S)
         /\ Distinct(Control!RemoveAt(q, i))
         /\ Control!SeqsOf(Control!RemoveAt(q, i)) = Control!SeqsOf(q) \ {q[i].seq}
<1> DEFINE r == Control!RemoveAt(q, i)
<1>1. /\ r \in Seq(S) /\ Len(r) = Len(q) - 1
      /\ \A j \in 1..(Len(q) - 1): r[j] = IF j < i THEN q[j] ELSE q[j + 1]
  BY RemoveAtIs
<1> HIDE DEF r
<1> DEFINE was(j) == IF j < i THEN j ELSE j + 1
<1>0. /\ Len(q) \in Nat /\ i \in 1..Len(q) /\ DOMAIN q = 1..Len(q)
      /\ DOMAIN r = 1..(Len(q) - 1)
  BY <1>1
<1>a. ASSUME NEW j \in 1..(Len(q) - 1)
      PROVE  was(j) \in DOMAIN q /\ was(j) # i /\ r[j] = q[was(j)]
  BY <1>0, <1>1
<1>b. \A j, k \in 1..(Len(q) - 1): was(j) = was(k) => j = k
  BY <1>0
<1> HIDE DEF was
<1>2. Distinct(r)
  <2> SUFFICES ASSUME NEW j \in DOMAIN r, NEW k \in DOMAIN r, r[j].seq = r[k].seq
               PROVE  j = k
    BY DEF Distinct
  <2>1. /\ j \in 1..(Len(q) - 1) /\ k \in 1..(Len(q) - 1)
        /\ was(j) \in DOMAIN q /\ was(k) \in DOMAIN q
        /\ q[was(j)].seq = q[was(k)].seq
    BY <1>0, <1>a
  <2>2. was(j) = was(k)
    BY <2>1, Zenon DEF Distinct
  <2> QED
    BY <1>b, <2>1, <2>2, Zenon
<1>3. ASSUME NEW s \in Control!SeqsOf(r) PROVE s \in Control!SeqsOf(q) \ {q[i].seq}
  <2>1. PICK j \in DOMAIN r: s = r[j].seq
    BY DEF Control!SeqsOf
  <2>2. was(j) \in DOMAIN q /\ was(j) # i /\ s = q[was(j)].seq
    BY <1>0, <1>a, <2>1
  <2>3. q[was(j)].seq # q[i].seq
    BY <2>2, Zenon DEF Distinct
  <2> QED
    BY <2>2, <2>3, Zenon DEF Control!SeqsOf
<1>4. ASSUME NEW s \in Control!SeqsOf(q) \ {q[i].seq} PROVE s \in Control!SeqsOf(r)
  <2>1. PICK j \in DOMAIN q: s = q[j].seq /\ j # i
    BY DEF Control!SeqsOf
  <2>2. CASE j < i
    BY <1>1, <2>1, <2>2 DEF Control!SeqsOf
  <2>3. CASE j > i
    <3>1. j - 1 \in 1..(Len(q) - 1) /\ r[j - 1] = q[j]
      BY <1>1, <2>1, <2>3
    <3> QED
      BY <1>1, <2>1, <3>1 DEF Control!SeqsOf
  <2> QED
    BY <2>1, <2>2, <2>3
<1> QED
  BY <1>1, <1>2, <1>3, <1>4 DEF r

\* A new action adds its sequence.
LEMMA AppendEffect ==
  ASSUME NEW S, NEW q \in Seq(S), Distinct(q), NEW a \in S,
         a.seq \notin Control!SeqsOf(q)
  PROVE  /\ Append(q, a) \in Seq(S) /\ Distinct(Append(q, a))
         /\ Control!SeqsOf(Append(q, a)) = Control!SeqsOf(q) \cup {a.seq}
<1> DEFINE r == Append(q, a)
<1>1. /\ r \in Seq(S) /\ Len(r) = Len(q) + 1
      /\ \A j \in 1..Len(q): r[j] = q[j]
      /\ r[Len(q) + 1] = a
  OBVIOUS
<1> HIDE DEF r
<1>2. Distinct(r)
  BY <1>1 DEF Distinct, Control!SeqsOf
<1>3. Control!SeqsOf(r) = Control!SeqsOf(q) \cup {a.seq}
  <2>1. \A s \in Control!SeqsOf(r): s \in Control!SeqsOf(q) \cup {a.seq}
    BY <1>1 DEF Control!SeqsOf
  <2>2. \A s \in Control!SeqsOf(q): s \in Control!SeqsOf(r)
    BY <1>1 DEF Control!SeqsOf
  <2>3. a.seq \in Control!SeqsOf(r)
    BY <1>1 DEF Control!SeqsOf
  <2> QED
    BY <2>1, <2>2, <2>3
<1> QED
  BY <1>1, <1>2, <1>3 DEF r

\* The head leaves with its sequence.
LEMMA TailEffect ==
  ASSUME NEW S, NEW q \in Seq(S), Distinct(q), q # <<>>
  PROVE  /\ Head(q) \in S /\ Head(q).seq \in Control!SeqsOf(q)
         /\ Tail(q) \in Seq(S) /\ Distinct(Tail(q))
         /\ Control!SeqsOf(Tail(q)) = Control!SeqsOf(q) \ {Head(q).seq}
<1> DEFINE r == Tail(q)
<1>1. /\ Len(q) \in Nat /\ Len(q) > 0 /\ Head(q) = q[1] /\ Head(q) \in S
      /\ r \in Seq(S) /\ Len(r) = Len(q) - 1
      /\ \A j \in 1..(Len(q) - 1): r[j] = q[j + 1]
  OBVIOUS
<1> HIDE DEF r
<1>2. Distinct(r)
  <2>1. ASSUME NEW i \in DOMAIN r, NEW j \in DOMAIN r, r[i].seq = r[j].seq
        PROVE  i = j
    <3>1. /\ i + 1 \in DOMAIN q /\ j + 1 \in DOMAIN q
          /\ q[i + 1].seq = q[j + 1].seq
      BY <1>1, <2>1
    <3>2. i + 1 = j + 1
      BY <3>1 DEF Distinct
    <3> QED
      BY <1>1, <3>2
  <2> QED
    BY <2>1 DEF Distinct
<1>3. \A s \in Control!SeqsOf(r): s \in Control!SeqsOf(q) \ {q[1].seq}
  BY <1>1 DEF Control!SeqsOf, Distinct
<1>4. ASSUME NEW s \in Control!SeqsOf(q) \ {q[1].seq} PROVE s \in Control!SeqsOf(r)
  <2>1. PICK j \in DOMAIN q: s = q[j].seq /\ j # 1
    BY DEF Control!SeqsOf
  <2>2. j - 1 \in 1..(Len(q) - 1) /\ r[j - 1] = q[j]
    BY <1>1, <2>1
  <2> QED
    BY <1>1, <2>1, <2>2 DEF Control!SeqsOf
<1>5. q[1].seq \in Control!SeqsOf(q)
  BY <1>1 DEF Control!SeqsOf
<1> QED
  BY <1>1, <1>2, <1>3, <1>4, <1>5 DEF r

\* Two sequences that share nothing, one behind the other.
LEMMA ConcatDistinct ==
  ASSUME NEW S, NEW b \in Seq(S), NEW q \in Seq(S), Distinct(b), Distinct(q),
         Control!SeqsOf(q) \cap Control!SeqsOf(b) = {}
  PROVE  b \o q \in Seq(S) /\ Distinct(b \o q)
<1> DEFINE p == b \o q
<1>1. Len(b) \in Nat /\ Len(q) \in Nat
  OBVIOUS
<1>2. /\ p \in Seq(S) /\ Len(p) = Len(b) + Len(q)
      /\ \A i \in 1..(Len(b) + Len(q)):
           p[i] = IF i <= Len(b) THEN b[i] ELSE q[i - Len(b)]
  BY ConcatProperties, Zenon
<1> HIDE DEF p
<1>3. \A i \in 1..Len(b), j \in 1..Len(q): b[i].seq # q[j].seq
  <2>1. ASSUME NEW i \in 1..Len(b), NEW j \in 1..Len(q)
        PROVE  /\ b[i].seq \in Control!SeqsOf(b)
               /\ q[j].seq \in Control!SeqsOf(q)
    BY <1>1 DEF Control!SeqsOf
  <2> QED
    BY <2>1
<1>4. ASSUME NEW i \in DOMAIN p, NEW j \in DOMAIN p, p[i].seq = p[j].seq
      PROVE  i = j
  <2>1. DOMAIN p = 1..(Len(b) + Len(q))
    BY <1>1, <1>2
  <2>2. CASE i <= Len(b) /\ j <= Len(b)
    BY <1>1, <1>2, <1>4, <2>1, <2>2 DEF Distinct
  <2>3. CASE ~(i <= Len(b)) /\ ~(j <= Len(b))
    <3>1. /\ i - Len(b) \in DOMAIN q /\ j - Len(b) \in DOMAIN q
          /\ q[i - Len(b)].seq = q[j - Len(b)].seq
      BY <1>1, <1>2, <1>4, <2>1, <2>3
    <3>2. i - Len(b) = j - Len(b)
      BY <3>1 DEF Distinct
    <3> QED
      BY <1>1, <2>1, <3>2
  <2>4. CASE i <= Len(b) /\ ~(j <= Len(b))
    <3>1. i \in 1..Len(b) /\ j - Len(b) \in 1..Len(q)
      BY <1>1, <2>1, <2>4
    <3>2. b[i].seq = q[j - Len(b)].seq
      BY <1>2, <1>4, <2>1, <2>4
    <3> QED
      BY <1>3, <3>1, <3>2
  <2>5. CASE ~(i <= Len(b)) /\ j <= Len(b)
    <3>1. j \in 1..Len(b) /\ i - Len(b) \in 1..Len(q)
      BY <1>1, <2>1, <2>5
    <3>2. b[j].seq = q[i - Len(b)].seq
      BY <1>2, <1>4, <2>1, <2>5
    <3> QED
      BY <1>3, <3>1, <3>2
  <2> QED
    BY <2>2, <2>3, <2>4, <2>5
<1> QED
  BY <1>2, <1>4 DEF p, Distinct

\* What a queue makes of a new action: it has it, or has ended it, and has
\* ended what it has no more.
Effect(q, a, r) ==
  /\ r.queue \in Seq(Control!Actions) /\ Distinct(r.queue)
  /\ r.ended \subseteq Control!SeqsOf(q) \cup {a.seq}
  /\ Control!SeqsOf(r.queue) = (Control!SeqsOf(q) \cup {a.seq}) \ r.ended
  /\ r.ended # {} => r.as \in Control!Dispositions

\* A push to the tail that displaces another action (Displace).
LEMMA DisplaceEffect ==
  ASSUME NEW q \in Seq(Control!Actions), Distinct(q),
         NEW a \in Control!Actions, a.seq \notin Control!SeqsOf(q),
         NEW i \in DOMAIN q, NEW d \in Control!Dispositions
  PROVE  Effect(q, a, Control!Displace(q, i, a, d))
<1> DEFINE rest == Control!RemoveAt(q, i)
<1>1. /\ rest \in Seq(Control!Actions) /\ Distinct(rest)
      /\ Control!SeqsOf(rest) = Control!SeqsOf(q) \ {q[i].seq}
  BY RemoveAtEffect
<1>2. q[i].seq \in Control!SeqsOf(q)
  BY DEF Control!SeqsOf
<1>3. Control!Displace(q, i, a, d)
        = [queue |-> Append(rest, a), ended |-> {q[i].seq}, as |-> d,
           dropped |-> FALSE]
  BY DEF Control!Displace, Control!Result
<1> HIDE DEF rest
<1>4. /\ Append(rest, a) \in Seq(Control!Actions) /\ Distinct(Append(rest, a))
      /\ Control!SeqsOf(Append(rest, a)) = Control!SeqsOf(rest) \cup {a.seq}
  BY <1>1, AppendEffect
<1> QED
  BY <1>1, <1>2, <1>3, <1>4 DEF Effect

\* What enqueue_bounded_detailed makes of a queue: it takes the action or not,
\* and an older one of its kind, or any other when it is full, may leave.
Stays(q, a, r) ==
  /\ \E d \in {"Coalesced", "Refused"}, b \in BOOLEAN:
       r = Control!Result(q, {a.seq}, d, b)
  /\ a.kind \notin {"begin"} \cup Control!Finish

Coalesces(q, a, r, i) ==
  /\ r = Control!Displace(q, i, a, "Coalesced")
  /\ q[i].kind \in {"seek", "set"} /\ \A j \in (i + 1)..Len(q): Control!Keyed(q[j])

LEMMA EnqueueCases ==
  ASSUME MaxPendingActions \in Nat \ {0}, NEW S, NEW q \in Seq(S), NEW a
  PROVE  LET r == Control!Enqueue(q, a)
         IN \/ Stays(q, a, r)
            \/ r = Control!Result(Append(q, a), {}, None, FALSE)
            \/ \E i \in DOMAIN q: \/ Coalesces(q, a, r, i)
                                  \/ r = Control!Displace(q, i, a, "Superseded")
<1> DEFINE r == Control!Enqueue(q, a)
<1>1. Len(q) \in Nat /\ DOMAIN q = 1..Len(q)
  OBVIOUS
<1>2. CASE Control!RepeatsRescan(q, a)
  <2>1. ~Control!RepeatsSeek(q, a) /\ Control!Twins(q, a) = {}
    BY <1>2 DEF Control!RepeatsRescan, Control!RepeatsSeek, Control!Twins,
                Control!Keyed
  <2>2. r = Control!Result(q, {a.seq}, "Coalesced", FALSE)
    BY <1>2, <2>1 DEF Control!Enqueue
  <2>3. a.kind \notin {"begin"} \cup Control!Finish
    BY <1>2 DEF Control!RepeatsRescan, Control!Finish
  <2> QED
    BY <2>2, <2>3 DEF Stays
<1>3. CASE ~Control!RepeatsRescan(q, a) /\ Control!RepeatsSeek(q, a)
  <2>1. Len(q) \in DOMAIN q /\ q[Len(q)].kind = "seek"
    BY <1>3 DEF Control!RepeatsSeek, Control!Last
  <2>2. Control!Twins(q, a) = {}
    BY <1>3 DEF Control!RepeatsSeek, Control!Twins, Control!Keyed
  <2>3. r = Control!Displace(q, Len(q), a, "Coalesced")
    BY <1>3, <2>2 DEF Control!Enqueue
  <2>4. Coalesces(q, a, r, Len(q))
    BY <1>1, <2>1, <2>3 DEF Coalesces
  <2> QED
    BY <2>1, <2>4
<1>4. CASE /\ ~Control!RepeatsRescan(q, a) /\ ~Control!RepeatsSeek(q, a)
           /\ Control!Twins(q, a) # {}
  <2> DEFINE i == Control!Max(Control!Twins(q, a))
  <2>1. Control!Twins(q, a) \in SUBSET (1..Len(q))
    BY <1>1 DEF Control!Twins
  <2>2. i \in Control!Twins(q, a)
    BY <1>1, <1>4, <2>1, MaxIn
  <2>3. r = Control!Displace(q, i, a, "Coalesced")
    BY <1>4 DEF Control!Enqueue
  <2> HIDE DEF i
  <2>4. i \in DOMAIN q /\ Coalesces(q, a, r, i)
    BY <1>1, <2>2, <2>3 DEF Control!Twins, Control!Keyed, Coalesces
  <2> QED
    BY <2>4
<1>5. CASE /\ ~Control!RepeatsRescan(q, a) /\ ~Control!RepeatsSeek(q, a)
           /\ Control!Twins(q, a) = {}
  <2>1. CASE Control!Priority(a) /\ Control!Full(q)
    <3>1. Control!Evicted(q) \in DOMAIN q
      <4> DEFINE ordinary == {i \in DOMAIN q: ~Control!Priority(q[i])}
      <4>1. Len(q) >= 1
        BY <1>1, <2>1 DEF Control!Full
      <4>2. ordinary \in SUBSET Nat
        OBVIOUS
      <4>3. CASE ordinary = {}
        BY <1>1, <4>1, <4>3 DEF Control!Evicted
      <4>4. CASE ordinary # {}
        <5>1. Control!Min(ordinary) \in ordinary
          <6> HIDE DEF ordinary
          <6> QED
            BY <4>2, <4>4, MinIn
        <5> QED
          BY <4>4, <5>1 DEF Control!Evicted
      <4> QED
        BY <4>3, <4>4
    <3>2. r = Control!Displace(q, Control!Evicted(q), a, "Superseded")
      BY <1>5, <2>1 DEF Control!Enqueue
    <3> QED
      BY <3>1, <3>2
  <2>2. CASE Control!Priority(a) /\ ~Control!Full(q)
    BY <1>5, <2>2 DEF Control!Enqueue
  <2>3. CASE /\ ~Control!Priority(a)
             /\ Len(q) >= MaxPendingActions - PriorityReserve
    <3>1. a.kind \notin {"begin"} \cup Control!Finish
      BY <2>3 DEF Control!Priority, Control!Finish
    <3>2. r = Control!Result(q, {a.seq}, "Refused", TRUE)
      BY <1>5, <2>3 DEF Control!Enqueue
    <3> QED
      BY <3>1, <3>2 DEF Stays
  <2>4. CASE /\ ~Control!Priority(a)
             /\ ~(Len(q) >= MaxPendingActions - PriorityReserve)
    BY <1>5, <2>4 DEF Control!Enqueue
  <2> QED
    BY <2>1, <2>2, <2>3, <2>4
<1> QED
  BY <1>2, <1>3, <1>4, <1>5

\* enqueue_bounded_detailed loses nothing: the new action and all that waited
\* are in the queue or among the ended.
LEMMA EnqueueEffect ==
  ASSUME MaxPendingActions \in Nat \ {0},
         NEW q \in Seq(Control!Actions), Distinct(q),
         NEW a \in Control!Actions, a.seq \notin Control!SeqsOf(q)
  PROVE  Effect(q, a, Control!Enqueue(q, a))
<1> DEFINE r == Control!Enqueue(q, a)
<1>1. {"Coalesced", "Superseded", "Refused"} \subseteq Control!Dispositions
  BY DEF Control!Dispositions
<1>2. \/ Stays(q, a, r)
      \/ r = Control!Result(Append(q, a), {}, None, FALSE)
      \/ \E i \in DOMAIN q: \/ Coalesces(q, a, r, i)
                            \/ r = Control!Displace(q, i, a, "Superseded")
  BY EnqueueCases
<1> SUFFICES Effect(q, a, r)
  OBVIOUS
<1> HIDE DEF r
<1>3. CASE Stays(q, a, r)
  <2>1. PICK d \in {"Coalesced", "Refused"}, b \in BOOLEAN:
          r = Control!Result(q, {a.seq}, d, b)
    BY <1>3 DEF Stays
  <2>2. /\ r.queue = q /\ r.ended = {a.seq} /\ r.as = d
    BY <2>1 DEF Control!Result
  <2> QED
    BY <1>1, <2>2 DEF Effect
<1>4. CASE r = Control!Result(Append(q, a), {}, None, FALSE)
  <2>1. /\ Append(q, a) \in Seq(Control!Actions) /\ Distinct(Append(q, a))
        /\ Control!SeqsOf(Append(q, a)) = Control!SeqsOf(q) \cup {a.seq}
    BY AppendEffect
  <2>2. r.queue = Append(q, a) /\ r.ended = {}
    BY <1>4 DEF Control!Result
  <2> QED
    BY <2>1, <2>2 DEF Effect
<1>5. ASSUME NEW i \in DOMAIN q,
             \/ Coalesces(q, a, r, i)
             \/ r = Control!Displace(q, i, a, "Superseded")
      PROVE  Effect(q, a, r)
  BY <1>1, <1>5, DisplaceEffect DEF Coalesces
<1> QED
  BY <1>2, <1>3, <1>4, <1>5

\* What Unkeyed keeps of the first n positions, and what it leaves out of all.
UnkeyedUpTo(q, n) == {q[i].seq : i \in {j \in 1..n: ~Control!Keyed(q[j])}}

KeyedSeqs(q) == {q[i].seq : i \in {j \in DOMAIN q: Control!Keyed(q[j])}}

\* One step of the recursion of Unkeyed.
Keep(kept, q, i) ==
  IF i = 0 THEN <<>>
  ELSE IF Control!Keyed(q[i]) THEN kept[i - 1] ELSE Append(kept[i - 1], q[i])

\* The recursion of Unkeyed defines a function.
LEMMA UnkeyedExists ==
  ASSUME NEW S, NEW q \in Seq(S), NEW n \in 0..Len(q)
  PROVE  \E kept : kept = [i \in 0..n |-> Keep(kept, q, i)]
<1> DEFINE T == {m \in 0..Len(q):
                   ~\E kept : kept = [i \in 0..m |-> Keep(kept, q, i)]}
<1> SUFFICES ASSUME T # {}
             PROVE  FALSE
  OBVIOUS
<1>1. T \in SUBSET Nat
  OBVIOUS
<1>2. PICK m \in T : \A k \in T : m <= k
  <2> HIDE DEF T
  <2> QED
    BY <1>1, LeastNat
<1>3. m # 0
  <2> DEFINE empty == [i \in 0..0 |-> <<>>]
  <2>1. empty = [i \in 0..0 |-> Keep(empty, q, i)]
    BY DEF Keep
  <2> QED
    BY <2>1
<1>4. m \in Nat /\ m - 1 \in 0..Len(q) /\ m - 1 \notin T
  BY <1>1, <1>2, <1>3
<1>5. PICK g : g = [i \in 0..(m - 1) |-> Keep(g, q, i)]
  BY <1>4
<1> DEFINE h == [i \in 0..m |-> IF i < m THEN g[i] ELSE Keep(g, q, m)]
<1>6. ASSUME NEW i \in 0..m
      PROVE  h[i] = Keep(h, q, i)
  <2>1. h[i] = Keep(g, q, i)
    <3>1. CASE i < m
      <4>1. h[i] = g[i]
        BY <3>1, Zenon
      <4>2. i \in 0..(m - 1)
        BY <1>4, <3>1
      <4>3. g[i] = Keep(g, q, i)
        BY <1>5, <4>2, Zenon
      <4> QED
        BY <4>1, <4>3, Zenon
    <3>2. CASE i = m
      BY <1>4, <3>2
    <3> QED
      BY <1>4, <3>1, <3>2
  <2>2. CASE i = 0
    BY <2>1, <2>2 DEF Keep
  <2>3. CASE i # 0
    <3>1. i - 1 \in 0..(m - 1) /\ h[i - 1] = g[i - 1]
      BY <1>4, <2>3
    <3> QED
      BY <2>1, <2>3, <3>1 DEF Keep
  <2> QED
    BY <2>2, <2>3
<1> QED
  BY <1>6

\* Unkeyed, position by position.
LEMMA UnkeyedIs ==
  ASSUME NEW S, NEW q \in Seq(S)
  PROVE  \E kept : /\ kept[0] = <<>> /\ Control!Unkeyed(q) = kept[Len(q)]
                   /\ \A n \in 1..Len(q):
                        kept[n] = IF Control!Keyed(q[n]) THEN kept[n - 1]
                                  ELSE Append(kept[n - 1], q[n])
<1>1. Len(q) \in Nat /\ Len(q) \in 0..Len(q)
  OBVIOUS
<1> DEFINE kept == CHOOSE g : g = [i \in 0..Len(q) |-> Keep(g, q, i)]
<1>2. kept = [i \in 0..Len(q) |-> Keep(kept, q, i)]
  BY <1>1, UnkeyedExists, Zenon
<1>3. Control!Unkeyed(q) = kept[Len(q)]
  BY Zenon DEF Control!Unkeyed, Keep
<1> HIDE DEF kept
<1>4. kept[0] = <<>>
  BY <1>1, <1>2 DEF Keep
<1>5. ASSUME NEW n \in 1..Len(q)
      PROVE  kept[n] = IF Control!Keyed(q[n]) THEN kept[n - 1]
                       ELSE Append(kept[n - 1], q[n])
  <2>1. n \in 0..Len(q) /\ n # 0
    BY <1>1
  <2>2. kept[n] = Keep(kept, q, n)
    BY <1>2, <2>1
  <2> QED
    BY <2>1, <2>2 DEF Keep
<1> QED
  BY <1>3, <1>4, <1>5

\* Unkeyed keeps what is not keyed, once.
LEMMA UnkeyedEffect ==
  ASSUME NEW S, NEW q \in Seq(S), Distinct(q)
  PROVE  /\ Control!Unkeyed(q) \in Seq(S) /\ Distinct(Control!Unkeyed(q))
         /\ Control!SeqsOf(Control!Unkeyed(q)) = Control!SeqsOf(q) \ KeyedSeqs(q)
<1>1. Len(q) \in Nat /\ Len(q) \in 0..Len(q)
  OBVIOUS
<1>2. PICK kept : /\ kept[0] = <<>> /\ Control!Unkeyed(q) = kept[Len(q)]
                  /\ \A n \in 1..Len(q):
                       kept[n] = IF Control!Keyed(q[n]) THEN kept[n - 1]
                                 ELSE Append(kept[n - 1], q[n])
  BY UnkeyedIs
<1> DEFINE Good(n) == /\ kept[n] \in Seq(S) /\ Distinct(kept[n])
                      /\ Control!SeqsOf(kept[n]) = UnkeyedUpTo(q, n)
           T == {n \in 0..Len(q): ~Good(n)}
<1>4. T = {}
  <2> SUFFICES ASSUME T # {}
               PROVE  FALSE
    OBVIOUS
  <2>1. T \in SUBSET Nat
    OBVIOUS
  <2>2. PICK n \in T : \A k \in T : n <= k
    <3> HIDE DEF T
    <3> QED
      BY <2>1, LeastNat
  <2>3. n # 0
    <3>1. kept[0] = <<>>
      BY <1>2
    <3>2. Control!SeqsOf(kept[0]) = {} /\ UnkeyedUpTo(q, 0) = {}
      BY <3>1 DEF Control!SeqsOf, UnkeyedUpTo
    <3>3. kept[0] \in Seq(S) /\ Distinct(kept[0])
      BY <3>1 DEF Distinct
    <3>4. Good(0)
      BY <3>2, <3>3
    <3> QED
      BY <3>4
  <2>4. n \in 1..Len(q) /\ n - 1 \in 0..Len(q) /\ Good(n - 1)
    BY <1>1, <2>2, <2>3
  <2>5. kept[n] = IF Control!Keyed(q[n]) THEN kept[n - 1]
                  ELSE Append(kept[n - 1], q[n])
    BY <1>2, <2>4
  <2>6. CASE Control!Keyed(q[n])
    <3>1. UnkeyedUpTo(q, n) = UnkeyedUpTo(q, n - 1)
      BY <2>4, <2>6 DEF UnkeyedUpTo
    <3> QED
      BY <2>2, <2>4, <2>5, <2>6, <3>1
  <2>7. CASE ~Control!Keyed(q[n])
    <3>1. UnkeyedUpTo(q, n) = UnkeyedUpTo(q, n - 1) \cup {q[n].seq}
      BY <2>4, <2>7 DEF UnkeyedUpTo
    <3>2. q[n] \in S /\ q[n].seq \notin UnkeyedUpTo(q, n - 1)
      BY <2>4 DEF UnkeyedUpTo, Distinct
    <3>3. Good(n)
      BY <2>4, <2>5, <2>7, <3>1, <3>2, AppendEffect
    <3> QED
      BY <3>3
  <2> QED
    BY <2>6, <2>7
<1>5. Good(Len(q))
  BY <1>1, <1>4
<1>6. UnkeyedUpTo(q, Len(q)) = Control!SeqsOf(q) \ KeyedSeqs(q)
  BY DEF UnkeyedUpTo, Control!SeqsOf, KeyedSeqs, Distinct
<1> QED
  BY <1>2, <1>5, <1>6

\* What the proof needs of the types.
ControlTyped ==
  /\ minted \in 0..MaxSequence
  /\ stage \in [Clients -> {"idle", "gate", "queue", "closing", "gone"}]
  /\ flight \in [Clients -> Control!Actions \cup {None}]
  /\ queue \in Seq(Control!Actions) /\ batch \in Seq(Control!Actions)
  /\ receipt \in [1..MaxSequence -> Control!Dispositions \cup {None}]

\* A guard is armed at the gate and at the queue, for a sequence of its own.
Guarded ==
  /\ \A c \in Clients: flight[c] # None <=> stage[c] \in {"gate", "queue"}
  /\ \A c, d \in Clients:
       flight[c] # None /\ flight[d] # None /\ flight[c].seq = flight[d].seq
         => c = d

\* The five places share out what was minted.
Shared(F, Q, B, A, S, n) ==
  /\ F \cup Q \cup B \cup A \cup S = 1..n
  /\ F \cap Q = {} /\ F \cap B = {} /\ F \cap A = {} /\ F \cap S = {}
  /\ Q \cap B = {} /\ Q \cap A = {} /\ Q \cap S = {}
  /\ B \cap A = {} /\ B \cap S = {} /\ A \cap S = {}

SharedOut ==
  Shared(Control!InFlight, Control!SeqsOf(queue), Control!SeqsOf(batch), applied,
         Control!Settled, minted)

\* The inductive invariant of the control queue.
ControlInv ==
  /\ ControlTyped /\ Guarded
  /\ Distinct(queue) /\ Distinct(batch) /\ (~drawing => batch = <<>>)
  /\ SharedOut

\* What the code has for the constants.
ControlAssumption ==
  /\ MaxSequence \in Nat /\ MaxPendingActions \in Nat \ {0}
  /\ None \notin Control!Actions /\ None \notin Control!Dispositions

----------------------------------------------------------------------------
\* The server starts with nothing minted.
LEMMA ControlInit ==
  ASSUME ControlAssumption, Control!Init
  PROVE  ControlInv
<1> USE DEF Control!Init, ControlAssumption
<1>1. ControlTyped /\ Guarded /\ Distinct(queue) /\ Distinct(batch)
  BY DEF ControlTyped, Guarded, Distinct
<1>2. /\ Control!InFlight = {} /\ Control!Settled = {}
      /\ Control!SeqsOf(queue) = {} /\ Control!SeqsOf(batch) = {}
  BY DEF Control!InFlight, Control!Settled, Control!SeqsOf
<1>3. 1..minted = {}
  OBVIOUS
<1>4. SharedOut
  BY <1>2, <1>3 DEF SharedOut, Shared
<1> QED
  BY <1>1, <1>4 DEF ControlInv

\* The invariant says what OnePlace does.
LEMMA ControlOnePlace ==
  ASSUME ControlInv
  PROVE  OnePlace
<1> DEFINE places == <<Control!InFlight, Control!SeqsOf(queue),
                       Control!SeqsOf(batch), applied, Control!Settled>>
<1>1. UNION {places[i] : i \in 1..5}
        = places[1] \cup places[2] \cup places[3] \cup places[4] \cup places[5]
  <2> HIDE DEF places
  <2>1. 1..5 = {1, 2, 3, 4, 5}
    OBVIOUS
  <2>2. {places[i] : i \in 1..5}
          = {places[1], places[2], places[3], places[4], places[5]}
    BY <2>1
  <2> QED
    BY <2>2
<1>2. UNION {places[i] : i \in 1..5} = 1..minted
  BY <1>1 DEF ControlInv, SharedOut, Shared
<1>3. \A i, j \in 1..5: i # j => places[i] \cap places[j] = {}
  BY DEF ControlInv, SharedOut, Shared
<1>4. Control!IsInjective([i \in DOMAIN Control!Pending |-> Control!Pending[i].seq])
  <2>1. Distinct(Control!Pending)
    BY ConcatDistinct
    DEF Control!Pending, ControlInv, ControlTyped, SharedOut, Shared
  <2> QED
    BY <2>1 DEF Distinct, Control!IsInjective
<1> QED
  BY <1>2, <1>3, <1>4 DEF OnePlace, Control!OnePlace

\* Receipts settle sequences and leave the others alone.
LEMMA SettleEffect ==
  ASSUME ControlTyped, None \notin Control!Dispositions,
         NEW ended \in SUBSET (1..MaxSequence), NEW d,
         ended # {} => d \in Control!Dispositions, Control!Settle(ended, d)
  PROVE  /\ receipt' \in [1..MaxSequence -> Control!Dispositions \cup {None}]
         /\ Control!Settled' = Control!Settled \cup ended
BY DEF ControlTyped, Control!Settle, Control!Settled

\* Pushing moves a into the queue, or to its receipt, and others to theirs.
LEMMA PushEffect ==
  ASSUME ControlAssumption, ControlTyped, Distinct(queue),
         NEW a \in Control!Actions, a.seq \in 1..MaxSequence,
         a.seq \notin Control!SeqsOf(queue),
         Control!SeqsOf(queue) \subseteq 1..MaxSequence, Control!Push(a)
  PROVE  /\ queue' \in Seq(Control!Actions) /\ Distinct(queue')
         /\ receipt' \in [1..MaxSequence -> Control!Dispositions \cup {None}]
         /\ \E ended \in SUBSET (Control!SeqsOf(queue) \cup {a.seq}):
              /\ Control!SeqsOf(queue)'
                   = (Control!SeqsOf(queue) \cup {a.seq}) \ ended
              /\ Control!Settled' = Control!Settled \cup ended
<1> DEFINE r == Control!Enqueue(queue, a)
<1>1. Effect(queue, a, r)
  BY EnqueueEffect DEF ControlAssumption, ControlTyped
<1>2. queue' = r.queue /\ Control!Settle(r.ended, r.as)
  BY DEF Control!Push
<1> HIDE DEF r
<1>3. /\ receipt' \in [1..MaxSequence -> Control!Dispositions \cup {None}]
      /\ Control!Settled' = Control!Settled \cup r.ended
  <2>1. r.ended \in SUBSET (1..MaxSequence)
    BY <1>1 DEF Effect
  <2> QED
    BY <1>1, <1>2, <2>1, SettleEffect DEF Effect, ControlAssumption
<1>4. Control!SeqsOf(queue)' = Control!SeqsOf(r.queue)
  BY <1>2 DEF Control!SeqsOf
<1> QED
  BY <1>1, <1>2, <1>3, <1>4 DEF Effect

\* Disarming one guard takes its sequence out of flight.
LEMMA DisarmEffect ==
  ASSUME ControlTyped, Guarded, NEW c \in Clients, flight[c] # None,
         NEW place \in {"idle", "closing"},
         flight' = [flight EXCEPT ![c] = None],
         stage' = [stage EXCEPT ![c] = place]
  PROVE  /\ flight[c] \in Control!Actions
         /\ flight[c].seq \in Control!InFlight
         /\ Control!InFlight' = Control!InFlight \ {flight[c].seq}
         /\ flight' \in [Clients -> Control!Actions \cup {None}]
         /\ stage' \in [Clients -> {"idle", "gate", "queue", "closing", "gone"}]
         /\ Guarded'
<1> USE DEF ControlTyped, Guarded
<1>1. flight[c] \in Control!Actions /\ flight[c].seq \in Control!InFlight
  BY DEF Control!InFlight
<1>2. \A d \in Clients: flight'[d] = IF d = c THEN None ELSE flight[d]
  OBVIOUS
<1>3. \A d \in Clients: stage'[d] = IF d = c THEN place ELSE stage[d]
  OBVIOUS
<1>4. Control!InFlight' = Control!InFlight \ {flight[c].seq}
  BY <1>2 DEF Control!InFlight
<1>5. /\ flight' \in [Clients -> Control!Actions \cup {None}]
      /\ stage' \in [Clients -> {"idle", "gate", "queue", "closing", "gone"}]
  OBVIOUS
<1>6. Guarded'
  BY <1>2, <1>3
<1> QED
  BY <1>1, <1>4, <1>5, <1>6

\* A place keeps its sequences with the variable it is read from.
LEMMA PlacesFollow ==
  /\ UNCHANGED flight => Control!InFlight' = Control!InFlight
  /\ UNCHANGED queue => Control!SeqsOf(queue)' = Control!SeqsOf(queue)
  /\ UNCHANGED batch => Control!SeqsOf(batch)' = Control!SeqsOf(batch)
  /\ UNCHANGED receipt => Control!Settled' = Control!Settled
BY DEF Control!InFlight, Control!SeqsOf, Control!Settled

----------------------------------------------------------------------------
\* The steps of a socket task: a minted sequence is in flight.
LEMMA MintKeeps ==
  ASSUME ControlAssumption, ControlInv, NEW c \in Clients,
         NEW kind \in Control!Kinds, NEW key \in Keys \cup {None},
         Control!Mint(c, kind, key)
  PROVE  ControlInv'
<1> DEFINE a == [seq |-> minted', kind |-> kind, client |-> c, key |-> key]
<1> USE DEF ControlInv, ControlAssumption
<1>1. /\ stage[c] = "idle" /\ minted' = minted + 1 /\ minted < MaxSequence
      /\ flight' = [flight EXCEPT ![c] = a] /\ stage' = [stage EXCEPT ![c] = "gate"]
      /\ UNCHANGED <<queue, batch, applied, receipt, drawing>>
  BY DEF Control!Mint, Control!main
<1>2. minted \in Nat /\ minted' \in 0..MaxSequence
  BY <1>1 DEF ControlTyped
<1>3. a \in Control!Actions /\ a # None /\ a.seq = minted + 1
  BY <1>1, <1>2 DEF Control!Actions
<1> HIDE DEF a
<1>4. flight[c] = None
  BY <1>1 DEF ControlTyped, Guarded
<1>5. ControlTyped'
  BY <1>1, <1>2, <1>3 DEF ControlTyped
<1>6. minted + 1 \notin Control!InFlight
  BY <1>2 DEF SharedOut, Shared
<1>7. /\ \A d \in Clients: flight'[d] = IF d = c THEN a ELSE flight[d]
      /\ \A d \in Clients: stage'[d] = IF d = c THEN "gate" ELSE stage[d]
  BY <1>1 DEF ControlTyped
<1>8. Guarded'
  <2>1. \A d \in Clients: flight[d] # None => flight[d].seq # minted + 1
    BY <1>6 DEF Control!InFlight
  <2> QED
    BY <1>3, <1>7, <2>1 DEF Guarded
<1>9. Control!InFlight' = Control!InFlight \cup {minted + 1}
  BY <1>3, <1>4, <1>7 DEF Control!InFlight
<1>10. 1..minted' = (1..minted) \cup {minted + 1}
  BY <1>1, <1>2
<1>11. minted + 1 \notin 1..minted
  BY <1>2
<1>12. SharedOut'
  BY <1>1, <1>9, <1>10, <1>11, PlacesFollow DEF SharedOut, Shared
<1> QED
  BY <1>1, <1>5, <1>8, <1>12 DEF Distinct

\* The gate passes: the guard goes on.
LEMMA PassKeeps ==
  ASSUME ControlInv, NEW c \in Clients, Control!Pass(c)
  PROVE  ControlInv'
<1> USE DEF ControlInv
<1>1. /\ stage[c] = "gate" /\ stage' = [stage EXCEPT ![c] = "queue"]
      /\ UNCHANGED <<minted, flight, queue, batch, applied, receipt, drawing>>
  BY DEF Control!Pass, Control!main
<1>2. ControlTyped' /\ Guarded'
  BY <1>1 DEF ControlTyped, Guarded
<1>3. SharedOut'
  BY <1>1, PlacesFollow DEF SharedOut
<1> QED
  BY <1>1, <1>2, <1>3 DEF Distinct

\* The gate refuses: a guard becomes a receipt.
LEMMA RefuseKeeps ==
  ASSUME ControlAssumption, ControlInv, NEW c \in Clients, Control!Refuse(c)
  PROVE  ControlInv'
<1> USE DEF ControlInv, ControlAssumption
<1>1. /\ stage[c] = "gate" /\ stage' = [stage EXCEPT ![c] = "idle"]
      /\ flight' = [flight EXCEPT ![c] = None]
      /\ Control!Settle({flight[c].seq}, "Refused")
      /\ UNCHANGED <<minted, queue, batch, applied, drawing>>
  BY DEF Control!Refuse, Control!main
<1>2. flight[c] # None
  BY <1>1 DEF Guarded
<1>3. /\ flight[c] \in Control!Actions
      /\ flight[c].seq \in Control!InFlight
      /\ Control!InFlight' = Control!InFlight \ {flight[c].seq}
      /\ flight' \in [Clients -> Control!Actions \cup {None}]
      /\ stage' \in [Clients -> {"idle", "gate", "queue", "closing", "gone"}]
      /\ Guarded'
  BY <1>1, <1>2, DisarmEffect
<1>4. flight[c].seq \in 1..MaxSequence
  BY <1>3 DEF SharedOut, Shared, ControlTyped
<1>5. /\ receipt' \in [1..MaxSequence -> Control!Dispositions \cup {None}]
      /\ Control!Settled' = Control!Settled \cup {flight[c].seq}
  BY <1>1, <1>4, SettleEffect DEF Control!Dispositions
<1>6. ControlTyped'
  BY <1>1, <1>3, <1>5 DEF ControlTyped
<1>7. SharedOut'
  BY <1>1, <1>3, <1>5, PlacesFollow DEF SharedOut, Shared
<1> QED
  BY <1>1, <1>3, <1>6, <1>7 DEF Distinct

\* The guard is disarmed as the queue takes the action.
LEMMA AdmitKeeps ==
  ASSUME ControlAssumption, ControlInv, NEW c \in Clients, Control!Admit(c)
  PROVE  ControlInv'
<1> USE DEF ControlInv, ControlAssumption
<1>1. /\ stage[c] = "queue" /\ stage' = [stage EXCEPT ![c] = "idle"]
      /\ flight' = [flight EXCEPT ![c] = None]
      /\ Control!Push(flight[c])
      /\ UNCHANGED <<minted, batch, applied, drawing>>
  BY DEF Control!Admit, Control!main
<1>2. flight[c] # None
  BY <1>1 DEF Guarded
<1>3. /\ flight[c] \in Control!Actions
      /\ flight[c].seq \in Control!InFlight
      /\ Control!InFlight' = Control!InFlight \ {flight[c].seq}
      /\ flight' \in [Clients -> Control!Actions \cup {None}]
      /\ stage' \in [Clients -> {"idle", "gate", "queue", "closing", "gone"}]
      /\ Guarded'
  BY <1>1, <1>2, DisarmEffect
<1>4. /\ flight[c].seq \in 1..MaxSequence
      /\ flight[c].seq \notin Control!SeqsOf(queue)
      /\ Control!SeqsOf(queue) \subseteq 1..MaxSequence
  BY <1>3 DEF SharedOut, Shared, ControlTyped
<1>5. /\ queue' \in Seq(Control!Actions) /\ Distinct(queue')
      /\ receipt' \in [1..MaxSequence -> Control!Dispositions \cup {None}]
      /\ \E ended \in SUBSET (Control!SeqsOf(queue) \cup {flight[c].seq}):
           /\ Control!SeqsOf(queue)'
                = (Control!SeqsOf(queue) \cup {flight[c].seq}) \ ended
           /\ Control!Settled' = Control!Settled \cup ended
  BY <1>1, <1>3, <1>4, PushEffect
<1>6. ControlTyped'
  BY <1>1, <1>3, <1>5 DEF ControlTyped
<1>7. SharedOut'
  BY <1>1, <1>3, <1>5, PlacesFollow DEF SharedOut, Shared
<1> QED
  BY <1>1, <1>3, <1>5, <1>6, <1>7 DEF Distinct

\* An aborted task leaves a receipt, or had nothing in flight.
LEMMA VanishKeeps ==
  ASSUME ControlAssumption, ControlInv, NEW c \in Clients, Control!Vanish(c)
  PROVE  ControlInv'
<1> USE DEF ControlInv, ControlAssumption
<1>1. /\ stage[c] \in {"idle", "gate", "queue"}
      /\ stage' = [stage EXCEPT ![c] = "closing"]
      /\ flight' = [flight EXCEPT ![c] = None]
      /\ UNCHANGED <<minted, queue, batch, applied, drawing>>
  BY DEF Control!Vanish, Control!main
<1>2. CASE flight[c] = None
  <2>1. flight' = flight
    BY <1>1, <1>2 DEF ControlTyped
  <2>2. Control!Settle({}, "Refused")
    BY <1>2 DEF Control!Vanish
  <2>3. /\ receipt' \in [1..MaxSequence -> Control!Dispositions \cup {None}]
        /\ Control!Settled' = Control!Settled
    BY <2>2 DEF ControlTyped, Control!Settle, Control!Settled
  <2>4. ControlTyped' /\ Guarded'
    BY <1>1, <1>2, <2>1, <2>3 DEF ControlTyped, Guarded
  <2>5. SharedOut'
    BY <1>1, <2>1, <2>3, PlacesFollow DEF SharedOut
  <2> QED
    BY <1>1, <2>4, <2>5 DEF Distinct
<1>3. CASE flight[c] # None
  <2>1. /\ flight[c] \in Control!Actions
        /\ flight[c].seq \in Control!InFlight
        /\ Control!InFlight' = Control!InFlight \ {flight[c].seq}
        /\ flight' \in [Clients -> Control!Actions \cup {None}]
        /\ stage' \in [Clients -> {"idle", "gate", "queue", "closing", "gone"}]
        /\ Guarded'
    BY <1>1, <1>3, DisarmEffect
  <2>2. Control!Settle({flight[c].seq}, "Refused")
    BY <1>3 DEF Control!Vanish
  <2>3. flight[c].seq \in 1..MaxSequence
    BY <2>1 DEF SharedOut, Shared, ControlTyped
  <2>4. /\ receipt' \in [1..MaxSequence -> Control!Dispositions \cup {None}]
        /\ Control!Settled' = Control!Settled \cup {flight[c].seq}
    BY <2>2, <2>3, SettleEffect DEF Control!Dispositions
  <2>5. ControlTyped'
    BY <1>1, <2>1, <2>4 DEF ControlTyped
  <2>6. SharedOut'
    BY <1>1, <2>1, <2>4, PlacesFollow DEF SharedOut, Shared
  <2> QED
    BY <1>1, <2>1, <2>5, <2>6 DEF Distinct
<1> QED
  BY <1>2, <1>3

\* The End of a client that left goes straight into the queue.
LEMMA DisconnectKeeps ==
  ASSUME ControlAssumption, ControlInv, NEW c \in Clients, Control!Disconnect(c)
  PROVE  ControlInv'
<1> DEFINE a == [seq |-> minted', kind |-> "end", client |-> c, key |-> None]
<1> USE DEF ControlInv, ControlAssumption
<1>1. /\ stage[c] = "closing" /\ stage' = [stage EXCEPT ![c] = "gone"]
      /\ UNCHANGED <<flight, batch, applied, drawing>>
  BY DEF Control!Disconnect, Control!main
<1>2. Guarded' /\ stage' \in [Clients -> {"idle", "gate", "queue", "closing", "gone"}]
  BY <1>1 DEF ControlTyped, Guarded
<1>3. CASE Control!Owns(c)
  <2>1. minted < MaxSequence /\ minted' = minted + 1 /\ Control!Push(a)
    BY <1>3 DEF Control!Disconnect
  <2>2. minted \in Nat /\ minted' \in 0..MaxSequence
    BY <2>1 DEF ControlTyped
  <2>3. a \in Control!Actions /\ a.seq = minted + 1
    BY <2>1, <2>2 DEF Control!Actions, Control!Kinds, Control!Finish
  <2> HIDE DEF a
  <2>4. minted + 1 \notin 1..minted /\ 1..minted' = (1..minted) \cup {minted + 1}
    BY <2>1, <2>2
  <2>5. /\ a.seq \in 1..MaxSequence /\ a.seq \notin Control!SeqsOf(queue)
        /\ Control!SeqsOf(queue) \subseteq 1..MaxSequence
    <3>1. minted + 1 \in 1..MaxSequence /\ 1..minted \subseteq 1..MaxSequence
      BY <2>1, <2>2
    <3> QED
      BY <2>3, <2>4, <3>1 DEF SharedOut, Shared
  <2>6. /\ queue' \in Seq(Control!Actions) /\ Distinct(queue')
        /\ receipt' \in [1..MaxSequence -> Control!Dispositions \cup {None}]
        /\ \E ended \in SUBSET (Control!SeqsOf(queue) \cup {a.seq}):
             /\ Control!SeqsOf(queue)'
                  = (Control!SeqsOf(queue) \cup {a.seq}) \ ended
             /\ Control!Settled' = Control!Settled \cup ended
    BY <2>1, <2>3, <2>5, PushEffect
  <2>7. ControlTyped'
    BY <1>1, <1>2, <2>2, <2>6 DEF ControlTyped
  <2>8. SharedOut'
    BY <1>1, <2>3, <2>4, <2>6, PlacesFollow DEF SharedOut, Shared
  <2> QED
    BY <1>1, <1>2, <2>6, <2>7, <2>8 DEF Distinct
<1>4. CASE ~Control!Owns(c)
  <2>1. UNCHANGED <<minted, queue, receipt>>
    BY <1>4 DEF Control!Disconnect
  <2>2. ControlTyped'
    BY <1>1, <1>2, <2>1 DEF ControlTyped
  <2>3. SharedOut'
    BY <1>1, <2>1, PlacesFollow DEF SharedOut
  <2> QED
    BY <1>1, <1>2, <2>1, <2>2, <2>3 DEF Distinct
<1> QED
  BY <1>3, <1>4

----------------------------------------------------------------------------
\* The steps of the frame loop: the queue becomes the batch.
LEMMA DrainKeeps ==
  ASSUME ControlInv, Control!Drain
  PROVE  ControlInv'
<1> USE DEF ControlInv
<1>1. /\ batch = <<>> /\ drawing' = TRUE
      /\ UNCHANGED <<minted, stage, flight, applied, receipt>>
  BY DEF Control!Drain, Control!sockets
<1>2. Guarded'
  BY <1>1 DEF Guarded
<1>3. CASE UNCHANGED <<batch, queue>>
  <2>1. ControlTyped'
    BY <1>1, <1>3 DEF ControlTyped
  <2>2. SharedOut'
    BY <1>1, <1>3, PlacesFollow DEF SharedOut
  <2> QED
    BY <1>1, <1>2, <1>3, <2>1, <2>2 DEF Distinct
<1>4. CASE batch' = queue /\ queue' = <<>>
  <2>1. ControlTyped' /\ Distinct(queue') /\ Distinct(batch')
    BY <1>1, <1>4 DEF ControlTyped, Distinct
  <2>2. /\ Control!SeqsOf(batch) = {} /\ Control!SeqsOf(queue)' = {}
        /\ Control!SeqsOf(batch)' = Control!SeqsOf(queue)
    BY <1>1, <1>4 DEF Control!SeqsOf
  <2>3. SharedOut'
    BY <1>1, <2>2, PlacesFollow DEF SharedOut, Shared
  <2> QED
    BY <1>1, <1>2, <2>1, <2>3
<1> QED
  BY <1>3, <1>4 DEF Control!Drain

\* What a step leaves when it applies the head of the batch.
HeadTaken ==
  /\ drawing /\ batch # <<>> /\ batch' = Tail(batch)
  /\ UNCHANGED <<minted, stage, flight, drawing>>

LEMMA HeadEffect ==
  ASSUME ControlAssumption, ControlInv, HeadTaken
  PROVE  /\ Head(batch).seq \in Control!SeqsOf(batch)
         /\ Head(batch).seq \in 1..MaxSequence /\ Head(batch).seq \in 1..minted
         /\ batch' \in Seq(Control!Actions) /\ Distinct(batch')
         /\ Control!SeqsOf(batch)' = Control!SeqsOf(batch) \ {Head(batch).seq}
         /\ Guarded'
<1> USE DEF ControlInv, HeadTaken
<1>1. /\ Head(batch).seq \in Control!SeqsOf(batch)
      /\ Tail(batch) \in Seq(Control!Actions) /\ Distinct(Tail(batch))
      /\ Control!SeqsOf(Tail(batch)) = Control!SeqsOf(batch) \ {Head(batch).seq}
  BY TailEffect DEF ControlTyped
<1>2. Control!SeqsOf(batch)' = Control!SeqsOf(Tail(batch))
  BY DEF Control!SeqsOf
<1>3. Head(batch).seq \in 1..minted
  BY <1>1 DEF SharedOut, Shared
<1>4. Head(batch).seq \in 1..MaxSequence
  BY <1>3 DEF ControlTyped, ControlAssumption
<1> QED
  BY <1>1, <1>2, <1>3, <1>4 DEF Guarded

\* The head of the batch is refused or done with.
LEMMA HeadSettledKeeps ==
  ASSUME ControlAssumption, ControlInv, HeadTaken, UNCHANGED <<queue, applied>>,
         NEW d \in Control!Dispositions, Control!Settle({Head(batch).seq}, d)
  PROVE  ControlInv'
<1> USE DEF ControlInv, ControlAssumption, HeadTaken
<1>1. /\ Head(batch).seq \in Control!SeqsOf(batch)
      /\ Head(batch).seq \in 1..MaxSequence
      /\ batch' \in Seq(Control!Actions) /\ Distinct(batch')
      /\ Control!SeqsOf(batch)' = Control!SeqsOf(batch) \ {Head(batch).seq}
      /\ Guarded'
  BY HeadEffect
<1>2. /\ receipt' \in [1..MaxSequence -> Control!Dispositions \cup {None}]
      /\ Control!Settled' = Control!Settled \cup {Head(batch).seq}
  BY <1>1, SettleEffect
<1>3. ControlTyped'
  BY <1>1, <1>2 DEF ControlTyped
<1>4. SharedOut'
  BY <1>1, <1>2, PlacesFollow DEF SharedOut, Shared
<1> QED
  BY <1>1, <1>3, <1>4 DEF Distinct

\* The monitor takes a sequence or, full, ends it.
LEMMA RecordEffect ==
  ASSUME ControlAssumption, ControlTyped, NEW s \in 1..MaxSequence,
         Control!RecordApplied(s)
  PROVE  /\ receipt' \in [1..MaxSequence -> Control!Dispositions \cup {None}]
         /\ \/ applied' = applied /\ Control!Settled' = Control!Settled \cup {s}
            \/ applied' = applied \cup {s} /\ Control!Settled' = Control!Settled
<1> USE DEF ControlAssumption
<1>1. CASE Control!Settle({s}, "NotYetPresented") /\ applied' = applied
  BY <1>1, SettleEffect DEF Control!Dispositions
<1>2. CASE applied' = applied \cup {s} /\ UNCHANGED receipt
  BY <1>2, PlacesFollow DEF ControlTyped
<1> QED
  BY <1>1, <1>2 DEF Control!RecordApplied

\* The head of the batch was applied.
LEMMA HeadRecordedKeeps ==
  ASSUME ControlAssumption, ControlInv, HeadTaken, UNCHANGED queue,
         Control!RecordApplied(Head(batch).seq)
  PROVE  ControlInv'
<1> USE DEF ControlInv, ControlAssumption, HeadTaken
<1>1. /\ Head(batch).seq \in Control!SeqsOf(batch)
      /\ Head(batch).seq \in 1..MaxSequence
      /\ batch' \in Seq(Control!Actions) /\ Distinct(batch')
      /\ Control!SeqsOf(batch)' = Control!SeqsOf(batch) \ {Head(batch).seq}
      /\ Guarded'
  BY HeadEffect
<1>2. /\ receipt' \in [1..MaxSequence -> Control!Dispositions \cup {None}]
      /\ \/ /\ applied' = applied
            /\ Control!Settled' = Control!Settled \cup {Head(batch).seq}
         \/ /\ applied' = applied \cup {Head(batch).seq}
            /\ Control!Settled' = Control!Settled
  BY <1>1, RecordEffect
<1>3. ControlTyped'
  BY <1>1, <1>2 DEF ControlTyped
<1>4. SharedOut'
  BY <1>1, <1>2, PlacesFollow DEF SharedOut, Shared
<1> QED
  BY <1>1, <1>3, <1>4 DEF Distinct

\* A receipt for each of ended, one for the applied action when the monitor is
\* full, or a place in the monitor.
Replaced(ended) ==
  LET full == Control!Cardinality(applied) >= MaxInFlight
      s == Head(batch).seq
  IN /\ receipt' = [t \in DOMAIN receipt |->
                      IF t \in ended THEN "Superseded"
                      ELSE IF t = s /\ full THEN "NotYetPresented"
                      ELSE receipt[t]]
     /\ applied' = IF full THEN applied ELSE applied \cup {s}

\* What a loaded show and an applied look do to the receipts.
LEMMA ReplacedEffect ==
  ASSUME ControlAssumption, ControlTyped, Head(batch).seq \in 1..MaxSequence,
         NEW ended \in SUBSET (1..MaxSequence), Replaced(ended)
  PROVE  /\ receipt' \in [1..MaxSequence -> Control!Dispositions \cup {None}]
         /\ \/ /\ applied' = applied
               /\ Control!Settled' = Control!Settled \cup ended \cup {Head(batch).seq}
            \/ /\ applied' = applied \cup {Head(batch).seq}
               /\ Control!Settled' = Control!Settled \cup ended
<1> DEFINE full == Control!Cardinality(applied) >= MaxInFlight
<1>1. CASE full
  BY <1>1 DEF Replaced, Control!Settled, ControlTyped, ControlAssumption,
              Control!Dispositions
<1>2. CASE ~full
  BY <1>2 DEF Replaced, Control!Settled, ControlTyped, ControlAssumption,
              Control!Dispositions
<1> QED
  BY <1>1, <1>2

\* A show is loaded.
LEMMA LoadKeeps ==
  ASSUME ControlAssumption, ControlInv, Control!ApplyLoad
  PROVE  ControlInv'
<1> USE DEF ControlInv, ControlAssumption
<1> DEFINE s == Head(batch).seq
           ended == Control!SeqsOf(Tail(batch)) \cup Control!SeqsOf(queue)
<1>1. /\ drawing /\ batch # <<>> /\ batch' = <<>> /\ queue' = <<>>
      /\ UNCHANGED <<minted, stage, flight, drawing>>
      /\ Replaced(ended)
  BY DEF Control!ApplyLoad, Control!HeadIs, Control!Quiet, Control!sockets, Replaced
<1>2. /\ s \in Control!SeqsOf(batch)
      /\ Control!SeqsOf(Tail(batch)) = Control!SeqsOf(batch) \ {s}
  BY <1>1, TailEffect DEF ControlTyped
<1>3. s \in 1..MaxSequence /\ ended \in SUBSET (1..MaxSequence)
  BY <1>2 DEF SharedOut, Shared, ControlTyped
<1>4. /\ receipt' \in [1..MaxSequence -> Control!Dispositions \cup {None}]
      /\ \/ applied' = applied /\ Control!Settled' = Control!Settled \cup ended \cup {s}
         \/ applied' = applied \cup {s} /\ Control!Settled' = Control!Settled \cup ended
  BY <1>1, <1>3, ReplacedEffect
<1>5. ControlTyped' /\ Guarded' /\ Distinct(queue') /\ Distinct(batch')
  BY <1>1, <1>4 DEF ControlTyped, Guarded, Distinct
<1>6. Control!SeqsOf(queue)' = {} /\ Control!SeqsOf(batch)' = {}
  BY <1>1 DEF Control!SeqsOf
<1>7. SharedOut'
  BY <1>1, <1>2, <1>4, <1>6, PlacesFollow DEF SharedOut, Shared
<1> QED
  BY <1>1, <1>5, <1>7

\* A look is applied.
LEMMA LookKeeps ==
  ASSUME ControlAssumption, ControlInv, Control!ApplyLook
  PROVE  ControlInv'
<1> USE DEF ControlInv, ControlAssumption
<1> DEFINE s == Head(batch).seq
           rest == Tail(batch)
           ended == {Control!Pending[i].seq :
                       i \in {j \in DOMAIN Control!Pending:
                                Control!Keyed(Control!Pending[j])}}
<1>1. /\ drawing /\ batch # <<>> /\ Head(batch).kind = "look"
      /\ batch' = Control!Unkeyed(rest) /\ queue' = Control!Unkeyed(queue)
      /\ UNCHANGED <<minted, stage, flight, drawing>>
      /\ Replaced(ended)
  BY DEF Control!ApplyLook, Control!HeadIs, Control!Quiet, Control!sockets, Replaced
<1>2. /\ s \in Control!SeqsOf(batch) /\ rest \in Seq(Control!Actions)
      /\ Distinct(rest) /\ Control!SeqsOf(rest) = Control!SeqsOf(batch) \ {s}
  BY <1>1, TailEffect DEF ControlTyped
<1>3. ended = KeyedSeqs(rest) \cup KeyedSeqs(queue)
  <2> DEFINE p == Control!Pending
  <2>1. /\ Len(batch) \in Nat /\ Len(batch) >= 1 /\ Len(queue) \in Nat
        /\ batch \in Seq(Control!Actions) /\ queue \in Seq(Control!Actions)
        /\ DOMAIN queue = 1..Len(queue) /\ DOMAIN rest = 1..(Len(batch) - 1)
        /\ \A i \in 1..(Len(batch) - 1): rest[i] = batch[i + 1]
        /\ Head(batch) = batch[1]
    BY <1>1 DEF ControlTyped
  <2>2. /\ DOMAIN p = 1..(Len(batch) + Len(queue))
        /\ \A i \in 1..(Len(batch) + Len(queue)):
             p[i] = IF i <= Len(batch) THEN batch[i] ELSE queue[i - Len(batch)]
    <3>1. p = batch \o queue
      BY DEF Control!Pending
    <3> HIDE DEF p
    <3>2. /\ p \in Seq(Control!Actions) /\ Len(p) = Len(batch) + Len(queue)
          /\ \A i \in 1..(Len(batch) + Len(queue)):
               p[i] = IF i <= Len(batch) THEN batch[i] ELSE queue[i - Len(batch)]
      BY <2>1, <3>1, ConcatProperties
    <3> QED
      BY <2>1, <3>2
  <2>3. ~Control!Keyed(batch[1])
    BY <1>1, <2>1 DEF Control!Keyed
  <2>4. ended = {p[i].seq : i \in {j \in DOMAIN p: Control!Keyed(p[j])}}
    OBVIOUS
  <2> HIDE DEF p, rest, ended
  <2>5. ASSUME NEW t \in ended
        PROVE  t \in KeyedSeqs(rest) \cup KeyedSeqs(queue)
    <3>1. PICK i \in DOMAIN p: Control!Keyed(p[i]) /\ t = p[i].seq
      BY <2>4, <2>5
    <3>2. CASE i <= Len(batch)
      <4>1. i - 1 \in 1..(Len(batch) - 1) /\ rest[i - 1] = batch[i]
        BY <2>1, <2>2, <2>3, <3>1, <3>2
      <4> QED
        BY <2>1, <2>2, <3>1, <3>2, <4>1 DEF KeyedSeqs
    <3>3. CASE ~(i <= Len(batch))
      <4>1. i - Len(batch) \in 1..Len(queue)
        BY <2>1, <2>2, <3>1, <3>3
      <4> QED
        BY <2>1, <2>2, <3>1, <3>3, <4>1 DEF KeyedSeqs
    <3> QED
      BY <3>2, <3>3
  <2>6. ASSUME NEW t \in KeyedSeqs(rest)
        PROVE  t \in ended
    <3>1. PICK i \in 1..(Len(batch) - 1): Control!Keyed(rest[i]) /\ t = rest[i].seq
      BY <2>1 DEF KeyedSeqs
    <3>2. i + 1 \in DOMAIN p /\ p[i + 1] = rest[i]
      BY <2>1, <2>2, <3>1
    <3> QED
      BY <2>4, <3>1, <3>2
  <2>7. ASSUME NEW t \in KeyedSeqs(queue)
        PROVE  t \in ended
    <3>1. PICK i \in 1..Len(queue): Control!Keyed(queue[i]) /\ t = queue[i].seq
      BY <2>1 DEF KeyedSeqs
    <3>2. /\ i + Len(batch) \in 1..(Len(batch) + Len(queue))
          /\ ~(i + Len(batch) <= Len(batch)) /\ (i + Len(batch)) - Len(batch) = i
      BY <2>1, <3>1
    <3>3. i + Len(batch) \in DOMAIN p /\ p[i + Len(batch)] = queue[i]
      BY <2>2, <3>2
    <3> QED
      BY <2>4, <3>1, <3>3
  <2> QED
    BY <2>5, <2>6, <2>7
<1> HIDE DEF ended, rest
<1>4. /\ batch' \in Seq(Control!Actions) /\ Distinct(batch')
      /\ Control!SeqsOf(Control!Unkeyed(rest))
           = Control!SeqsOf(rest) \ KeyedSeqs(rest)
  BY <1>1, <1>2, UnkeyedEffect
<1>5. /\ queue' \in Seq(Control!Actions) /\ Distinct(queue')
      /\ Control!SeqsOf(Control!Unkeyed(queue))
           = Control!SeqsOf(queue) \ KeyedSeqs(queue)
  BY <1>1, UnkeyedEffect DEF ControlTyped
<1>6. /\ Control!SeqsOf(batch)' = Control!SeqsOf(rest) \ KeyedSeqs(rest)
      /\ Control!SeqsOf(queue)' = Control!SeqsOf(queue) \ KeyedSeqs(queue)
  BY <1>1, <1>4, <1>5 DEF Control!SeqsOf
<1>7. /\ KeyedSeqs(rest) \subseteq Control!SeqsOf(rest)
      /\ KeyedSeqs(queue) \subseteq Control!SeqsOf(queue)
  BY DEF KeyedSeqs, Control!SeqsOf
<1>8. s \in 1..MaxSequence /\ ended \in SUBSET (1..MaxSequence)
  BY <1>2, <1>3, <1>7 DEF SharedOut, Shared, ControlTyped
<1>9. /\ receipt' \in [1..MaxSequence -> Control!Dispositions \cup {None}]
      /\ \/ applied' = applied /\ Control!Settled' = Control!Settled \cup ended \cup {s}
         \/ applied' = applied \cup {s} /\ Control!Settled' = Control!Settled \cup ended
  BY <1>1, <1>8, ReplacedEffect
<1>10. ControlTyped' /\ Guarded'
  BY <1>1, <1>4, <1>5, <1>9 DEF ControlTyped, Guarded
<1>11. SharedOut'
  BY <1>1, <1>2, <1>3, <1>6, <1>7, <1>9, PlacesFollow DEF SharedOut, Shared
<1> QED
  BY <1>1, <1>4, <1>5, <1>10, <1>11

\* A controller value is minted and applied in one step.
LEMMA AutomateKeeps ==
  ASSUME ControlAssumption, ControlInv, Control!Automate
  PROVE  ControlInv'
<1> USE DEF ControlInv, ControlAssumption
<1>1. /\ minted < MaxSequence /\ minted' = minted + 1
      /\ Control!RecordApplied(minted + 1)
      /\ UNCHANGED <<stage, flight, queue, batch, drawing>>
  BY DEF Control!Automate, Control!sockets
<1>2. /\ minted \in Nat /\ minted' \in 0..MaxSequence /\ minted + 1 \in 1..MaxSequence
      /\ minted + 1 \notin 1..minted /\ 1..minted' = (1..minted) \cup {minted + 1}
  BY <1>1 DEF ControlTyped
<1>3. /\ receipt' \in [1..MaxSequence -> Control!Dispositions \cup {None}]
      /\ \/ /\ applied' = applied
            /\ Control!Settled' = Control!Settled \cup {minted + 1}
         \/ applied' = applied \cup {minted + 1} /\ Control!Settled' = Control!Settled
  BY <1>1, <1>2, RecordEffect
<1>4. ControlTyped' /\ Guarded'
  BY <1>1, <1>2, <1>3 DEF ControlTyped, Guarded
<1>5. SharedOut'
  BY <1>1, <1>2, <1>3, PlacesFollow DEF SharedOut, Shared
<1> QED
  BY <1>1, <1>4, <1>5 DEF Distinct

\* A frame presents what was applied up to its mark, or nothing.
LEMMA PresentKeeps ==
  ASSUME ControlAssumption, ControlInv, Control!Present
  PROVE  ControlInv'
<1> USE DEF ControlInv, ControlAssumption
<1>1. /\ batch = <<>>
      /\ UNCHANGED <<minted, stage, flight, queue, batch>>
  BY DEF Control!Present, Control!sockets
<1>2. Guarded'
  BY <1>1 DEF Guarded
<1>3. CASE UNCHANGED <<receipt, applied>>
  <2>1. ControlTyped' /\ SharedOut'
    BY <1>1, <1>3, PlacesFollow DEF ControlTyped, SharedOut
  <2> QED
    BY <1>1, <1>2, <2>1 DEF Distinct
<1>4. CASE /\ Control!Settle(Control!Shown, "Presented")
           /\ applied' = applied \ Control!Shown
  <2>1. Control!Shown \subseteq applied
    BY DEF Control!Shown
  <2>2. Control!Shown \in SUBSET (1..MaxSequence)
    BY <2>1 DEF SharedOut, Shared, ControlTyped
  <2>3. /\ receipt' \in [1..MaxSequence -> Control!Dispositions \cup {None}]
        /\ Control!Settled' = Control!Settled \cup Control!Shown
    BY <1>4, <2>2, SettleEffect DEF Control!Dispositions
  <2>4. ControlTyped'
    BY <1>1, <2>3 DEF ControlTyped
  <2>5. SharedOut'
    BY <1>1, <1>4, <2>1, <2>3, PlacesFollow DEF SharedOut, Shared
  <2> QED
    BY <1>1, <1>2, <2>4, <2>5 DEF Distinct
<1> QED
  BY <1>3, <1>4 DEF Control!Present

\* A shutdown settles all that is anywhere.
LEMMA ShutdownKeeps ==
  ASSUME ControlAssumption, ControlInv, Control!Shutdown
  PROVE  ControlInv'
<1> USE DEF ControlInv, ControlAssumption
<1>1. /\ batch = <<>> /\ flight' = [c \in Clients |-> None]
      /\ stage' = [c \in Clients |-> "gone"]
      /\ queue' = <<>> /\ applied' = {}
      /\ UNCHANGED <<minted, drawing, batch>>
      /\ receipt' = [s \in DOMAIN receipt |->
                       IF s \in Control!InFlight THEN "Refused"
                       ELSE IF s \in Control!SeqsOf(queue) THEN "Superseded"
                       ELSE IF s \in applied THEN "NotYetPresented"
                       ELSE receipt[s]]
  BY DEF Control!Shutdown, Control!InFlight
<1>2. /\ Control!InFlight' = {} /\ Control!SeqsOf(queue)' = {}
      /\ Control!SeqsOf(batch)' = {} /\ Control!SeqsOf(batch) = {}
  BY <1>1 DEF Control!InFlight, Control!SeqsOf
<1>3. Control!InFlight \cup Control!SeqsOf(queue) \cup applied \subseteq 1..MaxSequence
  BY DEF SharedOut, Shared, ControlTyped
<1>4. Control!Settled'
        = Control!Settled \cup Control!InFlight \cup Control!SeqsOf(queue) \cup applied
  <2>1. /\ DOMAIN receipt = 1..MaxSequence /\ DOMAIN receipt' = 1..MaxSequence
        /\ \A s \in 1..MaxSequence:
             receipt'[s] # None <=>
               \/ s \in Control!InFlight \/ s \in Control!SeqsOf(queue)
               \/ s \in applied \/ receipt[s] # None
    BY <1>1 DEF ControlTyped, Control!Dispositions
  <2> QED
    BY <1>3, <2>1 DEF Control!Settled
<1>5. receipt' \in [1..MaxSequence -> Control!Dispositions \cup {None}]
  BY <1>1 DEF ControlTyped, Control!Dispositions
<1>6. ControlTyped' /\ Guarded' /\ Distinct(queue') /\ Distinct(batch')
  BY <1>1, <1>5 DEF ControlTyped, Guarded, Distinct
<1>7. SharedOut'
  BY <1>1, <1>2, <1>4 DEF SharedOut, Shared
<1> QED
  BY <1>1, <1>6, <1>7

\* Every step of a socket task and of Main keeps the invariant.
LEMMA ControlStep ==
  ASSUME ControlAssumption, ControlInv, [Control!Next]_(Control!vars)
  PROVE  ControlInv'
<1>1. ASSUME NEW c \in Clients, Control!Socket(c)
      PROVE  ControlInv'
  <2>1. Sends[c] \subseteq Control!Kinds
    BY DEF Sends, Control!Kinds, Control!Finish
  <2>2. ASSUME NEW kind \in Control!Kinds, Control!Mint(c, kind, None)
        PROVE  ControlInv'
    BY <2>2, MintKeeps
  <2>3. ASSUME NEW key \in Keys, Control!Mint(c, "set", key)
        PROVE  ControlInv'
    BY <2>3, MintKeeps DEF Control!Kinds
  <2> QED
    BY <1>1, <2>1, <2>2, <2>3, PassKeeps, RefuseKeeps, AdmitKeeps, VanishKeeps,
       DisconnectKeeps
    DEF Control!Socket
<1>2. CASE Control!ApplyRefused
  <2>1. HeadTaken /\ UNCHANGED <<queue, applied>>
    BY <1>2 DEF Control!ApplyRefused, Control!HeadIs, Control!Quiet,
                Control!sockets, HeadTaken
  <2>2. Control!Settle({Head(batch).seq}, "Refused")
    BY <1>2 DEF Control!ApplyRefused
  <2> QED
    BY <2>1, <2>2, HeadSettledKeeps DEF Control!Dispositions
<1>3. CASE Control!ApplyBegin
  <2>1. HeadTaken /\ UNCHANGED <<queue, applied>>
    BY <1>3 DEF Control!ApplyBegin, Control!HeadIs, Control!Quiet,
                Control!sockets, HeadTaken
  <2>2. \E d \in {"Coalesced", "Refused"}: Control!Settle({Head(batch).seq}, d)
    BY <1>3 DEF Control!ApplyBegin
  <2> QED
    BY <2>1, <2>2, HeadSettledKeeps DEF Control!Dispositions
<1>4. CASE Control!ApplyFinish
  <2>1. HeadTaken /\ UNCHANGED <<queue, applied>>
    BY <1>4 DEF Control!ApplyFinish, Control!HeadIs, Control!Quiet,
                Control!sockets, HeadTaken
  <2>2. \E d \in {"Coalesced", "Refused"}: Control!Settle({Head(batch).seq}, d)
    BY <1>4 DEF Control!ApplyFinish
  <2> QED
    BY <2>1, <2>2, HeadSettledKeeps DEF Control!Dispositions
<1>5. CASE Control!ApplySet
  <2>1. HeadTaken /\ UNCHANGED queue /\ Control!RecordApplied(Head(batch).seq)
    BY <1>5 DEF Control!ApplySet, Control!HeadIs, Control!Quiet,
                Control!sockets, HeadTaken
  <2> QED
    BY <2>1, HeadRecordedKeeps
<1>6. CASE Control!ApplyOther
  <2>1. HeadTaken /\ UNCHANGED queue /\ Control!RecordApplied(Head(batch).seq)
    BY <1>6 DEF Control!ApplyOther, Control!HeadIs, Control!Quiet,
                Control!sockets, HeadTaken
  <2> QED
    BY <2>1, HeadRecordedKeeps
<1>7. CASE UNCHANGED Control!vars
  <2>1. UNCHANGED <<minted, stage, flight, queue, batch, applied, receipt, drawing>>
    BY <1>7 DEF Control!vars, Control!sockets, Control!main
  <2>2. ControlTyped' /\ Guarded' /\ SharedOut'
    BY <2>1, PlacesFollow DEF ControlInv, ControlTyped, Guarded, SharedOut
  <2> QED
    BY <2>1, <2>2 DEF ControlInv, Distinct
<1> QED
  BY <1>1, <1>2, <1>3, <1>4, <1>5, <1>6, <1>7, DrainKeeps, LoadKeeps, LookKeeps,
     AutomateKeeps, PresentKeeps, ShutdownKeeps
  DEF Control!Next, Control!Main

----------------------------------------------------------------------------
\* The invariant holds in every reachable state.
THEOREM ControlInvariant ==
  ASSUME ControlAssumption
  PROVE  Control!Spec => []ControlInv
<1>1. Control!Init => ControlInv
  BY ControlInit
<1>2. ControlInv /\ [Control!Next]_(Control!vars) => ControlInv'
  BY ControlStep
<1> QED
  BY <1>1, <1>2, PTL DEF Control!Spec

\* Every sequence is in exactly one place (the guards, enqueue_bounded_detailed,
\* record_applied_action_identity, reset_patch_generation and the shutdown), for
\* any clients and keys and every size of queue and monitor.
THEOREM EverySequenceInOnePlace ==
  ASSUME ControlAssumption
  PROVE  Control!Spec => []OnePlace
<1>1. ControlInv => OnePlace
  BY ControlOnePlace
<1> QED
  BY <1>1, ControlInvariant, PTL

----------------------------------------------------------------------------
(***************************************************************************)
(* Owners: what Main has open, and what the queue will have it open, is    *)
(* ended by something that waits behind it or belongs to the controller    *)
(* the server holds.                                                       *)
(***************************************************************************)
\* a ends a gesture of c.
Ends(a, c) == a.kind \in Control!Finish /\ a.client = c

\* Something behind position n of q ends a gesture of c.
Ended(q, n, c) == \E j \in DOMAIN q: j > n /\ Ends(q[j], c)

\* The gesture that is open and every one q begins: ended by what follows it,
\* or the controller's.
Covered(q, gesture, controller) ==
  /\ gesture # None => Ended(q, 0, gesture) \/ gesture = controller
  /\ \A i \in DOMAIN q:
       q[i].kind = "begin" =>
         Ended(q, i, q[i].client) \/ q[i].client = controller

\* r has what the first n positions of q have, in that order and with every
\* finish; f says where each of r was.
Thinned(r, q, n) ==
  \E f \in [DOMAIN r -> 1..n]:
    /\ \A i \in DOMAIN r: r[i] = q[f[i]]
    /\ \A i, j \in DOMAIN r: i < j => f[i] < f[j]
    /\ \A i \in 1..n: q[i].kind \in Control!Finish => \E j \in DOMAIN r: f[j] = i

\* A queue that lost no finish covers what it covered.
LEMMA ThinnedCovers ==
  ASSUME NEW S, NEW q \in Seq(S), NEW r \in Seq(S), NEW g, NEW w,
         Thinned(r, q, Len(q)), Covered(q, g, w)
  PROVE  Covered(r, g, w)
<1>1. PICK f \in [DOMAIN r -> 1..Len(q)]:
        /\ \A i \in DOMAIN r: r[i] = q[f[i]]
        /\ \A i, j \in DOMAIN r: i < j => f[i] < f[j]
        /\ \A i \in 1..Len(q):
             q[i].kind \in Control!Finish => \E j \in DOMAIN r: f[j] = i
  BY DEF Thinned
<1>2. ASSUME NEW c, Ended(q, 0, c)
      PROVE  Ended(r, 0, c)
  <2>1. PICK j \in 1..Len(q): Ends(q[j], c)
    BY <1>2 DEF Ended
  <2>2. PICK k \in DOMAIN r: f[k] = j
    BY <1>1, <2>1 DEF Ends
  <2> QED
    BY <1>1, <2>1, <2>2 DEF Ended
<1>3. ASSUME NEW i \in DOMAIN r, NEW c, Ended(q, f[i], c)
      PROVE  Ended(r, i, c)
  <2>1. PICK j \in 1..Len(q): j > f[i] /\ Ends(q[j], c)
    BY <1>3 DEF Ended
  <2>2. PICK k \in DOMAIN r: f[k] = j
    BY <1>1, <2>1 DEF Ends
  <2>3. k > i
    <3>1. ~(k < i) /\ k # i
      BY <1>1, <2>1, <2>2
    <3> QED
      BY <3>1
  <2> QED
    BY <1>1, <2>1, <2>2, <2>3 DEF Ended
<1> QED
  BY <1>1, <1>2, <1>3 DEF Covered

\* One more action at the tail: a begin is the controller's, and a controller
\* leaves only with its finish.
LEMMA AppendCovers ==
  ASSUME NEW S, NEW q \in Seq(S), NEW a \in S, NEW g, NEW w, NEW v,
         Covered(q, g, w), a.kind = "begin" => a.client = v,
         w # v => w = None \/ Ends(a, w),
         \A i \in DOMAIN q: q[i].client # None
  PROVE  Covered(Append(q, a), g, v)
<1> DEFINE r == Append(q, a)
<1>1. /\ Len(q) \in Nat /\ DOMAIN q = 1..Len(q)
      /\ DOMAIN r = 1..(Len(q) + 1) /\ r[Len(q) + 1] = a
      /\ \A j \in 1..Len(q): r[j] = q[j]
  OBVIOUS
<1> HIDE DEF r
<1>2. ASSUME NEW n, NEW c, Ended(q, n, c)
      PROVE  Ended(r, n, c)
  BY <1>1, <1>2 DEF Ended
<1>3. ASSUME NEW n \in 0..Len(q), Ends(a, w)
      PROVE  Ended(r, n, w)
  BY <1>1, <1>3 DEF Ended
<1>4. g # None => Ended(r, 0, g) \/ g = v
  BY <1>1, <1>2, <1>3 DEF Covered
<1>5. ASSUME NEW i \in DOMAIN r, r[i].kind = "begin"
      PROVE  Ended(r, i, r[i].client) \/ r[i].client = v
  <2>1. CASE i = Len(q) + 1
    BY <1>1, <1>5, <2>1
  <2>2. CASE i \in 1..Len(q)
    <3>1. r[i] = q[i] /\ i \in 0..Len(q)
      BY <1>1, <2>2
    <3>2. Ended(q, i, q[i].client) \/ q[i].client = w
      BY <1>1, <1>5, <2>2, <3>1 DEF Covered
    <3> QED
      BY <1>1, <1>2, <1>3, <2>2, <3>1, <3>2
  <2> QED
    BY <1>1, <2>1, <2>2
<1> QED
  BY <1>4, <1>5 DEF r, Covered

\* Main takes the head: the gesture it has open then is closed, the one it had
\* if the head did not end it, or the one the head begins.
LEMMA TailCovers ==
  ASSUME NEW S, NEW q \in Seq(S), q # <<>>, NEW g, NEW h, NEW w,
         Covered(q, g, w),
         \/ h = None
         \/ h = g /\ ~Ends(Head(q), g)
         \/ h = Head(q).client /\ Head(q).kind = "begin"
  PROVE  Covered(Tail(q), h, w)
<1> DEFINE r == Tail(q)
<1>1. /\ Len(q) \in Nat /\ DOMAIN q = 1..Len(q) /\ 1 \in DOMAIN q /\ Head(q) = q[1]
      /\ DOMAIN r = 1..(Len(q) - 1)
      /\ \A j \in 1..(Len(q) - 1): r[j] = q[j + 1]
  OBVIOUS
<1> HIDE DEF r
<1>2. ASSUME NEW n \in Nat, NEW c, Ended(q, n + 1, c)
      PROVE  Ended(r, n, c)
  <2>1. PICK j \in 1..Len(q): j > n + 1 /\ Ends(q[j], c)
    BY <1>1, <1>2 DEF Ended
  <2>2. j - 1 \in DOMAIN r /\ j - 1 > n /\ r[j - 1] = q[j]
    BY <1>1, <2>1
  <2> QED
    BY <2>1, <2>2 DEF Ended
<1>3. h # None => Ended(r, 0, h) \/ h = w
  <2>1. CASE h = g /\ ~Ends(Head(q), g)
    <3>1. Ended(q, 0, g) => Ended(q, 0 + 1, g)
      <4>1. ASSUME NEW j \in 1..Len(q), j > 0, Ends(q[j], g)
            PROVE  j > 0 + 1
        BY <1>1, <2>1, <4>1
      <4> QED
        BY <1>1, <4>1 DEF Ended
    <3> QED
      BY <1>2, <2>1, <3>1 DEF Covered
  <2>2. CASE h = Head(q).client /\ Head(q).kind = "begin"
    <3>1. Ended(q, 0 + 1, h) \/ h = w
      BY <1>1, <2>2 DEF Covered
    <3> QED
      BY <1>2, <3>1
  <2> QED
    BY <2>1, <2>2
<1>4. ASSUME NEW i \in DOMAIN r, r[i].kind = "begin"
      PROVE  Ended(r, i, r[i].client) \/ r[i].client = w
  <2>1. i \in Nat /\ i + 1 \in DOMAIN q /\ r[i] = q[i + 1]
    BY <1>1
  <2>2. Ended(q, i + 1, q[i + 1].client) \/ q[i + 1].client = w
    BY <1>4, <2>1 DEF Covered
  <2> QED
    BY <1>2, <2>1, <2>2
<1> QED
  BY <1>3, <1>4 DEF r, Covered

\* What Main has open after one more pending action (OpenAfter).
Turn(after, gesture, q, i) ==
  IF i = 0 THEN gesture ELSE Control!Follow(after[i - 1], q[i])

Turns(after, gesture, q, n) ==
  after = [i \in 0..n |-> Turn(after, gesture, q, i)]

Opens(gesture, q) == (CHOOSE f : Turns(f, gesture, q, Len(q)))[Len(q)]

\* The recursion of OpenAfter defines a function.
LEMMA TurnExists ==
  ASSUME NEW S, NEW q \in Seq(S), NEW g, NEW n \in 0..Len(q)
  PROVE  \E after : Turns(after, g, q, n)
<1> DEFINE T == {m \in 0..Len(q): ~\E after : Turns(after, g, q, m)}
<1> SUFFICES ASSUME T # {}
             PROVE  FALSE
  OBVIOUS
<1>1. T \in SUBSET Nat
  OBVIOUS
<1>2. PICK m \in T : \A k \in T : m <= k
  <2> HIDE DEF T
  <2> QED
    BY <1>1, LeastNat
<1>3. m # 0
  <2> DEFINE first == [i \in 0..0 |-> g]
  <2>1. Turns(first, g, q, 0)
    BY DEF Turn, Turns
  <2> QED
    BY <2>1
<1>4. m \in Nat /\ m - 1 \in 0..Len(q) /\ m - 1 \notin T
  BY <1>1, <1>2, <1>3
<1>5. PICK u : u = [i \in 0..(m - 1) |-> Turn(u, g, q, i)]
  BY <1>4 DEF Turns
<1> DEFINE h == [i \in 0..m |-> IF i < m THEN u[i] ELSE Turn(u, g, q, m)]
<1>6. ASSUME NEW i \in 0..m
      PROVE  h[i] = Turn(h, g, q, i)
  <2>1. h[i] = Turn(u, g, q, i)
    <3>1. CASE i < m
      <4>1. i \in 0..(m - 1)
        BY <1>4, <3>1
      <4>2. u[i] = Turn(u, g, q, i)
        BY <1>5, <4>1
      <4> QED
        BY <3>1, <4>2
    <3>2. CASE i = m
      BY <1>4, <3>2
    <3> QED
      BY <1>4, <3>1, <3>2
  <2>2. CASE i = 0
    BY <2>1, <2>2 DEF Turn
  <2>3. CASE i # 0
    <3>1. i - 1 \in 0..(m - 1) /\ h[i - 1] = u[i - 1]
      BY <1>4, <2>3
    <3> QED
      BY <2>1, <2>3, <3>1 DEF Turn
  <2> QED
    BY <2>2, <2>3
<1>7. Turns(h, g, q, m)
  BY <1>6 DEF Turns
<1> QED
  BY <1>2, <1>7

\* What is covered leaves nothing open that is not the controller's.
LEMMA CoveredEnds ==
  ASSUME NEW S, NEW q \in Seq(S), NEW g, NEW w, Covered(q, g, w)
  PROVE  Opens(g, q) = None \/ Opens(g, q) = w
<1> DEFINE after == CHOOSE f : Turns(f, g, q, Len(q))
<1>1. Len(q) \in Nat /\ DOMAIN q = 1..Len(q) /\ Len(q) \in 0..Len(q)
  OBVIOUS
<1>2. \E f : Turns(f, g, q, Len(q))
  BY <1>1, TurnExists
<1>3. Turns(after, g, q, Len(q))
  BY <1>2, Zenon
<1>4. after = [i \in 0..Len(q) |-> Turn(after, g, q, i)]
  BY <1>3, Zenon DEF Turns
<1>5. Opens(g, q) = after[Len(q)]
  BY Zenon DEF Opens
<1> HIDE DEF after
<1> DEFINE Good(n) == after[n] # None => Ended(q, n, after[n]) \/ after[n] = w
           T == {n \in 0..Len(q): ~Good(n)}
<1>6. T = {}
  <2> SUFFICES ASSUME T # {}
               PROVE  FALSE
    OBVIOUS
  <2>1. T \in SUBSET Nat
    OBVIOUS
  <2>2. PICK n \in T : \A k \in T : n <= k
    <3> HIDE DEF T
    <3> QED
      BY <2>1, LeastNat
  <2>3. n # 0
    <3>1. after[0] = g
      BY <1>1, <1>4 DEF Turn
    <3> QED
      BY <2>2, <3>1 DEF Covered
  <2>4. n \in 1..Len(q) /\ n - 1 \in 0..Len(q) /\ Good(n - 1)
    BY <1>1, <2>2, <2>3
  <2>5. after[n] = Control!Follow(after[n - 1], q[n])
    <3>1. after[n] = Turn(after, g, q, n)
      BY <1>4, <2>2
    <3> QED
      BY <2>3, <3>1 DEF Turn
  <2>6. CASE q[n].kind = "begin" /\ after[n - 1] = None
    <3>1. after[n] = q[n].client
      BY <2>5, <2>6 DEF Control!Follow, Control!Finish
    <3> QED
      BY <1>1, <2>2, <2>4, <2>6, <3>1 DEF Covered
  <2>7. CASE q[n].kind \in Control!Finish /\ after[n - 1] = q[n].client
    <3>1. after[n] = None
      BY <2>5, <2>7 DEF Control!Follow, Control!Finish
    <3> QED
      BY <2>2, <3>1
  <2>8. CASE /\ ~(q[n].kind = "begin" /\ after[n - 1] = None)
             /\ ~(q[n].kind \in Control!Finish /\ after[n - 1] = q[n].client)
    <3>1. after[n] = after[n - 1]
      BY <2>5, <2>8 DEF Control!Follow
    <3>2. ASSUME NEW j \in 1..Len(q), j > n - 1, Ends(q[j], after[n])
          PROVE  j > n
      <4>1. j # n
        BY <2>8, <3>1, <3>2 DEF Ends
      <4> QED
        BY <1>1, <2>4, <3>2, <4>1
    <3> QED
      BY <1>1, <2>2, <2>4, <3>1, <3>2 DEF Ended
  <2> QED
    BY <2>6, <2>7, <2>8
<1>7. Good(Len(q))
  BY <1>1, <1>6
<1>8. ~Ended(q, Len(q), after[Len(q)])
  BY <1>1 DEF Ended
<1> QED
  BY <1>5, <1>7, <1>8

\* Nothing left out, and one action left out that is no finish.
LEMMA AllThinned ==
  ASSUME NEW S, NEW q \in Seq(S)
  PROVE  Thinned(q, q, Len(q))
<1> DEFINE f == [i \in 1..Len(q) |-> i]
<1>1. f \in [DOMAIN q -> 1..Len(q)] /\ \A i \in DOMAIN q: f[i] = i
  OBVIOUS
<1> HIDE DEF f
<1> QED
  BY <1>1 DEF Thinned

LEMMA RemoveAtThinned ==
  ASSUME NEW S, NEW q \in Seq(S), NEW i \in DOMAIN q,
         q[i].kind \notin Control!Finish
  PROVE  /\ Control!RemoveAt(q, i) \in Seq(S)
         /\ Thinned(Control!RemoveAt(q, i), q, Len(q))
<1> DEFINE r == Control!RemoveAt(q, i)
           f == [j \in 1..(Len(q) - 1) |-> IF j < i THEN j ELSE j + 1]
<1>1. /\ r \in Seq(S) /\ Len(r) = Len(q) - 1
      /\ \A j \in 1..(Len(q) - 1): r[j] = IF j < i THEN q[j] ELSE q[j + 1]
  BY RemoveAtIs
<1>2. Len(q) \in Nat /\ i \in 1..Len(q)
  OBVIOUS
<1> HIDE DEF r
<1>3. DOMAIN r = 1..(Len(q) - 1)
  BY <1>1
<1>4. f \in [DOMAIN r -> 1..Len(q)]
  BY <1>2, <1>3
<1>5. \A j \in 1..(Len(q) - 1): f[j] = IF j < i THEN j ELSE j + 1
  OBVIOUS
<1> HIDE DEF f
<1>6. \A j \in DOMAIN r: r[j] = q[f[j]]
  BY <1>1, <1>3, <1>5
<1>7. \A j, k \in DOMAIN r: j < k => f[j] < f[k]
  BY <1>2, <1>3, <1>5
<1>8. ASSUME NEW k \in 1..Len(q), q[k].kind \in Control!Finish
      PROVE  \E j \in DOMAIN r: f[j] = k
  <2>1. k # i
    BY <1>8
  <2>2. CASE k < i
    BY <1>2, <1>3, <1>5, <2>2
  <2>3. CASE k > i
    <3>1. k - 1 \in DOMAIN r /\ f[k - 1] = k
      BY <1>2, <1>3, <1>5, <2>3
    <3> QED
      BY <3>1
  <2> QED
    BY <1>2, <2>1, <2>2, <2>3
<1>9. Thinned(r, q, Len(q))
  BY <1>4, <1>6, <1>7, <1>8 DEF Thinned
<1> QED
  BY <1>1, <1>9 DEF r

\* Unkeyed leaves out no finish.
LEMMA UnkeyedThinned ==
  ASSUME NEW S, NEW q \in Seq(S)
  PROVE  Control!Unkeyed(q) \in Seq(S) /\ Thinned(Control!Unkeyed(q), q, Len(q))
<1>1. Len(q) \in Nat /\ Len(q) \in 0..Len(q)
  OBVIOUS
<1>2. PICK kept : /\ kept[0] = <<>> /\ Control!Unkeyed(q) = kept[Len(q)]
                  /\ \A n \in 1..Len(q):
                       kept[n] = IF Control!Keyed(q[n]) THEN kept[n - 1]
                                 ELSE Append(kept[n - 1], q[n])
  BY UnkeyedIs
<1> DEFINE Good(n) == kept[n] \in Seq(S) /\ Thinned(kept[n], q, n)
           T == {n \in 0..Len(q): ~Good(n)}
<1>3. T = {}
  <2> SUFFICES ASSUME T # {}
               PROVE  FALSE
    OBVIOUS
  <2>1. T \in SUBSET Nat
    OBVIOUS
  <2>2. PICK n \in T : \A k \in T : n <= k
    <3> HIDE DEF T
    <3> QED
      BY <2>1, LeastNat
  <2>3. n # 0
    <3> DEFINE f == [i \in {} |-> 0]
    <3>1. kept[0] \in Seq(S) /\ DOMAIN kept[0] = {} /\ 1..0 = {}
      BY <1>2
    <3>2. f \in [DOMAIN kept[0] -> 1..0]
      BY <3>1
    <3> HIDE DEF f
    <3>3. Thinned(kept[0], q, 0)
      BY <3>1, <3>2 DEF Thinned
    <3> QED
      BY <2>2, <3>1, <3>3
  <2>4. n \in 1..Len(q) /\ n - 1 \in 0..Len(q) /\ Good(n - 1)
    BY <1>1, <2>2, <2>3
  <2>5. kept[n] = IF Control!Keyed(q[n]) THEN kept[n - 1]
                  ELSE Append(kept[n - 1], q[n])
    BY <1>2, <2>4
  <2> DEFINE r == kept[n - 1]
  <2>6. r \in Seq(S) /\ Thinned(r, q, n - 1)
    BY <2>4
  <2> HIDE DEF r
  <2>7. PICK f \in [DOMAIN r -> 1..(n - 1)]:
          /\ \A i \in DOMAIN r: r[i] = q[f[i]]
          /\ \A i, j \in DOMAIN r: i < j => f[i] < f[j]
          /\ \A i \in 1..(n - 1):
               q[i].kind \in Control!Finish => \E j \in DOMAIN r: f[j] = i
    BY <2>6 DEF Thinned
  <2>8. CASE Control!Keyed(q[n])
    <3>1. q[n].kind \notin Control!Finish
      BY <2>8 DEF Control!Keyed, Control!Finish
    <3>2. f \in [DOMAIN r -> 1..n]
      BY <2>4
    <3>3. \A i \in 1..n:
            q[i].kind \in Control!Finish => \E j \in DOMAIN r: f[j] = i
      <4>1. \A i \in 1..n: i = n \/ i \in 1..(n - 1)
        BY <2>4
      <4> QED
        BY <2>7, <3>1, <4>1
    <3>4. Thinned(r, q, n)
      BY <2>7, <3>2, <3>3 DEF Thinned
    <3>5. kept[n] = r
      BY <2>5, <2>8 DEF r
    <3> QED
      BY <2>2, <2>6, <3>4, <3>5
  <2>9. CASE ~Control!Keyed(q[n])
    <3> DEFINE p == Append(r, q[n])
               g == [i \in 1..(Len(r) + 1) |-> IF i <= Len(r) THEN f[i] ELSE n]
    <3>1. q[n] \in S
      BY <2>4
    <3>2. /\ p \in Seq(S) /\ Len(r) \in Nat /\ DOMAIN r = 1..Len(r)
          /\ DOMAIN p = 1..(Len(r) + 1) /\ p[Len(r) + 1] = q[n]
          /\ \A i \in 1..Len(r): p[i] = r[i]
      BY <2>6, <3>1
    <3> HIDE DEF p
    <3>3. g \in [DOMAIN p -> 1..n]
      BY <2>4, <2>7, <3>2
    <3>4. /\ \A i \in 1..Len(r): g[i] = f[i] /\ f[i] \in 1..(n - 1)
          /\ g[Len(r) + 1] = n
      BY <2>7, <3>2
    <3> HIDE DEF g
    <3>5. \A i \in DOMAIN p: i \in 1..Len(r) \/ i = Len(r) + 1
      BY <3>2
    <3>6. \A i \in DOMAIN p: p[i] = q[g[i]]
      BY <2>7, <3>2, <3>4, <3>5
    <3>7. ASSUME NEW i \in DOMAIN p, NEW j \in DOMAIN p, i < j
          PROVE  g[i] < g[j]
      <4>1. i \in 1..Len(r)
        BY <3>2, <3>5, <3>7
      <4>2. CASE j \in 1..Len(r)
        BY <2>7, <3>2, <3>4, <3>7, <4>1, <4>2
      <4>3. CASE j = Len(r) + 1
        BY <2>4, <3>4, <4>1, <4>3
      <4> QED
        BY <3>5, <4>2, <4>3
    <3>8. ASSUME NEW i \in 1..n, q[i].kind \in Control!Finish
          PROVE  \E j \in DOMAIN p: g[j] = i
      <4>1. CASE i = n
        BY <3>2, <3>4, <4>1
      <4>2. CASE i \in 1..(n - 1)
        <5>1. PICK j \in DOMAIN r: f[j] = i
          BY <2>7, <3>8, <4>2
        <5> QED
          BY <3>2, <3>4, <5>1
      <4> QED
        BY <2>4, <4>1, <4>2
    <3>9. Thinned(p, q, n)
      BY <3>3, <3>6, <3>7, <3>8 DEF Thinned
    <3>10. kept[n] = p
      BY <2>5, <2>9 DEF p, r
    <3> QED
      BY <2>2, <3>2, <3>9, <3>10
  <2> QED
    BY <2>8, <2>9
<1>4. Good(Len(q))
  BY <1>1, <1>3
<1> QED
  BY <1>2, <1>4

\* Two thinned sequences, one behind the other.
LEMMA ConcatThinned ==
  ASSUME NEW S, NEW q \in Seq(S), NEW r \in Seq(S), NEW t \in Seq(S),
         NEW u \in Seq(S), Thinned(r, q, Len(q)), Thinned(u, t, Len(t))
  PROVE  Thinned(r \o u, q \o t, Len(q \o t))
<1> DEFINE ru == r \o u
           qt == q \o t
<1>1. /\ Len(q) \in Nat /\ Len(r) \in Nat /\ Len(t) \in Nat /\ Len(u) \in Nat
      /\ DOMAIN r = 1..Len(r) /\ DOMAIN u = 1..Len(u)
  OBVIOUS
<1>2. /\ DOMAIN ru = 1..(Len(r) + Len(u))
      /\ \A i \in 1..(Len(r) + Len(u)):
           ru[i] = IF i <= Len(r) THEN r[i] ELSE u[i - Len(r)]
  <2>1. /\ ru \in Seq(S) /\ Len(ru) = Len(r) + Len(u)
        /\ \A i \in 1..(Len(r) + Len(u)):
             ru[i] = IF i <= Len(r) THEN r[i] ELSE u[i - Len(r)]
    BY ConcatProperties, Zenon
  <2> HIDE DEF ru
  <2> QED
    BY <2>1
<1>3. /\ Len(qt) = Len(q) + Len(t)
      /\ \A i \in 1..(Len(q) + Len(t)):
           qt[i] = IF i <= Len(q) THEN q[i] ELSE t[i - Len(q)]
  BY ConcatProperties, Zenon
<1>4. PICK f \in [DOMAIN r -> 1..Len(q)]:
        /\ \A i \in DOMAIN r: r[i] = q[f[i]]
        /\ \A i, j \in DOMAIN r: i < j => f[i] < f[j]
        /\ \A i \in 1..Len(q):
             q[i].kind \in Control!Finish => \E j \in DOMAIN r: f[j] = i
  BY DEF Thinned
<1>5. PICK g \in [DOMAIN u -> 1..Len(t)]:
        /\ \A i \in DOMAIN u: u[i] = t[g[i]]
        /\ \A i, j \in DOMAIN u: i < j => g[i] < g[j]
        /\ \A i \in 1..Len(t):
             t[i].kind \in Control!Finish => \E j \in DOMAIN u: g[j] = i
  BY DEF Thinned
<1> HIDE DEF ru, qt
<1> DEFINE h == [i \in 1..(Len(r) + Len(u)) |->
                   IF i <= Len(r) THEN f[i] ELSE Len(q) + g[i - Len(r)]]
<1>6. \A i \in 1..(Len(r) + Len(u)):
        IF i <= Len(r) THEN i \in DOMAIN r ELSE i - Len(r) \in DOMAIN u
  BY <1>1
<1>7. \A i \in 1..(Len(r) + Len(u)):
        IF i <= Len(r) THEN h[i] = f[i] /\ h[i] \in 1..Len(q)
        ELSE h[i] = Len(q) + g[i - Len(r)] /\ g[i - Len(r)] \in 1..Len(t)
  BY <1>6
<1>8. h \in [DOMAIN ru -> 1..Len(qt)]
  <2>1. ASSUME NEW i \in 1..(Len(r) + Len(u))
        PROVE  h[i] \in 1..Len(qt)
    <3> HIDE DEF h
    <3>1. CASE i <= Len(r)
      <4>1. h[i] \in 1..Len(q)
        BY <1>7, <3>1
      <4> QED
        BY <1>1, <1>3, <4>1
    <3>2. CASE ~(i <= Len(r))
      <4>1. h[i] = Len(q) + g[i - Len(r)] /\ g[i - Len(r)] \in 1..Len(t)
        BY <1>7, <3>2
      <4> QED
        BY <1>1, <1>3, <4>1
    <3> QED
      BY <3>1, <3>2
  <2> QED
    BY <1>2, <2>1
<1> HIDE DEF h
<1>9. ASSUME NEW i \in DOMAIN ru
      PROVE  ru[i] = qt[h[i]]
  <2>1. CASE i <= Len(r)
    BY <1>1, <1>2, <1>3, <1>4, <1>6, <1>7, <2>1
  <2>2. CASE ~(i <= Len(r))
    <3>1. i - Len(r) \in DOMAIN u /\ ru[i] = u[i - Len(r)]
      BY <1>2, <1>6, <2>2
    <3>2. h[i] = Len(q) + g[i - Len(r)] /\ g[i - Len(r)] \in 1..Len(t)
      BY <1>2, <1>7, <2>2
    <3>3. qt[h[i]] = t[h[i] - Len(q)] /\ h[i] - Len(q) = g[i - Len(r)]
      BY <1>1, <1>3, <3>2
    <3> QED
      BY <1>5, <3>1, <3>3
  <2> QED
    BY <2>1, <2>2
<1>10. ASSUME NEW i \in DOMAIN ru, NEW j \in DOMAIN ru, i < j
       PROVE  h[i] < h[j]
  <2>1. i \in 1..(Len(r) + Len(u)) /\ j \in 1..(Len(r) + Len(u))
    BY <1>2
  <2>2. CASE j <= Len(r)
    <3>1. i <= Len(r)
      BY <1>1, <1>10, <2>1, <2>2
    <3>2. i \in DOMAIN r /\ j \in DOMAIN r /\ h[i] = f[i] /\ h[j] = f[j]
      BY <1>6, <1>7, <2>1, <2>2, <3>1
    <3> QED
      BY <1>4, <1>10, <3>2
  <2>3. CASE i <= Len(r) /\ ~(j <= Len(r))
    <3>1. h[i] \in 1..Len(q) /\ h[j] = Len(q) + g[j - Len(r)] /\ g[j - Len(r)] \in 1..Len(t)
      BY <1>7, <2>1, <2>3
    <3> QED
      BY <1>1, <3>1
  <2>4. CASE ~(i <= Len(r)) /\ ~(j <= Len(r))
    <3>1. /\ i - Len(r) \in DOMAIN u /\ j - Len(r) \in DOMAIN u
          /\ h[i] = Len(q) + g[i - Len(r)] /\ g[i - Len(r)] \in 1..Len(t)
          /\ h[j] = Len(q) + g[j - Len(r)] /\ g[j - Len(r)] \in 1..Len(t)
      BY <1>6, <1>7, <2>1, <2>4
    <3>2. i - Len(r) < j - Len(r)
      BY <1>1, <1>10, <2>1
    <3>3. g[i - Len(r)] < g[j - Len(r)]
      BY <1>5, <3>1, <3>2
    <3> QED
      BY <1>1, <3>1, <3>3
  <2> QED
    BY <2>2, <2>3, <2>4
<1>11. ASSUME NEW k \in 1..Len(qt), qt[k].kind \in Control!Finish
       PROVE  \E j \in DOMAIN ru: h[j] = k
  <2>1. CASE k <= Len(q)
    <3>1. k \in 1..Len(q) /\ qt[k] = q[k]
      BY <1>1, <1>3, <2>1
    <3>2. PICK j \in DOMAIN r: f[j] = k
      BY <1>4, <1>11, <3>1
    <3>3. j \in 1..(Len(r) + Len(u)) /\ j <= Len(r)
      BY <1>1
    <3> QED
      BY <1>2, <1>7, <3>2, <3>3
  <2>2. CASE ~(k <= Len(q))
    <3>1. k - Len(q) \in 1..Len(t) /\ qt[k] = t[k - Len(q)]
      BY <1>1, <1>3, <2>2
    <3>2. PICK j \in DOMAIN u: g[j] = k - Len(q)
      BY <1>5, <1>11, <3>1
    <3>3. /\ j + Len(r) \in 1..(Len(r) + Len(u)) /\ ~(j + Len(r) <= Len(r))
          /\ (j + Len(r)) - Len(r) = j
      BY <1>1
    <3>4. h[j + Len(r)] = Len(q) + g[j]
      BY <1>7, <3>3
    <3>5. h[j + Len(r)] = k
      BY <1>1, <3>1, <3>2, <3>4
    <3> QED
      BY <1>2, <3>3, <3>5
  <2> QED
    BY <2>1, <2>2
<1> QED
  BY <1>8, <1>9, <1>10, <1>11 DEF Thinned, ru, qt

\* The head of two sequences is the head of the first.
LEMMA TailOfConcat ==
  ASSUME NEW S, NEW q \in Seq(S), NEW t \in Seq(S), q # <<>>
  PROVE  /\ q \o t \in Seq(S) /\ q \o t # <<>> /\ Head(q \o t) = Head(q)
         /\ Tail(q \o t) = Tail(q) \o t
<1> DEFINE p == q \o t
           u == Tail(q) \o t
<1>1. /\ Len(q) \in Nat /\ Len(t) \in Nat /\ Len(q) > 0 /\ Head(q) = q[1]
      /\ Tail(q) \in Seq(S) /\ Len(Tail(q)) = Len(q) - 1
      /\ \A i \in 1..(Len(q) - 1): Tail(q)[i] = q[i + 1]
  OBVIOUS
<1>2. /\ p \in Seq(S) /\ Len(p) = Len(q) + Len(t)
      /\ \A i \in 1..(Len(q) + Len(t)):
           p[i] = IF i <= Len(q) THEN q[i] ELSE t[i - Len(q)]
  BY ConcatProperties, Zenon
<1>3. /\ u \in Seq(S) /\ Len(u) = Len(Tail(q)) + Len(t)
      /\ \A i \in 1..(Len(Tail(q)) + Len(t)):
           u[i] = IF i <= Len(Tail(q)) THEN Tail(q)[i] ELSE t[i - Len(Tail(q))]
  BY <1>1, ConcatProperties, Zenon
<1> HIDE DEF p, u
<1>4. p # <<>> /\ Head(p) = Head(q)
  BY <1>1, <1>2
<1>5. /\ Tail(p) \in Seq(S) /\ Len(Tail(p)) = Len(p) - 1
      /\ \A i \in 1..(Len(p) - 1): Tail(p)[i] = p[i + 1]
  BY <1>2, <1>4
<1>6. ASSUME NEW i \in 1..((Len(q) - 1) + Len(t))
      PROVE  Tail(p)[i] = u[i]
  <2>1. i + 1 \in 1..(Len(q) + Len(t)) /\ Tail(p)[i] = p[i + 1]
    BY <1>1, <1>2, <1>5
  <2>2. CASE i <= Len(q) - 1
    <3>1. i + 1 <= Len(q) /\ i \in 1..(Len(q) - 1)
      BY <1>1, <2>2
    <3> QED
      BY <1>1, <1>2, <1>3, <2>1, <2>2, <3>1
  <2>3. CASE ~(i <= Len(q) - 1)
    <3>1. ~(i + 1 <= Len(q)) /\ (i + 1) - Len(q) = i - (Len(q) - 1)
      BY <1>1, <2>3
    <3>2. u[i] = t[i - (Len(q) - 1)]
      BY <1>1, <1>3, <2>3
    <3> QED
      BY <1>2, <2>1, <3>1, <3>2
  <2> QED
    BY <2>2, <2>3
<1>7. Tail(p) = u
  <2>1. Len(Tail(p)) = (Len(q) - 1) + Len(t) /\ Len(u) = (Len(q) - 1) + Len(t)
    BY <1>1, <1>2, <1>3, <1>5
  <2> QED
    BY <1>3, <1>5, <1>6, <2>1, SeqEqual
<1> QED
  BY <1>2, <1>4, <1>7 DEF p, u

\* What is pending is the head of the batch, behind it in the batch or queued.
LEMMA SeqsOfPending ==
  ASSUME NEW S, NEW q \in Seq(S), NEW t \in Seq(S), q # <<>>,
         NEW i \in DOMAIN (q \o t)
  PROVE  \/ (q \o t)[i] = Head(q)
         \/ (q \o t)[i].seq \in Control!SeqsOf(Tail(q)) \cup Control!SeqsOf(t)
<1> DEFINE p == q \o t
<1>1. /\ Len(q) \in Nat /\ Len(t) \in Nat /\ Len(q) > 0 /\ Head(q) = q[1]
      /\ DOMAIN Tail(q) = 1..(Len(q) - 1) /\ DOMAIN t = 1..Len(t)
      /\ \A j \in 1..(Len(q) - 1): Tail(q)[j] = q[j + 1]
  OBVIOUS
<1>2. /\ p \in Seq(S) /\ Len(p) = Len(q) + Len(t)
      /\ \A j \in 1..(Len(q) + Len(t)):
           p[j] = IF j <= Len(q) THEN q[j] ELSE t[j - Len(q)]
  BY ConcatProperties, Zenon
<1> HIDE DEF p
<1>3. i \in 1..(Len(q) + Len(t))
  BY <1>2 DEF p
<1>4. CASE i = 1
  BY <1>1, <1>2, <1>3, <1>4 DEF p
<1>5. CASE i # 1 /\ i <= Len(q)
  <2>1. i - 1 \in 1..(Len(q) - 1) /\ Tail(q)[i - 1] = q[i]
    BY <1>1, <1>3, <1>5
  <2>2. p[i].seq \in Control!SeqsOf(Tail(q))
    BY <1>1, <1>2, <1>3, <1>5, <2>1 DEF Control!SeqsOf
  <2> QED
    BY <2>2 DEF p
<1>6. CASE ~(i <= Len(q))
  <2>1. i - Len(q) \in 1..Len(t) /\ p[i] = t[i - Len(q)]
    BY <1>1, <1>2, <1>3, <1>6
  <2>2. p[i].seq \in Control!SeqsOf(t)
    BY <1>1, <2>1 DEF Control!SeqsOf
  <2> QED
    BY <2>2 DEF p
<1> QED
  BY <1>4, <1>5, <1>6

\* With no finish left, what is open is the controller's.
LEMMA EmptyCovers ==
  ASSUME NEW S, NEW q \in Seq(S), NEW g, NEW w, Covered(q, g, w),
         \A i \in DOMAIN q: q[i].kind \notin Control!Finish
  PROVE  Covered(<<>>, g, w)
BY DEF Covered, Ended, Ends

\* A controller where there was none covers no less.
LEMMA ControllerCovers ==
  ASSUME NEW q, NEW g, NEW w, NEW v, Covered(q, g, w), w = v \/ w = None,
         \A i \in DOMAIN q: q[i].client # None
  PROVE  Covered(q, g, v)
BY DEF Covered

\* What a queue does with a new action when it displaces no finish: a begin or
\* a finish is the last of it.
Takes(q, a, r) ==
  \E rest \in Seq(Control!Actions):
    /\ Thinned(rest, q, Len(q))
    /\ r.queue \in {rest, Append(rest, a)}
    /\ a.kind \in {"begin"} \cup Control!Finish =>
         r.queue = Append(rest, a) /\ ~r.dropped

LEMMA DisplaceTakes ==
  ASSUME NEW q \in Seq(Control!Actions), NEW a, NEW i \in DOMAIN q, NEW d,
         q[i].kind \notin Control!Finish
  PROVE  Takes(q, a, Control!Displace(q, i, a, d))
<1>1. /\ Control!RemoveAt(q, i) \in Seq(Control!Actions)
      /\ Thinned(Control!RemoveAt(q, i), q, Len(q))
  BY RemoveAtThinned
<1> QED
  BY <1>1 DEF Takes, Control!Displace, Control!Result

\* enqueue_bounded_detailed displaces a finish only as Superseded.
LEMMA EnqueueTakes ==
  ASSUME MaxPendingActions \in Nat \ {0},
         NEW q \in Seq(Control!Actions), NEW a \in Control!Actions,
         ~(/\ Control!Enqueue(q, a).as = "Superseded"
           /\ Control!HasFinish(q, Control!Enqueue(q, a).ended))
  PROVE  Takes(q, a, Control!Enqueue(q, a))
<1> DEFINE r == Control!Enqueue(q, a)
<1>1. \/ Stays(q, a, r)
      \/ r = Control!Result(Append(q, a), {}, None, FALSE)
      \/ \E i \in DOMAIN q: \/ Coalesces(q, a, r, i)
                            \/ r = Control!Displace(q, i, a, "Superseded")
  BY EnqueueCases
<1>2. ~(r.as = "Superseded" /\ Control!HasFinish(q, r.ended))
  OBVIOUS
<1> SUFFICES Takes(q, a, r)
  OBVIOUS
<1> HIDE DEF r
<1>3. CASE Stays(q, a, r)
  <2>1. r.queue = q /\ a.kind \notin {"begin"} \cup Control!Finish
    BY <1>3 DEF Stays, Control!Result
  <2> QED
    BY <2>1, AllThinned DEF Takes
<1>4. CASE r = Control!Result(Append(q, a), {}, None, FALSE)
  <2>1. r.queue = Append(q, a) /\ ~r.dropped
    BY <1>4 DEF Control!Result
  <2> QED
    BY <2>1, AllThinned DEF Takes
<1>5. ASSUME NEW i \in DOMAIN q, Coalesces(q, a, r, i)
      PROVE  Takes(q, a, r)
  BY <1>5, DisplaceTakes DEF Coalesces, Control!Finish
<1>6. ASSUME NEW i \in DOMAIN q, r = Control!Displace(q, i, a, "Superseded")
      PROVE  Takes(q, a, r)
  <2>1. r.as = "Superseded" /\ r.ended = {q[i].seq}
    BY <1>6 DEF Control!Displace, Control!Result
  <2>2. q[i].kind \notin Control!Finish
    BY <1>2, <2>1 DEF Control!HasFinish
  <2> QED
    BY <1>6, <2>2, DisplaceTakes
<1> QED
  BY <1>1, <1>3, <1>4, <1>5, <1>6

----------------------------------------------------------------------------
\* The gesture Main has open and the controller the server holds, by client.
Gesture == IF open = None THEN None ELSE open.client

Controller == IF owner = None THEN None ELSE owner.client

OwnersTyped ==
  /\ owner \in [client: Clients, dirty: BOOLEAN, key: Keys \cup {None}]
                 \cup {None}
  /\ open \in [client: Clients, changed: BOOLEAN] \cup {None}

\* One task holds the ownership lock, for an action of its own that the gate
\* would still let pass.
Locked ==
  /\ \A c \in Clients: flight[c] # None => flight[c].client = c
  /\ \A c \in Clients: stage[c] = "queue" => Control!MayPass(flight[c])
  /\ \A c, d \in Clients: stage[c] = "queue" /\ stage[d] = "queue" => c = d

\* The inductive invariant of the owners, beside ControlInv.
OwnersInv ==
  /\ OwnersTyped /\ Locked
  /\ lost \/ Covered(batch \o queue, Gesture, Controller)

OwnersAssumption ==
  /\ ControlAssumption /\ None \notin Clients
  /\ None \notin [client: Clients, dirty: BOOLEAN, key: Keys \cup {None}]
  /\ None \notin [client: Clients, changed: BOOLEAN]

LEMMA OwnersInit ==
  ASSUME Control!Init
  PROVE  OwnersInv
<1> USE DEF Control!Init
<1>1. OwnersTyped /\ Locked
  BY DEF OwnersTyped, Locked
<1>2. batch \o queue = <<>> /\ Gesture = None
  BY DEF Gesture
<1> QED
  BY <1>1, <1>2 DEF OwnersInv, Covered

\* What waits at Main and in the queue.
LEMMA PendingClients ==
  ASSUME OwnersAssumption, NEW q \in Seq(Control!Actions)
  PROVE  \A i \in DOMAIN q: q[i] \in Control!Actions /\ q[i].client # None
<1>1. \A i \in DOMAIN q: q[i] \in Control!Actions
  OBVIOUS
<1> QED
  BY <1>1 DEF OwnersAssumption, Control!Actions

\* A push that loses no boundary keeps what is pending covered.
LEMMA PushCovers ==
  ASSUME OwnersAssumption, ControlTyped, NEW a \in Control!Actions,
         Takes(queue, a, Control!Enqueue(queue, a)), Control!Push(a),
         UNCHANGED <<batch, open>>, Covered(batch \o queue, Gesture, Controller),
         a.kind = "begin" => a.client = Controller',
         Controller # Controller' => Controller = None \/ Ends(a, Controller)
  PROVE  Covered(batch \o queue, Gesture, Controller)'
<1>1. batch \in Seq(Control!Actions) /\ queue \in Seq(Control!Actions)
  BY DEF ControlTyped
<1>2. PICK rest \in Seq(Control!Actions):
        /\ Thinned(rest, queue, Len(queue))
        /\ queue' \in {rest, Append(rest, a)}
        /\ a.kind \in {"begin"} \cup Control!Finish => queue' = Append(rest, a)
  <2>1. queue' = Control!Enqueue(queue, a).queue
    BY DEF Control!Push
  <2> QED
    BY <2>1 DEF Takes
<1>3. batch \o queue \in Seq(Control!Actions) /\ batch \o rest \in Seq(Control!Actions)
  BY <1>1, <1>2, ConcatProperties, Zenon
<1>4. Thinned(batch, batch, Len(batch))
  BY <1>1, AllThinned
<1>5. Thinned(batch \o rest, batch \o queue, Len(batch \o queue))
  BY <1>1, <1>2, <1>4, ConcatThinned
<1>6. Covered(batch \o rest, Gesture, Controller)
  BY <1>3, <1>5, ThinnedCovers
<1>7. \A i \in DOMAIN (batch \o rest): (batch \o rest)[i].client # None
  BY <1>3, PendingClients
<1>8. batch' = batch /\ Gesture' = Gesture
  BY DEF Gesture
<1>9. CASE queue' = Append(rest, a)
  <2>1. Append(batch \o rest, a) = batch \o Append(rest, a)
    <3>1. /\ <<a>> \in Seq(Control!Actions)
          /\ Append(batch \o rest, a) = (batch \o rest) \o <<a>>
          /\ Append(rest, a) = rest \o <<a>>
      BY <1>2, <1>3, AppendIsConcat
    <3> QED
      BY <1>1, <1>2, <3>1, ConcatAssociative
  <2>2. Covered(Append(batch \o rest, a), Gesture, Controller')
    BY <1>3, <1>6, <1>7, AppendCovers
  <2> QED
    BY <1>8, <1>9, <2>1, <2>2
<1>10. CASE queue' # Append(rest, a)
  <2>1. queue' = rest /\ a.kind \notin Control!Finish
    BY <1>2, <1>10
  <2>2. Controller = Controller' \/ Controller = None
    BY <2>1 DEF Ends
  <2>3. Covered(batch \o rest, Gesture, Controller')
    BY <1>6, <1>7, <2>2, ControllerCovers
  <2> QED
    BY <1>8, <2>1, <2>3
<1> QED
  BY <1>9, <1>10

\* The owner, the flights and the queue stage as a step leaves them.
LEMMA MayPassFollows ==
  ASSUME NEW c \in Clients, flight'[c] = flight[c], owner' = owner
  PROVE  Control!MayPass(flight[c])' <=> Control!MayPass(flight[c])
BY DEF Control!MayPass, Control!Owns

\* A step that leaves all this alone keeps the owners' invariant.
LEMMA OwnersFollow ==
  ASSUME OwnersInv, UNCHANGED <<owner, open, batch, queue, lost>>, Locked'
  PROVE  OwnersInv'
BY DEF OwnersInv, OwnersTyped, Gesture, Controller, Covered

\* The lock is not taken by a step that leaves its stage.
LEMMA LockedFollows ==
  ASSUME Locked, owner' = owner,
         \A c \in Clients: stage'[c] = "queue" => stage[c] = "queue" /\ flight'[c] = flight[c],
         \A c \in Clients: flight'[c] # None => flight'[c].client = c
  PROVE  Locked'
<1>1. ASSUME NEW c \in Clients, stage'[c] = "queue"
      PROVE  Control!MayPass(flight[c])'
  <2>1. Control!MayPass(flight[c]) /\ flight'[c] = flight[c]
    BY <1>1 DEF Locked
  <2> QED
    BY <2>1, MayPassFollows
<1> QED
  BY <1>1 DEF Locked

\* Minting, the gate and a task that is aborted.
LEMMA MintOwners ==
  ASSUME ControlInv, OwnersInv, NEW c \in Clients, NEW kind, NEW key,
         Control!Mint(c, kind, key)
  PROVE  OwnersInv'
<1>1. /\ stage[c] = "idle" /\ stage' = [stage EXCEPT ![c] = "gate"]
      /\ flight' = [flight EXCEPT ![c] =
           [seq |-> minted', kind |-> kind, client |-> c, key |-> key]]
      /\ UNCHANGED <<owner, open, batch, queue, lost>>
  BY DEF Control!Mint, Control!main
<1>2. ASSUME NEW d \in Clients, d # c
      PROVE  stage'[d] = stage[d] /\ flight'[d] = flight[d]
  BY <1>1, <1>2 DEF ControlInv, ControlTyped
<1>3. stage'[c] = "gate" /\ flight'[c].client = c
  BY <1>1 DEF ControlInv, ControlTyped
<1>4. Locked'
  <2>1. \A d \in Clients:
          stage'[d] = "queue" => stage[d] = "queue" /\ flight'[d] = flight[d]
    BY <1>2, <1>3
  <2>2. \A d \in Clients: flight'[d] # None => flight'[d].client = d
    BY <1>2, <1>3 DEF OwnersInv, Locked
  <2> QED
    BY <1>1, <2>1, <2>2, LockedFollows DEF OwnersInv
<1> QED
  BY <1>1, <1>4, OwnersFollow

LEMMA PassOwners ==
  ASSUME ControlInv, OwnersInv, NEW c \in Clients, Control!Pass(c)
  PROVE  OwnersInv'
<1>1. /\ Control!Unlocked /\ Control!MayPass(flight[c])
      /\ stage' = [stage EXCEPT ![c] = "queue"]
      /\ UNCHANGED <<flight, owner, open, batch, queue, lost>>
  BY DEF Control!Pass, Control!main
<1>2. \A d \in Clients: stage'[d] = "queue" => d = c
  BY <1>1 DEF Control!Unlocked, ControlInv, ControlTyped
<1>3. Control!MayPass(flight[c])'
  BY <1>1, MayPassFollows
<1>4. Locked'
  BY <1>1, <1>2, <1>3 DEF OwnersInv, Locked
<1> QED
  BY <1>1, <1>4, OwnersFollow

LEMMA DisarmOwners ==
  ASSUME ControlInv, OwnersInv, NEW c \in Clients, NEW place \in {"idle", "closing"},
         stage' = [stage EXCEPT ![c] = place],
         flight' = [flight EXCEPT ![c] = None],
         UNCHANGED <<owner, open, batch, queue, lost>>
  PROVE  OwnersInv'
<1>1. /\ stage'[c] = place /\ flight'[c] = None
      /\ \A d \in Clients: d # c => stage'[d] = stage[d] /\ flight'[d] = flight[d]
  BY DEF ControlInv, ControlTyped
<1>2. /\ \A d \in Clients:
           stage'[d] = "queue" => stage[d] = "queue" /\ flight'[d] = flight[d]
      /\ \A d \in Clients: flight'[d] # None => flight'[d].client = d
  BY <1>1 DEF OwnersInv, Locked
<1>3. Locked'
  BY <1>2, LockedFollows DEF OwnersInv
<1> QED
  BY <1>3, OwnersFollow

\* The action is admitted under the lock, to the owner the gate saw.
LEMMA AdmitOwners ==
  ASSUME OwnersAssumption, ControlInv, OwnersInv, NEW c \in Clients,
         Control!Admit(c)
  PROVE  OwnersInv'
<1> DEFINE a == flight[c]
           r == Control!Enqueue(queue, a)
<1>1. /\ stage[c] = "queue" /\ stage' = [stage EXCEPT ![c] = "idle"]
      /\ flight' = [flight EXCEPT ![c] = None] /\ Control!Push(a)
      /\ owner' = IF r.dropped THEN owner ELSE Control!OwnerAfter(a)
      /\ UNCHANGED <<batch, open>>
  BY DEF Control!Admit, Control!main
<1>2. a \in Control!Actions /\ a.client = c /\ Control!MayPass(a)
  BY <1>1 DEF ControlInv, ControlTyped, Guarded, OwnersInv, Locked
<1> HIDE DEF a, r
<1>3. /\ a.client \in Clients /\ a.key \in Keys \cup {None}
      /\ a.client # None
  BY <1>2 DEF Control!Actions, OwnersAssumption
<1>4. OwnersTyped'
  <2>1. Control!OwnerAfter(a)
          \in [client: Clients, dirty: BOOLEAN, key: Keys \cup {None}] \cup {None}
    BY <1>3 DEF Control!OwnerAfter, OwnersInv, OwnersTyped
  <2> QED
    BY <1>1, <2>1 DEF OwnersInv, OwnersTyped
<1>5. Locked'
  <2>1. /\ stage'[c] = "idle" /\ flight'[c] = None
        /\ \A d \in Clients: d # c => stage'[d] = stage[d] /\ flight'[d] = flight[d]
    BY <1>1 DEF ControlInv, ControlTyped
  <2>2. \A d \in Clients: stage'[d] # "queue"
    BY <1>1, <2>1 DEF OwnersInv, Locked
  <2>3. \A d \in Clients: flight'[d] # None => flight'[d].client = d
    BY <2>1 DEF OwnersInv, Locked
  <2> QED
    BY <2>2, <2>3 DEF Locked
<1>6. ASSUME ~lost'
      PROVE  Covered(batch \o queue, Gesture, Controller)'
  <2>1. ~lost /\ ~(r.as = "Superseded" /\ Control!HasFinish(queue, r.ended))
    BY <1>1, <1>6 DEF Control!Push, r
  <2>2. Takes(queue, a, r)
    BY <1>2, <2>1, EnqueueTakes
    DEF r, OwnersAssumption, ControlAssumption, ControlInv, ControlTyped
  <2>3. a.kind \in {"begin"} \cup Control!Finish => owner' = Control!OwnerAfter(a)
    BY <1>1, <2>2 DEF Takes
  <2>4. a.kind = "begin" => a.client = Controller'
    <3>1. ASSUME a.kind = "begin"
          PROVE  /\ owner' = [client |-> a.client, dirty |-> FALSE, key |-> None]
                 /\ owner' # None
      <4>1. owner' = [client |-> a.client, dirty |-> FALSE, key |-> None]
        BY <2>3, <3>1 DEF Control!OwnerAfter, Control!Finish
      <4>2. owner' \in [client: Clients, dirty: BOOLEAN, key: Keys \cup {None}]
        BY <1>3, <4>1
      <4> QED
        BY <4>1, <4>2 DEF OwnersAssumption
    <3> QED
      BY <3>1 DEF Controller
  <2>5. ASSUME Controller # Controller'
        PROVE  Controller = None \/ Ends(a, Controller)
    <3>1. CASE a.kind = "begin"
      <4>1. owner = None
        BY <1>2, <3>1 DEF Control!MayPass
      <4> QED
        BY <4>1 DEF Controller
    <3>2. CASE a.kind \in Control!Finish
      <4>1. Control!Owns(a.client)
        BY <1>2, <3>2 DEF Control!MayPass, Control!Finish
      <4> QED
        BY <3>2, <4>1 DEF Controller, Control!Owns, Ends
    <3>3. CASE a.kind # "begin" /\ a.kind \notin Control!Finish
      <4>1. Control!OwnerAfter(a)
              = IF owner = None \/ Control!PerformanceOnly(a) THEN owner
                ELSE [owner EXCEPT !.dirty = TRUE, !.key = a.key]
        BY <3>3 DEF Control!OwnerAfter
      <4>2. CASE owner' = owner
        BY <2>5, <4>2 DEF Controller
      <4>3. CASE owner # None /\ owner' = [owner EXCEPT !.dirty = TRUE, !.key = a.key]
        <5>1. owner' # None /\ owner'.client = owner.client
          BY <1>3, <4>3 DEF OwnersInv, OwnersTyped, OwnersAssumption
        <5> QED
          BY <2>5, <4>3, <5>1 DEF Controller
      <4> QED
        BY <1>1, <4>1, <4>2, <4>3
    <3> QED
      BY <3>1, <3>2, <3>3
  <2> QED
    BY <1>1, <1>2, <2>1, <2>2, <2>4, <2>5, PushCovers
    DEF r, ControlInv, OwnersInv
<1> QED
  BY <1>4, <1>5, <1>6 DEF OwnersInv

\* The End is in the queue as the owner leaves.
LEMMA DisconnectOwners ==
  ASSUME OwnersAssumption, ControlInv, OwnersInv, NEW c \in Clients,
         Control!Disconnect(c)
  PROVE  OwnersInv'
<1> DEFINE a == [seq |-> minted', kind |-> "end", client |-> c, key |-> None]
           r == Control!Enqueue(queue, a)
<1>1. /\ Control!Unlocked /\ stage' = [stage EXCEPT ![c] = "gone"]
      /\ UNCHANGED <<flight, batch, open>>
  BY DEF Control!Disconnect, Control!main
<1>2. \A d \in Clients: stage'[d] # "queue"
  BY <1>1 DEF Control!Unlocked, ControlInv, ControlTyped
<1>3. Locked'
  BY <1>1, <1>2 DEF OwnersInv, Locked
<1>4. CASE ~Control!Owns(c)
  <2>1. UNCHANGED <<owner, queue, lost>>
    BY <1>4 DEF Control!Disconnect
  <2> QED
    BY <1>1, <1>3, <2>1, OwnersFollow
<1>5. CASE Control!Owns(c)
  <2>1. /\ minted < MaxSequence /\ minted' = minted + 1 /\ owner' = None
        /\ Control!Push(a)
    BY <1>5 DEF Control!Disconnect
  <2>2. a \in Control!Actions
    BY <2>1 DEF ControlInv, ControlTyped, ControlAssumption, OwnersAssumption,
                Control!Actions, Control!Kinds, Control!Finish
  <2>3. a.kind = "end" /\ a.client = c
    OBVIOUS
  <2> HIDE DEF a, r
  <2>4. OwnersTyped'
    BY <1>1, <2>1 DEF OwnersInv, OwnersTyped
  <2>5. ASSUME ~lost'
        PROVE  Covered(batch \o queue, Gesture, Controller)'
    <3>1. ~lost /\ ~(r.as = "Superseded" /\ Control!HasFinish(queue, r.ended))
      BY <2>1, <2>5 DEF Control!Push, r
    <3>2. Takes(queue, a, r)
      BY <2>2, <3>1, EnqueueTakes
      DEF r, OwnersAssumption, ControlAssumption, ControlInv, ControlTyped
    <3>3. Ends(a, Controller)
      BY <1>5, <2>3 DEF Ends, Controller, Control!Owns, Control!Finish
    <3>4. a.kind # "begin"
      BY <2>3
    <3> QED
      BY <1>1, <2>1, <2>2, <3>1, <3>2, <3>3, <3>4, PushCovers
      DEF r, ControlInv, OwnersInv
  <2> QED
    BY <1>3, <2>4, <2>5 DEF OwnersInv
<1> QED
  BY <1>4, <1>5

----------------------------------------------------------------------------
\* Taking the head of the batch: what is open then was ended behind it, or
\* begins with it.
LEMMA HeadOwners ==
  ASSUME OwnersAssumption, ControlInv, OwnersInv, HeadTaken,
         UNCHANGED <<queue, owner>>, lost => lost',
         open' \in [client: Clients, changed: BOOLEAN] \cup {None},
         ~lost' => \/ open' = None
                   \/ Gesture' = Gesture /\ ~Ends(Head(batch), Gesture)
                   \/ Gesture' = Head(batch).client /\ Head(batch).kind = "begin"
  PROVE  OwnersInv'
<1> DEFINE p == batch \o queue
<1>1. batch \in Seq(Control!Actions) /\ queue \in Seq(Control!Actions) /\ batch # <<>>
  BY DEF ControlInv, ControlTyped, HeadTaken
<1>2. /\ p \in Seq(Control!Actions) /\ p # <<>> /\ Head(p) = Head(batch)
      /\ Tail(p) = Tail(batch) \o queue
  BY <1>1, TailOfConcat
<1>3. Locked'
  <2>1. UNCHANGED <<stage, flight, owner>>
    BY DEF HeadTaken
  <2> QED
    BY <2>1, LockedFollows DEF OwnersInv, Locked
<1>4. OwnersTyped'
  BY DEF OwnersInv, OwnersTyped
<1>5. ASSUME ~lost'
      PROVE  Covered(batch \o queue, Gesture, Controller)'
  <2>1. Covered(p, Gesture, Controller)
    BY <1>5 DEF OwnersInv
  <2>2. open' = None => Gesture' = None
    BY DEF Gesture
  <2> HIDE DEF p
  <2>3. Covered(Tail(p), Gesture', Controller)
    BY <1>2, <1>5, <2>1, <2>2, TailCovers
  <2>4. Controller' = Controller /\ (batch \o queue)' = Tail(p)
    BY <1>2 DEF Controller, HeadTaken
  <2> QED
    BY <2>3, <2>4
<1> QED
  BY <1>3, <1>4, <1>5 DEF OwnersInv

\* A changed world is still the gesture's.
LEMMA ChangedEffect ==
  ASSUME OwnersAssumption, OwnersTyped, open' = Control!Changed(open) \/ open' = open
  PROVE  /\ open' \in [client: Clients, changed: BOOLEAN] \cup {None}
         /\ Gesture' = Gesture
<1>1. CASE open = None
  BY <1>1 DEF Control!Changed, Gesture
<1>2. CASE open # None
  <2>1. \/ open' = open
        \/ open' = [open EXCEPT !.changed = TRUE]
    BY <1>2 DEF Control!Changed
  <2>2. open \in [client: Clients, changed: BOOLEAN]
    BY <1>2 DEF OwnersTyped
  <2>3. open' \in [client: Clients, changed: BOOLEAN] /\ open'.client = open.client
    BY <2>1, <2>2
  <2>4. open' # None
    BY <2>3 DEF OwnersAssumption
  <2> QED
    BY <1>2, <2>3, <2>4 DEF Gesture
<1> QED
  BY <1>1, <1>2

\* Boundaries at Main.
LEMMA BeginOwners ==
  ASSUME OwnersAssumption, ControlInv, OwnersInv, Control!ApplyBegin
  PROVE  OwnersInv'
<1>1. /\ HeadTaken /\ UNCHANGED <<queue, owner, lost>> /\ Head(batch).kind = "begin"
      /\ \/ open' = [client |-> Head(batch).client, changed |-> FALSE]
         \/ open' = open
  BY DEF Control!ApplyBegin, Control!HeadIs, Control!Quiet, Control!sockets, HeadTaken
<1>2. ~Ends(Head(batch), Gesture)
  BY <1>1 DEF Ends, Control!Finish
<1>3. Head(batch).client \in Clients
  <2>1. Head(batch) \in Control!Actions
    BY <1>1 DEF HeadTaken, ControlInv, ControlTyped
  <2> QED
    BY <2>1 DEF Control!Actions
<1>4. CASE open' = open
  <2>1. Gesture' = Gesture /\ open' \in [client: Clients, changed: BOOLEAN] \cup {None}
    BY <1>4 DEF Gesture, OwnersInv, OwnersTyped
  <2> QED
    BY <1>1, <1>2, <2>1, HeadOwners
<1>5. CASE open' = [client |-> Head(batch).client, changed |-> FALSE]
  <2>1. open' \in [client: Clients, changed: BOOLEAN] /\ open'.client = Head(batch).client
    BY <1>3, <1>5
  <2>2. open' # None
    BY <2>1 DEF OwnersAssumption
  <2>3. Gesture' = Head(batch).client
    BY <2>1, <2>2 DEF Gesture
  <2> QED
    BY <1>1, <2>1, <2>3, HeadOwners
<1> QED
  BY <1>1, <1>4, <1>5

LEMMA FinishOwners ==
  ASSUME OwnersAssumption, ControlInv, OwnersInv, Control!ApplyFinish
  PROVE  OwnersInv'
<1>1. /\ HeadTaken /\ UNCHANGED <<queue, owner>>
      /\ \/ open' = None /\ UNCHANGED lost
         \/ lost' = (lost \/ Control!Opened(Head(batch))) /\ UNCHANGED open
  BY DEF Control!ApplyFinish, Control!HeadIs, Control!Quiet, Control!sockets, HeadTaken
<1>2. open' \in [client: Clients, changed: BOOLEAN] \cup {None}
  BY <1>1 DEF OwnersInv, OwnersTyped
<1>3. ASSUME ~lost', open' # None
      PROVE  Gesture' = Gesture /\ ~Ends(Head(batch), Gesture)
  <2>1. open' = open /\ ~Control!Opened(Head(batch))
    BY <1>1, <1>3
  <2> QED
    BY <1>3, <2>1 DEF Gesture, Ends, Control!Opened
<1>4. lost => lost'
  BY <1>1
<1> QED
  BY <1>1, <1>2, <1>3, <1>4, HeadOwners

\* Everything else Main applies keeps the gesture.
LEMMA AppliedOwners ==
  ASSUME OwnersAssumption, ControlInv, OwnersInv, HeadTaken,
         UNCHANGED <<queue, owner, lost>>, Head(batch).kind \notin Control!Finish,
         open' = Control!Changed(open) \/ open' = open
  PROVE  OwnersInv'
<1>1. /\ open' \in [client: Clients, changed: BOOLEAN] \cup {None}
      /\ Gesture' = Gesture
  BY ChangedEffect DEF OwnersInv
<1>2. ~Ends(Head(batch), Gesture)
  BY DEF Ends
<1> QED
  BY <1>1, <1>2, HeadOwners

\* A loaded show that replaces no finish leaves what is open to the controller.
LEMMA LoadOwners ==
  ASSUME OwnersAssumption, ControlInv, OwnersInv, Control!ApplyLoad
  PROVE  OwnersInv'
<1> DEFINE p == batch \o queue
           ended == Control!SeqsOf(Tail(batch)) \cup Control!SeqsOf(queue)
<1>1. /\ batch # <<>> /\ Head(batch).kind = "load"
      /\ lost' = (lost \/ Control!HasFinish(p, ended))
      /\ batch' = <<>> /\ queue' = <<>>
      /\ open' = Control!Changed(open)
      /\ UNCHANGED <<stage, flight, owner>>
  BY DEF Control!ApplyLoad, Control!HeadIs, Control!Quiet, Control!sockets,
         Control!Pending
<1>2. batch \in Seq(Control!Actions) /\ queue \in Seq(Control!Actions)
  BY DEF ControlInv, ControlTyped
<1>3. /\ open' \in [client: Clients, changed: BOOLEAN] \cup {None}
      /\ Gesture' = Gesture
  BY <1>1, ChangedEffect DEF OwnersInv
<1>4. Locked' /\ OwnersTyped'
  BY <1>1, <1>3, LockedFollows DEF OwnersInv, OwnersTyped, Locked
<1>5. ASSUME ~lost'
      PROVE  Covered(batch \o queue, Gesture, Controller)'
  <2>1. Covered(p, Gesture, Controller) /\ ~Control!HasFinish(p, ended)
    BY <1>1, <1>5 DEF OwnersInv
  <2>2. p \in Seq(Control!Actions)
    BY <1>2, ConcatProperties, Zenon
  <2>3. ASSUME NEW i \in DOMAIN p
        PROVE  p[i].kind \notin Control!Finish
    <3>1. p[i] = Head(batch) \/ p[i].seq \in ended
      BY <1>1, <1>2, SeqsOfPending
    <3> QED
      BY <1>1, <2>1, <3>1 DEF Control!HasFinish, Control!Finish
  <2>4. Covered(<<>>, Gesture, Controller)
    <3> HIDE DEF p
    <3> QED
      BY <2>1, <2>2, <2>3, EmptyCovers
  <2>5. Controller' = Controller /\ (batch \o queue)' = <<>>
    BY <1>1 DEF Controller
  <2> QED
    BY <1>3, <2>4, <2>5
<1> QED
  BY <1>4, <1>5 DEF OwnersInv

\* A look takes values only.
LEMMA LookOwners ==
  ASSUME OwnersAssumption, ControlInv, OwnersInv, Control!ApplyLook
  PROVE  OwnersInv'
<1> DEFINE p == batch \o queue
           rest == Tail(batch)
<1>1. /\ batch # <<>> /\ Head(batch).kind = "look"
      /\ batch' = Control!Unkeyed(rest) /\ queue' = Control!Unkeyed(queue)
      /\ open' = Control!Changed(open)
      /\ UNCHANGED <<stage, flight, owner, lost>>
  BY DEF Control!ApplyLook, Control!HeadIs, Control!Quiet, Control!sockets
<1>2. /\ batch \in Seq(Control!Actions) /\ queue \in Seq(Control!Actions)
      /\ rest \in Seq(Control!Actions)
  BY <1>1 DEF ControlInv, ControlTyped
<1>3. /\ open' \in [client: Clients, changed: BOOLEAN] \cup {None}
      /\ Gesture' = Gesture
  BY <1>1, ChangedEffect DEF OwnersInv
<1>4. Locked' /\ OwnersTyped'
  BY <1>1, <1>3, LockedFollows DEF OwnersInv, OwnersTyped, Locked
<1>5. /\ p \in Seq(Control!Actions) /\ p # <<>> /\ Head(p) = Head(batch)
      /\ Tail(p) = rest \o queue
  BY <1>1, <1>2, TailOfConcat
<1> HIDE DEF rest, p
<1>6. /\ batch' \in Seq(Control!Actions) /\ Thinned(batch', rest, Len(rest))
      /\ queue' \in Seq(Control!Actions) /\ Thinned(queue', queue, Len(queue))
  BY <1>1, <1>2, UnkeyedThinned
<1>7. Thinned(batch' \o queue', rest \o queue, Len(rest \o queue))
  BY <1>2, <1>6, ConcatThinned
<1>8. rest \o queue \in Seq(Control!Actions) /\ batch' \o queue' \in Seq(Control!Actions)
  BY <1>2, <1>6, ConcatProperties, Zenon
<1>9. ASSUME ~lost'
      PROVE  Covered(batch \o queue, Gesture, Controller)'
  <2>1. Covered(p, Gesture, Controller)
    BY <1>1, <1>9 DEF OwnersInv, p
  <2>2. ~Ends(Head(p), Gesture)
    BY <1>1, <1>5 DEF Ends, Control!Finish
  <2>3. Covered(rest \o queue, Gesture, Controller)
    BY <1>5, <2>1, <2>2, TailCovers
  <2>4. Covered(batch' \o queue', Gesture, Controller)
    BY <1>7, <1>8, <2>3, ThinnedCovers
  <2>5. Controller' = Controller
    BY <1>1 DEF Controller
  <2> QED
    BY <1>3, <2>4, <2>5
<1> QED
  BY <1>4, <1>9 DEF OwnersInv

\* A frame begins with what is queued, takes controller values and ends.
LEMMA DrainOwners ==
  ASSUME ControlInv, OwnersInv, Control!Drain
  PROVE  OwnersInv'
<1>1. /\ batch = <<>> /\ UNCHANGED <<stage, flight, owner, open, lost>>
      /\ \/ batch' = queue /\ queue' = <<>>
         \/ UNCHANGED <<batch, queue>>
  BY DEF Control!Drain, Control!sockets, ControlInv
<1>2. batch' \o queue' = batch \o queue
  <2>1. /\ batch \o queue = queue
        /\ queue \o <<>> = queue
    BY <1>1, ConcatEmptySeq DEF ControlInv, ControlTyped
  <2> QED
    BY <1>1, <2>1
<1>3. Locked'
  BY <1>1, LockedFollows DEF OwnersInv, Locked
<1>4. Gesture' = Gesture /\ Controller' = Controller
  BY <1>1 DEF Gesture, Controller
<1>5. OwnersTyped'
  BY <1>1 DEF OwnersInv, OwnersTyped
<1> QED
  BY <1>1, <1>2, <1>3, <1>4, <1>5 DEF OwnersInv

LEMMA FrameOwners ==
  ASSUME OwnersAssumption, OwnersInv, Control!Automate \/ Control!Present
  PROVE  OwnersInv'
<1>1. /\ UNCHANGED <<stage, flight, owner, batch, queue, lost>>
      /\ open' = Control!Changed(open) \/ open' = open
  BY DEF Control!Automate, Control!Present, Control!sockets
<1>2. /\ open' \in [client: Clients, changed: BOOLEAN] \cup {None}
      /\ Gesture' = Gesture
  BY <1>1, ChangedEffect DEF OwnersInv
<1>3. Locked' /\ OwnersTyped'
  BY <1>1, <1>2, LockedFollows DEF OwnersInv, OwnersTyped, Locked
<1>4. Controller' = Controller
  BY <1>1 DEF Controller
<1> QED
  BY <1>1, <1>2, <1>3, <1>4 DEF OwnersInv

\* A shutdown that drops no finish.
LEMMA ShutdownOwners ==
  ASSUME ControlInv, OwnersInv, Control!Shutdown
  PROVE  OwnersInv'
<1>1. /\ batch = <<>> /\ batch' = batch /\ queue' = <<>>
      /\ flight' = [c \in Clients |-> None] /\ stage' = [c \in Clients |-> "gone"]
      /\ lost' = (lost \/ Control!HasFinish(queue, Control!SeqsOf(queue)))
      /\ UNCHANGED <<owner, open>>
  BY DEF Control!Shutdown, ControlInv
<1>2. Locked' /\ OwnersTyped'
  BY <1>1 DEF OwnersInv, OwnersTyped, Locked
<1>3. ASSUME ~lost'
      PROVE  Covered(batch \o queue, Gesture, Controller)'
  <2>1. batch \o queue = queue /\ (batch \o queue)' = <<>>
    BY <1>1, ConcatEmptySeq DEF ControlInv, ControlTyped
  <2>2. \A i \in DOMAIN queue: queue[i].kind \notin Control!Finish
    BY <1>1, <1>3 DEF Control!HasFinish, Control!SeqsOf
  <2>3. Covered(queue, Gesture, Controller)
    BY <1>1, <1>3, <2>1 DEF OwnersInv
  <2>4. Covered(<<>>, Gesture, Controller)
    BY <2>2, <2>3, EmptyCovers DEF ControlInv, ControlTyped
  <2>5. Gesture' = Gesture /\ Controller' = Controller
    BY <1>1 DEF Gesture, Controller
  <2> QED
    BY <2>1, <2>4, <2>5
<1> QED
  BY <1>2, <1>3 DEF OwnersInv

\* Every step of a socket task and of Main keeps the owners' invariant.
LEMMA OwnersStep ==
  ASSUME OwnersAssumption, ControlInv, OwnersInv, [Control!Next]_(Control!vars)
  PROVE  OwnersInv'
<1>1. ASSUME NEW c \in Clients, Control!Socket(c)
      PROVE  OwnersInv'
  <2>1. CASE Control!Refuse(c)
    <3>1. /\ stage' = [stage EXCEPT ![c] = "idle"]
          /\ flight' = [flight EXCEPT ![c] = None]
          /\ UNCHANGED <<owner, open, batch, queue, lost>>
      BY <2>1 DEF Control!Refuse, Control!main
    <3> QED
      BY <3>1, DisarmOwners
  <2>2. CASE Control!Vanish(c)
    <3>1. /\ stage' = [stage EXCEPT ![c] = "closing"]
          /\ flight' = [flight EXCEPT ![c] = None]
          /\ UNCHANGED <<owner, open, batch, queue, lost>>
      BY <2>2 DEF Control!Vanish, Control!main
    <3> QED
      BY <3>1, DisarmOwners
  <2> QED
    BY <1>1, <2>1, <2>2, MintOwners, PassOwners, AdmitOwners, DisconnectOwners
    DEF Control!Socket
<1>2. CASE Control!ApplyRefused \/ Control!ApplySet \/ Control!ApplyOther
  <2>1. /\ HeadTaken /\ UNCHANGED <<queue, owner, lost>>
        /\ Head(batch).kind \notin Control!Finish
        /\ open' = Control!Changed(open) \/ open' = open
    BY <1>2 DEF Control!ApplyRefused, Control!ApplySet, Control!ApplyOther,
                Control!HeadIs, Control!Quiet, Control!sockets, Control!Finish,
                HeadTaken
  <2> QED
    BY <2>1, AppliedOwners
<1>3. CASE UNCHANGED Control!vars
  <2>1. UNCHANGED <<stage, flight, owner, open, batch, queue, lost>>
    BY <1>3 DEF Control!vars, Control!sockets, Control!main
  <2>2. Locked'
    BY <2>1, LockedFollows DEF OwnersInv, Locked
  <2> QED
    BY <2>1, <2>2, OwnersFollow
<1> QED
  BY <1>1, <1>2, <1>3, BeginOwners, FinishOwners, LoadOwners, LookOwners,
     DrainOwners, FrameOwners, ShutdownOwners
  DEF Control!Next, Control!Main

\* What the invariant says of the end: Main has no gesture open then, or the
\* controller's.
LEMMA OwnersEnd ==
  ASSUME OwnersAssumption, ControlInv, OwnersInv
  PROVE  OwnersAgreeUnlessLost
<1> SUFFICES ASSUME ~lost
             PROVE  Control!OpenAfter = None \/ Control!Owns(Control!OpenAfter)
  BY DEF OwnersAgreeUnlessLost, Control!OwnersAgreeUnlessLost
<1>1. batch \o queue \in Seq(Control!Actions)
  <2>1. batch \in Seq(Control!Actions) /\ queue \in Seq(Control!Actions)
    BY DEF ControlInv, ControlTyped
  <2> QED
    BY <2>1, ConcatProperties, Zenon
<1>2. Control!OpenAfter = Opens(Gesture, batch \o queue)
  BY Zenon DEF Control!OpenAfter, Control!Pending, Opens, Turns, Turn, Gesture
<1>3. Covered(batch \o queue, Gesture, Controller)
  BY DEF OwnersInv
<1>4. Control!OpenAfter = None \/ Control!OpenAfter = Controller
  BY <1>1, <1>2, <1>3, CoveredEnds
<1> QED
  BY <1>4 DEF Controller, Control!Owns

\* The owners' invariant holds in every reachable state.
THEOREM OwnersInvariant ==
  ASSUME OwnersAssumption
  PROVE  Control!Spec => []OwnersInv
<1>1. ControlAssumption
  BY DEF OwnersAssumption
<1>2. Control!Spec => []ControlInv
  BY <1>1, ControlInvariant
<1>3. Control!Init => OwnersInv
  BY OwnersInit
<1>4. ControlInv /\ OwnersInv /\ [Control!Next]_(Control!vars) => OwnersInv'
  BY OwnersStep
<1> QED
  BY <1>2, <1>3, <1>4, PTL DEF Control!Spec

\* Unless a boundary was lost on the way, whatever gesture Main will have open
\* is the one the server's owner holds (the gesture gate, the ownership lock
\* and disconnect_browser_history_gesture), for any clients, keys and size of
\* queue.
THEOREM OwnersAgree ==
  ASSUME OwnersAssumption
  PROVE  Control!Spec => []OwnersAgreeUnlessLost
<1>1. ControlAssumption
  BY DEF OwnersAssumption
<1>2. ControlInv /\ OwnersInv => OwnersAgreeUnlessLost
  BY OwnersEnd
<1> QED
  BY <1>1, <1>2, ControlInvariant, OwnersInvariant, PTL

----------------------------------------------------------------------------
(***************************************************************************)
(* The bounds: the queue, the batch a frame drains from it, and the        *)
(* monitor of applied actions.                                             *)
(***************************************************************************)
\* None of the three outgrows its limit.
WorkBounded ==
  /\ Len(queue) <= MaxPendingActions /\ Len(batch) <= MaxPendingActions
  /\ IsFiniteSet(applied) /\ Cardinality(applied) <= MaxInFlight

BoundsAssumed ==
  ControlAssumption /\ PriorityReserve \in Nat /\ MaxInFlight \in Nat

LEMMA SameCount ==
  ASSUME NEW S
  PROVE  Control!Cardinality(S) = Cardinality(S)
BY DEF Control!Cardinality, Cardinality

\* Unkeyed adds nothing.
LEMMA UnkeyedShorter ==
  ASSUME NEW S, NEW q \in Seq(S)
  PROVE  Len(Control!Unkeyed(q)) <= Len(q)
<1>1. Len(q) \in Nat /\ Len(q) \in 0..Len(q)
  OBVIOUS
<1>2. PICK kept : /\ kept[0] = <<>> /\ Control!Unkeyed(q) = kept[Len(q)]
                  /\ \A n \in 1..Len(q):
                       kept[n] = IF Control!Keyed(q[n]) THEN kept[n - 1]
                                 ELSE Append(kept[n - 1], q[n])
  BY UnkeyedIs
<1> DEFINE Good(n) == kept[n] \in Seq(S) /\ Len(kept[n]) <= n
           T == {n \in 0..Len(q): ~Good(n)}
<1>3. T = {}
  <2> SUFFICES ASSUME T # {}
               PROVE  FALSE
    OBVIOUS
  <2>1. T \in SUBSET Nat
    OBVIOUS
  <2>2. PICK n \in T : \A k \in T : n <= k
    <3> HIDE DEF T
    <3> QED
      BY <2>1, LeastNat
  <2>3. n # 0
    <3>1. Good(0)
      BY <1>2
    <3> QED
      BY <3>1
  <2>4. n \in 1..Len(q) /\ n - 1 \in 0..Len(q) /\ Good(n - 1) /\ q[n] \in S
    BY <1>1, <2>2, <2>3
  <2>5. kept[n] = IF Control!Keyed(q[n]) THEN kept[n - 1]
                  ELSE Append(kept[n - 1], q[n])
    BY <1>2, <2>4
  <2>6. CASE Control!Keyed(q[n])
    BY <2>2, <2>4, <2>5, <2>6
  <2>7. CASE ~Control!Keyed(q[n])
    <3>1. kept[n] \in Seq(S) /\ Len(kept[n]) = Len(kept[n - 1]) + 1
      BY <2>4, <2>5, <2>7
    <3>2. Len(kept[n - 1]) \in Nat /\ Len(kept[n - 1]) <= n - 1
      BY <2>4
    <3> QED
      BY <2>2, <2>4, <3>1, <3>2
  <2> QED
    BY <2>6, <2>7
<1> QED
  BY <1>1, <1>2, <1>3

\* enqueue_bounded_detailed keeps the queue within its limit: what it appends
\* without displacing anything, it appends below the limit.
LEMMA EnqueueBounded ==
  ASSUME BoundsAssumed, NEW q \in Seq(Control!Actions), NEW a \in Control!Actions,
         Len(q) <= MaxPendingActions
  PROVE  Len(Control!Enqueue(q, a).queue) <= MaxPendingActions
<1> DEFINE r == Control!Enqueue(q, a)
<1>1. Len(q) \in Nat /\ MaxPendingActions \in Nat \ {0} /\ PriorityReserve \in Nat
  BY DEF BoundsAssumed, ControlAssumption
<1>2. \/ Stays(q, a, r)
      \/ r = Control!Result(Append(q, a), {}, None, FALSE)
      \/ \E i \in DOMAIN q: \/ Coalesces(q, a, r, i)
                            \/ r = Control!Displace(q, i, a, "Superseded")
  BY <1>1, EnqueueCases
<1> SUFFICES Len(r.queue) <= MaxPendingActions
  OBVIOUS
<1>3. CASE Stays(q, a, r)
  <2>1. r.queue = q
    BY <1>3 DEF Stays, Control!Result
  <2> QED
    BY <2>1
<1>4. ASSUME NEW i \in DOMAIN q, NEW d, r = Control!Displace(q, i, a, d)
      PROVE  Len(r.queue) <= MaxPendingActions
  <2>1. /\ Control!RemoveAt(q, i) \in Seq(Control!Actions)
        /\ Len(Control!RemoveAt(q, i)) = Len(q) - 1
    BY RemoveAtIs
  <2>2. r.queue = Append(Control!RemoveAt(q, i), a)
    BY <1>4 DEF Control!Displace, Control!Result
  <2>3. Len(r.queue) = Len(q)
    BY <1>1, <2>1, <2>2
  <2> QED
    BY <2>3
<1>5. CASE r = Control!Result(Append(q, a), {}, None, FALSE)
  <2>1. r.queue = Append(q, a) /\ r.ended = {} /\ Len(r.queue) = Len(q) + 1
    BY <1>5 DEF Control!Result
  <2>2. Len(q) < MaxPendingActions
    <3>1. ASSUME NEW i, NEW d, r = Control!Displace(q, i, a, d)
          PROVE  FALSE
      <4> HIDE DEF r
      <4>1. r.ended = {q[i].seq}
        BY <3>1 DEF Control!Displace, Control!Result
      <4> QED
        BY <2>1, <4>1
    <3>2. ASSUME NEW d, NEW b, r = Control!Result(q, {a.seq}, d, b)
          PROVE  FALSE
      BY <2>1, <3>2 DEF Control!Result
    <3>3. /\ ~Control!RepeatsRescan(q, a) /\ ~Control!RepeatsSeek(q, a)
          /\ Control!Twins(q, a) = {}
      <4>1. ~Control!RepeatsRescan(q, a)
        <5>1. ASSUME Control!RepeatsRescan(q, a) PROVE FALSE
          <6>1. ~Control!RepeatsSeek(q, a) /\ Control!Twins(q, a) = {}
            BY <5>1 DEF Control!RepeatsRescan, Control!RepeatsSeek, Control!Twins,
                        Control!Keyed
          <6>2. r = Control!Result(q, {a.seq}, "Coalesced", FALSE)
            BY <5>1, <6>1 DEF Control!Enqueue
          <6> QED
            BY <6>2, <3>2
        <5> QED
          BY <5>1
      <4>2. ~Control!RepeatsSeek(q, a)
        <5>1. ASSUME Control!RepeatsSeek(q, a) PROVE FALSE
          <6>1. Control!Twins(q, a) = {}
            BY <5>1 DEF Control!RepeatsSeek, Control!Twins, Control!Keyed
          <6>2. r = Control!Displace(q, Len(q), a, "Coalesced")
            BY <4>1, <5>1, <6>1 DEF Control!Enqueue
          <6> QED
            BY <6>2, <3>1
        <5> QED
          BY <5>1
      <4>3. Control!Twins(q, a) = {}
        <5>1. ASSUME Control!Twins(q, a) # {} PROVE FALSE
          <6>1. r = Control!Displace(q, Control!Max(Control!Twins(q, a)), a, "Coalesced")
            BY <4>1, <4>2, <5>1 DEF Control!Enqueue
          <6> QED
            BY <6>1, <3>1
        <5> QED
          BY <5>1
      <4> QED
        BY <4>1, <4>2, <4>3
    <3>4. CASE Control!Priority(a) /\ Control!Full(q)
      <4>1. r = Control!Displace(q, Control!Evicted(q), a, "Superseded")
        BY <3>3, <3>4 DEF Control!Enqueue
      <4> QED
        BY <4>1, <3>1
    <3>5. CASE Control!Priority(a) /\ ~Control!Full(q)
      BY <1>1, <3>5 DEF Control!Full
    <3>6. CASE ~Control!Priority(a) /\ Len(q) >= MaxPendingActions - PriorityReserve
      <4>1. r = Control!Result(q, {a.seq}, "Refused", TRUE)
        BY <3>3, <3>6 DEF Control!Enqueue
      <4> QED
        BY <4>1, <3>2
    <3>7. CASE ~(Len(q) >= MaxPendingActions - PriorityReserve)
      BY <1>1, <3>7
    <3> QED
      BY <3>4, <3>5, <3>6, <3>7
  <2> QED
    BY <1>1, <2>1, <2>2
<1>6. ASSUME NEW i \in DOMAIN q,
             \/ Coalesces(q, a, r, i)
             \/ r = Control!Displace(q, i, a, "Superseded")
      PROVE  Len(r.queue) <= MaxPendingActions
  <2> HIDE DEF r
  <2>1. CASE Coalesces(q, a, r, i)
    BY <1>4, <2>1 DEF Coalesces
  <2>2. CASE r = Control!Displace(q, i, a, "Superseded")
    BY <1>4, <2>2
  <2> QED
    BY <1>6, <2>1, <2>2
<1> HIDE DEF r
<1> QED
  BY <1>2, <1>3, <1>5, <1>6

\* The monitor takes one more only below its limit.
LEMMA MonitorBounded ==
  ASSUME BoundsAssumed, IsFiniteSet(applied), Cardinality(applied) <= MaxInFlight,
         NEW s,
         \/ applied' \subseteq applied
         \/ /\ ~(Control!Cardinality(applied) >= MaxInFlight)
            /\ applied' = applied \cup {s}
  PROVE  IsFiniteSet(applied') /\ Cardinality(applied') <= MaxInFlight
<1>1. Cardinality(applied) \in Nat /\ MaxInFlight \in Nat
  BY FS_CardinalityType DEF BoundsAssumed
<1>2. CASE applied' \subseteq applied
  <2>1. /\ IsFiniteSet(applied') /\ Cardinality(applied') <= Cardinality(applied)
        /\ Cardinality(applied') \in Nat
    BY <1>2, FS_Subset, FS_CardinalityType
  <2> QED
    BY <1>1, <2>1
<1>3. CASE /\ ~(Control!Cardinality(applied) >= MaxInFlight)
           /\ applied' = applied \cup {s}
  <2>1. IsFiniteSet(applied \cup {s})
        /\ Cardinality(applied \cup {s}) \in {Cardinality(applied), Cardinality(applied) + 1}
    BY FS_AddElement
  <2>2. Cardinality(applied) < MaxInFlight
    BY <1>1, <1>3, SameCount
  <2> QED
    BY <1>1, <1>3, <2>1, <2>2
<1> QED
  BY <1>2, <1>3

\* Every step keeps the bounds.
LEMMA BoundsStep ==
  ASSUME BoundsAssumed, ControlInv, WorkBounded, [Control!Next]_(Control!vars)
  PROVE  WorkBounded'
<1> USE DEF Control!sockets, Control!main, Control!Quiet
<1>1. /\ queue \in Seq(Control!Actions) /\ batch \in Seq(Control!Actions)
      /\ Len(queue) \in Nat /\ Len(batch) \in Nat
      /\ ControlAssumption /\ MaxPendingActions \in Nat
      /\ \A c \in Clients : stage[c] = "queue" => flight[c] \in Control!Actions
  BY DEF ControlInv, ControlTyped, Guarded, BoundsAssumed, ControlAssumption
<1>2. ASSUME NEW c \in Clients, Control!Socket(c)
      PROVE  WorkBounded'
  <2>1. UNCHANGED <<batch, applied>>
    BY <1>2 DEF Control!Socket, Control!Mint, Control!Pass, Control!Refuse,
      Control!Admit, Control!Vanish, Control!Disconnect
  <2>2. \/ UNCHANGED queue
        \/ \E a \in Control!Actions : queue' = Control!Enqueue(queue, a).queue
    <3>1. CASE Control!Admit(c)
      BY <1>1, <3>1 DEF Control!Admit, Control!Push
    <3>2. CASE Control!Disconnect(c)
      <4>1. minted + 1 \in Nat
        BY DEF ControlInv, ControlTyped, BoundsAssumed, ControlAssumption
      <4>2. [seq |-> minted + 1, kind |-> "end", client |-> c, key |-> None]
              \in Control!Actions
        BY <4>1 DEF Control!Actions, Control!Kinds, Control!Finish
      <4>3. \/ UNCHANGED queue
            \/ Control!Push([seq |-> minted + 1, kind |-> "end", client |-> c,
                             key |-> None])
        BY <3>2 DEF Control!Disconnect
      <4> QED
        BY <4>2, <4>3 DEF Control!Push
    <3> QED
      BY <1>2, <3>1, <3>2 DEF Control!Socket, Control!Mint, Control!Pass,
        Control!Refuse, Control!Vanish
  <2>3. Len(queue') <= MaxPendingActions
    BY <1>1, <2>2, EnqueueBounded DEF WorkBounded
  <2> QED
    BY <2>1, <2>3 DEF WorkBounded
<1>3. ASSUME queue' = queue, batch' = batch \/ (batch # <<>> /\ batch' = Tail(batch)),
             NEW s, \/ applied' \subseteq applied
                    \/ /\ ~(Control!Cardinality(applied) >= MaxInFlight)
                       /\ applied' = applied \cup {s}
      PROVE  WorkBounded'
  <2>1. Len(batch') <= MaxPendingActions
    BY <1>1, <1>3 DEF WorkBounded
  <2> QED
    BY <1>3, <2>1, MonitorBounded DEF WorkBounded
<1>4. CASE Control!ApplyRefused \/ Control!ApplyBegin \/ Control!ApplyFinish
  BY <1>3, <1>4 DEF Control!ApplyRefused, Control!ApplyBegin, Control!ApplyFinish,
    Control!HeadIs
<1>5. CASE Control!ApplySet \/ Control!ApplyOther
  <2>1. /\ queue' = queue /\ batch' = Tail(batch) /\ batch # <<>>
        /\ Control!RecordApplied(Head(batch).seq)
    BY <1>5 DEF Control!ApplySet, Control!ApplyOther, Control!HeadIs
  <2> QED
    BY <1>3, <2>1 DEF Control!RecordApplied
<1>6. CASE Control!Automate
  <2>1. /\ queue' = queue /\ batch' = batch
        /\ Control!RecordApplied(minted + 1)
    BY <1>6 DEF Control!Automate
  <2> QED
    BY <1>3, <2>1 DEF Control!RecordApplied
<1>7. CASE Control!Present
  <2>1. queue' = queue /\ batch' = batch /\ applied' \subseteq applied
    BY <1>7 DEF Control!Present
  <2> QED
    BY <1>3, <2>1
<1>8. CASE Control!Drain
  BY <1>1, <1>8 DEF Control!Drain, WorkBounded
<1>9. CASE Control!Shutdown
  <2>1. queue' = <<>> /\ batch' = batch /\ applied' = {}
    BY <1>9 DEF Control!Shutdown
  <2>2. IsFiniteSet({}) /\ Cardinality({}) = 0
    BY FS_EmptySet
  <2> QED
    BY <1>1, <2>1, <2>2 DEF WorkBounded, BoundsAssumed
<1>10. CASE Control!ApplyLoad \/ Control!ApplyLook
  <2>1. \/ applied' \subseteq applied
        \/ /\ ~(Control!Cardinality(applied) >= MaxInFlight)
           /\ applied' = applied \cup {Head(batch).seq}
    BY <1>10 DEF Control!ApplyLoad, Control!ApplyLook
  <2>2. IsFiniteSet(applied') /\ Cardinality(applied') <= MaxInFlight
    BY <2>1, MonitorBounded DEF WorkBounded
  <2>3. Len(queue') <= MaxPendingActions /\ Len(batch') <= MaxPendingActions
    <3>1. CASE Control!ApplyLoad
      BY <1>1, <3>1 DEF Control!ApplyLoad
    <3>2. CASE Control!ApplyLook
      <4>1. /\ queue' = Control!Unkeyed(queue) /\ batch' = Control!Unkeyed(Tail(batch))
            /\ batch # <<>>
        BY <3>2 DEF Control!ApplyLook, Control!HeadIs
      <4>2. Tail(batch) \in Seq(Control!Actions) /\ Len(Tail(batch)) = Len(batch) - 1
        BY <1>1, <4>1
      <4>3. Len(Control!Unkeyed(queue)) <= Len(queue)
        BY <1>1, UnkeyedShorter
      <4>4. Len(Control!Unkeyed(Tail(batch))) <= Len(Tail(batch))
        BY <4>2, UnkeyedShorter
      <4>5. /\ Control!Unkeyed(queue) \in Seq(Control!Actions)
            /\ Control!Unkeyed(Tail(batch)) \in Seq(Control!Actions)
        BY <1>1, <4>2, UnkeyedThinned
      <4>6. Len(Control!Unkeyed(queue)) \in Nat /\ Len(Control!Unkeyed(Tail(batch))) \in Nat
        BY <4>5
      <4> QED
        BY <1>1, <4>1, <4>2, <4>3, <4>4, <4>6 DEF WorkBounded
    <3> QED
      BY <1>10, <3>1, <3>2
  <2> QED
    BY <2>2, <2>3 DEF WorkBounded
<1>11. CASE UNCHANGED Control!vars
  BY <1>11 DEF Control!vars, WorkBounded
<1> QED
  BY <1>2, <1>4, <1>5, <1>6, <1>7, <1>8, <1>9, <1>10, <1>11
  DEF Control!Next, Control!Main

\* Whatever the browsers send and however slowly Main draws, the queue and a
\* frame's batch never hold more than MAX_PENDING_ACTIONS, displacements and
\* coalescing included, and the monitor no more than
\* MAX_CORRELATED_ACTIONS_IN_FLIGHT (enqueue_bounded_detailed,
\* record_applied_action_identity).
THEOREM WorkIsBounded ==
  ASSUME BoundsAssumed
  PROVE  Control!Spec => []WorkBounded
<1>1. Control!Init => WorkBounded
  <2>1. IsFiniteSet({}) /\ Cardinality({}) = 0
    BY FS_EmptySet
  <2> QED
    BY <2>1 DEF Control!Init, WorkBounded, BoundsAssumed, ControlAssumption
<1>2. ControlInv /\ WorkBounded /\ [Control!Next]_(Control!vars) => WorkBounded'
  BY BoundsStep
<1>3. ControlAssumption
  BY DEF BoundsAssumed
<1>4. Control!Spec => []ControlInv
  BY <1>3, ControlInvariant
<1> QED
  BY <1>1, <1>2, <1>4, PTL DEF Control!Spec

----------------------------------------------------------------------------
(***************************************************************************)
(* Barriers: what a queued reset, capture or topology edit will observe is *)
(* what was set before it, whatever is coalesced meanwhile.                *)
(***************************************************************************)
\* The greatest of some positions, by what characterises it.
LEMMA MaxIs ==
  ASSUME NEW n \in Nat, NEW T \in SUBSET (1..n), NEW m \in T,
         \A y \in T : m >= y
  PROVE  Control!Max(T) = m
<1>1. Control!Max(T) \in T /\ \A y \in T : Control!Max(T) >= y
  BY MaxIn
<1>2. Control!Max(T) \in Int /\ m \in Int
  <2>1. T \subseteq Int
    OBVIOUS
  <2> QED
    BY <1>1, <2>1
<1>3. Control!Max(T) >= m /\ m >= Control!Max(T)
  BY <1>1
<1> QED
  BY <1>2, <1>3

\* The positions before i that set the value of k.
Sets(q, i, k) == {j \in 1..(i - 1): q[j].kind = "set" /\ q[j].key = k}

LEMMA ViewIs ==
  ASSUME NEW v, NEW q, NEW i
  PROVE  Control!View(v, q, i)
           = [k \in Keys |-> IF Sets(q, i, k) = {} THEN v[k]
                             ELSE q[Control!Max(Sets(q, i, k))].seq]
BY DEF Control!View, Sets

\* Only what waits before it counts.
LEMMA ViewOfPrefix ==
  ASSUME NEW v, NEW q, NEW r, NEW i \in Nat, \A j \in 1..(i - 1): r[j] = q[j]
  PROVE  Control!View(v, q, i) = Control!View(v, r, i)
<1>1. ASSUME NEW k \in Keys
      PROVE  /\ Sets(q, i, k) = Sets(r, i, k)
             /\ Sets(q, i, k) # {} =>
                  q[Control!Max(Sets(q, i, k))] = r[Control!Max(Sets(q, i, k))]
  <2>1. Sets(q, i, k) = Sets(r, i, k)
    BY DEF Sets
  <2>2. ASSUME Sets(q, i, k) # {}
        PROVE  Control!Max(Sets(q, i, k)) \in 1..(i - 1)
    <3>1. i = 0 \/ i - 1 \in Nat
      OBVIOUS
    <3>2. i # 0
      BY <2>2 DEF Sets
    <3>3. Sets(q, i, k) \in SUBSET (1..(i - 1))
      BY DEF Sets
    <3> QED
      BY <2>2, <3>1, <3>2, <3>3, MaxIn
  <2> QED
    BY <2>1, <2>2
<1> QED
  BY <1>1, ViewIs

\* The head moves into the values when it sets one.
LEMMA ViewOfTail ==
  ASSUME NEW S, NEW q \in Seq(S), NEW i \in DOMAIN q, i # 1, NEW v, NEW u,
         \A k \in Keys: u[k] = IF q[1].kind = "set" /\ q[1].key = k
                               THEN q[1].seq ELSE v[k]
  PROVE  Control!View(v, q, i) = Control!View(u, Tail(q), i - 1)
<1> DEFINE r == Tail(q)
           h == i - 1
<1>1. /\ i \in 2..Len(q) /\ h \in 1..(Len(q) - 1) /\ h \in Nat /\ h - 1 \in Nat
      /\ i - 1 \in Nat /\ q # <<>> /\ Len(q) \in Nat
  OBVIOUS
<1>2. \A j \in 1..(Len(q) - 1): r[j] = q[j + 1]
  BY <1>1
<1> HIDE DEF r
<1>3. ASSUME NEW k \in Keys
      PROVE  (IF Sets(q, i, k) = {} THEN v[k]
              ELSE q[Control!Max(Sets(q, i, k))].seq)
             = (IF Sets(r, h, k) = {} THEN u[k]
                ELSE r[Control!Max(Sets(r, h, k))].seq)
  <2> DEFINE A == Sets(q, i, k)
             B == Sets(r, h, k)
  <2>1. A \in SUBSET (1..(i - 1)) /\ B \in SUBSET (1..(h - 1))
    BY DEF Sets
  <2>2. \A j \in 1..(h - 1): j \in B <=> j + 1 \in A
    <3>1. \A j \in 1..(h - 1): r[j] = q[j + 1] /\ j + 1 \in 1..(i - 1)
      BY <1>1, <1>2
    <3> QED
      BY <3>1 DEF Sets
  <2>3. 1 \in A <=> q[1].kind = "set" /\ q[1].key = k
    BY <1>1 DEF Sets
  <2>4. \A j \in A: j = 1 \/ (j - 1 \in 1..(h - 1) /\ j - 1 \in B)
    <3>1. ASSUME NEW j \in A, j # 1
          PROVE  j - 1 \in 1..(h - 1) /\ (j - 1) + 1 = j
      BY <1>1, <2>1, <3>1
    <3> QED
      BY <2>2, <3>1
  <2> HIDE DEF A, B, h
  <2>5. CASE B # {}
    <3> DEFINE m == Control!Max(B)
    <3>1. m \in B /\ \A y \in B: m >= y
      BY <1>1, <2>1, <2>5, MaxIn
    <3> HIDE DEF m
    <3>2. m \in 1..(h - 1) /\ m + 1 \in A
      BY <2>1, <2>2, <3>1
    <3>3. ASSUME NEW y \in A PROVE m + 1 >= y
      <4>1. CASE y = 1
        BY <3>2, <4>1
      <4>2. CASE y - 1 \in B
        <5>1. m >= y - 1 /\ y \in 1..(i - 1)
          BY <2>1, <3>1, <4>2
        <5> QED
          BY <1>1, <3>2, <5>1
      <4> QED
        BY <2>4, <4>1, <4>2
    <3>4. Control!Max(A) = m + 1
      BY <1>1, <2>1, <3>2, <3>3, MaxIs
    <3>5. r[m] = q[m + 1]
      <4>1. m \in 1..(Len(q) - 1)
        BY <1>1, <3>2
      <4> QED
        BY <1>2, <4>1
    <3> QED
      BY <2>5, <3>2, <3>4, <3>5 DEF A, B, m
  <2>6. CASE B = {} /\ 1 \in A
    <3>1. \A y \in A: 1 >= y
      BY <2>4, <2>6
    <3>2. Control!Max(A) = 1
      BY <1>1, <2>1, <2>6, <3>1, MaxIs
    <3> QED
      BY <2>3, <2>6, <3>2 DEF A, B
  <2>7. CASE B = {} /\ 1 \notin A
    <3>1. A = {}
      BY <2>4, <2>7
    <3> QED
      BY <2>3, <2>7, <3>1 DEF A, B
  <2> QED
    BY <2>5, <2>6, <2>7
<1> HIDE DEF h
<1>4. Control!View(v, q, i) = Control!View(u, r, h)
  BY <1>3, ViewIs
<1> QED
  BY <1>4 DEF r, h

\* Every barrier of q that is still in r observes in r what it did in q.
ViewsKept(v, q, u, r) ==
  \A i \in DOMAIN q, j \in DOMAIN r:
    q[i].seq = r[j].seq /\ ~Control!Keyed(q[i]) =>
      Control!View(v, q, i) = Control!View(u, r, j)

\* A queue that changes behind its barriers only.
LEMMA PrefixKeepsViews ==
  ASSUME NEW S, NEW q \in Seq(S), NEW R, NEW r \in Seq(R), Distinct(r), NEW v,
         NEW n \in Nat, n <= Len(r), \A j \in 1..n: r[j] = q[j],
         \A i \in DOMAIN q: i > n /\ ~Control!Keyed(q[i]) =>
           q[i].seq \notin Control!SeqsOf(r)
  PROVE  ViewsKept(v, q, v, r)
<1> SUFFICES ASSUME NEW i \in DOMAIN q, NEW j \in DOMAIN r,
                    q[i].seq = r[j].seq, ~Control!Keyed(q[i])
             PROVE  Control!View(v, q, i) = Control!View(v, r, j)
  BY DEF ViewsKept
<1>1. r[j].seq \in Control!SeqsOf(r)
  BY DEF Control!SeqsOf
<1>2. i \in Nat /\ i \in 1..n /\ i \in DOMAIN r
  BY <1>1
<1>3. i = j
  BY <1>2 DEF Distinct
<1>4. \A k \in 1..(i - 1): r[k] = q[k]
  BY <1>2
<1> QED
  BY <1>2, <1>3, <1>4, ViewOfPrefix

\* Main takes the head and holds its value.
LEMMA TailKeepsViews ==
  ASSUME NEW S, NEW q \in Seq(S), q # <<>>, Distinct(q), NEW v, NEW u,
         \A k \in Keys: u[k] = IF q[1].kind = "set" /\ q[1].key = k
                               THEN q[1].seq ELSE v[k]
  PROVE  ViewsKept(v, q, u, Tail(q))
<1> SUFFICES ASSUME NEW i \in DOMAIN q, NEW j \in DOMAIN Tail(q),
                    q[i].seq = Tail(q)[j].seq
             PROVE  Control!View(v, q, i) = Control!View(u, Tail(q), j)
  BY DEF ViewsKept
<1>1. j + 1 \in DOMAIN q /\ Tail(q)[j] = q[j + 1] /\ j \in Nat /\ i \in Nat
  OBVIOUS
<1>2. i = j + 1
  BY <1>1 DEF Distinct
<1>3. i # 1 /\ i - 1 = j
  BY <1>1, <1>2
<1> QED
  BY <1>3, ViewOfTail

\* Without values, every barrier observes what Main holds.
LEMMA NoSetsKeepViews ==
  ASSUME NEW q, NEW r, NEW v, \A i \in DOMAIN q: q[i].kind # "set",
         \A i \in DOMAIN r: r[i].kind # "set",
         \A i \in DOMAIN q: \A j \in 1..(i - 1): j \in DOMAIN q,
         \A i \in DOMAIN r: \A j \in 1..(i - 1): j \in DOMAIN r
  PROVE  ViewsKept(v, q, v, r)
<1> SUFFICES ASSUME NEW i \in DOMAIN q, NEW j \in DOMAIN r
             PROVE  Control!View(v, q, i) = Control!View(v, r, j)
  BY DEF ViewsKept
<1>1. \A k \in Keys: Sets(q, i, k) = {} /\ Sets(r, j, k) = {}
  BY DEF Sets
<1> QED
  BY <1>1, ViewIs

\* Two queues behind the same batch, alike up to position n.
LEMMA BehindBatchKeepsViews ==
  ASSUME NEW S, NEW b \in Seq(S), NEW q \in Seq(S), NEW r \in Seq(S),
         Distinct(b \o r), NEW v, NEW n \in 0..Len(q), n <= Len(r),
         \A j \in 1..n: r[j] = q[j],
         \A i \in DOMAIN q: i > n /\ ~Control!Keyed(q[i]) =>
           q[i].seq \notin Control!SeqsOf(b) \cup Control!SeqsOf(r)
  PROVE  ViewsKept(v, b \o q, v, b \o r)
<1> DEFINE bq == b \o q
           br == b \o r
<1>1. Len(b) \in Nat /\ Len(q) \in Nat /\ Len(r) \in Nat /\ n \in Nat
  OBVIOUS
<1>2. /\ bq \in Seq(S) /\ Len(bq) = Len(b) + Len(q)
      /\ \A i \in 1..(Len(b) + Len(q)):
           bq[i] = IF i <= Len(b) THEN b[i] ELSE q[i - Len(b)]
  BY ConcatProperties, Zenon
<1>3. /\ br \in Seq(S) /\ Len(br) = Len(b) + Len(r)
      /\ \A i \in 1..(Len(b) + Len(r)):
           br[i] = IF i <= Len(b) THEN b[i] ELSE r[i - Len(b)]
  BY ConcatProperties, Zenon
<1>4. Distinct(br)
  OBVIOUS
<1> HIDE DEF bq, br
<1>5. ASSUME NEW j \in 1..(Len(b) + n)
      PROVE  br[j] = bq[j]
  <2>1. j \in 1..(Len(b) + Len(q)) /\ j \in 1..(Len(b) + Len(r))
    BY <1>1
  <2>2. CASE j <= Len(b)
    BY <1>2, <1>3, <2>1, <2>2
  <2>3. CASE ~(j <= Len(b))
    <3>1. j - Len(b) \in 1..n
      BY <1>1, <2>3
    <3> QED
      BY <1>2, <1>3, <2>1, <2>3, <3>1
  <2> QED
    BY <2>2, <2>3
<1>6. ASSUME NEW i \in DOMAIN bq, i > Len(b) + n, ~Control!Keyed(bq[i])
      PROVE  bq[i].seq \notin Control!SeqsOf(br)
  <2>1. i \in 1..(Len(b) + Len(q)) /\ ~(i <= Len(b)) /\ i - Len(b) \in 1..Len(q)
        /\ i - Len(b) > n
    BY <1>1, <1>2, <1>6
  <2>2. bq[i] = q[i - Len(b)]
    BY <1>2, <2>1
  <2>3. bq[i].seq \notin Control!SeqsOf(b) \cup Control!SeqsOf(r)
    BY <1>6, <2>1, <2>2
  <2>4. Control!SeqsOf(br) \subseteq Control!SeqsOf(b) \cup Control!SeqsOf(r)
    <3>1. ASSUME NEW j \in DOMAIN br
          PROVE  br[j].seq \in Control!SeqsOf(b) \cup Control!SeqsOf(r)
      <4>1. j \in 1..(Len(b) + Len(r))
        BY <1>1, <1>3
      <4>2. CASE j <= Len(b)
        <5>1. j \in DOMAIN b /\ br[j] = b[j]
          BY <1>1, <1>3, <4>1, <4>2
        <5> QED
          BY <5>1 DEF Control!SeqsOf
      <4>3. CASE ~(j <= Len(b))
        <5>1. j - Len(b) \in DOMAIN r /\ br[j] = r[j - Len(b)]
          BY <1>1, <1>3, <4>1, <4>3
        <5> QED
          BY <5>1 DEF Control!SeqsOf
      <4> QED
        BY <4>2, <4>3
    <3> QED
      BY <3>1 DEF Control!SeqsOf
  <2> QED
    BY <2>3, <2>4
<1>7. Len(b) + n \in Nat /\ Len(b) + n <= Len(br)
  BY <1>1, <1>3
<1>8. ViewsKept(v, bq, v, br)
  BY <1>2, <1>3, <1>4, <1>5, <1>6, <1>7, PrefixKeepsViews
<1> QED
  BY <1>8 DEF bq, br

\* Nothing pending is refused or superseded by a step.
NothingEnded ==
  \A i \in DOMAIN (batch \o queue):
    receipt'[(batch \o queue)[i].seq] \notin {"Superseded", "Refused"}

\* Its sequences are those of the batch and of the queue.
LEMMA EndedIsNot ==
  ASSUME ControlInv, NothingEnded
  PROVE  \A s \in Control!SeqsOf(batch) \cup Control!SeqsOf(queue):
           receipt'[s] \notin {"Superseded", "Refused"}
<1> DEFINE p == batch \o queue
<1>1. /\ batch \in Seq(Control!Actions) /\ queue \in Seq(Control!Actions)
      /\ Len(batch) \in Nat /\ Len(queue) \in Nat
  BY DEF ControlInv, ControlTyped
<1>2. /\ p \in Seq(Control!Actions) /\ Len(p) = Len(batch) + Len(queue)
      /\ \A i \in 1..(Len(batch) + Len(queue)):
           p[i] = IF i <= Len(batch) THEN batch[i] ELSE queue[i - Len(batch)]
  BY <1>1, ConcatProperties, Zenon
<1>3. \A i \in DOMAIN p: receipt'[p[i].seq] \notin {"Superseded", "Refused"}
  BY DEF NothingEnded
<1> HIDE DEF p
<1>4. ASSUME NEW s \in Control!SeqsOf(batch)
      PROVE  receipt'[s] \notin {"Superseded", "Refused"}
  <2>1. PICK i \in DOMAIN batch: s = batch[i].seq
    BY DEF Control!SeqsOf
  <2>2. i \in DOMAIN p /\ p[i] = batch[i]
    BY <1>1, <1>2
  <2> QED
    BY <1>3, <2>1, <2>2
<1>5. ASSUME NEW s \in Control!SeqsOf(queue)
      PROVE  receipt'[s] \notin {"Superseded", "Refused"}
  <2>1. PICK i \in DOMAIN queue: s = queue[i].seq
    BY DEF Control!SeqsOf
  <2>2. /\ Len(batch) + i \in 1..(Len(batch) + Len(queue))
        /\ ~(Len(batch) + i <= Len(batch)) /\ (Len(batch) + i) - Len(batch) = i
    BY <1>1
  <2>3. Len(batch) + i \in DOMAIN p /\ p[Len(batch) + i] = queue[i]
    BY <1>2, <2>2
  <2> QED
    BY <1>3, <2>1, <2>3
<1> QED
  BY <1>4, <1>5

\* Admitting an action moves no value past a barrier.
LEMMA PushKeepsViews ==
  ASSUME ControlAssumption, ControlInv, ControlInv', NothingEnded,
         NEW a \in Control!Actions, a.seq \notin Control!SeqsOf(queue),
         Control!Push(a), UNCHANGED <<batch, store>>
  PROVE  ViewsKept(store, batch \o queue, store', batch' \o queue')
<1> DEFINE r == Control!Enqueue(queue, a)
<1>1. /\ batch \in Seq(Control!Actions) /\ queue \in Seq(Control!Actions)
      /\ queue' \in Seq(Control!Actions) /\ Len(queue) \in Nat
      /\ DOMAIN queue = 1..Len(queue)
  BY DEF ControlInv, ControlTyped
<1>2. Distinct(batch \o queue')
  <2>1. /\ batch' \in Seq(Control!Actions) /\ Distinct(batch') /\ Distinct(queue')
        /\ Control!SeqsOf(queue)' \cap Control!SeqsOf(batch)' = {}
    BY DEF ControlInv, ControlTyped, SharedOut, Shared
  <2>2. /\ Control!SeqsOf(queue)' = Control!SeqsOf(queue')
        /\ Control!SeqsOf(batch)' = Control!SeqsOf(batch)
    BY DEF Control!SeqsOf
  <2> QED
    BY <1>1, <2>1, <2>2, ConcatDistinct
<1>3. \/ Stays(queue, a, r)
      \/ r = Control!Result(Append(queue, a), {}, None, FALSE)
      \/ \E i \in DOMAIN queue: \/ Coalesces(queue, a, r, i)
                                \/ r = Control!Displace(queue, i, a, "Superseded")
  BY <1>1, EnqueueCases DEF ControlAssumption
<1>4. Effect(queue, a, r)
  BY <1>1, EnqueueEffect DEF ControlAssumption, ControlInv
<1>5. queue' = r.queue /\ Control!Settle(r.ended, r.as)
  BY DEF Control!Push
<1> HIDE DEF r
<1> SUFFICES ViewsKept(store, batch \o queue, store, batch \o queue')
  OBVIOUS
<1>6. CASE \/ Stays(queue, a, r)
           \/ r = Control!Result(Append(queue, a), {}, None, FALSE)
  <2>1. queue' = queue \/ queue' = Append(queue, a)
    BY <1>5, <1>6 DEF Stays, Control!Result
  <2>2. Len(queue) <= Len(queue') /\ \A j \in 1..Len(queue): queue'[j] = queue[j]
    BY <1>1, <2>1
  <2>3. \A i \in DOMAIN queue: ~(i > Len(queue))
    BY <1>1
  <2>4. Len(queue) \in 0..Len(queue)
    BY <1>1
  <2> QED
    BY <1>1, <1>2, <2>2, <2>3, <2>4, BehindBatchKeepsViews
<1>7. ASSUME NEW i \in DOMAIN queue, Coalesces(queue, a, r, i)
      PROVE  ViewsKept(store, batch \o queue, store, batch \o queue')
  <2> DEFINE rest == Control!RemoveAt(queue, i)
  <2>1. r.queue = Append(rest, a) /\ r.ended = {queue[i].seq}
    BY <1>7 DEF Coalesces, Control!Displace, Control!Result
  <2>2. /\ rest \in Seq(Control!Actions) /\ Len(rest) = Len(queue) - 1
        /\ \A j \in 1..(Len(queue) - 1):
             rest[j] = IF j < i THEN queue[j] ELSE queue[j + 1]
    BY <1>1, RemoveAtIs
  <2> HIDE DEF rest
  <2> DEFINE n == i - 1
  <2>3. /\ n \in 0..Len(queue) /\ n <= Len(queue') /\ i \in 1..Len(queue)
    BY <1>1, <1>5, <2>1, <2>2
  <2>4. \A j \in 1..n: queue'[j] = queue[j]
    <3>1. ASSUME NEW j \in 1..n
          PROVE  queue'[j] = queue[j]
      <4>1. j \in 1..(Len(queue) - 1) /\ j < i /\ j \in 1..Len(rest)
        BY <1>1, <2>2, <2>3
      <4>2. rest[j] = queue[j] /\ Append(rest, a)[j] = rest[j]
        BY <2>2, <4>1
      <4> QED
        BY <1>5, <2>1, <4>2
    <3> QED
      BY <3>1
  <2>5. queue[i].seq \notin Control!SeqsOf(batch) \cup Control!SeqsOf(queue')
    <3>1. queue[i].seq \in Control!SeqsOf(queue)
      BY DEF Control!SeqsOf
    <3>2. queue[i].seq \notin Control!SeqsOf(batch)
      BY <3>1 DEF ControlInv, SharedOut, Shared
    <3>3. queue[i].seq \notin Control!SeqsOf(r.queue)
      BY <1>4, <2>1 DEF Effect
    <3> QED
      BY <1>5, <3>2, <3>3
  <2>6. ASSUME NEW m \in DOMAIN queue, m > n, ~Control!Keyed(queue[m])
        PROVE  queue[m].seq \notin Control!SeqsOf(batch) \cup Control!SeqsOf(queue')
    <3>1. ~(m \in (i + 1)..Len(queue))
      BY <1>7, <2>6 DEF Coalesces
    <3>2. m = i
      BY <1>1, <2>3, <2>6, <3>1
    <3> QED
      BY <2>5, <3>2
  <2> HIDE DEF n
  <2> QED
    BY <1>1, <1>2, <2>3, <2>4, <2>6, BehindBatchKeepsViews
<1>8. ASSUME NEW i \in DOMAIN queue, r = Control!Displace(queue, i, a, "Superseded")
      PROVE  FALSE
  <2>1. r.ended = {queue[i].seq} /\ r.as = "Superseded"
    BY <1>8 DEF Control!Displace, Control!Result
  <2>2. queue[i].seq \in Control!SeqsOf(queue)
    BY DEF Control!SeqsOf
  <2>3. queue[i].seq \in DOMAIN receipt
    BY <2>2 DEF ControlAssumption, ControlInv, SharedOut, Shared, ControlTyped
  <2>4. receipt'[queue[i].seq] = "Superseded"
    BY <1>5, <2>1, <2>3 DEF Control!Settle
  <2> QED
    BY <2>2, <2>4, EndedIsNot
<1> QED
  BY <1>3, <1>6, <1>7, <1>8

\* The values Main holds, by key.
StoreTyped == store \in [Keys -> Nat]

\* Every step of Main keeps the barriers' views.
LEMMA SameViews ==
  ASSUME ControlInv, batch' \o queue' = batch \o queue, UNCHANGED store
  PROVE  ViewsKept(store, batch \o queue, store', batch' \o queue')
<1>1. batch \o queue \in Seq(Control!Actions) /\ Distinct(batch \o queue)
  BY ConcatDistinct DEF ControlInv, ControlTyped, SharedOut, Shared
<1>2. \A i, j \in DOMAIN (batch \o queue):
        (batch \o queue)[i].seq = (batch \o queue)[j].seq => i = j
  BY <1>1 DEF Distinct
<1> QED
  BY <1>2 DEF ViewsKept

LEMMA EmptyViews ==
  ASSUME NEW v, NEW q, NEW u
  PROVE  ViewsKept(v, q, u, <<>>)
BY DEF ViewsKept

LEMMA HeadViews ==
  ASSUME ControlInv, HeadTaken, UNCHANGED queue,
         \A k \in Keys:
           store'[k] = IF Head(batch).kind = "set" /\ Head(batch).key = k
                       THEN Head(batch).seq ELSE store[k]
  PROVE  ViewsKept(store, batch \o queue, store', batch' \o queue')
<1> DEFINE p == batch \o queue
<1>1. /\ batch \in Seq(Control!Actions) /\ queue \in Seq(Control!Actions)
      /\ batch # <<>> /\ batch' = Tail(batch) /\ queue' = queue
  BY DEF ControlInv, ControlTyped, HeadTaken
<1>2. /\ p \in Seq(Control!Actions) /\ p # <<>> /\ Head(p) = Head(batch)
      /\ Tail(p) = Tail(batch) \o queue
  BY <1>1, TailOfConcat
<1>3. Distinct(p)
  BY ConcatDistinct DEF ControlInv, ControlTyped, SharedOut, Shared
<1>4. batch' \o queue' = Tail(p)
  BY <1>1, <1>2
<1> HIDE DEF p
<1>5. Head(p) = p[1]
  BY <1>2
<1>6. ViewsKept(store, p, store', Tail(p))
  BY <1>2, <1>3, <1>5, TailKeepsViews
<1> QED
  BY <1>4, <1>6 DEF p

\* A look that supersedes nothing found no value pending.
LEMMA LookViews ==
  ASSUME ControlAssumption, ControlInv, NothingEnded, Control!ApplyLook
  PROVE  ViewsKept(store, batch \o queue, store', batch' \o queue')
<1> DEFINE p == batch \o queue
           ended == {p[i].seq : i \in {j \in DOMAIN p: Control!Keyed(p[j])}}
<1>1. /\ batch # <<>> /\ UNCHANGED store
      /\ batch' = Control!Unkeyed(Tail(batch)) /\ queue' = Control!Unkeyed(queue)
      /\ \A s \in DOMAIN receipt: s \in ended => receipt'[s] = "Superseded"
  BY DEF Control!ApplyLook, Control!HeadIs, Control!Pending
<1>2. /\ batch \in Seq(Control!Actions) /\ queue \in Seq(Control!Actions)
      /\ Tail(batch) \in Seq(Control!Actions)
  BY <1>1 DEF ControlInv, ControlTyped
<1>3. /\ p \in Seq(Control!Actions) /\ p # <<>>
      /\ Tail(p) = Tail(batch) \o queue
  BY <1>1, <1>2, TailOfConcat
<1>4. \A i \in DOMAIN p: receipt'[p[i].seq] \notin {"Superseded", "Refused"}
  BY DEF NothingEnded
<1>5. \A i \in DOMAIN p: p[i].seq \in DOMAIN receipt
  <2>1. Control!SeqsOf(batch) \cup Control!SeqsOf(queue) \subseteq DOMAIN receipt
    BY DEF ControlAssumption, ControlInv, SharedOut, Shared, ControlTyped
  <2>2. \A i \in DOMAIN p:
          p[i] = Head(batch) \/ p[i].seq \in Control!SeqsOf(Tail(batch))
            \/ p[i].seq \in Control!SeqsOf(queue)
    BY <1>1, <1>2, SeqsOfPending
  <2>3. /\ Control!SeqsOf(Tail(batch)) \subseteq Control!SeqsOf(batch)
        /\ Head(batch).seq \in Control!SeqsOf(batch)
    BY <1>1, <1>2, TailEffect DEF ControlInv
  <2> HIDE DEF p
  <2> QED
    BY <2>1, <2>2, <2>3
<1> HIDE DEF p
<1>6. \A i \in DOMAIN p: p[i].kind # "set"
  BY <1>1, <1>4, <1>5 DEF Control!Keyed
<1> HIDE DEF ended
<1>7. /\ batch' \in Seq(Control!Actions) /\ Thinned(batch', Tail(batch), Len(Tail(batch)))
      /\ queue' \in Seq(Control!Actions) /\ Thinned(queue', queue, Len(queue))
  BY <1>1, <1>2, UnkeyedThinned
<1>8. Thinned(batch' \o queue', Tail(p), Len(Tail(p)))
  BY <1>2, <1>3, <1>7, ConcatThinned
<1>9. batch' \o queue' \in Seq(Control!Actions)
  BY <1>7, ConcatProperties, Zenon
<1> DEFINE r == batch' \o queue'
<1>10. r \in Seq(Control!Actions) /\ Thinned(r, Tail(p), Len(Tail(p)))
  BY <1>8, <1>9
<1> HIDE DEF r
<1>11. \A i \in 1..Len(Tail(p)): Tail(p)[i].kind # "set"
  <2>1. \A i \in 1..Len(Tail(p)): Tail(p)[i] = p[i + 1] /\ i + 1 \in DOMAIN p
    BY <1>3
  <2> QED
    BY <1>6, <2>1
<1>12. \A i \in DOMAIN r: r[i].kind # "set"
  BY <1>10, <1>11 DEF Thinned
<1>13. /\ \A i \in DOMAIN p: \A j \in 1..(i - 1): j \in DOMAIN p
       /\ \A i \in DOMAIN r: \A j \in 1..(i - 1): j \in DOMAIN r
  BY <1>3, <1>10
<1>14. ViewsKept(store, p, store, r)
  BY <1>6, <1>12, <1>13, NoSetsKeepViews
<1> QED
  BY <1>1, <1>14 DEF p, r

\* A socket task changes the queue by admitting.
LEMMA SocketViews ==
  ASSUME ControlAssumption, ControlInv, ControlInv', NothingEnded,
         NEW c \in Clients, Control!Socket(c)
  PROVE  ViewsKept(store, batch \o queue, store', batch' \o queue')
<1>1. CASE Control!Admit(c)
  <2>1. /\ stage[c] = "queue" /\ Control!Push(flight[c]) /\ UNCHANGED <<batch, store>>
    BY <1>1 DEF Control!Admit, Control!main
  <2>2. flight[c] \in Control!Actions /\ flight[c] # None
    BY <2>1 DEF ControlInv, ControlTyped, Guarded
  <2>3. flight[c].seq \notin Control!SeqsOf(queue)
    <3>1. flight[c].seq \in Control!InFlight
      BY <2>2 DEF Control!InFlight
    <3> QED
      BY <3>1 DEF ControlInv, SharedOut, Shared
  <2> QED
    BY <2>1, <2>2, <2>3, PushKeepsViews
<1>2. CASE Control!Disconnect(c) /\ Control!Owns(c)
  <2> DEFINE a == [seq |-> minted', kind |-> "end", client |-> c, key |-> None]
  <2>1. /\ minted < MaxSequence /\ minted' = minted + 1 /\ Control!Push(a)
        /\ UNCHANGED <<batch, store>>
    BY <1>2 DEF Control!Disconnect, Control!main
  <2>2. a \in Control!Actions /\ a.seq = minted + 1 /\ minted \in Nat
    BY <2>1 DEF ControlInv, ControlTyped, ControlAssumption, Control!Actions,
                Control!Kinds, Control!Finish
  <2> HIDE DEF a
  <2>3. a.seq \notin Control!SeqsOf(queue)
    <3>1. minted + 1 \notin 1..minted
      BY <2>2
    <3> QED
      BY <2>2, <3>1 DEF ControlInv, SharedOut, Shared
  <2> QED
    BY <2>1, <2>2, <2>3, PushKeepsViews
<1>3. CASE ~Control!Admit(c) /\ ~(Control!Disconnect(c) /\ Control!Owns(c))
  <2>1. UNCHANGED <<batch, queue, store>>
    BY <1>3 DEF Control!Socket, Control!Mint, Control!Pass, Control!Refuse,
                Control!Vanish, Control!Disconnect, Control!main
  <2> QED
    BY <2>1, SameViews
<1> QED
  BY <1>1, <1>2, <1>3

\* The values stay values.
LEMMA StoreStep ==
  ASSUME ControlInv, StoreTyped, [Control!Next]_(Control!vars)
  PROVE  StoreTyped'
<1>1. CASE Control!ApplySet
  <2>1. /\ batch # <<>>
        /\ store' = [store EXCEPT ![Head(batch).key] = Head(batch).seq]
    BY <1>1 DEF Control!ApplySet, Control!HeadIs
  <2>2. Head(batch).seq \in Nat
    <3>1. Head(batch) \in Control!Actions
      BY <2>1 DEF ControlInv, ControlTyped
    <3> QED
      BY <3>1 DEF Control!Actions
  <2> QED
    BY <2>1, <2>2 DEF StoreTyped
<1>2. CASE Control!ApplyLoad
  BY <1>2 DEF Control!ApplyLoad, StoreTyped
<1>3. CASE ~Control!ApplySet /\ ~Control!ApplyLoad
  <2>1. store' = store
    BY <1>3 DEF Control!Next, Control!Main, Control!Socket, Control!vars,
                Control!main, Control!Mint, Control!Pass, Control!Refuse,
                Control!Admit, Control!Vanish, Control!Disconnect, Control!Drain,
                Control!ApplyRefused, Control!ApplyBegin, Control!ApplyFinish,
                Control!ApplyOther, Control!ApplyLook, Control!Automate,
                Control!Present, Control!Shutdown
  <2> QED
    BY <2>1 DEF StoreTyped
<1> QED
  BY <1>1, <1>2, <1>3

LEMMA ViewsStep ==
  ASSUME ControlAssumption, ControlInv, ControlInv', StoreTyped, NothingEnded,
         [Control!Next]_(Control!vars)
  PROVE  ViewsKept(store, batch \o queue, store', batch' \o queue')
<1>1. CASE \/ Control!ApplyBegin \/ Control!ApplyFinish \/ Control!ApplyOther
  <2>1. HeadTaken /\ UNCHANGED <<queue, store>> /\ Head(batch).kind # "set"
    BY <1>1 DEF Control!ApplyBegin, Control!ApplyFinish, Control!ApplyOther,
                Control!HeadIs, Control!Quiet, Control!sockets, Control!Finish,
                HeadTaken
  <2> QED
    BY <2>1, HeadViews
<1>2. CASE Control!ApplySet
  <2>1. /\ HeadTaken /\ UNCHANGED queue /\ Head(batch).kind = "set"
        /\ store' = [store EXCEPT ![Head(batch).key] = Head(batch).seq]
    BY <1>2 DEF Control!ApplySet, Control!HeadIs, Control!Quiet, Control!sockets,
                HeadTaken
  <2>2. \A k \in Keys:
          store'[k] = IF Head(batch).key = k THEN Head(batch).seq ELSE store[k]
    BY <2>1 DEF StoreTyped
  <2> QED
    BY <2>1, <2>2, HeadViews
<1>3. CASE Control!ApplyRefused
  <2>1. /\ HeadTaken /\ Control!Settle({Head(batch).seq}, "Refused")
    BY <1>3 DEF Control!ApplyRefused, Control!HeadIs, Control!Quiet,
                Control!sockets, HeadTaken
  <2>2. /\ Head(batch).seq \in Control!SeqsOf(batch)
        /\ Head(batch).seq \in DOMAIN receipt
    BY <2>1, HeadEffect DEF ControlInv, ControlTyped
  <2>3. receipt'[Head(batch).seq] = "Refused"
    BY <2>1, <2>2 DEF Control!Settle
  <2> QED
    BY <2>2, <2>3, EndedIsNot
<1>4. CASE Control!ApplyLoad \/ Control!Shutdown
  <2>1. batch' = <<>> /\ queue' = <<>>
    BY <1>4 DEF Control!ApplyLoad, Control!Shutdown, ControlInv
  <2>2. batch' \o queue' = <<>>
    BY <2>1
  <2> QED
    BY <2>2, EmptyViews
<1>5. CASE Control!Drain
  <2>1. /\ batch = <<>> /\ UNCHANGED store
        /\ \/ batch' = queue /\ queue' = <<>>
           \/ UNCHANGED <<batch, queue>>
    BY <1>5 DEF Control!Drain, ControlInv
  <2>2. batch \o queue = queue /\ queue \o <<>> = queue
    BY <2>1, ConcatEmptySeq DEF ControlInv, ControlTyped
  <2>3. batch' \o queue' = batch \o queue
    BY <2>1, <2>2
  <2> QED
    BY <2>1, <2>3, SameViews
<1>6. CASE Control!Automate \/ Control!Present \/ UNCHANGED Control!vars
  <2>1. UNCHANGED <<batch, queue, store>>
    BY <1>6 DEF Control!Automate, Control!Present, Control!vars, Control!main
  <2> QED
    BY <2>1, SameViews
<1> QED
  BY <1>1, <1>2, <1>3, <1>4, <1>5, <1>6, LookViews, SocketViews
  DEF Control!Next, Control!Main

\* Coalescing moves no value past a queued reset, capture or topology edit
\* (coalesce_key, enqueue_bounded_detailed, the batch and the looks), for any
\* clients, keys and size of queue.
THEOREM BarriersObserve ==
  ASSUME ControlAssumption
  PROVE  Control!Spec => BarriersKeepTheirView
<1>1. Control!Init => StoreTyped
  BY DEF Control!Init, StoreTyped
<1>2. ControlInv /\ StoreTyped /\ [Control!Next]_(Control!vars) => StoreTyped'
  BY StoreStep
<1>3. ControlInv /\ [Control!Next]_(Control!vars) => ControlInv'
  BY ControlStep
<1> DEFINE Kept ==
      (\A i \in DOMAIN Control!Pending:
         receipt'[Control!Pending[i].seq] \notin {"Superseded", "Refused"})
      => \A i \in DOMAIN Control!Pending, j \in DOMAIN Control!Pending':
           Control!Pending[i].seq = Control!Pending'[j].seq
             /\ ~Control!Keyed(Control!Pending[i])
             => Control!View(store, Control!Pending, i)
                  = Control!View(store', Control!Pending', j)
<1>4. ControlInv /\ StoreTyped /\ ControlInv' /\ [Control!Next]_(Control!vars)
        => [Kept]_(Control!vars)
  <2> SUFFICES ASSUME ControlInv, StoreTyped, ControlInv',
                      [Control!Next]_(Control!vars),
                      \A i \in DOMAIN Control!Pending:
                        receipt'[Control!Pending[i].seq]
                          \notin {"Superseded", "Refused"}
               PROVE  \A i \in DOMAIN Control!Pending, j \in DOMAIN Control!Pending':
                        Control!Pending[i].seq = Control!Pending'[j].seq
                          /\ ~Control!Keyed(Control!Pending[i])
                          => Control!View(store, Control!Pending, i)
                               = Control!View(store', Control!Pending', j)
    OBVIOUS
  <2>1. NothingEnded
    BY DEF NothingEnded, Control!Pending
  <2>2. ViewsKept(store, batch \o queue, store', batch' \o queue')
    BY <2>1, ViewsStep
  <2> QED
    BY <2>2 DEF ViewsKept, Control!Pending
<1>5. Control!Spec => []ControlInv
  BY ControlInvariant
<1> QED
  BY <1>1, <1>2, <1>3, <1>4, <1>5, PTL
  DEF Control!Spec, BarriersKeepTheirView, Control!BarriersKeepTheirView

----------------------------------------------------------------------------
(***************************************************************************)
(* The history: an open gesture has the controller that will end it.       *)
(*                                                                         *)
(* The editor notes Begin and End in turn.  What it holds is told of any   *)
(* history h and editor e, so that it can be told in the middle of a frame *)
(* too.                                                                    *)
(***************************************************************************)
Boundaries == [kind: {"begin", "end"}, id: Nat \ {0}]

Openings ==
  {o \in [id: Nat \ {0}, by: {"page", "stroke", "gizmo", "editor"},
          origin: {"browser", "native"}, before: Worlds] :
     o.by \in {"editor", "gizmo"} => o.origin = "native"}

Histories ==
  [world: Worlds, undo: Seq(Worlds), redo: Seq(Worlds), open: Openings \cup {None},
   begin: [id: Nat \ {0}, world: Worlds] \cup {None}]

Editors ==
  [active: BOOLEAN, focus: BOOLEAN, field: Nat, next: Nat \ {0},
   boundaries: Seq(Boundaries), identity: Nat]

HistoryAssumption ==
  /\ FirstWorld \in Worlds /\ MaxEntries \in Nat \ {0, 1}
  /\ MaxId \in Nat /\ MaxFields \in Nat
  /\ None \notin Openings /\ None \notin {"browser", "native"}
  /\ None \notin [id: Nat \ {0}, world: Worlds]

EndOf(id) == [kind |-> "end", id |-> id]

BeginOf(id) == [kind |-> "begin", id |-> id]

\* A Begin is followed by its End, the field's own Begin by nothing yet.
Alternates(e) ==
  \A i \in 1..Len(e.boundaries):
    IF e.boundaries[i].kind = "begin"
    THEN IF i < Len(e.boundaries)
         THEN e.boundaries[i + 1] = EndOf(e.boundaries[i].id)
         ELSE e.field = e.boundaries[i].id
    ELSE IF i < Len(e.boundaries) THEN e.boundaries[i + 1].kind = "begin"
         ELSE e.field = 0

\* The next that the editor will say of gesture id is its End.
Closes(e, id) ==
  IF e.boundaries = <<>> THEN e.field = id ELSE e.boundaries[1] = EndOf(id)

ByEditor(h) == h.open # None /\ h.open.by = "editor"

EditorHolds(h, e) ==
  ByEditor(h) => e.identity = h.open.id /\ Closes(e, h.open.id)

EditorOwns(h, e) == e.identity # 0 => ByEditor(h)

FieldIsOpen(h, e) == e.field # 0 /\ e.boundaries = <<>> => ByEditor(h)

\* The keyboard is in a field of the editor, which is drawn.
Focused(e) == e.focus => e.active /\ e.field # 0

\* The keyboard is in a field while a native gesture is open: it is the
\* editor's, and applied.
FocusOwns(h, e) ==
  e.focus /\ History!OpenOrigin(h) = "native" => ByEditor(h) /\ e.boundaries = <<>>

\* What the editor and the history agree on between the parts of a frame.
Agree(h, e) ==
  /\ h \in Histories /\ e \in Editors /\ Alternates(e)
  /\ EditorHolds(h, e) /\ EditorOwns(h, e) /\ FieldIsOpen(h, e) /\ Focused(e)

\* EndField notes the End of the field, once.
LEMMA EndFieldIs ==
  ASSUME NEW e \in Editors, Alternates(e)
  PROVE  /\ History!EndField(e) \in Editors /\ Alternates(History!EndField(e))
         /\ History!EndField(e).field = 0
         /\ e.field # 0 => History!EndField(e).boundaries # <<>>
         /\ History!EndField(e).active = e.active
         /\ History!EndField(e).focus = e.focus
         /\ History!EndField(e).next = e.next
         /\ History!EndField(e).identity = e.identity
         /\ \A id \in Nat \ {0} : Closes(e, id) => Closes(History!EndField(e), id)
         /\ \A i \in 1..Len(e.boundaries) :
              /\ i \in 1..Len(History!EndField(e).boundaries)
              /\ History!EndField(e).boundaries[i] = e.boundaries[i]
         /\ e.boundaries = <<>> =>
              History!EndField(e).boundaries =
                IF e.field = 0 THEN <<>> ELSE <<EndOf(e.field)>>
         /\ History!EndField(e).boundaries # <<>> =>
              /\ Len(History!EndField(e).boundaries) \in 1..(Len(e.boundaries) + 1)
              /\ History!EndField(e).boundaries[Len(History!EndField(e).boundaries)].kind = "end"
<1> DEFINE b == e.boundaries
<1>1. b \in Seq(Boundaries) /\ Len(b) \in Nat /\ e.field \in Nat
  BY DEF Editors
<1>2. CASE e.field = 0
  <2>1. History!EndField(e) = e
    BY <1>2 DEF History!EndField
  <2>2. ASSUME b # <<>>
        PROVE  Len(b) \in 1..Len(b) /\ b[Len(b)].kind = "end"
    <3>1. Len(b) \in 1..Len(b) /\ b[Len(b)] \in Boundaries
      BY <1>1, <2>2
    <3> QED
      BY <1>2, <3>1 DEF Alternates, Boundaries
  <2> QED
    BY <1>1, <1>2, <2>1, <2>2
<1>3. CASE e.field # 0
  <2> DEFINE c == Append(b, EndOf(e.field))
             d == History!EndField(e)
  <2>1. d = [e EXCEPT !.field = 0, !.boundaries = c]
    BY <1>3 DEF History!EndField, EndOf
  <2>2. /\ c \in Seq(Boundaries) /\ Len(c) = Len(b) + 1 /\ c # <<>>
        /\ c[Len(b) + 1] = EndOf(e.field)
        /\ \A i \in 1..Len(b) : c[i] = b[i]
    BY <1>1, <1>3 DEF EndOf, Boundaries
  <2>3. /\ d \in Editors /\ d.field = 0 /\ d.boundaries = c
        /\ d.active = e.active /\ d.focus = e.focus /\ d.next = e.next
        /\ d.identity = e.identity
    <3> HIDE DEF c, d
    <3>1. e.boundaries \in Seq(Boundaries) /\ c \in Seq(Boundaries)
      BY <2>2 DEF Editors
    <3> QED
      BY <2>1, <3>1 DEF Editors
  <2>4. Alternates(d)
    <3> SUFFICES ASSUME NEW i \in 1..Len(c)
                 PROVE  IF c[i].kind = "begin"
                        THEN IF i < Len(c) THEN c[i + 1] = EndOf(c[i].id)
                             ELSE d.field = c[i].id
                        ELSE IF i < Len(c) THEN c[i + 1].kind = "begin"
                             ELSE d.field = 0
      BY <2>3 DEF Alternates
    <3>1. CASE i = Len(b) + 1
      BY <1>1, <2>2, <2>3, <3>1 DEF EndOf
    <3>2. CASE i = Len(b)
      <4>1. i \in 1..Len(b) /\ c[i] = b[i] /\ c[i + 1] = EndOf(e.field) /\ i < Len(c)
        BY <1>1, <2>2, <3>2
      <4>2. b[i].kind = "begin" /\ b[i].id = e.field
        BY <1>1, <1>3, <3>2, <4>1 DEF Alternates
      <4> QED
        BY <4>1, <4>2
    <3>3. CASE i < Len(b)
      <4>1. i \in 1..Len(b) /\ i + 1 \in 1..Len(b) /\ i < Len(c)
        BY <1>1, <2>2, <3>3
      <4>2. c[i] = b[i] /\ c[i + 1] = b[i + 1]
        BY <2>2, <4>1
      <4> QED
        BY <3>3, <4>1, <4>2 DEF Alternates
    <3> QED
      BY <1>1, <2>2, <3>1, <3>2, <3>3
  <2>5. \A id \in Nat \ {0} : Closes(e, id) => Closes(d, id)
    <3> SUFFICES ASSUME NEW id \in Nat \ {0}, Closes(e, id)
                 PROVE  c[1] = EndOf(id)
      BY <2>2, <2>3 DEF Closes
    <3>1. CASE b = <<>>
      BY <2>2, <3>1 DEF Closes
    <3>2. CASE b # <<>>
      <4>1. 1 \in 1..Len(b)
        BY <1>1, <3>2
      <4> QED
        BY <2>2, <3>2, <4>1 DEF Closes
    <3> QED
      BY <3>1, <3>2
  <2>6. b = <<>> => c = <<EndOf(e.field)>>
    BY <2>2
  <2>7. c[Len(c)].kind = "end" /\ Len(c) \in 1..(Len(b) + 1)
    BY <1>1, <2>2 DEF EndOf
  <2>8. \A i \in 1..Len(b) : i \in 1..Len(c) /\ c[i] = b[i]
    BY <1>1, <2>2
  <2> HIDE DEF c
  <2> QED
    BY <1>3, <2>2, <2>3, <2>4, <2>5, <2>6, <2>7, <2>8
<1> QED
  BY <1>2, <1>3

LEMMA FinishActiveEditIs ==
  ASSUME NEW e \in Editors, Alternates(e)
  PROVE  /\ History!FinishActiveEdit(e) = [History!EndField(e) EXCEPT !.focus = FALSE]
         /\ History!FinishActiveEdit(e) \in Editors
         /\ Alternates(History!FinishActiveEdit(e))
         /\ History!FinishActiveEdit(e).field = 0
         /\ ~History!FinishActiveEdit(e).focus
         /\ History!FinishActiveEdit(e).boundaries = History!EndField(e).boundaries
         /\ History!FinishActiveEdit(e).identity = e.identity
         /\ History!FinishActiveEdit(e).next = e.next
<1> DEFINE d == History!EndField(e)
<1>1. d \in Editors /\ Alternates(d) /\ d.field = 0 /\ d.identity = e.identity
      /\ d.next = e.next
  BY EndFieldIs
<1>2. History!FinishActiveEdit(e) = [d EXCEPT !.focus = FALSE]
  BY DEF History!FinishActiveEdit
<1> HIDE DEF d
<1>3. /\ [d EXCEPT !.focus = FALSE] \in Editors
      /\ [d EXCEPT !.focus = FALSE].field = 0
      /\ [d EXCEPT !.focus = FALSE].focus = FALSE
      /\ [d EXCEPT !.focus = FALSE].boundaries = d.boundaries
      /\ [d EXCEPT !.focus = FALSE].identity = e.identity
      /\ [d EXCEPT !.focus = FALSE].next = e.next
  BY <1>1 DEF Editors
<1>4. Alternates([d EXCEPT !.focus = FALSE])
  BY <1>1, <1>3 DEF Alternates
<1> QED
  BY <1>2, <1>3, <1>4 DEF d

LEMMA BeginFieldIs ==
  ASSUME NEW e \in Editors, Alternates(e)
  PROVE  /\ History!BeginField(e) \in Editors /\ Alternates(History!BeginField(e))
         /\ History!BeginField(e).field # 0
         /\ History!BeginField(e).boundaries # <<>>
         /\ History!BeginField(e).active = e.active
         /\ History!BeginField(e).identity = e.identity
         /\ \A id \in Nat \ {0} : Closes(e, id) => Closes(History!BeginField(e), id)
<1> DEFINE d == History!EndField(e)
           b == d.boundaries
           c == Append(b, BeginOf(e.next))
           r == [d EXCEPT !.boundaries = c, !.field = e.next, !.focus = TRUE,
                          !.next = d.next + 1]
<1>1. /\ d \in Editors /\ Alternates(d) /\ d.field = 0 /\ d.identity = e.identity
      /\ d.next = e.next /\ d.active = e.active /\ e.next \in Nat \ {0}
      /\ b \in Seq(Boundaries) /\ Len(b) \in Nat
      /\ \A id \in Nat \ {0} : Closes(e, id) => Closes(d, id)
  <2>1. /\ d \in Editors /\ Alternates(d) /\ d.field = 0 /\ d.identity = e.identity
        /\ d.next = e.next /\ d.active = e.active
        /\ \A id \in Nat \ {0} : Closes(e, id) => Closes(d, id)
    BY EndFieldIs
  <2> HIDE DEF d
  <2>2. e.next \in Nat \ {0} /\ d.boundaries \in Seq(Boundaries)
    BY <2>1 DEF Editors
  <2> QED
    BY <2>1, <2>2
<1>2. History!BeginField(e) = r
  BY DEF History!BeginField, BeginOf
<1>3. /\ c \in Seq(Boundaries) /\ Len(c) = Len(b) + 1 /\ c # <<>>
      /\ c[Len(b) + 1] = BeginOf(e.next)
      /\ \A i \in 1..Len(b) : c[i] = b[i]
  BY <1>1 DEF BeginOf, Boundaries
<1>4. /\ r \in Editors /\ r.field = e.next /\ r.boundaries = c
      /\ r.active = e.active /\ r.identity = e.identity
  <2> HIDE DEF c, d
  <2>1. e.next + 1 \in Nat \ {0} /\ d.next + 1 = e.next + 1
    BY <1>1
  <2> QED
    BY <1>1, <1>3, <2>1 DEF Editors
<1> HIDE DEF r
<1>5. Alternates(r)
  <2> SUFFICES ASSUME NEW i \in 1..Len(c)
               PROVE  IF c[i].kind = "begin"
                      THEN IF i < Len(c) THEN c[i + 1] = EndOf(c[i].id)
                           ELSE r.field = c[i].id
                      ELSE IF i < Len(c) THEN c[i + 1].kind = "begin"
                           ELSE r.field = 0
    BY <1>4 DEF Alternates
  <2>1. CASE i = Len(b) + 1
    BY <1>1, <1>3, <1>4, <2>1 DEF BeginOf
  <2>2. CASE i = Len(b)
    <3>1. i \in 1..Len(b) /\ c[i] = b[i] /\ c[i + 1] = BeginOf(e.next) /\ i < Len(c)
      BY <1>1, <1>3, <2>2
    <3>2. b[i].kind # "begin"
      <4>1. b[i].kind = "begin" => d.field = b[i].id
        BY <1>1, <2>2, <3>1 DEF Alternates
      <4>2. b[i] \in Boundaries
        BY <1>1, <3>1
      <4> QED
        BY <1>1, <4>1, <4>2 DEF Boundaries
    <3> QED
      BY <3>1, <3>2 DEF BeginOf
  <2>3. CASE i < Len(b)
    <3>1. i \in 1..Len(b) /\ i + 1 \in 1..Len(b) /\ i < Len(c)
      BY <1>1, <1>3, <2>3
    <3>2. c[i] = b[i] /\ c[i + 1] = b[i + 1]
      BY <1>3, <3>1
    <3> QED
      BY <1>1, <2>3, <3>1, <3>2 DEF Alternates
  <2> QED
    BY <1>1, <1>3, <2>1, <2>2, <2>3
<1>6. ASSUME NEW id \in Nat \ {0}, Closes(e, id)
      PROVE  Closes(r, id)
  <2>1. b # <<>>
    BY <1>1, <1>6 DEF Closes
  <2>2. b[1] = EndOf(id) /\ 1 \in 1..Len(b)
    BY <1>1, <1>6, <2>1 DEF Closes
  <2> QED
    BY <1>3, <1>4, <2>2 DEF Closes
<1> QED
  BY <1>1, <1>2, <1>3, <1>4, <1>5, <1>6

\* What the editor may have become when its boundaries are applied.
InputOk(u) ==
  /\ u.press \in BOOLEAN /\ u.world \in Worlds
  /\ u.e.identity = editor.identity /\ Agree(hist, u.e)

\* Giving up the field, or beginning another, keeps what the two agree on.
LEMMA EndFieldAgrees ==
  ASSUME NEW h, NEW e, Agree(h, e)
  PROVE  /\ ~e.focus => Agree(h, History!EndField(e))
         /\ Agree(h, History!FinishActiveEdit(e))
         /\ e.active => Agree(h, History!BeginField(e))
<1>1. e \in Editors /\ Alternates(e)
  BY DEF Agree
<1> DEFINE d == History!EndField(e)
           f == History!FinishActiveEdit(e)
           g == History!BeginField(e)
<1>2. /\ d \in Editors /\ Alternates(d) /\ d.field = 0
      /\ d.focus = e.focus /\ d.active = e.active
      /\ d.identity = e.identity
      /\ \A id \in Nat \ {0} : Closes(e, id) => Closes(d, id)
  BY <1>1, EndFieldIs
<1>3. /\ f \in Editors /\ Alternates(f) /\ f.field = 0 /\ ~f.focus
      /\ f.boundaries = d.boundaries /\ f.identity = e.identity
  BY <1>1, FinishActiveEditIs
<1>4. /\ g \in Editors /\ Alternates(g) /\ g.field # 0 /\ g.active = e.active
      /\ g.boundaries # <<>> /\ g.identity = e.identity
      /\ \A id \in Nat \ {0} : Closes(e, id) => Closes(g, id)
  BY <1>1, BeginFieldIs
<1>5. ByEditor(h) => h.open.id \in Nat \ {0}
  BY DEF Agree, ByEditor, Histories, Openings
<1> HIDE DEF d, f, g
<1>6. \A id \in Nat \ {0} : Closes(e, id) => Closes(f, id)
  BY <1>2, <1>3 DEF Closes
<1>7. ~e.focus => Agree(h, d)
  BY <1>2, <1>5 DEF Agree, EditorHolds, EditorOwns, FieldIsOpen, Focused
<1>8. Agree(h, f)
  BY <1>3, <1>5, <1>6 DEF Agree, EditorHolds, EditorOwns, FieldIsOpen, Focused
<1>9. e.active => Agree(h, g)
  BY <1>4, <1>5 DEF Agree, EditorHolds, EditorOwns, FieldIsOpen, Focused
<1> QED
  BY <1>7, <1>8, <1>9 DEF d, f, g

\* The keyboard leaves a field, or returns to it.
LEMMA FocusAgrees ==
  ASSUME NEW h, NEW e, Agree(h, e), NEW f \in BOOLEAN,
         f => e.active /\ e.field # 0
  PROVE  /\ Agree(h, [e EXCEPT !.focus = f])
         /\ [e EXCEPT !.focus = f].boundaries = e.boundaries
         /\ [e EXCEPT !.focus = f].identity = e.identity
         /\ [e EXCEPT !.focus = f].focus = f
<1> DEFINE d == [e EXCEPT !.focus = f]
<1>1. e \in Editors
  BY DEF Agree
<1>2. /\ d \in Editors /\ d.focus = f /\ d.active = e.active /\ d.field = e.field
      /\ d.boundaries = e.boundaries /\ d.identity = e.identity
  BY <1>1 DEF Editors
<1> HIDE DEF d
<1>3. Alternates(d)
  BY <1>2 DEF Agree, Alternates
<1>4. Agree(h, d)
  BY <1>2, <1>3
  DEF Agree, EditorHolds, Closes, EditorOwns, FieldIsOpen, Focused
<1> QED
  BY <1>2, <1>4 DEF d

\* Whatever the input of a frame, the two still agree before the boundaries
\* are applied.
LEMMA InputsAreOk ==
  ASSUME Agree(hist, editor), NEW u \in History!Inputs
  PROVE  InputOk(u)
<1>1. hist \in Histories /\ editor \in Editors /\ Alternates(editor)
  BY DEF Agree
<1>2. hist.world \in Worlds
  BY <1>1 DEF Histories
<1> DEFINE Ok(e) == e.identity = editor.identity /\ Agree(hist, e)
<1>3. /\ Ok(editor) /\ Ok(History!FinishActiveEdit(editor))
      /\ ~editor.focus => Ok(History!EndField(editor))
      /\ editor.active => Ok(History!BeginField(editor))
      /\ Ok([editor EXCEPT !.focus = FALSE])
      /\ editor.active /\ editor.field # 0 => Ok([editor EXCEPT !.focus = TRUE])
  <2>1. Ok(editor)
    OBVIOUS
  <2>2. Ok(History!FinishActiveEdit(editor))
    BY <1>1, EndFieldAgrees, FinishActiveEditIs
  <2>3. ~editor.focus => Ok(History!EndField(editor))
    BY <1>1, EndFieldAgrees, EndFieldIs
  <2>4. editor.active => Ok(History!BeginField(editor))
    BY <1>1, EndFieldAgrees, BeginFieldIs
  <2>5. Ok([editor EXCEPT !.focus = FALSE])
    BY FocusAgrees
  <2>6. editor.active /\ editor.field # 0 => Ok([editor EXCEPT !.focus = TRUE])
    BY FocusAgrees
  <2> QED
    BY <2>1, <2>2, <2>3, <2>4, <2>5, <2>6
<1>7. ASSUME NEW press \in BOOLEAN, NEW e, Ok(e), NEW w \in Worlds,
             u = [press |-> press, e |-> e, world |-> w]
      PROVE  InputOk(u)
  BY <1>7 DEF InputOk
<1> HIDE DEF Ok
<1>4. CASE ~History!Drawn
  <2>1. PICK press \in BOOLEAN :
          u = [press |-> press, e |-> [editor EXCEPT !.focus = FALSE],
               world |-> hist.world]
    BY <1>4 DEF History!Inputs
  <2> QED
    BY <1>2, <1>3, <1>7, <2>1
<1>5. CASE History!Drawn /\ editor.focus
  <2>1. \/ u = [press |-> FALSE, e |-> editor, world |-> hist.world]
        \/ \E press \in BOOLEAN, w \in Worlds :
             u = [press |-> press, e |-> editor, world |-> w]
        \/ \E w \in Worlds :
             u = [press |-> TRUE, e |-> History!FinishActiveEdit(editor), world |-> w]
    BY <1>5 DEF History!Inputs
  <2> QED
    BY <1>2, <1>3, <1>7, <2>1
<1>6. CASE History!Drawn /\ ~editor.focus
  <2>1. \/ \E press \in BOOLEAN :
             u = [press |-> press, e |-> editor, world |-> hist.world]
        \/ \E press \in BOOLEAN :
             u = [press |-> press, e |-> History!BeginField(editor), world |-> hist.world]
        \/ \E f \in {editor.field} \ {0} :
             u = [press |-> TRUE, e |-> [editor EXCEPT !.focus = TRUE],
                  world |-> hist.world]
        \/ u = [press |-> FALSE, e |-> History!EndField(editor), world |-> hist.world]
    BY <1>6 DEF History!Inputs
  <2>2. editor.active
    BY <1>6 DEF History!Drawn
  <2> QED
    BY <1>2, <1>3, <1>6, <1>7, <2>1, <2>2
<1> QED
  BY <1>4, <1>5, <1>6

LEMMA QuietIsOk ==
  ASSUME Agree(hist, editor)
  PROVE  InputOk(History!Quiet)
<1>1. editor \in Editors /\ hist \in Histories
  BY DEF Agree
<1>3. Agree(hist, [editor EXCEPT !.focus = editor.focus /\ History!Drawn])
      /\ [editor EXCEPT !.focus = editor.focus /\ History!Drawn].identity = editor.identity
  <2> DEFINE f == editor.focus /\ History!Drawn
  <2>1. f \in BOOLEAN
    BY <1>1 DEF Editors, History!Drawn
  <2>2. f => editor.active /\ editor.field # 0
    BY DEF Agree, Focused
  <2> HIDE DEF f
  <2>3. /\ Agree(hist, [editor EXCEPT !.focus = f])
        /\ [editor EXCEPT !.focus = f].identity = editor.identity
    BY <2>1, <2>2, FocusAgrees
  <2> QED
    BY <2>3 DEF f
<1>4. History!Quiet.e = [editor EXCEPT !.focus = editor.focus /\ History!Drawn]
      /\ History!Quiet.press = FALSE /\ History!Quiet.world = hist.world
  BY DEF History!Quiet
<1>5. hist.world \in Worlds
  BY <1>1 DEF Histories
<1> QED
  BY <1>3, <1>4, <1>5 DEF InputOk

\* Trim drops the oldest undo entries, then redo entries.
LEMMA TrimIs ==
  ASSUME HistoryAssumption, NEW h \in Histories, NEW room \in Nat
  PROVE  /\ History!Trim(h, room) \in Histories
         /\ History!Trim(h, room).world = h.world
         /\ History!Trim(h, room).open = h.open
         /\ History!Trim(h, room).begin = h.begin
         /\ Len(h.undo) + room - MaxEntries < Len(h.undo) /\ h.redo = <<>> /\ h.undo # <<>> =>
              /\ History!Trim(h, room).undo # <<>>
              /\ History!Last(History!Trim(h, room).undo) = History!Last(h.undo)
              /\ History!Trim(h, room).redo = <<>>
<1> DEFINE over == Len(h.undo) + Len(h.redo) + room - MaxEntries
           fromUndo == IF over < Len(h.undo) THEN over ELSE Len(h.undo)
           u == SubSeq(h.undo, fromUndo + 1, Len(h.undo))
           r == SubSeq(h.redo, over - fromUndo + 1, Len(h.redo))
<1>1. /\ h.undo \in Seq(Worlds) /\ h.redo \in Seq(Worlds)
      /\ Len(h.undo) \in Nat /\ Len(h.redo) \in Nat /\ MaxEntries \in Nat
      /\ over \in Int /\ DOMAIN h.undo = 1..Len(h.undo)
  BY DEF Histories, HistoryAssumption
<1>2. History!Trim(h, room) =
        IF over <= 0 THEN h ELSE [h EXCEPT !.undo = u, !.redo = r]
  BY DEF History!Trim
<1>3. CASE over <= 0
  BY <1>1, <1>2, <1>3
<1>4. CASE ~(over <= 0)
  <2>1. fromUndo \in 0..Len(h.undo) /\ over - fromUndo \in Nat
    <3> HIDE DEF over
    <3>1. fromUndo = IF over < Len(h.undo) THEN over ELSE Len(h.undo)
      OBVIOUS
    <3> HIDE DEF fromUndo
    <3> QED
      BY <1>1, <1>4, <3>1
  <2>2. u \in Seq(Worlds) /\ r \in Seq(Worlds)
    <3> HIDE DEF over, fromUndo
    <3>1. /\ fromUndo + 1 \in Nat \ {0} /\ over - fromUndo + 1 \in Nat \ {0}
      BY <2>1
    <3>2. /\ \A i \in (fromUndo + 1)..Len(h.undo) : h.undo[i] \in Worlds
          /\ \A i \in (over - fromUndo + 1)..Len(h.redo) : h.redo[i] \in Worlds
      BY <1>1, <3>1
    <3> QED
      BY <1>1, <3>1, <3>2
  <2>3. /\ [h EXCEPT !.undo = u, !.redo = r] \in Histories
        /\ [h EXCEPT !.undo = u, !.redo = r].world = h.world
        /\ [h EXCEPT !.undo = u, !.redo = r].open = h.open
        /\ [h EXCEPT !.undo = u, !.redo = r].begin = h.begin
        /\ [h EXCEPT !.undo = u, !.redo = r].undo = u
        /\ [h EXCEPT !.undo = u, !.redo = r].redo = r
    <3> HIDE DEF u, r
    <3> QED
      BY <2>2 DEF Histories
  <2>4. ASSUME Len(h.undo) + room - MaxEntries < Len(h.undo), h.redo = <<>>,
               h.undo # <<>>
        PROVE  u # <<>> /\ History!Last(u) = History!Last(h.undo) /\ r = <<>>
    <3>1. Len(h.redo) = 0 /\ fromUndo = over /\ over < Len(h.undo)
      BY <1>1, <2>4
    <3> DEFINE n == Len(h.undo)
    <3>2. u = SubSeq(h.undo, over + 1, n) /\ n \in Nat /\ over \in Nat
                /\ over < n
      <4>1. u = SubSeq(h.undo, fromUndo + 1, Len(h.undo))
        OBVIOUS
      <4>2. over \in Nat
        <5> HIDE DEF over
        <5> QED
          BY <1>1, <1>4
      <4> HIDE DEF over, fromUndo, u
      <4> QED
        BY <1>1, <3>1, <4>1, <4>2
    <3>3. Len(u) = n - over /\ Len(u) \in Nat \ {0} /\ u[Len(u)] = h.undo[n]
      <4> HIDE DEF over, u
      <4>1. Len(u) = n - over
        BY <1>1, <3>2
      <4> HIDE DEF n
      <4>2. n - over \in Nat \ {0} /\ (over + 1) + (n - over) - 1 = n
        BY <3>2
      <4>3. u[n - over] = h.undo[n]
        BY <1>1, <3>2, <4>2 DEF n
      <4> QED
        BY <4>1, <4>2, <4>3
    <3>4. r = <<>>
      BY <1>1, <2>4, <3>1
    <3> QED
      BY <3>3, <3>4 DEF History!Last
  <2> HIDE DEF u, r
  <2> QED
    BY <1>2, <1>4, <2>3, <2>4
<1> QED
  BY <1>1, <1>3, <1>4

\* What is pushed is what Undo leads back to.
LEMMA PushIs ==
  ASSUME HistoryAssumption, NEW h \in Histories, NEW before \in Worlds
  PROVE  /\ History!Push(h, before) \in Histories
         /\ History!Push(h, before).world = h.world
         /\ History!Push(h, before).open = h.open
         /\ History!Push(h, before).undo # <<>>
         /\ History!Last(History!Push(h, before).undo) = before
         /\ History!Push(h, before).redo = <<>>
<1> DEFINE d == [h EXCEPT !.undo = Append(h.undo, before), !.redo = <<>>]
<1>1. /\ Append(h.undo, before) \in Seq(Worlds) /\ Append(h.undo, before) # <<>>
      /\ Len(Append(h.undo, before)) \in Nat
      /\ History!Last(Append(h.undo, before)) = before
  BY DEF Histories, History!Last
<1>2. /\ d \in Histories /\ d.world = h.world /\ d.open = h.open
      /\ d.undo = Append(h.undo, before) /\ d.redo = <<>>
  <2>1. <<>> \in Seq(Worlds)
    OBVIOUS
  <2> QED
    BY <1>1, <2>1 DEF Histories
<1>3. History!Push(h, before) = History!Trim(d, 0)
  BY DEF History!Push
<1> HIDE DEF d
<1>4. Len(d.undo) + 0 - MaxEntries < Len(d.undo)
  <2>1. Len(d.undo) \in Nat
    BY <1>1, <1>2
  <2>2. MaxEntries \in Nat /\ MaxEntries > 0
    BY DEF HistoryAssumption
  <2>3. ASSUME NEW n \in Nat
        PROVE  n + 0 - MaxEntries < n
    BY <2>2
  <2> QED
    BY ONLY <2>1, <2>3
<1>5. d.undo # <<>> /\ History!Last(d.undo) = before
  BY <1>1, <1>2
<1>6. /\ History!Trim(d, 0) \in Histories
      /\ History!Trim(d, 0).world = d.world
      /\ History!Trim(d, 0).open = d.open
      /\ History!Trim(d, 0).undo # <<>>
      /\ History!Last(History!Trim(d, 0).undo) = History!Last(d.undo)
      /\ History!Trim(d, 0).redo = <<>>
  BY <1>2, <1>4, <1>5, TrimIs
<1> QED
  BY <1>2, <1>3, <1>5, <1>6

LEMMA FinishGestureIs ==
  ASSUME HistoryAssumption, NEW h \in Histories, NEW id
  PROVE  LET d == History!FinishGesture(h, id)
         IN /\ d \in Histories /\ d.world = h.world
            /\ ~History!Matches(h, id) => d = h
            /\ History!Matches(h, id) =>
                 /\ d.open = None
                 /\ h.open.before # h.world =>
                      /\ d.undo # <<>> /\ History!Last(d.undo) = h.open.before
                      /\ d.redo = <<>>
<1> DEFINE c == [h EXCEPT !.open = None, !.begin = None]
<1>1. CASE ~History!Matches(h, id)
  BY <1>1 DEF History!FinishGesture
<1>2. CASE History!Matches(h, id)
  <2>1. h.open.before \in Worlds
    BY <1>2 DEF History!Matches, Histories, Openings
  <2>2. c \in Histories /\ c.world = h.world /\ c.open = None
    BY DEF Histories
  <2>3. History!FinishGesture(h, id) =
          IF h.open.before = h.world THEN c ELSE History!Push(c, h.open.before)
    BY <1>2 DEF History!FinishGesture
  <2> HIDE DEF c
  <2> QED
    BY <1>2, <2>1, <2>2, <2>3, PushIs
<1> QED
  BY <1>1, <1>2

LEMMA CancelGestureIs ==
  ASSUME HistoryAssumption, NEW h \in Histories, NEW id
  PROVE  LET d == History!CancelGesture(h, id)
         IN /\ d \in Histories /\ d.world = h.world
            /\ ~History!Matches(h, id) => d = h
            /\ History!Matches(h, id) => d.open = None
BY DEF History!CancelGesture, Histories

LEMMA BeginGestureIs ==
  ASSUME HistoryAssumption, NEW h \in Histories, NEW o \in Openings
  PROVE  LET d == History!BeginGesture(h, o.id, o.by, o.origin, o.before)
         IN /\ d \in Histories /\ d.world = h.world
            /\ h.open # None => d = h
            /\ h.open = None => d.open = o
            /\ h.undo # <<>> /\ h.redo = <<>> => d.undo # <<>> /\ History!Last(d.undo) = History!Last(h.undo)
<1> DEFINE t == History!Trim(h, 1)
           d == [t EXCEPT
                   !.open = [id |-> o.id, by |-> o.by, origin |-> o.origin,
                             before |-> o.before],
                   !.begin = [id |-> o.id, world |-> o.before]]
<1>1. /\ t \in Histories /\ t.world = h.world
      /\ h.undo # <<>> /\ h.redo = <<>> => t.undo # <<>> /\ History!Last(t.undo) = History!Last(h.undo)
  <2>1. Len(h.undo) \in Nat
    BY DEF Histories
  <2>2. Len(h.undo) + 1 - MaxEntries < Len(h.undo)
    BY <2>1 DEF HistoryAssumption
  <2> QED
    BY <2>2, TrimIs
<1>2. o = [id |-> o.id, by |-> o.by, origin |-> o.origin, before |-> o.before]
      /\ o.before \in Worlds /\ o.id \in Nat \ {0}
  BY DEF Openings
<1>3. History!BeginGesture(h, o.id, o.by, o.origin, o.before) =
        IF h.open # None THEN h ELSE d
  BY DEF History!BeginGesture
<1> HIDE DEF t
<1>4. d \in Histories /\ d.world = h.world /\ d.open = o /\ d.undo = t.undo
  <2>1. d = [t EXCEPT !.open = o, !.begin = [id |-> o.id, world |-> o.before]]
    BY <1>2
  <2> HIDE DEF d
  <2> QED
    BY <1>1, <1>2, <2>1 DEF Histories
<1> HIDE DEF d
<1> QED
  BY <1>1, <1>3, <1>4

\* Undo leads straight back to world w.
LeadsTo(h, w) == h.undo # <<>> /\ History!Last(h.undo) = w /\ h.redo = <<>>

Progress ==
  {s \in [h: Histories, e: Editors, fresh: BOOLEAN, before: Worlds,
          slips: SUBSET {"foreign end"}] : Alternates(s.e)}

\* Where the frame is after the first i boundaries of e, if nothing slipped: s
\* is what it has made of history h and editor e.
Midway(h, e, fresh, before, s, i) ==
  /\ s.h.world = h.world /\ s.before = before
  /\ s.fresh => fresh /\ s.h = h /\ s.h.open = None
  /\ ByEditor(s.h) =>
       /\ s.e.identity = s.h.open.id
       /\ IF i < Len(e.boundaries) THEN e.boundaries[i + 1] = EndOf(s.h.open.id)
          ELSE s.e.field = s.h.open.id /\ s.e.boundaries = <<>>
  /\ s.e.identity # 0 => ByEditor(s.h)
  /\ \/ /\ s.e.boundaries = <<>> /\ s.e.field = e.field
        /\ s.e.active = e.active /\ s.e.focus = e.focus
     \/ ~s.fresh /\ s.e.field = 0 /\ ~s.e.focus
  /\ \A j \in 1..i : e.boundaries[j].kind = "begin" => ~s.fresh
  /\ i > 0 /\ e.boundaries[i].kind = "begin" => ByEditor(s.h) \/ s.e.field = 0
  /\ h.open # None /\ ~ByEditor(h) => s.h = h
  /\ s.h.open # None /\ ~ByEditor(s.h) => s.h = h
  /\ ByEditor(h) => IF i = 0 THEN s.h = h
                    ELSE /\ s.h.open = None
                         /\ h.open.before = h.world \/ LeadsTo(s.h, h.open.before)
  /\ fresh /\ before # h.world =>
       \/ s.fresh
       \/ ByEditor(s.h) /\ s.h.open.before = before
       \/ s.h.open = None /\ LeadsTo(s.h, before)

LEMMA EndApplied ==
  ASSUME HistoryAssumption, NEW h, NEW e \in Editors, NEW fresh, NEW before, Alternates(e),
         NEW i \in 1..Len(e.boundaries), e.boundaries[i].kind = "end",
         NEW s \in Progress, s.slips = {} => Midway(h, e, fresh, before, s, i - 1)
  PROVE  LET r == History!ApplyBoundary(s, e.boundaries[i])
         IN /\ r \in Progress
            /\ r.slips = {} => Midway(h, e, fresh, before, r, i)
<1> DEFINE b == e.boundaries[i]
           r == History!ApplyBoundary(s, b)
           d == [s.e EXCEPT !.identity = 0]
           c == History!FinishGesture(s.h, b.id)
<1>0. Len(e.boundaries) \in Nat /\ i \in Nat \ {0} /\ b \in Boundaries
      /\ (i - 1) + 1 = i /\ i - 1 < Len(e.boundaries)
  BY DEF Editors
<1>1. /\ s.h \in Histories /\ s.e \in Editors /\ s.fresh \in BOOLEAN /\ s.before \in Worlds
      /\ s.slips \in SUBSET {"foreign end"} /\ Alternates(s.e)
  BY DEF Progress
<1>2. /\ d \in Editors /\ d.identity = 0 /\ d.boundaries = s.e.boundaries
      /\ d.field = s.e.field /\ d.active = s.e.active /\ d.focus = s.e.focus
  BY <1>1 DEF Editors
<1>3. /\ c \in Histories /\ c.world = s.h.world
      /\ ~History!Matches(s.h, b.id) => c = s.h
      /\ History!Matches(s.h, b.id) =>
           /\ c.open = None
           /\ s.h.open.before # s.h.world => LeadsTo(c, s.h.open.before)
  BY <1>1, FinishGestureIs DEF LeadsTo
<1>4. r = [s EXCEPT !.h = c, !.e = d,
                    !.slips = s.slips \cup History!Meets(s.h, b.id, "editor")]
  BY DEF History!ApplyBoundary, Progress
<1>5. History!Meets(s.h, b.id, "editor") \in SUBSET {"foreign end"}
  BY DEF History!Meets
<1> HIDE DEF c, d
<1>6. /\ r.h = c /\ r.e = d /\ r.fresh = s.fresh /\ r.before = s.before
      /\ r.slips = s.slips \cup History!Meets(s.h, b.id, "editor")
      /\ r \in Progress
  <2>1. Alternates(d)
    BY <1>1, <1>2 DEF Alternates
  <2>2. s \in [h: Histories, e: Editors, fresh: BOOLEAN, before: Worlds,
               slips: SUBSET {"foreign end"}]
    BY DEF Progress
  <2>3. s.slips \cup History!Meets(s.h, b.id, "editor") \in SUBSET {"foreign end"}
    BY <1>1, <1>5
  <2> HIDE DEF b
  <2>4. /\ r.h = c /\ r.e = d /\ r.fresh = s.fresh /\ r.before = s.before
        /\ r.slips = s.slips \cup History!Meets(s.h, b.id, "editor")
    BY <1>4, <2>2
  <2>5. r \in [h: Histories, e: Editors, fresh: BOOLEAN, before: Worlds,
               slips: SUBSET {"foreign end"}]
    BY <1>2, <1>3, <1>4, <2>2, <2>3
  <2> QED
    BY <2>1, <2>4, <2>5 DEF Progress
<1> HIDE DEF r
<1>7. ASSUME r.slips = {}
      PROVE  Midway(h, e, fresh, before, r, i)
  <2>1. /\ Midway(h, e, fresh, before, s, i - 1)
        /\ History!Matches(s.h, b.id) => s.h.open.by = "editor"
    BY <1>6, <1>7 DEF History!Meets
  <2>2. ByEditor(s.h) => b = EndOf(s.h.open.id)
    BY <1>0, <2>1 DEF Midway
  <2> HIDE DEF b
  <2>3. ByEditor(s.h) <=> History!Matches(s.h, b.id)
    <3>1. ByEditor(s.h) => b.id = s.h.open.id
      BY <2>2 DEF EndOf
    <3> QED
      BY <2>1, <3>1 DEF ByEditor, History!Matches
  <2>11. \A j \in 1..i : j \in 1..(i - 1) \/ j = i
    BY <1>0
  <2> USE <1>0, <1>1, <1>2, <1>3, <1>6
  <2>4. ~ByEditor(c)
    BY <2>3 DEF ByEditor
  <2>5. /\ r.h.world = h.world /\ r.before = before
        /\ r.fresh => fresh /\ r.h = h /\ r.h.open = None
        /\ h.open # None /\ ~ByEditor(h) => r.h = h
        /\ r.h.open # None => r.h = h
    <3>1. History!Matches(s.h, b.id) => s.h.open # None /\ ByEditor(s.h)
      BY <2>3 DEF ByEditor
    <3>2. h.open # None /\ ~ByEditor(h) => s.h = h
      BY <2>1 DEF Midway
    <3> QED
      BY <2>1, <2>3, <3>1, <3>2 DEF Midway
  <2>7. \/ /\ r.e.boundaries = <<>> /\ r.e.field = e.field
           /\ r.e.active = e.active /\ r.e.focus = e.focus
        \/ ~r.fresh /\ r.e.field = 0 /\ ~r.e.focus
    BY <2>1 DEF Midway
  <2>8. \A j \in 1..i : e.boundaries[j].kind = "begin" => ~r.fresh
    <3>1. \A j \in 1..(i - 1) : e.boundaries[j].kind = "begin" => ~s.fresh
      BY <2>1 DEF Midway
    <3> QED
      BY <2>11, <3>1
  <2>9. ByEditor(h) => /\ r.h.open = None
                       /\ h.open.before = h.world \/ LeadsTo(r.h, h.open.before)
    <3>1. CASE i - 1 = 0
      <4>1. ByEditor(h) => s.h = h
        BY <2>1, <3>1 DEF Midway
      <4> QED
        BY <2>3, <4>1
    <3>2. CASE i - 1 # 0
      <4>1. ByEditor(h) => /\ s.h.open = None
                           /\ h.open.before = h.world \/ LeadsTo(s.h, h.open.before)
        BY <2>1, <3>2 DEF Midway
      <4> QED
        BY <2>3, <4>1 DEF ByEditor
    <3> QED
      BY <3>1, <3>2
  <2>10. fresh /\ before # h.world =>
           \/ r.fresh
           \/ ByEditor(r.h) /\ r.h.open.before = before
           \/ r.h.open = None /\ LeadsTo(r.h, before)
    <3>1. fresh /\ before # h.world =>
            \/ s.fresh
            \/ ByEditor(s.h) /\ s.h.open.before = before
            \/ s.h.open = None /\ LeadsTo(s.h, before)
      BY <2>1 DEF Midway
    <3>2. s.h.world = h.world
      BY <2>1 DEF Midway
    <3> QED
      BY <2>3, <3>1, <3>2 DEF ByEditor
  <2> QED
    BY <2>4, <2>5, <2>7, <2>8, <2>9, <2>10 DEF Midway, b
<1> QED
  BY <1>6, <1>7 DEF r

LEMMA BeginApplied ==
  ASSUME HistoryAssumption, NEW h, NEW e \in Editors, NEW fresh, NEW before, Alternates(e),
         NEW i \in 1..Len(e.boundaries), e.boundaries[i].kind = "begin",
         NEW s \in Progress, s.slips = {} => Midway(h, e, fresh, before, s, i - 1)
  PROVE  LET r == History!ApplyBoundary(s, e.boundaries[i])
         IN /\ r \in Progress
            /\ r.slips = {} => Midway(h, e, fresh, before, r, i)
<1> DEFINE b == e.boundaries[i]
           r == History!ApplyBoundary(s, b)
<1>0. Len(e.boundaries) \in Nat /\ i \in Nat \ {0} /\ b \in Boundaries
      /\ (i - 1) + 1 = i /\ i - 1 < Len(e.boundaries)
  BY DEF Editors
<1>1. /\ s.h \in Histories /\ s.e \in Editors /\ s.fresh \in BOOLEAN /\ s.before \in Worlds
      /\ s.slips \in SUBSET {"foreign end"} /\ Alternates(s.e)
  BY DEF Progress
<1>2. b.id \in Nat \ {0} /\ b.kind = "begin"
  <2>1. b.kind = "begin"
    OBVIOUS
  <2> HIDE DEF b
  <2> QED
    BY <1>0, <2>1 DEF Boundaries
<1>3. CASE s.fresh
  <2> DEFINE o == [id |-> b.id, by |-> "editor", origin |-> "native", before |-> s.before]
             c == History!BeginGesture(s.h, b.id, "editor", "native", s.before)
             d == [s.e EXCEPT !.identity = IF s.h.open = None THEN b.id ELSE 0]
  <2>1. o \in Openings /\ o.id = b.id /\ o.by = "editor" /\ o.origin = "native"
        /\ o.before = s.before
    BY <1>1, <1>2 DEF Openings
  <2>2. /\ c \in Histories /\ c.world = s.h.world
        /\ s.h.open = None => c.open = o
    <3> HIDE DEF o
    <3>1. c = History!BeginGesture(s.h, o.id, o.by, o.origin, o.before)
      BY <2>1
    <3> HIDE DEF c
    <3>2. LET x == History!BeginGesture(s.h, o.id, o.by, o.origin, o.before)
          IN x \in Histories /\ x.world = s.h.world /\ (s.h.open = None => x.open = o)
      BY <1>1, <2>1, BeginGestureIs
    <3> QED
      BY <3>1, <3>2
  <2>3. /\ d \in Editors /\ d.identity = (IF s.h.open = None THEN b.id ELSE 0)
        /\ d.boundaries = s.e.boundaries /\ d.field = s.e.field
        /\ d.active = s.e.active /\ d.focus = s.e.focus
    BY <1>1, <1>2 DEF Editors
  <2>4. r = [s EXCEPT !.h = c, !.e = d, !.fresh = FALSE]
    BY <1>2, <1>3 DEF History!ApplyBoundary, Progress
  <2> HIDE DEF c, d
  <2>5. /\ r.h = c /\ r.e = d /\ r.fresh = FALSE /\ r.before = s.before
        /\ r.slips = s.slips /\ r \in Progress
    <3>1. Alternates(d)
      BY <1>1, <2>3 DEF Alternates
    <3> QED
      BY <1>1, <2>2, <2>3, <2>4, <3>1 DEF Progress
  <2> HIDE DEF r
  <2>6. ASSUME r.slips = {}
        PROVE  Midway(h, e, fresh, before, r, i)
    <3>1. Midway(h, e, fresh, before, s, i - 1)
      BY <2>5, <2>6
    <3>2. s.h = h /\ h.open = None /\ fresh /\ s.before = before
      BY <1>3, <3>1 DEF Midway
    <3>3. r.h.open = o /\ o # None /\ ByEditor(r.h) /\ r.h.world = h.world
      BY <2>1, <2>2, <2>5, <3>2 DEF ByEditor, HistoryAssumption
    <3>4. r.e.identity = b.id /\ r.h.open.id = b.id /\ r.h.open.before = before
      BY <2>1, <2>3, <2>5, <3>2, <3>3
    <3>5. ~ByEditor(h)
      BY <3>2 DEF ByEditor
    <3>6. /\ r.e.boundaries = <<>> /\ r.e.field = e.field
          /\ r.e.active = e.active /\ r.e.focus = e.focus
      BY <1>3, <2>3, <2>5, <3>1 DEF Midway
    <3>7. IF i < Len(e.boundaries) THEN e.boundaries[i + 1] = EndOf(b.id)
          ELSE e.field = b.id
      BY <1>0, <1>2 DEF Alternates
    <3> HIDE DEF b, o
    <3>8. IF i < Len(e.boundaries) THEN e.boundaries[i + 1] = EndOf(r.h.open.id)
          ELSE r.e.field = r.h.open.id /\ r.e.boundaries = <<>>
      <4>1. CASE i < Len(e.boundaries)
        BY <3>4, <3>7, <4>1
      <4>2. CASE ~(i < Len(e.boundaries))
        BY <3>4, <3>6, <3>7, <4>2
      <4> QED
        BY <4>1, <4>2
    <3> QED
      BY <1>0, <2>5, <3>2, <3>3, <3>4, <3>5, <3>6, <3>8 DEF Midway
  <2> QED
    BY <2>5, <2>6 DEF r
<1>4. CASE ~s.fresh
  <2> DEFINE f == History!FinishActiveEdit(s.e)
             d == [f EXCEPT !.active = FALSE]
  <2>1. r = [s EXCEPT !.e = d]
    BY <1>2, <1>4 DEF History!ApplyBoundary, Progress
  <2>2. /\ f \in Editors /\ Alternates(f) /\ f.field = 0 /\ ~f.focus
        /\ f.identity = s.e.identity
        /\ s.e.field = 0 => f.boundaries = s.e.boundaries
    <3>1. s.e.field = 0 => History!EndField(s.e) = s.e
      BY DEF History!EndField
    <3> QED
      BY <1>1, <3>1, FinishActiveEditIs
  <2> HIDE DEF f
  <2>3. /\ d \in Editors /\ d.field = 0 /\ ~d.focus /\ d.identity = f.identity
        /\ d.boundaries = f.boundaries
    BY <2>2 DEF Editors
  <2> HIDE DEF d
  <2>4. Alternates(d)
    BY <2>2, <2>3 DEF Alternates
  <2>5. /\ r.h = s.h /\ r.e = d /\ r.fresh = FALSE /\ r.before = s.before
        /\ r.slips = s.slips /\ r \in Progress
    BY <1>1, <1>4, <2>1, <2>3, <2>4 DEF Progress
  <2> HIDE DEF r
  <2>6. ASSUME r.slips = {}
        PROVE  Midway(h, e, fresh, before, r, i)
    <3>1. Midway(h, e, fresh, before, s, i - 1)
      BY <2>5, <2>6
    <3>2. ~ByEditor(s.h)
      <4>1. ByEditor(s.h) => b = EndOf(s.h.open.id)
        BY <1>0, <3>1 DEF Midway
      <4> QED
        BY <1>2, <4>1 DEF EndOf
    <3>3. r.e.identity = 0
      BY <1>1, <2>2, <2>3, <2>5, <3>1, <3>2 DEF Midway, Editors
    <3>4. ByEditor(h) => /\ r.h.open = None
                         /\ h.open.before = h.world \/ LeadsTo(r.h, h.open.before)
      BY <2>5, <3>1, <3>2 DEF Midway
    <3>5. \A j \in 1..i : e.boundaries[j].kind = "begin" => ~r.fresh
      BY <2>5
    <3> HIDE DEF b
    <3> QED
      BY <1>0, <1>4, <2>3, <2>5, <3>1, <3>2, <3>3, <3>4, <3>5 DEF Midway
  <2> QED
    BY <2>5, <2>6 DEF r
<1> QED
  BY <1>3, <1>4

\* The recursion of ApplyBoundaries defines a function.
Part(after, start, b, i) ==
  IF i = 0 THEN start ELSE History!ApplyBoundary(after[i - 1], b[i])

Parts(after, start, b, n) == after = [i \in 0..n |-> Part(after, start, b, i)]

LEMMA PartsExist ==
  ASSUME NEW S, NEW b \in Seq(S), NEW start, NEW n \in 0..Len(b)
  PROVE  \E after : Parts(after, start, b, n)
<1> DEFINE T == {m \in 0..Len(b): ~\E f : Parts(f, start, b, m)}
<1> SUFFICES ASSUME T # {}
             PROVE  FALSE
  OBVIOUS
<1>1. T \in SUBSET Nat
  OBVIOUS
<1>2. PICK m \in T : \A k \in T : m <= k
  <2> HIDE DEF T
  <2> QED
    BY <1>1, LeastNat
<1>3. m # 0
  <2> DEFINE first == [i \in 0..0 |-> start]
  <2>1. Parts(first, start, b, 0)
    BY DEF Part, Parts
  <2> QED
    BY <2>1
<1>4. m \in Nat /\ m - 1 \in 0..Len(b) /\ m - 1 \notin T
  BY <1>1, <1>2, <1>3
<1>5. PICK u : u = [i \in 0..(m - 1) |-> Part(u, start, b, i)]
  BY <1>4 DEF Parts
<1> DEFINE f == [i \in 0..m |-> IF i < m THEN u[i] ELSE Part(u, start, b, m)]
<1>6. ASSUME NEW i \in 0..m
      PROVE  f[i] = Part(f, start, b, i)
  <2>1. f[i] = Part(u, start, b, i)
    <3>1. CASE i < m
      <4>1. i \in 0..(m - 1)
        BY <1>4, <3>1
      <4>2. u[i] = Part(u, start, b, i)
        BY <1>5, <4>1
      <4> QED
        BY <3>1, <4>2
    <3>2. CASE i = m
      BY <1>4, <3>2
    <3> QED
      BY <1>4, <3>1, <3>2
  <2>2. CASE i = 0
    BY <2>1, <2>2 DEF Part
  <2>3. CASE i # 0
    <3>1. i - 1 \in 0..(m - 1) /\ f[i - 1] = u[i - 1]
      BY <1>4, <2>3
    <3> QED
      BY <2>1, <2>3, <3>1 DEF Part
  <2> QED
    BY <2>2, <2>3
<1>7. Parts(f, start, b, m)
  BY <1>6 DEF Parts
<1> QED
  BY <1>2, <1>7

\* What applying all boundaries of e makes of h and e.
LEMMA BoundariesApplied ==
  ASSUME HistoryAssumption, NEW h, NEW e, Agree(h, e), NEW fresh \in BOOLEAN,
         NEW before \in Worlds, fresh => h.open = None
  PROVE  LET r == History!ApplyBoundaries(h, e, fresh, before)
         IN /\ r \in Progress
            /\ r.slips = {} => Midway(h, e, fresh, before, r, Len(e.boundaries))
<1> DEFINE b == e.boundaries
           d == [e EXCEPT !.boundaries = <<>>]
           start == [h |-> h, e |-> d, fresh |-> fresh, before |-> before, slips |-> {}]
           after == CHOOSE f : Parts(f, start, b, Len(b))
<1>1. /\ h \in Histories /\ e \in Editors /\ Alternates(e) /\ b \in Seq(Boundaries)
      /\ Len(b) \in Nat /\ Len(b) \in 0..Len(b)
  BY DEF Agree, Editors
<1>2. History!ApplyBoundaries(h, e, fresh, before) = after[Len(b)]
  BY Zenon DEF History!ApplyBoundaries, Part, Parts
<1>3. after = [i \in 0..Len(b) |-> Part(after, start, b, i)]
  <2> HIDE DEF start, b
  <2>1. \E f : Parts(f, start, b, Len(b))
    BY <1>1, PartsExist
  <2>2. Parts(after, start, b, Len(b))
    BY <2>1, Zenon
  <2> QED
    BY <2>2, Zenon DEF Parts
<1> HIDE DEF after
<1>4. /\ d \in Editors /\ d.boundaries = <<>> /\ d.field = e.field
      /\ d.active = e.active /\ d.focus = e.focus /\ d.identity = e.identity
  <2>1. <<>> \in Seq(Boundaries)
    OBVIOUS
  <2> QED
    BY <1>1, <2>1 DEF Editors
<1> HIDE DEF d
<1>5. Alternates(d)
  BY <1>4 DEF Alternates
<1>6. start \in Progress /\ Midway(h, e, fresh, before, start, 0)
  <2>1. start \in Progress
    BY <1>1, <1>4, <1>5 DEF Progress
  <2>2. /\ start.h = h /\ start.e = d /\ start.fresh = fresh /\ start.before = before
    OBVIOUS
  <2> HIDE DEF start
  <2>3. ByEditor(h) =>
          /\ d.identity = h.open.id
          /\ IF 0 < Len(b) THEN b[1] = EndOf(h.open.id)
             ELSE d.field = h.open.id /\ d.boundaries = <<>>
    <3>1. 0 < Len(b) <=> b # <<>>
      BY <1>1
    <3> QED
      BY <1>4, <3>1 DEF Agree, EditorHolds, Closes
  <2>4. d.identity # 0 => ByEditor(h)
    BY <1>4 DEF Agree, EditorOwns
  <2> QED
    BY <2>1, <2>2, <2>3, <2>4, <1>4 DEF Midway
<1> DEFINE Good(i) == /\ after[i] \in Progress
                      /\ after[i].slips = {} => Midway(h, e, fresh, before, after[i], i)
           T == {i \in 0..Len(b): ~Good(i)}
<1>7. T = {}
  <2> SUFFICES ASSUME T # {}
               PROVE  FALSE
    OBVIOUS
  <2>1. T \in SUBSET Nat
    OBVIOUS
  <2>2. PICK i \in T : \A k \in T : i <= k
    <3> HIDE DEF T
    <3> QED
      BY <2>1, LeastNat
  <2>3. i # 0
    <3>1. after[0] = start
      BY <1>1, <1>3 DEF Part
    <3> HIDE DEF start
    <3> QED
      BY <1>6, <2>2, <3>1
  <2>4. i \in 1..Len(b) /\ i - 1 \in 0..Len(b) /\ i - 1 \notin T /\ i \in 0..Len(b)
    BY <1>1, <2>2, <2>3
  <2>5. Good(i - 1)
    BY <2>4
  <2>6. after[i] = History!ApplyBoundary(after[i - 1], b[i])
    <3>1. after[i] = Part(after, start, b, i)
      BY <1>3, <2>4
    <3> QED
      BY <2>3, <3>1 DEF Part
  <2>7. b[i].kind = "end" \/ b[i].kind = "begin"
    <3>1. b[i] \in Boundaries
      BY <1>1, <2>4
    <3> QED
      BY <3>1 DEF Boundaries
  <2>8. Good(i)
    <3> DEFINE s == after[i - 1]
    <3>1. s \in Progress /\ (s.slips = {} => Midway(h, e, fresh, before, s, i - 1))
      BY <2>5
    <3> HIDE DEF s
    <3>2. /\ History!ApplyBoundary(s, b[i]) \in Progress
          /\ History!ApplyBoundary(s, b[i]).slips = {} =>
               Midway(h, e, fresh, before, History!ApplyBoundary(s, b[i]), i)
      BY <1>1, <2>4, <2>7, <3>1, EndApplied, BeginApplied
    <3> QED
      BY <2>6, <3>2 DEF s
  <2> QED
    BY <2>2, <2>8
<1>8. Good(Len(b))
  BY <1>1, <1>7
<1> QED
  BY <1>2, <1>8

\* What the editor and the history agree on is about the open gesture; while
\* it is not the editor's, another may be open as well.
LEMMA StillAgree ==
  ASSUME NEW h, NEW e, Agree(h, e), NEW d \in Histories,
         d.open = h.open \/ (~ByEditor(h) /\ ~ByEditor(d))
  PROVE  Agree(d, e)
<1>1. (ByEditor(d) <=> ByEditor(h)) /\ (ByEditor(d) => d.open = h.open)
  BY DEF ByEditor
<1> QED
  BY <1>1 DEF Agree, EditorHolds, EditorOwns, FieldIsOpen, Focused

\* The editor's part of a frame.  It leaves gestures of other controllers
\* alone, and opens none but its own.
LEMMA FrameEffect ==
  ASSUME HistoryAssumption, Agree(hist, editor), NEW u, InputOk(u),
         History!Frame(u).slips = {}
  PROVE  LET r == History!Frame(u)
         IN /\ Agree(r.h, r.e) /\ FocusOwns(r.h, r.e) /\ r.h.world = u.world
            /\ r.e.focus => u.e.focus
            /\ hist.open # None /\ ~ByEditor(hist) => r.h = [hist EXCEPT !.world = u.world]
            /\ r.h.open # None /\ ~ByEditor(r.h) => r.h.open = hist.open
            /\ History!Unannounced(u) = {}
            /\ IF History!HasWork(u.press)
               THEN \E fresh \in BOOLEAN, s \in Progress :
                      /\ fresh = History!Mints(u.press)
                      /\ r.h = s.h /\ r.e = s.e
                      /\ Midway([hist EXCEPT !.world = u.world], u.e, fresh, hist.world,
                                s, Len(u.e.boundaries))
               ELSE r.h = [hist EXCEPT !.world = u.world] /\ r.e = u.e
<1> DEFINE r == History!Frame(u)
           h == [hist EXCEPT !.world = u.world]
           fresh == History!Mints(u.press)
           s == History!ApplyBoundaries(h, u.e, fresh, hist.world)
           n == Len(u.e.boundaries)
<1>1. /\ hist \in Histories /\ editor \in Editors /\ u.e \in Editors
      /\ u.press \in BOOLEAN /\ u.world \in Worlds
      /\ Agree(hist, u.e) /\ u.e.identity = editor.identity
  BY DEF Agree, InputOk
<1>2. h \in Histories /\ h.open = hist.open /\ h.world = u.world /\ hist.world \in Worlds
  BY <1>1 DEF Histories
<1> HIDE DEF h
<1>3. Agree(h, u.e)
  BY <1>1, <1>2, StillAgree
<1>4. fresh \in BOOLEAN /\ (fresh => h.open = None)
  <2>1. editor.active \in BOOLEAN
    BY <1>1 DEF Editors
  <2> QED
    BY <1>1, <1>2, <2>1 DEF History!Mints
<1>5. CASE ~History!HasWork(u.press)
  <2>1. r = [[h |-> h, e |-> u.e, slips |-> {}] EXCEPT !.slips = @ \cup History!Unannounced(u)]
    BY <1>5 DEF History!Frame, h
  <2>2. r.h = h /\ r.e = u.e /\ History!Unannounced(u) = {}
    BY <2>1
  <2>3. History!OpenOrigin(h) # "native"
    BY <1>2, <1>5 DEF History!HasWork, History!OpenOrigin
  <2> HIDE DEF r
  <2> QED
    BY <1>2, <1>3, <1>5, <2>2, <2>3 DEF FocusOwns, h, r
<1>6. CASE History!HasWork(u.press)
  <2>1. r = [s EXCEPT !.slips = s.slips \cup History!Unannounced(u)]
    BY <1>6 DEF History!Frame, h
  <2>2. /\ s \in Progress
        /\ s.slips = {} => Midway(h, u.e, fresh, hist.world, s, n)
    <3> HIDE DEF fresh
    <3> QED
      BY <1>2, <1>3, <1>4, BoundariesApplied
  <2> HIDE DEF s, fresh
  <2>3. r.h = s.h /\ r.e = s.e /\ s.slips = {} /\ History!Unannounced(u) = {}
    BY <2>1, <2>2 DEF Progress
  <2> HIDE DEF r
  <2>4. Midway(h, u.e, fresh, hist.world, s, n)
    BY <2>2, <2>3
  <2>5. /\ s.h \in Histories /\ s.e \in Editors /\ Alternates(s.e) /\ n \in Nat
    <3>1. u.e.boundaries \in Seq(Boundaries)
      BY <1>1 DEF Editors
    <3>2. n \in Nat
      BY <3>1
    <3> QED
      BY <2>2, <3>2 DEF Progress
  <2>6. ~(n < n) /\ n = Len(u.e.boundaries)
    BY <2>5
  <2>7. /\ EditorHolds(s.h, s.e) /\ EditorOwns(s.h, s.e)
    BY <2>4, <2>6 DEF Midway, EditorHolds, EditorOwns, Closes
  <2>8. \/ /\ s.e.boundaries = <<>> /\ s.e.field = u.e.field
           /\ s.e.active = u.e.active /\ s.e.focus = u.e.focus
        \/ s.e.field = 0 /\ ~s.e.focus
    BY <2>4 DEF Midway
  <2>9. s.e.field # 0 => ByEditor(s.h)
    <3> SUFFICES ASSUME s.e.field # 0
                 PROVE  ByEditor(s.h)
      OBVIOUS
    <3>1. s.e.field = u.e.field
      BY <2>8
    <3>2. CASE n = 0
      <4>1. u.e.boundaries = <<>>
        BY <1>1, <2>6, <3>2 DEF Editors
      <4>2. ByEditor(h)
        BY <1>3, <3>1, <4>1 DEF Agree, FieldIsOpen
      <4>3. s.h = h
        BY <2>4, <3>2, <4>2 DEF Midway
      <4> QED
        BY <4>2, <4>3
    <3>3. CASE n # 0
      <4>1. n \in 1..Len(u.e.boundaries) /\ n > 0
        BY <2>5, <2>6, <3>3
      <4>2. u.e.boundaries[n].kind = "begin"
        BY <1>3, <2>6, <3>1, <4>1 DEF Agree, Alternates
      <4> QED
        BY <2>4, <4>1, <4>2 DEF Midway
    <3> QED
      BY <3>2, <3>3
  <2>10. Focused(s.e) /\ (s.e.focus => u.e.focus)
    BY <1>3, <2>8 DEF Agree, Focused
  <2>11. FocusOwns(s.h, s.e)
    BY <2>8, <2>9, <2>10 DEF FocusOwns, Focused
  <2>12. Agree(s.h, s.e)
    BY <2>5, <2>7, <2>9, <2>10 DEF Agree, FieldIsOpen
  <2>13. /\ s.h.world = u.world
         /\ hist.open # None /\ ~ByEditor(hist) => s.h = h
         /\ s.h.open # None /\ ~ByEditor(s.h) => s.h.open = hist.open
    BY <1>2, <2>4 DEF Midway, ByEditor
  <2> QED
    BY <1>4, <1>6, <2>2, <2>3, <2>4, <2>10, <2>11, <2>12, <2>13 DEF h, r, fresh
<1> QED
  BY <1>5, <1>6

----------------------------------------------------------------------------
\* The page, the strokes and the gizmo.
Surfaces ==
  /\ page \in [id: Nat, dirty: BOOLEAN]
  /\ stroke \in [down: SUBSET {"phone", "native"}, entry: Nat, open: Nat,
                 next: Nat \ {0}]
  /\ gizmo \in [drag: {"none", "clean", "committed"}, id: Nat, next: Nat \ {0}]

\* Their gestures are theirs; a drag always has its own open.
SurfacesHold(h) ==
  /\ h.open # None =>
       /\ h.open.by = "page" => page.id = h.open.id
       /\ h.open.by = "stroke" =>
            /\ stroke.down # {} /\ stroke.open = h.open.id /\ stroke.entry = h.open.id
       /\ h.open.by = "gizmo" => gizmo.drag # "none" /\ gizmo.id = h.open.id
  /\ gizmo.drag # "none" => h.open # None /\ h.open.by = "gizmo"

\* Until one controller gets at another's gesture.
HistoryInv ==
  slips = {} =>
    /\ Agree(hist, editor) /\ FocusOwns(hist, editor)
    /\ Surfaces /\ SurfacesHold(hist)

LEMMA HistoryInit ==
  ASSUME HistoryAssumption
  PROVE  History!Init => HistoryInv
<1> SUFFICES ASSUME History!Init
             PROVE  HistoryInv
  OBVIOUS
<1>1. <<>> \in Seq(Worlds) /\ <<>> \in Seq(Boundaries)
  OBVIOUS
<1>2. hist \in Histories /\ editor \in Editors /\ hist.open = None
  BY <1>1 DEF History!Init, Histories, Editors, HistoryAssumption
<1>3. /\ editor.identity = 0 /\ editor.field = 0 /\ editor.focus = FALSE
      /\ editor.boundaries = <<>>
  BY DEF History!Init
<1>4. Agree(hist, editor) /\ FocusOwns(hist, editor)
  BY <1>2, <1>3
  DEF Agree, Alternates, EditorHolds, EditorOwns, FieldIsOpen, Focused, ByEditor,
      FocusOwns
<1>5. Surfaces
  BY DEF History!Init, Surfaces
<1>6. SurfacesHold(hist)
  BY <1>2 DEF History!Init, SurfacesHold
<1> QED
  BY <1>4, <1>5, <1>6 DEF HistoryInv

\* What a frame of the editor leaves is held as before.
LEMMA FrameKeeps ==
  ASSUME HistoryAssumption, slips = {}, HistoryInv, NEW u, InputOk(u),
         History!Frame(u).slips = {}
  PROVE  LET r == History!Frame(u)
         IN /\ Agree(r.h, r.e) /\ FocusOwns(r.h, r.e) /\ SurfacesHold(r.h)
            /\ r.h \in Histories
            /\ r.e.focus => u.e.focus
            /\ hist.open # None /\ ~ByEditor(hist) => r.h = [hist EXCEPT !.world = u.world]
<1> DEFINE r == History!Frame(u)
<1>1. Agree(hist, editor) /\ SurfacesHold(hist)
  BY DEF HistoryInv
<1>2. /\ Agree(r.h, r.e) /\ FocusOwns(r.h, r.e)
      /\ r.e.focus => u.e.focus
      /\ hist.open # None /\ ~ByEditor(hist) => r.h = [hist EXCEPT !.world = u.world]
      /\ r.h.open # None /\ ~ByEditor(r.h) => r.h.open = hist.open
  BY <1>1, FrameEffect
<1> HIDE DEF r
<1>3. r.h \in Histories /\ hist \in Histories
  BY <1>1, <1>2 DEF Agree
<1>4. hist.open # None /\ ~ByEditor(hist) => r.h.open = hist.open
  BY <1>2, <1>3 DEF Histories
<1>5. SurfacesHold(r.h)
  BY <1>1, <1>2, <1>4 DEF SurfacesHold, ByEditor
<1> QED
  BY <1>2, <1>3, <1>5 DEF r

\* Steps that leave all controllers, and the open gesture, as they are.
LEMMA WorldStep ==
  ASSUME slips = {}, HistoryInv, hist' \in Histories, hist'.open = hist.open,
         UNCHANGED <<page, stroke, gizmo, editor>>
  PROVE  HistoryInv'
<1>1. /\ Agree(hist, editor) /\ FocusOwns(hist, editor)
      /\ Surfaces /\ SurfacesHold(hist)
  BY DEF HistoryInv
<1>2. Agree(hist', editor)
  BY <1>1, StillAgree
<1>3. FocusOwns(hist', editor)
  BY <1>1 DEF FocusOwns, ByEditor, History!OpenOrigin
<1>4. Surfaces'
  BY <1>1 DEF Surfaces
<1>5. SurfacesHold(hist)'
  BY <1>1 DEF SurfacesHold
<1> QED
  BY <1>2, <1>3, <1>4, <1>5 DEF HistoryInv

\* Ending a gesture that one opened oneself.
LEMMA ClosedIs ==
  ASSUME HistoryAssumption, NEW h \in Histories, NEW id, NEW by,
         History!Meets(h, id, by) = {},
         NEW d, d = History!FinishGesture(h, id) \/ d = History!CancelGesture(h, id)
  PROVE  /\ d \in Histories /\ d.world = h.world
         /\ \/ History!Matches(h, id) /\ d.open = None /\ h.open.by = by
            \/ ~History!Matches(h, id) /\ d = h
<1>1. History!Matches(h, id) => h.open.by = by
  BY DEF History!Meets
<1> QED
  BY <1>1, FinishGestureIs, CancelGestureIs

LEMMA ClosedAgrees ==
  ASSUME HistoryAssumption, NEW h, NEW e, Agree(h, e), FocusOwns(h, e),
         NEW d \in Histories, d.open = h.open \/ (~ByEditor(h) /\ d.open = None)
  PROVE  Agree(d, e) /\ FocusOwns(d, e)
<1>1. Agree(d, e)
  BY StillAgree DEF ByEditor
<1>2. FocusOwns(d, e)
  BY DEF FocusOwns, History!OpenOrigin, ByEditor, HistoryAssumption
<1> QED
  BY <1>1, <1>2

\* A page's gesture begins and ends.
LEMMA PageKeeps ==
  ASSUME HistoryAssumption, slips = {}, slips' = {}, HistoryInv, History!Page
  PROVE  HistoryInv'
<1>1. /\ Agree(hist, editor) /\ FocusOwns(hist, editor)
      /\ Surfaces /\ SurfacesHold(hist)
      /\ hist \in Histories
  BY DEF HistoryInv, Agree
<1>2. /\ page.id \in Nat /\ page.dirty \in BOOLEAN
      /\ hist.open # None => hist.open \in Openings /\ hist.open.id \in Nat \ {0}
  BY <1>1 DEF Surfaces, Histories, Openings
<1>3. ASSUME NEW id \in 1..MaxId, History!PageBegin(id)
      PROVE  HistoryInv'
  <2> DEFINE o == [id |-> id, by |-> "page", origin |-> "browser", before |-> hist.world]
  <2>1. /\ page.id = 0 /\ page' = [id |-> id, dirty |-> FALSE]
        /\ hist' = History!BeginGesture(hist, id, "page", "browser", hist.world)
        /\ UNCHANGED <<stroke, gizmo, editor>>
    BY <1>3 DEF History!PageBegin
  <2>2. id \in Nat \ {0} /\ hist.world \in Worlds
    BY <1>1 DEF HistoryAssumption, Histories
  <2>3. o \in Openings /\ o.id = id /\ o.by = "page" /\ o.origin = "browser"
        /\ o.before = hist.world
    BY <2>2 DEF Openings
  <2> HIDE DEF o
  <2>4. /\ hist' \in Histories
        /\ hist.open # None => hist' = hist
        /\ hist.open = None => hist'.open = o
    BY <1>1, <2>1, <2>3, BeginGestureIs
  <2>5. o # None /\ (hist.open # None => hist.open.by # "page")
    BY <1>1, <1>2, <2>1, <2>3 DEF SurfacesHold, HistoryAssumption
  <2>6. Agree(hist', editor)
    BY <1>1, <2>3, <2>4, <2>5, StillAgree DEF ByEditor
  <2>7. FocusOwns(hist', editor)
    BY <1>1, <2>3, <2>4, <2>5 DEF FocusOwns, History!OpenOrigin
  <2>8. Surfaces'
    BY <1>1, <2>1, <2>2 DEF Surfaces
  <2>9. SurfacesHold(hist)'
    BY <1>1, <2>1, <2>3, <2>4, <2>5 DEF SurfacesHold
  <2> QED
    BY <2>1, <2>6, <2>7, <2>8, <2>9 DEF HistoryInv
<1>4. ASSUME NEW world \in Worlds, History!PageSet(world)
      PROVE  HistoryInv'
  <2>1. /\ page' = [page EXCEPT !.dirty = (page.id # 0)]
        /\ UNCHANGED <<stroke, gizmo, editor>>
        /\ \/ hist' = hist
           \/ hist' = [hist EXCEPT !.world = world]
           \/ hist' = History!RecordManual(hist, world)
    BY <1>4 DEF History!PageSet
  <2>2. hist' \in Histories /\ hist'.open = hist.open
    <3> DEFINE h == [hist EXCEPT !.world = world]
    <3>1. h \in Histories /\ h.open = hist.open /\ hist.world \in Worlds
      BY <1>1 DEF Histories
    <3>2. History!RecordManual(hist, world) =
            IF world = hist.world THEN hist ELSE History!Push(h, hist.world)
      BY DEF History!RecordManual
    <3>3. hist' = hist \/ hist' = h \/ hist' = History!Push(h, hist.world)
      BY <2>1, <3>2
    <3> HIDE DEF h
    <3>4. /\ History!Push(h, hist.world) \in Histories
          /\ History!Push(h, hist.world).open = h.open
      BY <3>1, PushIs
    <3> QED
      BY <1>1, <3>1, <3>3, <3>4
  <2>3. Agree(hist', editor) /\ FocusOwns(hist', editor)
    BY <1>1, <2>2, ClosedAgrees
  <2>4. page' \in [id: Nat, dirty: BOOLEAN] /\ page'.id = page.id
    BY <1>1, <2>1 DEF Surfaces
  <2>5. Surfaces' /\ SurfacesHold(hist)'
    BY <1>1, <2>1, <2>2, <2>4 DEF Surfaces, SurfacesHold
  <2> QED
    BY <2>1, <2>3, <2>5 DEF HistoryInv
<1>5. ASSUME History!PageEnd \/ History!PageCancel
      PROVE  HistoryInv'
  <2>1. /\ page.id # 0 /\ page' = [page EXCEPT !.id = 0]
        /\ UNCHANGED <<stroke, gizmo, editor>>
        /\ \/ /\ hist' = hist /\ ~History!Matches(hist, page.id)
           \/ /\ \/ hist' = History!FinishGesture(hist, page.id)
                 \/ hist' = History!CancelGesture(hist, page.id)
              /\ History!Meets(hist, page.id, "page") = {}
    <3>1. CASE History!PageEnd
      BY <1>5, <3>1 DEF History!PageEnd
    <3>2. CASE History!PageCancel
      <4>1. ~History!Matches(hist, page.id) => History!Meets(hist, page.id, "page") = {}
        BY DEF History!Meets
      <4> QED
        BY <1>5, <3>2, <4>1 DEF History!PageCancel
    <3> QED
      BY <1>5, <3>1, <3>2
  <2>2. /\ hist' \in Histories
        /\ \/ hist.open # None /\ hist'.open = None /\ hist.open.by = "page"
           \/ ~History!Matches(hist, page.id) /\ hist' = hist
    BY <1>1, <2>1, ClosedIs DEF History!Matches
  <2>3. Agree(hist', editor) /\ FocusOwns(hist', editor)
    BY <1>1, <2>2, ClosedAgrees DEF ByEditor
  <2>4. Surfaces'
    BY <1>1, <2>1 DEF Surfaces
  <2>5. SurfacesHold(hist)'
    <3>1. CASE hist.open # None /\ hist'.open = None /\ hist.open.by = "page"
      BY <1>1, <2>1, <3>1 DEF SurfacesHold
    <3>2. CASE ~History!Matches(hist, page.id) /\ hist' = hist
      <4>1. hist.open # None => hist.open.by # "page"
        BY <1>1, <3>2 DEF SurfacesHold, History!Matches
      <4> QED
        BY <1>1, <2>1, <3>2, <4>1 DEF SurfacesHold
    <3> QED
      BY <2>2, <3>1, <3>2
  <2> QED
    BY <2>1, <2>3, <2>4, <2>5 DEF HistoryInv
<1> QED
  BY <1>3, <1>4, <1>5 DEF History!Page

\* The editor's frames and the key that shows it.
LEMMA EditorKeeps ==
  ASSUME HistoryAssumption, slips = {}, slips' = {}, HistoryInv,
         History!EditorFrame \/ History!ToggleEditor
  PROVE  HistoryInv'
<1>1. /\ Agree(hist, editor) /\ FocusOwns(hist, editor)
      /\ Surfaces /\ SurfacesHold(hist)
      /\ hist \in Histories /\ editor \in Editors /\ Alternates(editor)
  BY DEF HistoryInv, Agree
<1>2. CASE History!EditorFrame
  <2>1. PICK u \in History!Inputs :
          /\ hist' = History!Frame(u).h /\ editor' = History!Frame(u).e
          /\ slips' = slips \cup History!Frame(u).slips
          /\ UNCHANGED <<page, stroke, gizmo>>
    BY <1>2 DEF History!EditorFrame
  <2>2. InputOk(u) /\ History!Frame(u).slips = {}
    BY <1>1, <2>1, InputsAreOk
  <2>3. /\ Agree(hist', editor') /\ FocusOwns(hist', editor') /\ SurfacesHold(hist')
    BY <2>1, <2>2, FrameKeeps
  <2>4. Surfaces' /\ SurfacesHold(hist)'
    BY <1>1, <2>1, <2>3 DEF Surfaces, SurfacesHold
  <2> QED
    BY <2>3, <2>4 DEF HistoryInv
<1>3. CASE History!ToggleEditor
  <2> DEFINE f == History!FinishActiveEdit(editor)
  <2>1. /\ ~editor.focus /\ editor' = [f EXCEPT !.active = ~f.active]
        /\ UNCHANGED <<hist, page, stroke, gizmo>>
    BY <1>3 DEF History!ToggleEditor
  <2>2. /\ f \in Editors /\ Alternates(f) /\ f.field = 0 /\ ~f.focus /\ Agree(hist, f)
    BY <1>1, FinishActiveEditIs, EndFieldAgrees
  <2> HIDE DEF f
  <2>3. /\ editor' \in Editors /\ editor'.field = f.field /\ editor'.focus = f.focus
        /\ editor'.boundaries = f.boundaries /\ editor'.identity = f.identity
    BY <2>1, <2>2 DEF Editors
  <2>4. Agree(hist, editor') /\ FocusOwns(hist, editor')
    BY <2>2, <2>3
    DEF Agree, Alternates, EditorHolds, Closes, EditorOwns, FieldIsOpen, Focused, FocusOwns
  <2>5. Surfaces' /\ SurfacesHold(hist)' /\ hist' = hist
    BY <1>1, <2>1 DEF Surfaces, SurfacesHold
  <2> QED
    BY <2>4, <2>5 DEF HistoryInv
<1> QED
  BY <1>2, <1>3

\* A stroke goes down; h is the history it finds.
LEMMA StrokeDownEffect ==
  ASSUME HistoryAssumption, Surfaces, NEW h \in Histories, SurfacesHold(h),
         NEW surface \in {"phone", "native"}, History!StrokeDown(h, surface),
         UNCHANGED <<page, gizmo>>
  PROVE  /\ Surfaces' /\ SurfacesHold(hist)' /\ hist' \in Histories
         /\ \/ hist'.open = h.open
            \/ /\ h.open = None /\ hist'.open # None /\ hist'.open.by = "stroke"
               /\ surface = "phone" => hist'.open.origin = "browser"
<1>1. /\ stroke.down \in SUBSET {"phone", "native"} /\ stroke.entry \in Nat
      /\ stroke.open \in Nat /\ stroke.next \in Nat \ {0}
  BY DEF Surfaces
<1>2. CASE stroke.entry # 0
  <2>1. /\ stroke' = [stroke EXCEPT !.down = stroke.down \cup {surface}] /\ hist' = h
    BY <1>2 DEF History!StrokeDown
  <2>2. /\ stroke' \in [down: SUBSET {"phone", "native"}, entry: Nat, open: Nat,
                        next: Nat \ {0}]
        /\ stroke'.down # {} /\ stroke'.open = stroke.open
        /\ stroke'.entry = stroke.entry
    BY <1>1, <2>1 DEF Surfaces
  <2> QED
    BY <2>1, <2>2 DEF Surfaces, SurfacesHold
<1>3. CASE stroke.entry = 0
  <2> DEFINE origin == IF surface = "phone" THEN "browser" ELSE "native"
             o == [id |-> stroke.next, by |-> "stroke", origin |-> origin,
                   before |-> h.world]
  <2>1. /\ stroke' = [down |-> stroke.down \cup {surface}, entry |-> stroke.next,
                      open |-> IF h.open = None THEN stroke.next ELSE stroke.open,
                      next |-> stroke.next + 1]
        /\ hist' = History!BeginGesture(h, stroke.next, "stroke", origin, h.world)
    BY <1>3 DEF History!StrokeDown
  <2>2. o \in Openings /\ o.id = stroke.next /\ o.by = "stroke" /\ o.origin = origin
        /\ o.before = h.world
    BY <1>1 DEF Openings, Histories
  <2> HIDE DEF o
  <2>3. /\ hist' \in Histories
        /\ h.open # None => hist' = h
        /\ h.open = None => hist'.open = o
    BY <2>1, <2>2, BeginGestureIs
  <2>4. o # None
    BY <2>2 DEF HistoryAssumption
  <2>5. h.open # None => h.open.by # "stroke"
    <3>1. h.open # None => h.open.id # 0
      BY DEF Histories, Openings
    <3> QED
      BY <1>3, <3>1 DEF SurfacesHold
  <2>6. /\ stroke' \in [down: SUBSET {"phone", "native"}, entry: Nat, open: Nat,
                        next: Nat \ {0}]
        /\ stroke'.down # {} /\ stroke'.entry = stroke.next
        /\ h.open = None => stroke'.open = stroke.next
    BY <1>1, <2>1
  <2>7. Surfaces'
    BY <2>6 DEF Surfaces
  <2>8. SurfacesHold(hist)'
    BY <2>2, <2>3, <2>4, <2>5, <2>6 DEF SurfacesHold
  <2> QED
    BY <2>2, <2>3, <2>4, <2>7, <2>8
<1> QED
  BY <1>2, <1>3

\* A stroke ends, after s of the editor.
LEMMA StrokeUpEffect ==
  ASSUME HistoryAssumption, slips' = {}, Surfaces, NEW s, s.h \in Histories,
         SurfacesHold(s.h), NEW surface \in stroke.down,
         History!StrokeUp(s, surface), UNCHANGED <<page, gizmo>>
  PROVE  /\ Surfaces' /\ SurfacesHold(hist)' /\ hist' \in Histories
         /\ s.slips = {}
         /\ hist'.open = s.h.open \/ (~ByEditor(s.h) /\ hist'.open = None)
<1> DEFINE last == stroke.down = {surface}
           closes == last /\ stroke.open # 0 /\ stroke.open = stroke.entry
<1>1. /\ stroke.down \in SUBSET {"phone", "native"} /\ stroke.entry \in Nat
      /\ stroke.open \in Nat /\ stroke.next \in Nat \ {0}
  BY DEF Surfaces
<1>2. /\ stroke' = [stroke EXCEPT !.down = stroke.down \ {surface},
                                  !.entry = IF last THEN 0 ELSE stroke.entry,
                                  !.open = IF last THEN 0 ELSE stroke.open]
      /\ hist' = IF closes THEN History!FinishGesture(s.h, stroke.entry) ELSE s.h
      /\ s.slips = {}
      /\ closes => History!Meets(s.h, stroke.entry, "stroke") = {}
  BY Zenon DEF History!StrokeUp
<1>3. /\ stroke' \in [down: SUBSET {"phone", "native"}, entry: Nat, open: Nat,
                      next: Nat \ {0}]
      /\ stroke'.down = stroke.down \ {surface}
      /\ ~last => stroke'.open = stroke.open /\ stroke'.entry = stroke.entry
  BY <1>1, <1>2 DEF Surfaces
<1>4. Surfaces'
  BY <1>3 DEF Surfaces
<1>5. s.h.open # None => s.h.open.id # 0
  BY DEF Histories, Openings
<1>6. CASE closes
  <2>1. /\ hist' \in Histories
        /\ \/ History!Matches(s.h, stroke.entry) /\ hist'.open = None
              /\ s.h.open.by = "stroke"
           \/ ~History!Matches(s.h, stroke.entry) /\ hist' = s.h
    BY <1>2, <1>6, ClosedIs
  <2>2. SurfacesHold(hist)'
    <3>1. CASE History!Matches(s.h, stroke.entry) /\ hist'.open = None
               /\ s.h.open.by = "stroke"
      BY <3>1 DEF SurfacesHold
    <3>2. CASE ~History!Matches(s.h, stroke.entry) /\ hist' = s.h
      <4>1. s.h.open # None => s.h.open.by # "stroke"
        BY <3>2 DEF SurfacesHold, History!Matches
      <4> QED
        BY <3>2, <4>1 DEF SurfacesHold
    <3> QED
      BY <2>1, <3>1, <3>2
  <2> QED
    BY <1>2, <1>4, <2>1, <2>2 DEF ByEditor
<1>7. CASE ~closes
  <2>1. hist' = s.h
    BY <1>2, <1>7
  <2>2. last => ~(s.h.open # None /\ s.h.open.by = "stroke")
    BY <1>5, <1>7 DEF SurfacesHold
  <2>3. ~last => stroke'.down # {}
    BY <1>3
  <2>4. SurfacesHold(hist)'
    <3> HIDE DEF last, closes
    <3> QED
      BY <1>3, <2>1, <2>2, <2>3 DEF SurfacesHold
  <2> QED
    BY <1>2, <1>4, <2>1, <2>4
<1> QED
  BY <1>6, <1>7

\* Strokes of phones, and of the preview's pointer.
LEMMA StrokesKeep ==
  ASSUME HistoryAssumption, slips = {}, slips' = {}, HistoryInv,
         History!PhoneStroke \/ History!PointerDown \/ History!PointerUp
  PROVE  HistoryInv'
<1>1. /\ Agree(hist, editor) /\ FocusOwns(hist, editor)
      /\ Surfaces /\ SurfacesHold(hist)
      /\ hist \in Histories
  BY DEF HistoryInv, Agree
<1>2. CASE History!PhoneStroke
  <2>1. /\ UNCHANGED <<page, gizmo, editor>>
        /\ \/ History!StrokeDown(hist, "phone")
           \/ /\ "phone" \in stroke.down
              /\ History!StrokeUp([h |-> hist, slips |-> {}], "phone")
    BY <1>2 DEF History!PhoneStroke
  <2>2. CASE History!StrokeDown(hist, "phone")
    <3>1. /\ Surfaces' /\ SurfacesHold(hist)' /\ hist' \in Histories
          /\ \/ hist'.open = hist.open
             \/ /\ hist.open = None /\ hist'.open # None /\ hist'.open.by = "stroke"
                /\ hist'.open.origin = "browser"
      BY <1>1, <2>1, <2>2, StrokeDownEffect
    <3>2. Agree(hist', editor)
      BY <1>1, <3>1, StillAgree DEF ByEditor
    <3>3. FocusOwns(hist', editor)
      BY <1>1, <3>1 DEF FocusOwns, ByEditor, History!OpenOrigin
    <3> QED
      BY <2>1, <3>1, <3>2, <3>3 DEF HistoryInv
  <2>3. CASE "phone" \in stroke.down
             /\ History!StrokeUp([h |-> hist, slips |-> {}], "phone")
    <3> DEFINE s == [h |-> hist, slips |-> {}]
    <3>1. s.h = hist /\ History!StrokeUp(s, "phone")
      BY <2>3
    <3> HIDE DEF s
    <3>2. /\ Surfaces' /\ SurfacesHold(hist)' /\ hist' \in Histories
          /\ hist'.open = hist.open \/ (~ByEditor(hist) /\ hist'.open = None)
      BY <1>1, <2>1, <2>3, <3>1, StrokeUpEffect
    <3>3. Agree(hist', editor) /\ FocusOwns(hist', editor)
      BY <1>1, <3>2, ClosedAgrees
    <3> QED
      BY <2>1, <3>2, <3>3 DEF HistoryInv
  <2> QED
    BY <2>1, <2>2, <2>3
<1>3. CASE History!PointerDown
  <2>1. PICK u \in History!Presses :
          /\ History!StrokeDown(History!Frame(u).h, "native")
          /\ editor' = History!Frame(u).e /\ slips' = slips \cup History!Frame(u).slips
          /\ UNCHANGED <<page, gizmo>>
    BY <1>3 DEF History!PointerDown
  <2>2. u \in History!Inputs /\ ~u.e.focus
    BY DEF History!Presses
  <2> DEFINE r == History!Frame(u)
  <2>3. InputOk(u) /\ r.slips = {}
    BY <1>1, <2>1, <2>2, InputsAreOk
  <2>4. /\ Agree(r.h, r.e) /\ ~r.e.focus /\ SurfacesHold(r.h) /\ r.h \in Histories
    BY <2>2, <2>3, FrameKeeps
  <2> HIDE DEF r
  <2>5. /\ Surfaces' /\ SurfacesHold(hist)' /\ hist' \in Histories
        /\ \/ hist'.open = r.h.open
           \/ r.h.open = None /\ hist'.open # None /\ hist'.open.by = "stroke"
    BY <1>1, <2>1, <2>4, StrokeDownEffect DEF r
  <2>6. Agree(hist', r.e)
    BY <2>4, <2>5, StillAgree DEF ByEditor
  <2>7. FocusOwns(hist', r.e)
    BY <2>4 DEF FocusOwns
  <2> QED
    BY <2>1, <2>5, <2>6, <2>7 DEF HistoryInv, r
<1>4. CASE History!PointerUp
  <2> DEFINE r == History!Frame(History!Quiet)
  <2>1. /\ "native" \in stroke.down /\ History!StrokeUp(r, "native") /\ editor' = r.e
        /\ UNCHANGED <<page, gizmo>>
    BY <1>4 DEF History!PointerUp
  <2>2. r.slips = {}
    BY <2>1 DEF History!StrokeUp
  <2>3. /\ Agree(r.h, r.e) /\ FocusOwns(r.h, r.e) /\ SurfacesHold(r.h)
        /\ r.h \in Histories
    BY <1>1, <2>2, QuietIsOk, FrameKeeps
  <2> HIDE DEF r
  <2>4. /\ Surfaces' /\ SurfacesHold(hist)' /\ hist' \in Histories
        /\ hist'.open = r.h.open \/ (~ByEditor(r.h) /\ hist'.open = None)
    BY <1>1, <2>1, <2>3, StrokeUpEffect
  <2>5. Agree(hist', r.e) /\ FocusOwns(hist', r.e)
    BY <2>3, <2>4, ClosedAgrees
  <2> QED
    BY <2>1, <2>4, <2>5 DEF HistoryInv
<1> QED
  BY <1>2, <1>3, <1>4

\* A barrier settles the drag: its gesture is closed.
LEMMA SettleDragEffect ==
  ASSUME HistoryAssumption, NEW h \in Histories, SurfacesHold(h),
         History!GizmoMeets(h) = {}
  PROVE  LET d == History!Settle(h)
         IN /\ d \in Histories /\ d.world = h.world
            /\ gizmo.drag = "none" => d = h
            /\ gizmo.drag # "none" => d.open = None /\ ~ByEditor(h)
            /\ d.open # None => d.open = h.open /\ d.open.by # "gizmo"
<1>1. CASE gizmo.drag = "none"
  <2>1. History!Settle(h) = h
    BY <1>1 DEF History!Settle
  <2> QED
    BY <1>1, <2>1 DEF SurfacesHold
<1>2. CASE gizmo.drag # "none"
  <2>1. History!Matches(h, gizmo.id) /\ ~ByEditor(h) /\ h.open # None
    BY <1>2 DEF SurfacesHold, History!Matches, ByEditor
  <2>2. History!Meets(h, gizmo.id, "gizmo") = {}
    BY <1>2 DEF History!GizmoMeets
  <2> DEFINE c == History!CancelGesture(h, gizmo.id)
             f == History!FinishGesture(h, gizmo.id)
  <2>3. /\ c \in Histories /\ c.world = h.world /\ c.open = None
        /\ f \in Histories /\ f.world = h.world /\ f.open = None
    BY <2>1, <2>2, ClosedIs
  <2>4. \/ History!Settle(h) = f
        \/ History!Settle(h) = [c EXCEPT !.begin = None]
    BY <1>2 DEF History!Settle, History!Abort
  <2> HIDE DEF c, f
  <2>5. /\ [c EXCEPT !.begin = None] \in Histories
        /\ [c EXCEPT !.begin = None].world = h.world
        /\ [c EXCEPT !.begin = None].open = None
    BY <2>3 DEF Histories
  <2> QED
    BY <1>2, <2>1, <2>3, <2>4, <2>5
<1> QED
  BY <1>1, <1>2

LEMMA UndoIs ==
  ASSUME HistoryAssumption, NEW h \in Histories
  PROVE  /\ h.undo # <<>> => /\ History!Undo(h) \in Histories
                             /\ History!Undo(h).open = h.open
         /\ h.redo # <<>> => /\ History!Redo(h) \in Histories
                             /\ History!Redo(h).open = h.open
<1>1. /\ h.undo \in Seq(Worlds) /\ h.redo \in Seq(Worlds) /\ h.world \in Worlds
  BY DEF Histories
<1>2. ASSUME NEW q \in Seq(Worlds), q # <<>>
      PROVE  History!Last(q) \in Worlds /\ History!Front(q) \in Seq(Worlds)
  <2>1. Len(q) \in Nat \ {0} /\ \A i \in 1..Len(q) : q[i] \in Worlds
    BY <1>2
  <2>2. Len(q) \in 1..Len(q) /\ Len(q) - 1 \in Nat
    BY <2>1
  <2>3. \A i \in 1..(Len(q) - 1) : q[i] \in Worlds
    BY <2>1
  <2> QED
    BY <2>1, <2>2, <2>3 DEF History!Last, History!Front
<1>3. ASSUME NEW w \in Worlds, NEW u \in Seq(Worlds), NEW r \in Seq(Worlds)
      PROVE  LET d == History!Trim([h EXCEPT !.world = w, !.undo = u, !.redo = r], 0)
             IN d \in Histories /\ d.open = h.open
  <2> DEFINE c == [h EXCEPT !.world = w, !.undo = u, !.redo = r]
  <2>1. c \in Histories /\ c.open = h.open
    BY DEF Histories
  <2> HIDE DEF c
  <2> QED
    BY <2>1, TrimIs DEF c
<1>4. ASSUME h.undo # <<>>
      PROVE  History!Undo(h) \in Histories /\ History!Undo(h).open = h.open
  <2> DEFINE w == History!Last(h.undo)
             u == History!Front(h.undo)
             r == Append(h.redo, h.world)
  <2>1. w \in Worlds /\ u \in Seq(Worlds) /\ r \in Seq(Worlds)
    BY <1>1, <1>2, <1>4
  <2>2. History!Undo(h) = History!Trim([h EXCEPT !.world = w, !.undo = u, !.redo = r], 0)
    BY DEF History!Undo
  <2> HIDE DEF w, u, r
  <2>3. LET d == History!Trim([h EXCEPT !.world = w, !.undo = u, !.redo = r], 0)
        IN d \in Histories /\ d.open = h.open
    BY ONLY <1>3, <2>1
  <2> QED
    BY <2>2, <2>3
<1>5. ASSUME h.redo # <<>>
      PROVE  History!Redo(h) \in Histories /\ History!Redo(h).open = h.open
  <2> DEFINE w == History!Last(h.redo)
             r == History!Front(h.redo)
             u == Append(h.undo, h.world)
  <2>1. w \in Worlds /\ u \in Seq(Worlds) /\ r \in Seq(Worlds)
    BY <1>1, <1>2, <1>5
  <2>2. History!Redo(h) = History!Trim([h EXCEPT !.world = w, !.undo = u, !.redo = r], 0)
    BY DEF History!Redo
  <2> HIDE DEF w, u, r
  <2>3. LET d == History!Trim([h EXCEPT !.world = w, !.undo = u, !.redo = r], 0)
        IN d \in Histories /\ d.open = h.open
    BY ONLY <1>3, <2>1
  <2> QED
    BY <2>2, <2>3
<1> QED
  BY <1>4, <1>5

\* The drag of the gizmo.
LEMMA GizmoKeeps ==
  ASSUME HistoryAssumption, slips = {}, slips' = {}, HistoryInv,
         \/ History!GizmoBegin \/ History!GizmoEnd \/ History!GizmoEscape
         \/ History!Retarget \/ \E world \in Worlds : History!GizmoMove(world)
  PROVE  HistoryInv'
<1>1. /\ Agree(hist, editor) /\ FocusOwns(hist, editor)
      /\ Surfaces /\ SurfacesHold(hist)
      /\ hist \in Histories
      /\ gizmo \in [drag: {"none", "clean", "committed"}, id: Nat, next: Nat \ {0}]
  BY DEF HistoryInv, Agree, Surfaces
<1>2. CASE History!GizmoBegin
  <2>1. PICK u \in History!Presses :
          /\ hist' = History!BeginGesture(History!Frame(u).h, gizmo.next, "gizmo",
                                          "native", History!Frame(u).h.world)
          /\ gizmo' = IF History!Frame(u).h.open # None
                      THEN [gizmo EXCEPT !.next = gizmo.next + 1]
                      ELSE [drag |-> "clean", id |-> gizmo.next, next |-> gizmo.next + 1]
          /\ editor' = History!Frame(u).e /\ slips' = slips \cup History!Frame(u).slips
    BY <1>2 DEF History!GizmoBegin
  <2> DEFINE r == History!Frame(u)
             o == [id |-> gizmo.next, by |-> "gizmo", origin |-> "native",
                   before |-> r.h.world]
  <2>2. u \in History!Inputs /\ ~u.e.focus /\ gizmo.drag = "none"
        /\ UNCHANGED <<page, stroke>>
    BY <1>2 DEF History!Presses, History!GizmoBegin
  <2>3. InputOk(u) /\ r.slips = {}
    BY <1>1, <2>1, <2>2, InputsAreOk
  <2>4. /\ Agree(r.h, r.e) /\ ~r.e.focus /\ SurfacesHold(r.h) /\ r.h \in Histories
    BY <2>2, <2>3, FrameKeeps
  <2>5. /\ hist' = History!BeginGesture(r.h, gizmo.next, "gizmo", "native", r.h.world)
        /\ gizmo' = IF r.h.open # None
                    THEN [gizmo EXCEPT !.next = gizmo.next + 1]
                    ELSE [drag |-> "clean", id |-> gizmo.next, next |-> gizmo.next + 1]
        /\ editor' = r.e
    BY <2>1
  <2> HIDE DEF r
  <2>6. o \in Openings /\ o.id = gizmo.next /\ o.by = "gizmo" /\ o.origin = "native"
        /\ o.before = r.h.world
    BY <1>1, <2>4 DEF Openings, Histories
  <2> HIDE DEF o
  <2>7. /\ hist' \in Histories
        /\ r.h.open # None => hist' = r.h
        /\ r.h.open = None => hist'.open = o
    BY <2>4, <2>5, <2>6, BeginGestureIs
  <2>8. o # None
    BY <2>6 DEF HistoryAssumption
  <2>9. Agree(hist', r.e)
    BY <2>4, <2>6, <2>7, StillAgree DEF ByEditor
  <2>10. FocusOwns(hist', r.e)
    BY <2>4 DEF FocusOwns
  <2>11. gizmo.next + 1 \in Nat \ {0} /\ gizmo.next \in Nat
    BY <1>1
  <2>12. /\ gizmo' \in [drag: {"none", "clean", "committed"}, id: Nat, next: Nat \ {0}]
         /\ r.h.open # None => gizmo'.drag = gizmo.drag /\ gizmo'.id = gizmo.id
         /\ r.h.open = None => gizmo'.drag = "clean" /\ gizmo'.id = gizmo.next
    BY <1>1, <2>5, <2>11
  <2>13. Surfaces'
    BY <1>1, <2>2, <2>12 DEF Surfaces
  <2>14. SurfacesHold(hist)'
    <3>1. CASE r.h.open # None
      BY <2>2, <2>4, <2>7, <2>12, <3>1 DEF SurfacesHold
    <3>2. CASE r.h.open = None
      BY <2>2, <2>6, <2>7, <2>8, <2>12, <3>2 DEF SurfacesHold
    <3> QED
      BY <3>1, <3>2
  <2> QED
    BY <2>5, <2>9, <2>10, <2>13, <2>14 DEF HistoryInv
<1>3. ASSUME NEW world \in Worlds, History!GizmoMove(world)
      PROVE  HistoryInv'
  <2> DEFINE r == History!Frame(History!Quiet)
  <2>1. /\ gizmo.drag # "none" /\ hist' = [r.h EXCEPT !.world = world] /\ editor' = r.e
        /\ slips' = slips \cup r.slips /\ gizmo' = [gizmo EXCEPT !.drag = "committed"]
        /\ UNCHANGED <<page, stroke>>
    BY <1>3 DEF History!GizmoMove
  <2>2. /\ Agree(r.h, r.e) /\ FocusOwns(r.h, r.e) /\ SurfacesHold(r.h)
        /\ r.h \in Histories
    BY <1>1, <2>1, QuietIsOk, FrameKeeps
  <2> HIDE DEF r
  <2>3. hist' \in Histories /\ hist'.open = r.h.open
    BY <2>1, <2>2 DEF Histories
  <2>4. Agree(hist', r.e) /\ FocusOwns(hist', r.e)
    BY <2>2, <2>3, ClosedAgrees
  <2>5. /\ gizmo' \in [drag: {"none", "clean", "committed"}, id: Nat, next: Nat \ {0}]
        /\ gizmo'.drag # "none" /\ gizmo'.id = gizmo.id
    BY <1>1, <2>1
  <2>6. Surfaces' /\ SurfacesHold(hist)'
    BY <1>1, <2>1, <2>2, <2>3, <2>5 DEF Surfaces, SurfacesHold
  <2> QED
    BY <2>1, <2>4, <2>6 DEF HistoryInv
<1>4. CASE History!GizmoEnd
  <2> DEFINE r == History!Frame(History!Quiet)
  <2>1. /\ gizmo.drag # "none" /\ hist' = History!FinishGesture(r.h, gizmo.id)
        /\ editor' = r.e
        /\ slips' = (slips \cup r.slips) \cup History!Meets(r.h, gizmo.id, "gizmo")
        /\ gizmo' = History!NoDrag
        /\ UNCHANGED <<page, stroke>>
    BY <1>4 DEF History!GizmoEnd
  <2>2. r.slips = {} /\ History!Meets(r.h, gizmo.id, "gizmo") = {}
    BY <2>1
  <2>3. /\ Agree(r.h, r.e) /\ FocusOwns(r.h, r.e) /\ SurfacesHold(r.h)
        /\ r.h \in Histories
    BY <1>1, <2>2, QuietIsOk, FrameKeeps
  <2> HIDE DEF r
  <2>4. History!Matches(r.h, gizmo.id) /\ ~ByEditor(r.h)
    BY <2>1, <2>3 DEF SurfacesHold, History!Matches, ByEditor
  <2>5. hist' \in Histories /\ hist'.open = None
    BY <2>1, <2>2, <2>3, <2>4, ClosedIs
  <2>6. Agree(hist', r.e) /\ FocusOwns(hist', r.e)
    BY <2>3, <2>4, <2>5, ClosedAgrees
  <2>7. /\ gizmo' \in [drag: {"none", "clean", "committed"}, id: Nat, next: Nat \ {0}]
        /\ gizmo'.drag = "none"
    BY <1>1, <2>1 DEF History!NoDrag
  <2>8. Surfaces' /\ SurfacesHold(hist)'
    BY <1>1, <2>1, <2>5, <2>7 DEF Surfaces, SurfacesHold
  <2> QED
    BY <2>1, <2>6, <2>8 DEF HistoryInv
<1>5. CASE History!GizmoEscape \/ History!Retarget
  <2> DEFINE d == History!Settle(hist)
  <2>1. /\ gizmo.drag # "none" /\ gizmo' = History!NoDrag
        /\ History!GizmoMeets(hist) = {}
        /\ hist' = d \/ (d.undo # <<>> /\ hist' = History!Undo(d))
        /\ UNCHANGED <<page, stroke, editor>>
    BY <1>5 DEF History!GizmoEscape, History!Retarget
  <2>2. d \in Histories /\ d.open = None /\ ~ByEditor(hist)
    BY <1>1, <2>1, SettleDragEffect
  <2> HIDE DEF d
  <2>3. hist' \in Histories /\ hist'.open = None
    BY <2>1, <2>2, UndoIs
  <2>4. Agree(hist', editor) /\ FocusOwns(hist', editor)
    BY <1>1, <2>2, <2>3, ClosedAgrees
  <2>5. /\ gizmo' \in [drag: {"none", "clean", "committed"}, id: Nat, next: Nat \ {0}]
        /\ gizmo'.drag = "none"
    BY <1>1, <2>1 DEF History!NoDrag
  <2>6. Surfaces' /\ SurfacesHold(hist)'
    BY <1>1, <2>1, <2>3, <2>5 DEF Surfaces, SurfacesHold
  <2> QED
    BY <2>1, <2>4, <2>6 DEF HistoryInv
<1> QED
  BY <1>2, <1>3, <1>4, <1>5

\* The strokes' entry goes with the strokes; nothing else of the history does.
LEMMA AbandonIs ==
  ASSUME HistoryAssumption, NEW h \in Histories, SurfacesHold(h),
         History!StrokesMeet(h) = {}
  PROVE  LET a == History!AbandonStrokes(h)
         IN /\ a \in Histories /\ a.world = h.world /\ a.undo = h.undo
            /\ \/ a.open = h.open
               \/ /\ h.open # None /\ h.open.by = "stroke" /\ a.open = None
                  /\ History!StrokesOpen /\ History!Matches(h, stroke.entry)
            /\ a.open # None => a.open.by # "stroke"
<1>1. h.open # None => h.open.id # 0
  BY DEF Histories, Openings
<1>2. CASE ~History!StrokesOpen
  <2>1. History!AbandonStrokes(h) = h
    BY <1>2 DEF History!AbandonStrokes
  <2>2. h.open # None => h.open.by # "stroke"
    BY <1>1, <1>2 DEF SurfacesHold, History!StrokesOpen
  <2> QED
    BY <2>1, <2>2
<1>3. CASE History!StrokesOpen
  <2> DEFINE c == History!CancelGesture(h, stroke.entry)
             a == History!AbandonStrokes(h)
  <2>1. History!Meets(h, stroke.entry, "stroke") = {}
    BY <1>3 DEF History!StrokesMeet
  <2>2. /\ c \in Histories /\ c.world = h.world
        /\ \/ History!Matches(h, stroke.entry) /\ c.open = None /\ h.open.by = "stroke"
           \/ ~History!Matches(h, stroke.entry) /\ c = h
    BY <2>1, ClosedIs
  <2>3. c.undo = h.undo
    BY DEF History!CancelGesture, Histories
  <2>4. a = [c EXCEPT !.begin = None]
    BY <1>3 DEF History!AbandonStrokes
  <2> HIDE DEF c
  <2>5. a \in Histories /\ a.open = c.open /\ a.world = c.world /\ a.undo = c.undo
    BY <2>2, <2>4 DEF Histories
  <2>6. ~History!Matches(h, stroke.entry) /\ h.open # None => h.open.by # "stroke"
    BY DEF SurfacesHold, History!Matches
  <2> QED
    BY <1>3, <2>2, <2>3, <2>5, <2>6 DEF History!Matches
<1> QED
  BY <1>2, <1>3

\* What replaces the world abandons the strokes and may settle the drag.
LEMMA ResetKeeps ==
  ASSUME HistoryAssumption, slips = {}, slips' = {}, HistoryInv,
         NEW h \in Histories, h.open = hist.open, NEW found,
         History!ResetGeneration(h, found) \/ History!ClearRecording(h, found),
         UNCHANGED <<page, editor>>
  PROVE  HistoryInv'
<1> DEFINE a == History!AbandonStrokes(h)
<1>1. /\ Agree(hist, editor) /\ FocusOwns(hist, editor)
      /\ Surfaces /\ SurfacesHold(hist) /\ hist \in Histories
      /\ stroke.next \in Nat \ {0} /\ stroke.open \in Nat
      /\ gizmo \in [drag: {"none", "clean", "committed"}, id: Nat, next: Nat \ {0}]
  BY DEF HistoryInv, Agree, Surfaces
<1>2. /\ stroke' = [down |-> {}, entry |-> 0, next |-> stroke.next,
                    open |-> IF stroke.entry = 0 THEN stroke.open ELSE 0]
      /\ History!StrokesMeet(h) = {}
      /\ \/ /\ hist' = History!Settle(a) /\ gizmo' = History!NoDrag
            /\ History!GizmoMeets(a) = {}
         \/ hist' = a /\ gizmo' = gizmo
  BY DEF History!ResetGeneration, History!ClearRecording, History!ForgetStrokes
<1>3. SurfacesHold(h)
  BY <1>1 DEF SurfacesHold
<1>4. /\ a \in Histories
      /\ a.open = h.open \/ (h.open # None /\ h.open.by = "stroke" /\ a.open = None)
      /\ a.open # None => a.open.by # "stroke"
  BY <1>2, <1>3, AbandonIs
<1> HIDE DEF a
<1>5. SurfacesHold(a)
  BY <1>3, <1>4 DEF SurfacesHold
<1>6. /\ hist' \in Histories
      /\ hist'.open = a.open \/ (~ByEditor(a) /\ hist'.open = None)
      /\ gizmo' \in [drag: {"none", "clean", "committed"}, id: Nat, next: Nat \ {0}]
      /\ \/ /\ gizmo'.drag = "none"
            /\ hist'.open # None => hist'.open = a.open /\ hist'.open.by # "gizmo"
         \/ hist' = a /\ gizmo' = gizmo
  <2>1. CASE hist' = a /\ gizmo' = gizmo
    BY <1>1, <1>4, <2>1
  <2>2. CASE /\ hist' = History!Settle(a) /\ gizmo' = History!NoDrag
             /\ History!GizmoMeets(a) = {}
    <3>1. /\ gizmo'.drag = "none"
          /\ gizmo' \in [drag: {"none", "clean", "committed"}, id: Nat, next: Nat \ {0}]
      BY <1>1, <2>2 DEF History!NoDrag
    <3> QED
      BY <1>4, <1>5, <2>2, <3>1, SettleDragEffect
  <2> QED
    BY <1>2, <2>1, <2>2
<1>7. hist'.open = hist.open \/ (~ByEditor(hist) /\ hist'.open = None)
  BY <1>4, <1>6 DEF ByEditor
<1>8. Agree(hist', editor) /\ FocusOwns(hist', editor)
  BY <1>1, <1>6, <1>7, ClosedAgrees
<1>9. stroke' \in [down: SUBSET {"phone", "native"}, entry: Nat, open: Nat,
                   next: Nat \ {0}]
  BY <1>1, <1>2
<1>10. Surfaces'
  BY <1>1, <1>6, <1>9 DEF Surfaces
<1>11. SurfacesHold(hist)'
  <2>1. CASE hist' = a /\ gizmo' = gizmo
    BY <1>4, <1>5, <2>1 DEF SurfacesHold
  <2>2. CASE /\ gizmo'.drag = "none"
             /\ hist'.open # None => hist'.open = a.open /\ hist'.open.by # "gizmo"
    <3>1. hist'.open # None =>
            /\ hist'.open = h.open
            /\ hist'.open.by # "gizmo" /\ hist'.open.by # "stroke"
      BY <1>4, <2>2
    <3> QED
      BY <1>3, <2>2, <3>1 DEF SurfacesHold
  <2> QED
    BY <1>6, <2>1, <2>2
<1> QED
  BY <1>8, <1>10, <1>11 DEF HistoryInv

\* A slip is remembered.
LEMMA SlipsStay ==
  ASSUME History!Next
  PROVE  slips \subseteq slips'
<1>1. CASE History!Page
  BY <1>1 DEF History!Page, History!PageBegin, History!PageSet, History!PageEnd,
              History!PageCancel
<1>2. CASE History!EditorFrame \/ History!ToggleEditor
  BY <1>2 DEF History!EditorFrame, History!ToggleEditor
<1>3. CASE History!PhoneStroke \/ History!PointerDown \/ History!PointerUp
  BY <1>3 DEF History!PhoneStroke, History!PointerDown, History!PointerUp,
              History!StrokeUp
<1>4. CASE History!GizmoBegin \/ History!GizmoEnd \/ History!GizmoEscape
           \/ History!Retarget
  BY <1>4 DEF History!GizmoBegin, History!GizmoEnd, History!GizmoEscape,
              History!Retarget
<1>5. CASE History!RestoreDirection
  BY <1>5 DEF History!RestoreDirection, History!Restore, History!ResetGeneration
<1>6. ASSUME NEW world \in Worlds,
             \/ History!GizmoMove(world) \/ History!NativeAction(world)
             \/ History!Automation(world) \/ History!PageReplace(world)
             \/ History!NativeReplace(world) \/ History!Load(world)
      PROVE  slips \subseteq slips'
  BY <1>6 DEF History!GizmoMove, History!NativeAction, History!Automation,
              History!PageReplace, History!NativeReplace, History!Load,
              History!ClearRecording, History!ResetGeneration
<1> QED
  BY <1>1, <1>2, <1>3, <1>4, <1>5, <1>6 DEF History!Next

\* Every step of every controller keeps the invariant.
LEMMA HistoryStep ==
  ASSUME HistoryAssumption, HistoryInv, [History!Next]_(History!vars)
  PROVE  HistoryInv'
<1> SUFFICES ASSUME slips' = {}
             PROVE  HistoryInv'
  BY DEF HistoryInv
<1>1. slips = {}
  BY SlipsStay DEF History!vars
<1>2. hist \in Histories /\ hist.world \in Worlds
  BY <1>1 DEF HistoryInv, Agree, Histories
<1>3. CASE UNCHANGED History!vars
  BY <1>1, <1>2, <1>3, WorldStep DEF History!vars
<1>4. CASE History!RestoreDirection
  <2>1. PICK h \in Histories : h.open = hist.open /\ History!Restore(h)
    BY <1>2, <1>4, UndoIs DEF History!RestoreDirection
  <2>2. CASE History!ResetGeneration(h, {})
    BY <1>1, <2>1, <2>2, ResetKeeps DEF History!Restore
  <2>3. CASE hist' = h /\ UNCHANGED <<stroke, gizmo, slips>>
    BY <1>1, <2>1, <2>3, WorldStep DEF History!Restore
  <2> QED
    BY <2>1, <2>2, <2>3 DEF History!Restore
<1>5. ASSUME NEW world \in Worlds,
             \/ History!NativeAction(world) \/ History!Automation(world)
             \/ History!PageReplace(world) \/ History!NativeReplace(world)
             \/ History!Load(world)
      PROVE  HistoryInv'
  <2> DEFINE h == [hist EXCEPT !.world = world]
  <2>1. h \in Histories /\ h.open = hist.open
    BY <1>2 DEF Histories
  <2>2. CASE History!Load(world)
    <3>1. History!ResetGeneration(h, {}) /\ UNCHANGED <<page, editor>>
      BY <2>2 DEF History!Load
    <3> HIDE DEF h
    <3> QED
      BY <1>1, <2>1, <3>1, ResetKeeps
  <2>3. CASE History!Automation(world)
    <3>1. hist' = h /\ UNCHANGED <<page, stroke, gizmo, editor>>
      BY <2>3 DEF History!Automation
    <3> HIDE DEF h
    <3> QED
      BY <1>1, <2>1, <3>1, WorldStep
  <2>4. /\ History!RecordManual(hist, world) \in Histories
        /\ History!RecordManual(hist, world).open = hist.open
    <3>1. \/ History!RecordManual(hist, world) = hist
          \/ History!RecordManual(hist, world) = History!Push(h, hist.world)
      BY DEF History!RecordManual
    <3> HIDE DEF h
    <3> QED
      BY <1>2, <2>1, <3>1, PushIs
  <2>5. CASE History!NativeAction(world)
    <3>1. /\ hist' = History!RecordManual(hist, world)
          /\ UNCHANGED <<page, stroke, gizmo, editor>>
      BY <2>5 DEF History!NativeAction
    <3> QED
      BY <1>1, <2>4, <3>1, WorldStep
  <2>6. CASE History!PageReplace(world) \/ History!NativeReplace(world)
    <3>1. PICK d, found :
            /\ d = History!RecordManual(hist, world) \/ d = h
            /\ History!ClearRecording(d, found) \/ History!ResetGeneration(d, found)
            /\ UNCHANGED <<page, editor>>
      BY <2>6 DEF History!PageReplace, History!NativeReplace
    <3> HIDE DEF h
    <3>2. d \in Histories /\ d.open = hist.open
      BY <2>1, <2>4, <3>1
    <3> QED
      BY <1>1, <3>1, <3>2, ResetKeeps
  <2> QED
    BY <1>5, <2>2, <2>3, <2>5, <2>6
<1> QED
  BY <1>1, <1>3, <1>4, <1>5, PageKeeps, EditorKeeps, StrokesKeep, GizmoKeeps
  DEF History!Next

\* The history's invariant holds in every reachable state.
THEOREM HistoryInvariant ==
  ASSUME HistoryAssumption
  PROVE  History!Spec => []HistoryInv
<1>1. History!Init => HistoryInv
  BY HistoryInit
<1>2. HistoryInv /\ [History!Next]_(History!vars) => HistoryInv'
  BY HistoryStep
<1> QED
  BY <1>1, <1>2, PTL DEF History!Spec

\* Until one controller gets at another's gesture, an open gesture has the
\* controller that will end it (the routers of history.rs, the patch editor's
\* boundaries and the gizmo's drag), for any worlds, numbers and entries.
THEOREM OpenGestureIsHeld ==
  ASSUME HistoryAssumption
  PROVE  History!Spec => []OpenIsHeld
<1>1. HistoryInv => OpenIsHeld
  <2> SUFFICES ASSUME HistoryInv, hist.open # None, slips = {}
               PROVE  CASE hist.open.by = "page" -> page.id = hist.open.id
                        [] hist.open.by = "stroke" ->
                             stroke.down # {} /\ stroke.open = hist.open.id
                                             /\ stroke.entry = hist.open.id
                        [] hist.open.by = "gizmo" ->
                             gizmo.drag # "none" /\ gizmo.id = hist.open.id
                        [] OTHER ->
                             /\ editor.identity = hist.open.id
                             /\ \/ editor.field = hist.open.id
                                \/ \E i \in 1..Len(editor.boundaries):
                                     editor.boundaries[i]
                                       = [kind |-> "end", id |-> hist.open.id]
    BY DEF OpenIsHeld, History!OpenIsHeld
  <2>1. /\ Agree(hist, editor) /\ SurfacesHold(hist)
    BY DEF HistoryInv
  <2>2. hist.open.by \in {"page", "stroke", "gizmo", "editor"}
        /\ editor.boundaries \in Seq(Boundaries)
    BY <2>1 DEF Agree, Histories, Openings, Editors
  <2>3. CASE hist.open.by = "editor"
    <3>1. editor.identity = hist.open.id /\ Closes(editor, hist.open.id)
      BY <2>1, <2>3 DEF Agree, EditorHolds, ByEditor
    <3>2. editor.boundaries # <<>> => 1 \in 1..Len(editor.boundaries)
      BY <2>2
    <3> QED
      BY <2>3, <3>1, <3>2 DEF Closes, EndOf
  <2>4. CASE hist.open.by # "editor"
    BY <2>1, <2>2, <2>4 DEF SurfacesHold
  <2> QED
    BY <2>3, <2>4
<1> QED
  BY <1>1, HistoryInvariant, PTL

----------------------------------------------------------------------------
\* The world that a change by hand will be undone to.
StartOf(by) ==
  IF hist.open # None /\ History!Shares(hist.open, by) THEN hist.open.before
  ELSE hist.world

\* What a change by hand must leave: EditsAreUndoable, of history d.
Undoable(d, by) ==
  IF d.open # None /\ History!Shares(d.open, by) THEN d.open.before = StartOf(by)
  ELSE /\ d.open \in {None, hist.open} => d.open = None
       /\ \/ d.world = StartOf(by)
          \/ d.undo # <<>> /\ History!Last(d.undo) = StartOf(by)

\* Text that arrives in a frame is in the editor's gesture, or Undo leads
\* straight back.
LEMMA TextIsUndoable ==
  ASSUME HistoryAssumption, slips = {}, HistoryInv, NEW u \in History!Inputs,
         u.world # hist.world, History!Frame(u).slips = {}
  PROVE  LET r == History!Frame(u)
         IN /\ r.h \in Histories /\ (hist.open = None \/ ByEditor(hist))
            /\ \/ ByEditor(r.h) /\ r.h.open.before = StartOf("editor")
               \/ /\ r.h.open = None
                  /\ r.h.world = StartOf("editor") \/ LeadsTo(r.h, StartOf("editor"))
<1> DEFINE r == History!Frame(u)
           h == [hist EXCEPT !.world = u.world]
           n == Len(u.e.boundaries)
<1>1. /\ Agree(hist, editor) /\ FocusOwns(hist, editor)
      /\ hist \in Histories /\ editor \in Editors /\ Alternates(editor)
      /\ editor.boundaries \in Seq(Boundaries)
  BY DEF HistoryInv, Agree, Editors
<1>2. InputOk(u)
  BY <1>1, InputsAreOk
<1>3. /\ h \in Histories /\ h.open = hist.open /\ h.world = u.world
  BY <1>1, <1>2 DEF InputOk, Histories
<1>4. /\ Agree(r.h, r.e) /\ r.h.world = u.world
      /\ History!Unannounced(u) = {}
      /\ History!HasWork(u.press) =>
           \E fresh \in BOOLEAN, s \in Progress :
             /\ fresh = History!Mints(u.press)
             /\ r.h = s.h /\ r.e = s.e
             /\ Midway(h, u.e, fresh, hist.world, s, n)
  BY <1>1, <1>2, FrameEffect
<1>5. r.h \in Histories
  BY <1>4 DEF Agree
<1> HIDE DEF r, h
<1>6. /\ editor.focus /\ History!Drawn
      /\ u.e = editor \/ u.e = History!FinishActiveEdit(editor)
  <2>1. CASE ~History!Drawn
    <3>1. u.world = hist.world
      BY <2>1 DEF History!Inputs
    <3> QED
      BY <3>1
  <2>2. CASE History!Drawn /\ ~editor.focus
    <3>1. u.world = hist.world
      BY <2>2 DEF History!Inputs
    <3> QED
      BY <3>1
  <2>3. CASE History!Drawn /\ editor.focus
    BY <2>3 DEF History!Inputs
  <2> QED
    BY <2>1, <2>2, <2>3
<1>7. editor.active /\ editor.field # 0
  BY <1>1, <1>6 DEF Agree, Focused
<1>8. hist.open # None => ByEditor(hist)
  <2>1. History!OpenOrigin(hist) # "browser"
    BY <1>6 DEF History!Drawn
  <2>2. hist.open # None => hist.open.origin \in {"browser", "native"}
    BY <1>1 DEF Histories, Openings
  <2> QED
    BY <1>1, <1>6, <2>1, <2>2 DEF FocusOwns, History!OpenOrigin
<1>9. CASE ByEditor(hist)
  <2>1. StartOf("editor") = hist.open.before
    BY <1>9 DEF StartOf, ByEditor, History!Shares
  <2>2. editor.identity # 0
    BY <1>1, <1>9 DEF Agree, EditorHolds, ByEditor, Histories, Openings
  <2>3. History!HasWork(u.press)
    BY <2>2 DEF History!HasWork
  <2>4. PICK fresh \in BOOLEAN, s \in Progress :
          r.h = s.h /\ Midway(h, u.e, fresh, hist.world, s, n)
    BY <1>4, <2>3
  <2>5. ByEditor(h)
    BY <1>3, <1>9 DEF ByEditor
  <2>6. IF n = 0 THEN s.h = h
        ELSE s.h.open = None /\ (h.open.before = h.world \/ LeadsTo(s.h, h.open.before))
    BY <2>4, <2>5 DEF Midway
  <2> QED
    BY <1>3, <1>4, <1>5, <1>9, <2>1, <2>4, <2>5, <2>6 DEF r
<1>10. CASE hist.open = None
  <2>1. StartOf("editor") = hist.world /\ editor.identity = 0
    BY <1>1, <1>10 DEF StartOf, Agree, EditorOwns, ByEditor
  <2>2. u.press
    BY <1>4, <2>1 DEF History!Unannounced
  <2>3. History!Mints(u.press) = TRUE /\ History!HasWork(u.press)
    BY <1>7, <1>10, <2>1, <2>2 DEF History!Mints, History!HasWork
  <2>4. PICK fresh \in BOOLEAN, s \in Progress :
          r.h = s.h /\ Midway(h, u.e, fresh, hist.world, s, n) /\ fresh = TRUE
    BY <1>4, <2>3
  <2>5. PICK m \in 1..n : u.e.boundaries[m].kind = "begin"
    <3>1. editor.boundaries # <<>>
      BY <1>1, <1>7, <1>10 DEF Agree, FieldIsOpen, ByEditor
    <3> DEFINE m == Len(editor.boundaries)
    <3>2. m \in 1..m
      BY <1>1, <3>1
    <3>3. editor.boundaries[m].kind = "begin"
      BY <1>1, <1>7, <3>2 DEF Alternates
    <3>4. m \in 1..n /\ u.e.boundaries[m] = editor.boundaries[m]
      <4>1. CASE u.e = editor
        BY <3>2, <4>1
      <4>2. CASE u.e = History!FinishActiveEdit(editor)
        <5>1. u.e.boundaries = History!EndField(editor).boundaries
          BY <1>1, <4>2, FinishActiveEditIs
        <5>2. /\ m \in 1..Len(History!EndField(editor).boundaries)
              /\ History!EndField(editor).boundaries[m] = editor.boundaries[m]
          BY <1>1, <3>2, EndFieldIs
        <5> QED
          BY <5>1, <5>2
      <4> QED
        BY <1>6, <4>1, <4>2
    <3> QED
      BY <3>3, <3>4
  <2>6. ~s.fresh
    BY <2>4, <2>5 DEF Midway
  <2>7. \/ ByEditor(s.h) /\ s.h.open.before = hist.world
        \/ s.h.open = None /\ LeadsTo(s.h, hist.world)
    BY <1>3, <2>4, <2>6 DEF Midway
  <2> QED
    BY <1>5, <1>10, <2>1, <2>4, <2>7 DEF r
<1> QED
  BY <1>8, <1>9, <1>10

LEMMA TextThenGesture ==
  ASSUME HistoryAssumption, NEW h \in Histories, hist.open = None \/ ByEditor(hist),
         \/ ByEditor(h) /\ h.open.before = StartOf("editor")
         \/ /\ h.open = None
            /\ h.world = StartOf("editor") \/ LeadsTo(h, StartOf("editor"))
  PROVE  /\ Undoable(h, "editor")
         /\ \A o \in Openings :
              o.by \in {"stroke", "gizmo"} =>
                Undoable(History!BeginGesture(h, o.id, o.by, o.origin, o.before), "editor")
<1>1. Undoable(h, "editor")
  BY DEF Undoable, ByEditor, History!Shares, LeadsTo
<1>2. ASSUME NEW o \in Openings, o.by \in {"stroke", "gizmo"}
      PROVE  Undoable(History!BeginGesture(h, o.id, o.by, o.origin, o.before), "editor")
  <2> DEFINE d == History!BeginGesture(h, o.id, o.by, o.origin, o.before)
  <2>1. /\ d.world = h.world
        /\ h.open # None => d = h
        /\ h.open = None => d.open = o
        /\ h.undo # <<>> /\ h.redo = <<>> =>
             d.undo # <<>> /\ History!Last(d.undo) = History!Last(h.undo)
    BY BeginGestureIs
  <2> HIDE DEF d
  <2>2. CASE h.open # None
    BY <1>1, <2>1, <2>2 DEF d
  <2>3. CASE h.open = None
    <3>1. d.open = o /\ o # None /\ ~History!Shares(o, "editor") /\ o # hist.open
      BY <1>2, <2>1, <2>3 DEF HistoryAssumption, History!Shares, ByEditor
    <3>2. h.world = StartOf("editor") \/ LeadsTo(h, StartOf("editor"))
      BY <2>3 DEF ByEditor
    <3>3. Undoable(d, "editor")
      BY <2>1, <3>1, <3>2 DEF Undoable, LeadsTo
    <3> QED
      BY <3>3 DEF d
  <2> QED
    BY <2>2, <2>3
<1> QED
  BY <1>1, <1>2

\* A patch, a Look or a reset is in the gesture it came in, or Undo leads
\* straight back; the strokes' entry is the one that it takes away.
LEMMA ReplaceIsUndoable ==
  ASSUME HistoryAssumption, HistoryInv, slips = {}, slips' = {},
         NEW world \in Worlds,
         History!PageReplace(world) \/ History!NativeReplace(world)
  PROVE  Undoable(hist', hand')
<1> DEFINE h == IF hist.open = None THEN History!RecordManual(hist, world)
                ELSE [hist EXCEPT !.world = world]
           a == History!AbandonStrokes(h)
<1>1. /\ Surfaces /\ SurfacesHold(hist) /\ hist \in Histories /\ hist.world \in Worlds
      /\ hist.open # None => hist.open.origin \in {"browser", "native"}
  BY DEF HistoryInv, Agree, Histories, Openings
<1>2. /\ hand' \in {"page", "native"}
      /\ hist.open # None => hand' = "page" /\ hist.open.origin # "native"
      /\ hist.open # None => History!Abandons(h) = {}
      /\ \/ History!ClearRecording(h, History!Abandons(h))
         \/ History!ResetGeneration(h, History!Abandons(h))
         \/ History!ClearRecording(h, {})
         \/ History!ResetGeneration(h, {})
  BY DEF History!PageReplace, History!NativeReplace, History!OpenOrigin,
         History!ClearRecording, History!ResetGeneration
<1>3. /\ h \in Histories /\ h.open = hist.open
      /\ hist.open = None =>
           h.world = hist.world \/ (h.undo # <<>> /\ History!Last(h.undo) = hist.world)
  <2> DEFINE d == [hist EXCEPT !.world = world]
  <2>1. d \in Histories /\ d.open = hist.open
    BY <1>1 DEF Histories
  <2>2. CASE hist.open # None
    BY <2>1, <2>2
  <2>3. CASE hist.open = None
    <3>1. h = hist \/ h = History!Push(d, hist.world)
      BY <2>3 DEF History!RecordManual
    <3> HIDE DEF d, h
    <3> QED
      BY <1>1, <2>1, <2>3, <3>1, PushIs
  <2> QED
    BY <2>2, <2>3
<1> HIDE DEF h
<1>4. SurfacesHold(h) /\ History!StrokesMeet(h) = {}
  BY <1>1, <1>2, <1>3
  DEF SurfacesHold, History!ClearRecording, History!ResetGeneration
<1>5. /\ a \in Histories /\ a.world = h.world /\ a.undo = h.undo
      /\ \/ a.open = h.open
         \/ /\ h.open # None /\ h.open.by = "stroke" /\ a.open = None
            /\ History!StrokesOpen /\ History!Matches(h, stroke.entry)
  BY <1>3, <1>4, AbandonIs
<1>6. hist' = a
  <2>1. gizmo.drag = "none"
    <3>1. gizmo.drag # "none" => hist.open # None /\ hist.open.by = "gizmo"
      BY <1>1 DEF SurfacesHold
    <3>2. hist.open # None /\ hist.open.by = "gizmo" => hist.open.origin = "native"
      BY <1>1 DEF Histories, Openings
    <3> QED
      BY <1>1, <1>2, <3>1, <3>2 DEF Surfaces
  <2> QED
    BY <1>2, <2>1 DEF History!ClearRecording, History!ResetGeneration, History!Settle
<1> HIDE DEF a
<1>7. CASE hist.open = None
  BY <1>3, <1>5, <1>6, <1>7 DEF Undoable, StartOf
<1>8. CASE hist.open # None
  <2>1. /\ History!Shares(hist.open, hand') /\ StartOf(hand') = hist.open.before
    BY <1>1, <1>2, <1>8 DEF History!Shares, StartOf
  <2>2. CASE a.open = h.open
    BY <1>3, <1>6, <1>8, <2>1, <2>2 DEF Undoable
  <2>3. CASE a.open = None /\ History!StrokesOpen /\ History!Matches(h, stroke.entry)
    <3>1. h.open.before = h.world
      BY <1>2, <1>8, <2>3 DEF History!Abandons
    <3> QED
      BY <1>3, <1>5, <1>6, <2>1, <2>3, <3>1 DEF Undoable
  <2> QED
    BY <1>5, <2>2, <2>3
<1> QED
  BY <1>7, <1>8

\* Whoever changes the world by hand, the change can be undone.
LEMMA EditStep ==
  ASSUME HistoryAssumption, HistoryInv, History!Next,
         hist'.world # hist.world, hand' # None, slips' = {}, slips = {}
  PROVE  Undoable(hist', hand')
<1>1. /\ Agree(hist, editor) /\ FocusOwns(hist, editor)
      /\ Surfaces /\ SurfacesHold(hist)
      /\ hist \in Histories /\ hist.world \in Worlds
      /\ hist.open # None => hist.open.origin \in {"browser", "native"}
  BY DEF HistoryInv, Agree, Histories, Openings
<1>2. ASSUME NEW world \in Worlds, History!RecordManual(hist, world) = hist',
             hist.open = None, NEW by
      PROVE  Undoable(hist', by)
  <2> DEFINE h == [hist EXCEPT !.world = world]
  <2>1. h \in Histories /\ h.open = None
    BY <1>1, <1>2 DEF Histories
  <2>2. hist' = hist \/ hist' = History!Push(h, hist.world)
    BY <1>2 DEF History!RecordManual
  <2> HIDE DEF h
  <2>3. /\ hist'.open = None /\ hist'.undo # <<>>
        /\ History!Last(hist'.undo) = hist.world
    BY <1>1, <2>1, <2>2, PushIs
  <2> QED
    BY <1>2, <2>3 DEF Undoable, StartOf
<1>3. ASSUME NEW world \in Worlds, History!PageSet(world)
      PROVE  Undoable(hist', hand')
  <2>1. hand' = "page"
    BY <1>3 DEF History!PageSet
  <2>2. CASE History!OpenOrigin(hist) = "native"
    BY <1>3, <2>2 DEF History!PageSet
  <2>3. CASE History!OpenOrigin(hist) = "browser"
    <3>1. hist' = [hist EXCEPT !.world = world]
      BY <1>3, <2>3 DEF History!PageSet
    <3>2. hist'.open = hist.open /\ hist.open # None /\ hist.open.origin = "browser"
      BY <1>1, <2>3, <3>1 DEF History!OpenOrigin, Histories, HistoryAssumption
    <3> QED
      BY <2>1, <3>2 DEF Undoable, StartOf, History!Shares
  <2>4. CASE History!OpenOrigin(hist) \notin {"native", "browser"}
    <3>1. hist.open = None
      BY <1>1, <2>4 DEF History!OpenOrigin
    <3>2. hist' = History!RecordManual(hist, world)
      BY <1>3, <2>4 DEF History!PageSet
    <3> QED
      BY <1>2, <3>1, <3>2
  <2> QED
    BY <2>2, <2>3, <2>4
<1>4. ASSUME NEW world \in Worlds, History!NativeAction(world)
      PROVE  Undoable(hist', hand')
  <2>1. hist.open = None /\ hist' = History!RecordManual(hist, world)
    BY <1>4 DEF History!NativeAction
  <2> QED
    BY <1>2, <2>1
<1>5. ASSUME NEW world \in Worlds, History!GizmoMove(world)
      PROVE  Undoable(hist', hand')
  <2> DEFINE r == History!Frame(History!Quiet)
  <2>1. /\ gizmo.drag # "none" /\ hist' = [r.h EXCEPT !.world = world]
        /\ slips' = slips \cup r.slips /\ hand' = "gizmo"
    BY <1>5 DEF History!GizmoMove
  <2>2. hist.open # None /\ hist.open.by = "gizmo" /\ ~ByEditor(hist)
    BY <1>1, <2>1 DEF SurfacesHold, ByEditor
  <2>3. r.h = [hist EXCEPT !.world = History!Quiet.world] /\ r.h \in Histories
    BY <1>1, <2>1, <2>2, QuietIsOk, FrameKeeps
  <2> HIDE DEF r
  <2>4. hist'.open = hist.open
    <3>1. r.h.open = hist.open
      BY <1>1, <2>3 DEF Histories
    <3> QED
      BY <2>1, <2>3, <3>1 DEF Histories
  <2> QED
    BY <2>1, <2>2, <2>4 DEF Undoable, StartOf, History!Shares
<1>6. CASE History!EditorFrame
  <2>1. PICK u \in History!Inputs :
          /\ hist' = History!Frame(u).h /\ slips' = slips \cup History!Frame(u).slips
          /\ hand' = IF u.world # hist.world THEN "editor" ELSE None
    BY <1>6 DEF History!EditorFrame
  <2>2. u.world # hist.world /\ hand' = "editor" /\ History!Frame(u).slips = {}
    BY <2>1
  <2> QED
    BY <2>1, <2>2, TextIsUndoable, TextThenGesture
<1>7. CASE History!PointerDown \/ History!GizmoBegin
  <2>1. PICK u \in History!Inputs :
          /\ slips' = slips \cup History!Frame(u).slips
          /\ hand' = IF u.world # hist.world THEN "editor" ELSE None
          /\ \/ hist' = History!Frame(u).h
             \/ \E o \in Openings :
                  /\ o.by \in {"stroke", "gizmo"}
                  /\ hist' = History!BeginGesture(History!Frame(u).h, o.id, o.by,
                                                  o.origin, o.before)
    <3>1. CASE History!PointerDown
      <4>1. PICK u \in History!Presses :
              /\ History!StrokeDown(History!Frame(u).h, "native")
              /\ slips' = slips \cup History!Frame(u).slips
              /\ hand' = IF u.world # hist.world THEN "editor" ELSE None
        BY <3>1 DEF History!PointerDown
      <4> DEFINE h == History!Frame(u).h
                 o == [id |-> stroke.next, by |-> "stroke", origin |-> "native",
                       before |-> h.world]
      <4>2. u \in History!Inputs /\ History!Frame(u).slips = {}
        BY <4>1 DEF History!Presses
      <4>3. h \in Histories
        BY <1>1, <4>2, InputsAreOk, FrameKeeps
      <4> HIDE DEF h
      <4>4. o \in Openings /\ o.id = stroke.next /\ o.by = "stroke"
            /\ o.origin = "native" /\ o.before = h.world
        BY <1>1, <4>3 DEF Surfaces, Openings, Histories
      <4>5. \/ hist' = h
            \/ hist' = History!BeginGesture(h, stroke.next, "stroke", "native", h.world)
        BY <4>1 DEF History!StrokeDown, h
      <4> HIDE DEF o
      <4>6. \/ hist' = h
            \/ hist' = History!BeginGesture(h, o.id, o.by, o.origin, o.before)
        BY <4>4, <4>5
      <4> QED
        BY <4>1, <4>2, <4>4, <4>6 DEF h
    <3>2. CASE History!GizmoBegin
      <4>1. PICK u \in History!Presses :
              /\ hist' = History!BeginGesture(History!Frame(u).h, gizmo.next, "gizmo",
                                              "native", History!Frame(u).h.world)
              /\ slips' = slips \cup History!Frame(u).slips
              /\ hand' = IF u.world # hist.world THEN "editor" ELSE None
        BY <3>2 DEF History!GizmoBegin
      <4> DEFINE h == History!Frame(u).h
                 o == [id |-> gizmo.next, by |-> "gizmo", origin |-> "native",
                       before |-> h.world]
      <4>2. u \in History!Inputs /\ History!Frame(u).slips = {}
        BY <4>1 DEF History!Presses
      <4>3. h \in Histories
        BY <1>1, <4>2, InputsAreOk, FrameKeeps
      <4>4. hist' = History!BeginGesture(h, gizmo.next, "gizmo", "native", h.world)
        BY <4>1
      <4> HIDE DEF h
      <4>5. o \in Openings /\ o.id = gizmo.next /\ o.by = "gizmo"
            /\ o.origin = "native" /\ o.before = h.world
        BY <1>1, <4>3 DEF Surfaces, Openings, Histories
      <4> HIDE DEF o
      <4>6. hist' = History!BeginGesture(h, o.id, o.by, o.origin, o.before)
        BY <4>4, <4>5
      <4> QED
        BY <4>1, <4>2, <4>5, <4>6 DEF h
    <3> QED
      BY <1>7, <3>1, <3>2
  <2>2. u.world # hist.world /\ hand' = "editor" /\ History!Frame(u).slips = {}
    BY <2>1
  <2> DEFINE h == History!Frame(u).h
  <2>3. /\ Undoable(h, "editor")
        /\ \A o \in Openings :
             o.by \in {"stroke", "gizmo"} =>
               Undoable(History!BeginGesture(h, o.id, o.by, o.origin, o.before), "editor")
    BY <2>2, TextIsUndoable, TextThenGesture
  <2> QED
    BY <2>1, <2>2, <2>3
<1>8. CASE History!Page
  <2>1. \E world \in Worlds : History!PageSet(world)
    BY <1>8 DEF History!Page, History!PageBegin, History!PageEnd, History!PageCancel
  <2> QED
    BY <1>3, <2>1
<1>9. CASE \/ History!ToggleEditor \/ History!PhoneStroke \/ History!PointerUp
           \/ History!GizmoEnd \/ History!GizmoEscape \/ History!Retarget
           \/ History!RestoreDirection
           \/ \E world \in Worlds : History!Load(world) \/ History!Automation(world)
  BY <1>9 DEF History!ToggleEditor, History!PhoneStroke, History!PointerUp,
              History!GizmoEnd, History!GizmoEscape, History!Retarget,
              History!RestoreDirection, History!Restore, History!Load,
              History!Automation
<1>10. ASSUME NEW world \in Worlds,
              History!PageReplace(world) \/ History!NativeReplace(world)
       PROVE  Undoable(hist', hand')
  BY <1>10, ReplaceIsUndoable
<1> QED
  BY <1>4, <1>5, <1>6, <1>7, <1>8, <1>9, <1>10 DEF History!Next

\* Until one controller gets at another's gesture, a change made by hand is
\* undone with its own gesture and with nothing else (one entry however many
\* values a gesture sets, history.rs), for any worlds, numbers and entries.
THEOREM EditsUndoable ==
  ASSUME HistoryAssumption
  PROVE  History!Spec => EditsAreUndoable
<1>1. HistoryInv /\ [History!Next]_(History!vars) =>
        [hist'.world # hist.world /\ hand' # None /\ slips' = {} =>
           LET start == IF hist.open # None /\ History!Shares(hist.open, hand')
                        THEN hist.open.before ELSE hist.world
           IN  IF hist'.open # None /\ History!Shares(hist'.open, hand')
               THEN hist'.open.before = start
               ELSE /\ hist'.open \in {None, hist.open} => hist'.open = None
                    /\ \/ hist'.world = start
                       \/ hist'.undo # <<>> /\ History!Last(hist'.undo) = start
        ]_(History!vars)
  <2> SUFFICES ASSUME HistoryInv, History!Next,
                      hist'.world # hist.world, hand' # None, slips' = {}
               PROVE  Undoable(hist', hand')
    BY DEF Undoable, StartOf
  <2>1. slips = {}
    BY SlipsStay
  <2> QED
    BY <2>1, EditStep
<1> QED
  BY <1>1, HistoryInvariant, PTL
  DEF History!Spec, EditsAreUndoable, History!EditsAreUndoable
==============================================================================
