--------------------------- MODULE ActionQueue ---------------------------
(***************************************************************************)
(* Browser actions from the socket to a presented frame                    *)
(* (src/src/web/state.rs, src/src/web/server.rs,                           *)
(* src/src/action_correlation.rs, src/src/main.rs).                        *)
(*                                                                         *)
(* A socket task mints a sequence, passes the gesture gate and then the    *)
(* bounded queue, holding the ownership lock from one to the other; it may *)
(* be aborted while it waits for either lock.  The frame loop drains the   *)
(* queue, applies the batch, takes controller input and presents.  Main's  *)
(* one open history gesture follows the Begin and End it is handed, the    *)
(* server's owner follows the ones it admits.                              *)
(*                                                                         *)
(* A gesture carries the identity of its client; one seekable slot stands  *)
(* for all.  MaxSequence keeps the sequences a behaviour mints finite.     *)
(***************************************************************************)
EXTENDS Naturals, FiniteSetsExt, SequencesExt

CONSTANTS
  Clients, Keys,
  Sends,             \* the kinds of action each client sends
  CaptureMayFail,    \* capture_manual_history_world may return an error
  MaxPendingActions, \* MAX_PENDING_ACTIONS
  PriorityReserve,   \* PRIORITY_ACTION_RESERVE
  MaxInFlight,       \* MAX_CORRELATED_ACTIONS_IN_FLIGHT
  MaxSequence,       \* bound on the minted sequences
  None

Finish == {"end", "cancel"}

Kinds == {"begin", "set", "mark", "seek", "rescan", "load", "look"} \cup Finish

Actions == [seq: Nat, kind: Kinds, client: Clients, key: Keys \cup {None}]

Dispositions ==
  {"Presented", "Coalesced", "Refused", "Superseded", "NotYetPresented"}

VARIABLES
  minted,    \* the last sequence handed out
  stage,     \* per socket: idle, gate, queue, closing, gone
  flight,    \* per socket: the action its guard holds
  owner,     \* browser_history_gesture
  queue,     \* the shared bounded queue
  drawing,   \* Main is in a frame
  batch,     \* what the frame drained
  open,      \* Main's open gesture and whether the world changed since
  store,     \* per key, the sequence whose value Main holds
  applied,   \* the monitor's pending actions
  highest,   \* highest_applied_action_sequence
  receipt,   \* per sequence, its terminal disposition
  lost,      \* history: a boundary of a gesture did not do its work
  closed     \* ingress is closed for shutdown

sockets == <<stage, flight, owner>>
main == <<drawing, batch, open, store, applied, highest>>
vars == <<minted, sockets, queue, main, receipt, lost, closed>>

Init ==
  /\ minted = 0
  /\ stage = [c \in Clients |-> "idle"] /\ flight = [c \in Clients |-> None]
  /\ owner = None
  /\ queue = <<>> /\ drawing = FALSE /\ batch = <<>>
  /\ open = None /\ store = [k \in Keys |-> 0]
  /\ applied = {} /\ highest = 0
  /\ receipt = [s \in 1..MaxSequence |-> None]
  /\ lost = FALSE /\ closed = FALSE

----------------------------------------------------------------------------
(***************************************************************************)
(* The kinds of action and the bounded queue.                              *)
(***************************************************************************)
Keyed(a) == a.kind = "set"                       \* coalesce_key is Some
Priority(a) == a.kind \notin {"set", "mark"}     \* is_priority
PerformanceOnly(a) == a.kind \in {"load", "seek", "rescan"}

SeqsOf(q) == {q[i].seq : i \in DOMAIN q}

RepeatsRescan(q, a) ==
  a.kind = "rescan" /\ \E i \in DOMAIN q: q[i].kind = "rescan"

RepeatsSeek(q, a) == a.kind = "seek" /\ q # <<>> /\ Last(q).kind = "seek"

\* Mutant: a value coalesces with an older one wherever that waits.
TwinsAnywhere(q, a) ==
  {i \in DOMAIN q: Keyed(a) /\ Keyed(q[i]) /\ q[i].key = a.key}

\* The values a new one may replace: behind the last un-keyed action.
Twins(q, a) ==
  {i \in DOMAIN q: /\ Keyed(a) /\ Keyed(q[i]) /\ q[i].key = a.key
                   /\ \A j \in i..Len(q): Keyed(q[j])}

\* Room is made by the oldest ordinary action, else by the oldest of all.
Evicted(q) ==
  LET ordinary == {i \in DOMAIN q: ~Priority(q[i])}
  IN IF ordinary = {} THEN 1 ELSE Min(ordinary)

Result(q, ended, disposition, dropped) ==
  [queue |-> q, ended |-> ended, as |-> disposition, dropped |-> dropped]

Full(q) == Len(q) >= MaxPendingActions

\* Push to the tail after the action at position i left.
Displace(q, i, a, disposition) ==
  Result(Append(RemoveAt(q, i), a), {q[i].seq}, disposition, FALSE)

\* enqueue_bounded_detailed: the queue it leaves and what it terminates.
Enqueue(q, a) ==
  CASE RepeatsRescan(q, a) -> Result(q, {a.seq}, "Coalesced", FALSE)
    [] RepeatsSeek(q, a) -> Displace(q, Len(q), a, "Coalesced")
    [] Twins(q, a) # {} -> Displace(q, Max(Twins(q, a)), a, "Coalesced")
    [] OTHER ->
         IF Priority(a)
         THEN IF Full(q) THEN Displace(q, Evicted(q), a, "Superseded")
                         ELSE Result(Append(q, a), {}, None, FALSE)
         ELSE IF Len(q) >= MaxPendingActions - PriorityReserve
              THEN Result(q, {a.seq}, "Refused", TRUE)
              ELSE Result(Append(q, a), {}, None, FALSE)

Settle(ended, disposition) ==
  receipt' = [s \in DOMAIN receipt |->
                IF s \in ended THEN disposition ELSE receipt[s]]

HasFinish(q, ended) ==
  \E i \in DOMAIN q: q[i].seq \in ended /\ q[i].kind \in Finish

\* The queue takes a, and what that terminates gets its receipt.
Push(a) ==
  LET r == Enqueue(queue, a)
  IN /\ queue' = r.queue
     /\ Settle(r.ended, r.as)
     /\ lost' = (lost \/ (r.as = "Superseded" /\ HasFinish(queue, r.ended)))

----------------------------------------------------------------------------
(***************************************************************************)
(* A socket task.  The ownership lock is held exactly while some task is   *)
(* in stage queue.                                                         *)
(***************************************************************************)
Unlocked == \A c \in Clients: stage[c] # "queue"

\* The typed parse edge: an envelope and its armed guard.
Mint(c, kind, key) ==
  /\ stage[c] = "idle" /\ ~closed /\ minted < MaxSequence
  /\ minted' = minted + 1
  /\ flight' = [flight EXCEPT ![c] =
       [seq |-> minted', kind |-> kind, client |-> c, key |-> key]]
  /\ stage' = [stage EXCEPT ![c] = "gate"]
  /\ UNCHANGED <<owner, queue, main, receipt, lost, closed>>

Owns(c) == owner # None /\ owner.client = c

\* The gate: one controller and one destination per gesture, and a Cancel only
\* before its first value.
MayPass(a) ==
  CASE a.kind = "begin" -> owner = None
    [] a.kind = "end" -> Owns(a.client)
    [] a.kind = "cancel" -> Owns(a.client) /\ ~owner.dirty
    [] OTHER -> \/ owner = None \/ PerformanceOnly(a)
                \/ Owns(a.client) /\ Keyed(a) /\ owner.key \in {None, a.key}

\* The ownership lock is taken; it is kept only by what passes.
Pass(c) ==
  /\ stage[c] = "gate" /\ Unlocked /\ MayPass(flight[c])
  /\ stage' = [stage EXCEPT ![c] = "queue"]
  /\ UNCHANGED <<minted, flight, owner, queue, main, receipt, lost, closed>>

Refuse(c) ==
  /\ stage[c] = "gate" /\ Unlocked /\ ~MayPass(flight[c])
  /\ stage' = [stage EXCEPT ![c] = "idle"]
  /\ flight' = [flight EXCEPT ![c] = None]
  /\ Settle({flight[c].seq}, "Refused")
  /\ UNCHANGED <<minted, owner, queue, main, lost, closed>>

\* The owner after an action was admitted.
OwnerAfter(a) ==
  CASE a.kind = "begin" -> [client |-> a.client, dirty |-> FALSE, key |-> None]
    [] a.kind \in Finish -> None
    [] OTHER -> IF owner = None \/ PerformanceOnly(a) THEN owner
                ELSE [owner EXCEPT !.dirty = TRUE, !.key = a.key]

\* Mutant: the guard stays armed after the queue took the envelope.
AdmitArmed(c) ==
  /\ stage[c] = "queue"
  /\ Push(flight[c])
  /\ owner' = IF Enqueue(queue, flight[c]).dropped THEN owner
              ELSE OwnerAfter(flight[c])
  /\ stage' = [stage EXCEPT ![c] = "idle"]
  /\ UNCHANGED <<minted, flight, main, closed>>

\* The queue lock: the guard is disarmed, the action enqueued, the owner
\* updated and both locks released without an await in between.
Admit(c) ==
  /\ stage[c] = "queue"
  /\ Push(flight[c])
  /\ owner' = IF Enqueue(queue, flight[c]).dropped THEN owner
              ELSE OwnerAfter(flight[c])
  /\ stage' = [stage EXCEPT ![c] = "idle"]
  /\ flight' = [flight EXCEPT ![c] = None]
  /\ UNCHANGED <<minted, main, closed>>

\* The tab disappears: the task is aborted at its await and an armed guard
\* records Refused.
Vanish(c) ==
  /\ stage[c] \in {"idle", "gate", "queue"} /\ ~closed
  /\ stage' = [stage EXCEPT ![c] = "closing"]
  /\ flight' = [flight EXCEPT ![c] = None]
  /\ Settle(IF flight[c] = None THEN {} ELSE {flight[c].seq}, "Refused")
  /\ UNCHANGED <<minted, owner, queue, main, lost, closed>>

\* Mutant: ownership is cleared before the End is in the queue.
DisconnectOwnerFirst(c) ==
  /\ stage[c] = "closing" /\ Unlocked /\ ~closed
  /\ owner' = None
  /\ IF Owns(c)
     THEN /\ minted < MaxSequence
          /\ minted' = minted + 1
          /\ flight' = [flight EXCEPT ![c] =
               [seq |-> minted', kind |-> "end", client |-> c, key |-> None]]
          /\ stage' = stage
     ELSE /\ stage' = [stage EXCEPT ![c] = "gone"]
          /\ flight' = [flight EXCEPT ![c] = None]
          /\ minted' = minted
  /\ IF flight[c] = None THEN UNCHANGED <<queue, receipt, lost>> ELSE Push(flight[c])
  /\ UNCHANGED <<main, closed>>

\* disconnect_browser_history_gesture: End(old) is in the queue before the
\* ownership lock lets another client begin.
Disconnect(c) ==
  /\ stage[c] = "closing" /\ Unlocked /\ ~closed
  /\ stage' = [stage EXCEPT ![c] = "gone"]
  /\ IF Owns(c)
     THEN /\ minted < MaxSequence
          /\ minted' = minted + 1
          /\ owner' = None
          /\ Push([seq |-> minted', kind |-> "end", client |-> c, key |-> None])
     ELSE UNCHANGED <<minted, owner, queue, receipt, lost>>
  /\ UNCHANGED <<flight, main, closed>>

Socket(c) ==
  \/ \E kind \in Sends[c] \ {"set"}: Mint(c, kind, None)
  \/ \E key \in Keys: "set" \in Sends[c] /\ Mint(c, "set", key)
  \/ Pass(c) \/ Refuse(c) \/ Admit(c) \/ Vanish(c) \/ Disconnect(c)

----------------------------------------------------------------------------
(***************************************************************************)
(* The frame loop.                                                         *)
(***************************************************************************)
\* A frame begins; it finds the queue locked, or takes all that is queued.
Drain ==
  /\ ~drawing /\ ~closed
  /\ drawing' = TRUE
  /\ \/ batch' = queue /\ queue' = <<>>
     \/ UNCHANGED <<batch, queue>>
  /\ UNCHANGED <<minted, sockets, open, store, applied, highest, receipt, lost,
                 closed>>

\* record_applied_action_identity: a full monitor ends the action at once and
\* leaves the high-water mark alone.
RecordApplied(s) ==
  IF Cardinality(applied) >= MaxInFlight
  THEN Settle({s}, "NotYetPresented") /\ UNCHANGED <<applied, highest>>
  ELSE /\ applied' = applied \cup {s}
       /\ highest' = Max({highest, s})
       /\ UNCHANGED receipt

Changed(o) == IF o = None THEN None ELSE [o EXCEPT !.changed = TRUE]

Opened(a) == open # None /\ open.client = a.client

\* The head of the batch, of one of these kinds.
HeadIs(kinds) == drawing /\ batch # <<>> /\ Head(batch).kind \in kinds

\* What every single application leaves alone.
Quiet == UNCHANGED <<minted, sockets, drawing, closed>>

\* Main refuses an action: a stale target, an invalid value, nothing to do.
ApplyRefused ==
  /\ HeadIs({"set", "mark", "seek", "rescan", "load", "look"})
  /\ batch' = Tail(batch)
  /\ Settle({Head(batch).seq}, "Refused")
  /\ Quiet /\ UNCHANGED <<queue, open, store, applied, highest, lost>>

\* begin_history_gesture
ApplyBegin ==
  /\ HeadIs({"begin"})
  /\ batch' = Tail(batch)
  /\ \/ /\ open = None
        /\ open' = [client |-> Head(batch).client, changed |-> FALSE]
        /\ Settle({Head(batch).seq}, "Coalesced")
     \/ /\ open # None \/ CaptureMayFail
        /\ Settle({Head(batch).seq}, "Refused") /\ UNCHANGED open
  /\ Quiet /\ UNCHANGED <<queue, store, applied, highest, lost>>

\* finish_history_gesture and cancel_history_gesture: the world is captured
\* first, and a changed world may not be cancelled.
ApplyFinish ==
  /\ HeadIs(Finish)
  /\ batch' = Tail(batch)
  /\ \/ /\ Opened(Head(batch))
        /\ Head(batch).kind = "cancel" => ~open.changed
        /\ open' = None
        /\ Settle({Head(batch).seq}, "Coalesced") /\ UNCHANGED lost
     \/ /\ \/ ~Opened(Head(batch))
           \/ Opened(Head(batch)) /\ Head(batch).kind = "cancel" /\ open.changed
           \/ CaptureMayFail
        /\ Settle({Head(batch).seq}, "Refused")
        /\ lost' = (lost \/ Opened(Head(batch)))
        /\ UNCHANGED open
  /\ Quiet /\ UNCHANGED <<queue, store, applied, highest>>

ApplySet ==
  /\ HeadIs({"set"})
  /\ batch' = Tail(batch)
  /\ store' = [store EXCEPT ![Head(batch).key] = Head(batch).seq]
  /\ open' = Changed(open)
  /\ RecordApplied(Head(batch).seq)
  /\ Quiet /\ UNCHANGED <<queue, lost>>

ApplyOther ==
  /\ HeadIs({"mark", "seek", "rescan"})
  /\ batch' = Tail(batch)
  /\ open' = IF Head(batch).kind = "mark" THEN Changed(open) ELSE open
  /\ RecordApplied(Head(batch).seq)
  /\ Quiet /\ UNCHANGED <<queue, store, lost>>

Pending == batch \o queue

\* A loaded show replaces the world: reset_patch_generation supersedes the
\* queue, SnapshotCommitted the rest of the batch.
ApplyLoad ==
  /\ HeadIs({"load"})
  /\ LET ended == SeqsOf(Tail(batch)) \cup SeqsOf(queue)
         load == Head(batch).seq
         full == Cardinality(applied) >= MaxInFlight
     IN /\ receipt' = [s \in DOMAIN receipt |->
                         IF s \in ended THEN "Superseded"
                         ELSE IF s = load /\ full THEN "NotYetPresented"
                         ELSE receipt[s]]
        /\ applied' = IF full THEN applied ELSE applied \cup {load}
        /\ highest' = IF full THEN highest ELSE Max({highest, load})
        /\ lost' = (lost \/ HasFinish(Pending, ended))
  /\ batch' = <<>> /\ queue' = <<>>
  /\ store' = [k \in Keys |-> 0]
  /\ open' = Changed(open)
  /\ Quiet

\* The actions of q that coalesce with nothing, in their order.
Unkeyed(q) ==
  LET kept[i \in 0..Len(q)] ==
        IF i = 0 THEN <<>>
        ELSE IF Keyed(q[i]) THEN kept[i - 1] ELSE Append(kept[i - 1], q[i])
  IN kept[Len(q)]

\* An applied look supersedes the values it conflicts with, in the queue
\* (invalidate_visual_generation_after_look) and in the batch (LookApplied).
ApplyLook ==
  /\ HeadIs({"look"})
  /\ LET ended == {Pending[i].seq : i \in {j \in DOMAIN Pending: Keyed(Pending[j])}}
         look == Head(batch).seq
         full == Cardinality(applied) >= MaxInFlight
     IN /\ receipt' = [s \in DOMAIN receipt |->
                         IF s \in ended THEN "Superseded"
                         ELSE IF s = look /\ full THEN "NotYetPresented"
                         ELSE receipt[s]]
        /\ applied' = IF full THEN applied ELSE applied \cup {look}
        /\ highest' = IF full THEN highest ELSE Max({highest, look})
  /\ batch' = Unkeyed(Tail(batch)) /\ queue' = Unkeyed(queue)
  /\ open' = Changed(open)
  /\ Quiet /\ UNCHANGED <<store, lost>>

\* drain_controller_events: MIDI and OSC values change the world whether or
\* not a gesture is open.
Automate ==
  /\ drawing /\ batch = <<>> /\ minted < MaxSequence
  /\ minted' = minted + 1
  /\ open' = Changed(open)
  /\ RecordApplied(minted')
  /\ UNCHANGED <<sockets, queue, drawing, batch, store, lost, closed>>

\* record_submission: what was applied up to the mark the frame carries.
Shown == {s \in applied: s <= highest}

\* The frame ends; it may reach no audience surface.
Present ==
  /\ drawing /\ batch = <<>>
  /\ drawing' = FALSE
  /\ \/ Settle(Shown, "Presented") /\ applied' = applied \ Shown
     \/ UNCHANGED <<receipt, applied>>
  /\ UNCHANGED <<minted, sockets, queue, batch, open, store, highest, lost,
                 closed>>

\* close_action_ingress_for_shutdown: the server's tasks are dropped with
\* their guards, then the queue and the monitor are emptied.
Shutdown ==
  /\ ~drawing /\ ~closed
  /\ closed' = TRUE
  /\ LET aborted == {flight[c].seq : c \in {d \in Clients: flight[d] # None}}
     IN receipt' = [s \in DOMAIN receipt |->
                      IF s \in aborted THEN "Refused"
                      ELSE IF s \in SeqsOf(queue) THEN "Superseded"
                      ELSE IF s \in applied THEN "NotYetPresented"
                      ELSE receipt[s]]
  /\ flight' = [c \in Clients |-> None] /\ stage' = [c \in Clients |-> "gone"]
  /\ queue' = <<>> /\ applied' = {}
  /\ lost' = (lost \/ HasFinish(queue, SeqsOf(queue)))
  /\ UNCHANGED <<minted, owner, drawing, batch, open, store, highest>>

Main ==
  \/ Drain \/ ApplyRefused \/ ApplyBegin \/ ApplyFinish \/ ApplySet
  \/ ApplyOther \/ ApplyLoad \/ ApplyLook \/ Automate \/ Present \/ Shutdown

Next == Main \/ \E c \in Clients: Socket(c)

Spec == Init /\ [][Next]_vars

----------------------------------------------------------------------------
\* Every variable stays in its type and the queue within its bound.
TypeOK ==
  /\ minted \in 0..MaxSequence
  /\ stage \in [Clients -> {"idle", "gate", "queue", "closing", "gone"}]
  /\ flight \in [Clients -> Actions \cup {None}]
  /\ owner \in [client: Clients, dirty: BOOLEAN, key: Keys \cup {None}]
                 \cup {None}
  /\ queue \in Seq(Actions) /\ Len(queue) <= MaxPendingActions
  /\ drawing \in BOOLEAN /\ batch \in Seq(Actions)
  /\ open \in [client: Clients, changed: BOOLEAN] \cup {None}
  /\ store \in [Keys -> Nat]
  /\ applied \in SUBSET Nat /\ highest \in Nat
  /\ receipt \in [1..MaxSequence -> Dispositions \cup {None}]
  /\ lost \in BOOLEAN /\ closed \in BOOLEAN

InFlight == {flight[c].seq : c \in {d \in Clients: flight[d] # None}}

Settled == {s \in DOMAIN receipt: receipt[s] # None}

\* Every sequence is in exactly one place: with its guard, in the queue, in
\* the batch, in the monitor, or behind its one terminal receipt ("cancellation
\* at any lock await records exactly one Refused receipt instead of orphaning
\* the sequence", src/src/web/state.rs).
OnePlace ==
  LET places == <<InFlight, SeqsOf(queue), SeqsOf(batch), applied, Settled>>
  IN /\ UNION {places[i] : i \in 1..5} = 1..minted
     /\ \A i, j \in 1..5: i # j => places[i] \cap places[j] = {}
     /\ IsInjective([i \in DOMAIN Pending |-> Pending[i].seq])

\* Main's gesture after one more action, as its client or None.
Follow(gesture, a) ==
  CASE a.kind = "begin" /\ gesture = None -> a.client
    [] a.kind \in Finish /\ gesture = a.client -> None
    [] OTHER -> gesture

\* Main's gesture when all that is pending has been applied.
OpenAfter ==
  LET after[i \in 0..Len(Pending)] ==
        IF i = 0 THEN (IF open = None THEN None ELSE open.client)
        ELSE Follow(after[i - 1], Pending[i])
  IN after[Len(Pending)]

\* Unless a boundary was lost on the way, the server and Main never have
\* different owners: whatever gesture Main will have open is the one the server
\* owns (the comment in disconnect_browser_history_gesture).
OwnersAgreeUnlessLost == lost \/ OpenAfter = None \/ Owns(OpenAfter)

\* The comment on the socket task (src/src/web/server.rs): Main records the
\* final value "instead of remaining permanently blocked by an orphaned
\* gesture".  A gesture Main has open and nothing pending closes is one some
\* client still owns.
NoOrphanedGesture ==
  open # None /\ Pending = <<>> /\ ~closed => Owns(open.client)

\* What a reset, capture or topology edit at position i of the pending actions
\* will observe: the value of each key when its turn comes.
View(values, q, i) ==
  [k \in Keys |->
     LET earlier == {j \in 1..(i - 1): q[j].kind = "set" /\ q[j].key = k}
     IN IF earlier = {} THEN values[k] ELSE q[Max(earlier)].seq]

\* Coalescing never changes what a queued barrier will observe: "a later value
\* never jumps ahead of an intervening reset or topology edit" (coalesce_key).
\* A step that supersedes or refuses pending work may.
BarriersKeepTheirView ==
  [][(\A i \in DOMAIN Pending:
        receipt'[Pending[i].seq] \notin {"Superseded", "Refused"})
     => \A i \in DOMAIN Pending, j \in DOMAIN Pending':
          Pending[i].seq = Pending'[j].seq /\ ~Keyed(Pending[i])
            => View(store, Pending, i) = View(store', Pending', j)]_vars
=============================================================================
