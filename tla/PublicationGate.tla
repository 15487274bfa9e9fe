-------------------------- MODULE PublicationGate --------------------------
(***************************************************************************)
(* LatestOnlyPublicationGate (src/src/publication_gate.rs) and the workers *)
(* that hold its tokens.  Each call is one step under the owner's mutex    *)
(* (src/tests/loom_publication_gate.rs).  A worker may finish whenever it  *)
(* likes, more than once, and try to publish any token it was given.       *)
(*                                                                         *)
(* The counters are machine words and wrap after Limit, which the code     *)
(* reaches after 2^64 - 1 requests; MaxRequests and MaxCancels keep a      *)
(* behaviour below that.                                                   *)
(***************************************************************************)
EXTENDS Naturals

CONSTANTS
  Limit,        \* u64::MAX
  MaxRequests,  \* bound on the requests
  MaxCancels,   \* bound on the cancellations
  None          \* Option::None

Tokens == [epoch: Nat, generation: Nat]

ASSUME GateAssumption ==
  /\ Limit \in Nat /\ MaxRequests \in 0..Limit /\ MaxCancels \in 0..Limit
  /\ None \notin Tokens /\ None \notin Nat

VARIABLES
  epoch, next_generation, requested, published_generation,
  held   \* the tokens in the hands of workers

vars == <<epoch, next_generation, requested, published_generation, held>>

Init ==
  /\ epoch = 0 /\ next_generation = 0
  /\ requested = None /\ published_generation = None
  /\ held = {}

WrappingSucc(n) == (n + 1) % (Limit + 1)

AtLeastOne(n) == IF n = 0 THEN 1 ELSE n

\* request: the caller gets the token, now the newest.
Request ==
  /\ next_generation < MaxRequests
  /\ next_generation' = AtLeastOne(WrappingSucc(next_generation))
  /\ requested' = [epoch |-> epoch, generation |-> next_generation']
  /\ held' = held \cup {requested'}
  /\ UNCHANGED <<epoch, published_generation>>

CancelAll ==
  /\ epoch < MaxCancels
  /\ epoch' = WrappingSucc(epoch)
  /\ requested' = None
  /\ UNCHANGED <<next_generation, published_generation, held>>

Publishable(token) ==
  /\ requested = token /\ token.epoch = epoch
  /\ published_generation # None => published_generation < token.generation

\* Mutant: the token is not consumed.
PublishAgain(token) ==
  /\ token \in held /\ Publishable(token)
  /\ published_generation' = token.generation
  /\ UNCHANGED <<epoch, next_generation, requested, held>>

\* try_publish when it succeeds; it changes nothing when it does not.  The
\* worker keeps its copy of the token.
Publish(token) ==
  /\ token \in held /\ Publishable(token)
  /\ published_generation' = token.generation
  /\ requested' = None
  /\ UNCHANGED <<epoch, next_generation, held>>

Next == Request \/ CancelAll \/ \E token \in held: Publish(token)

Spec == Init /\ [][Next]_vars

----------------------------------------------------------------------------
\* Every variable stays in its type.
TypeOK ==
  /\ epoch \in 0..MaxCancels /\ next_generation \in 0..MaxRequests
  /\ requested \in Tokens \cup {None}
  /\ published_generation \in Nat \cup {None}
  /\ held \in SUBSET [epoch: 0..epoch, generation: 1..next_generation]

\* The newest request can always publish unless it was cancelled: neither the
\* epoch nor the order check ever refuses the token that is outstanding.
OutstandingMayPublish ==
  requested # None => requested \in held /\ Publishable(requested)

\* "Stale work may never become visible" (src/src/publication_gate.rs): the
\* gate does what LatestOnly allows, whichever tokens its workers try.
Promise ==
  INSTANCE LatestOnly WITH
    asked <- next_generation,
    wanted <- IF requested = None THEN 0 ELSE requested.generation,
    visible <- IF published_generation = None THEN 0 ELSE published_generation

LatestOnlySpec == Promise!Spec

\* A cancellation invalidates every token already handed to a worker, and a
\* token has one publication owner: what becomes visible was asked for after
\* the last cancellation and after what was visible before.
PublishedIsFresh ==
  [][published_generation' # published_generation =>
       /\ \E token \in held:
            token.epoch = epoch /\ token.generation = published_generation'
       /\ published_generation' = next_generation]_vars
=============================================================================
