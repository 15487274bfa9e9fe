------------------------- MODULE StorageProofs -------------------------
(***************************************************************************)
(* What the proxy cache, the recovery journal and the flight recorder keep *)
(* over a stop of the process or of the machine, for any values of the     *)
(* constants: the cache's promises and its bound, the journal's            *)
(* checkpoints and discards, the recorder's sealed rotations and the       *)
(* evidence in their markers.  Each has an inductive invariant of its own, *)
(* which its section explains.                                             *)
(*                                                                         *)
(* First the promise: what the cache has told to be ready survives, for    *)
(* any keys, readers and limits, encodes, failures and corruptions.        *)
(* PublishedSurvives is not inductive alone.  A publication must find no   *)
(* promise under its key (Fresh), its content must be newer than whatever  *)
(* a reader may have read (Newer), and whoever is about to discard must    *)
(* have been refused something else than what is promised (Refusers).      *)
(***************************************************************************)
EXTENDS MCStorage, FiniteSetTheorems, WellFoundedInduction, SequenceTheorems, TLAPS

\* The promise with the directory as it is read now.
Kept ==
  \A k \in Keys: promised[k] # Absent =>
    /\ artifact[k] = promised[k] /\ seal[k] = promised[k]
    /\ artifacts[k] = {promised[k]} /\ seals[k] = {promised[k]}
    /\ entries[k] = promised[k]

\* A key on its way to publication is not in the index.
Fresh ==
  /\ encode.at \in {"encode", "evict", "rename", "sync"}
       => entries[encode.key] = Absent
  /\ encode.at = "sync" => seal[encode.key] = encode.content

\* A content to be published is the newest, and in nobody's hands.
Newer ==
  /\ encode.at \in {"evict", "rename", "sync"} =>
       /\ encode.content = made /\ made # Absent
       /\ \A k \in Keys : entries[k] # made
       /\ \A r \in Readers : reader[r].content # made
  /\ encode.content <= made
  /\ \A r \in Readers : reader[r].content <= made

\* Who is about to discard was refused something else than the promise.
Refusers ==
  /\ encode.at = "discard" /\ promised[encode.key] # Absent
       => promised[encode.key] # encode.content
  /\ \A r \in Readers:
       reader[r].at = "discard" /\ promised[reader[r].key] # Absent
         => promised[reader[r].key] # reader[r].content

IInv == TypeOK /\ Kept /\ Fresh /\ Newer /\ Refusers

----------------------------------------------------------------------------
\* Synced and Unsynced keep the types of what a power loss may leave.
LEMMA DiskTyped ==
  ASSUME TypeOK, made' = made,
         artifact' \in [Keys -> 0..Rotten], seal' \in [Keys -> 0..made],
         Synced \/ Unsynced \/ UNCHANGED <<artifacts, seals>>
  PROVE  /\ artifacts' \in [Keys -> SUBSET (0..Rotten)]
         /\ seals' \in [Keys -> SUBSET (0..made)]
<1>1. CASE Synced
  BY <1>1 DEF TypeOK, Synced
<1>2. CASE Unsynced
  BY <1>2 DEF TypeOK, Unsynced
<1>3. CASE UNCHANGED <<artifacts, seals>>
  BY <1>3 DEF TypeOK
<1> QED BY <1>1, <1>2, <1>3

\* A step that leaves the files and the entry of every key whose promise
\* stands keeps the promises, synced or not.
LEMMA PromisesKept ==
  ASSUME TypeOK, Kept,
         \A k \in Keys: promised'[k] # Absent =>
           /\ promised[k] = promised'[k] /\ entries'[k] = entries[k]
           /\ artifact'[k] = artifact[k] /\ seal'[k] = seal[k],
         Synced \/ Unsynced \/ UNCHANGED <<artifacts, seals>>
  PROVE  Kept'
<1> SUFFICES ASSUME NEW k \in Keys, promised'[k] # Absent
             PROVE  /\ artifact'[k] = promised'[k] /\ seal'[k] = promised'[k]
                    /\ artifacts'[k] = {promised'[k]} /\ seals'[k] = {promised'[k]}
                    /\ entries'[k] = promised'[k]
  BY DEF Kept, Absent
<1>1. /\ artifact'[k] = promised'[k] /\ seal'[k] = promised'[k]
      /\ artifacts[k] = {promised'[k]} /\ seals[k] = {promised'[k]}
      /\ entries'[k] = promised'[k]
  BY DEF Kept
<1>2. CASE Synced
  BY <1>1, <1>2 DEF Synced
<1>3. CASE Unsynced
  BY <1>1, <1>3 DEF Unsynced
<1>4. CASE UNCHANGED <<artifacts, seals>>
  BY <1>1, <1>4
<1> QED BY <1>1, <1>2, <1>3, <1>4

\* Discarding a key for another digest than the promised one ends that promise
\* and touches no other key.
LEMMA DiscardKeeps ==
  ASSUME TypeOK, Kept, MaxContents \in Nat, NEW k \in Keys, NEW d,
         promised[k] # Absent => promised[k] # d,
         DiscardInvalid(k, d), made' = made
  PROVE  /\ artifact' \in [Keys -> 0..Rotten] /\ seal' \in [Keys -> 0..made]
         /\ artifacts' \in [Keys -> SUBSET (0..Rotten)]
         /\ seals' \in [Keys -> SUBSET (0..made)]
         /\ faults' \in Nat
         /\ entries' = [entries EXCEPT ![k] = Absent]
         /\ promised' = [promised EXCEPT ![k] = Absent]
         /\ Kept'
<1>1. /\ entries' = [entries EXCEPT ![k] = Absent]
      /\ promised' = [promised EXCEPT ![k] = Absent]
  BY DEF DiscardInvalid, TypeOK
<1>2. Synced \/ Unsynced
  BY DEF DiscardInvalid, PersistRecency
<1>3. PICK as, ss \in SUBSET {k} : Unlinked(as, ss)
  BY DEF DiscardInvalid
<1>4. /\ artifact' \in [Keys -> 0..Rotten] /\ seal' \in [Keys -> 0..made]
  <2>1. Absent \in 0..Rotten /\ Absent \in 0..made
    BY DEF TypeOK, Absent, Rotten
  <2> QED BY <1>3, <2>1 DEF Unlinked, TypeOK
<1>5. \A j \in Keys \ {k} : artifact'[j] = artifact[j] /\ seal'[j] = seal[j]
  BY <1>3 DEF Unlinked
<1>6. faults' \in Nat
  BY DEF DiscardInvalid, PersistRecency, Fault, TypeOK
<1>7. \A j \in Keys: promised'[j] # Absent =>
        /\ promised[j] = promised'[j] /\ entries'[j] = entries[j]
        /\ artifact'[j] = artifact[j] /\ seal'[j] = seal[j]
  BY <1>1, <1>5 DEF TypeOK
<1>8. Kept'
  BY <1>2, <1>7, PromisesKept
<1>9. /\ artifacts' \in [Keys -> SUBSET (0..Rotten)]
      /\ seals' \in [Keys -> SUBSET (0..made)]
  BY <1>2, <1>4, DiskTyped
<1> QED BY <1>1, <1>4, <1>6, <1>8, <1>9

\* A touch writes no artifact and no seal.
LEMMA TouchKeeps ==
  ASSUME TypeOK, Kept, NEW k, Touch(k),
         UNCHANGED <<made, entries, promised>>
  PROVE  /\ UNCHANGED <<artifact, seal>>
         /\ artifacts' \in [Keys -> SUBSET (0..Rotten)]
         /\ seals' \in [Keys -> SUBSET (0..made)]
         /\ faults' \in Nat
         /\ Kept'
<1>1. UNCHANGED <<artifact, seal>>
  BY DEF Touch
<1>2. Synced \/ Unsynced \/ UNCHANGED <<artifacts, seals>>
  BY DEF Touch, PersistRecency
<1>3. Kept'
  BY <1>1, <1>2, PromisesKept
<1>4. faults' \in Nat
  BY DEF Touch, PersistRecency, Fault, TypeOK
<1> QED BY <1>1, <1>2, <1>3, <1>4, DiskTyped DEF TypeOK

----------------------------------------------------------------------------
\* The empty cache satisfies the invariant.
LEMMA InitIInv ==
  ASSUME MaxContents \in Nat, Keys # {}, Init
  PROVE  IInv
<1>1. TypeOK
  BY DEF Init, TypeOK, Idle, Job, Places, Absent, Rotten
<1>2. Kept
  BY DEF Init, Kept
<1>3. Fresh /\ Newer /\ Refusers
  BY DEF Init, Idle, Fresh, Newer, Refusers, Absent
<1> QED BY <1>1, <1>2, <1>3 DEF IInv

\* A worker's or a reader's step that writes no file and makes no promise.
LEMMA QuietStep ==
  ASSUME IInv, MaxContents \in Nat,
         UNCHANGED <<disk, entries, made, rot>>, faults' \in Nat,
         promised' \in [Keys -> 0..made],
         \A k \in Keys : promised'[k] \in {Absent, promised[k]}
  PROVE  /\ encode' \in Job /\ reader' \in [Readers -> Job] => TypeOK'
         /\ Kept'
<1>1. encode' \in Job /\ reader' \in [Readers -> Job] => TypeOK'
  BY DEF IInv, TypeOK, disk
<1>2. Kept'
  BY PromisesKept DEF IInv, disk
<1> QED BY <1>1, <1>2

\* The encode worker takes a job.
LEMMA BeginEncodeKeeps ==
  ASSUME IInv, MaxContents \in Nat, NEW k \in Keys, BeginEncode(k)
  PROVE  IInv'
<1> USE DEF IInv
<1>1. entries[k] \in 0..made /\ 0..made \subseteq 0..MaxContents
  BY DEF TypeOK
<1>2. TypeOK' /\ Kept'
  <2>1. encode' \in Job
    BY <1>1 DEF BeginEncode, Job, Places
  <2> QED BY <2>1, QuietStep DEF BeginEncode, encodeOnly, TypeOK
<1>3. Fresh'
  BY DEF BeginEncode, encodeOnly, Fresh, Indexed
<1>4. Newer'
  BY <1>1 DEF BeginEncode, encodeOnly, Newer
<1>5. Refusers'
  BY DEF BeginEncode, encodeOnly, Refusers
<1> QED BY <1>2, <1>3, <1>4, <1>5

\* The worker finds its artifact in the cache.
LEMMA CacheHitKeeps ==
  ASSUME IInv, MaxContents \in Nat, Keys # {}, CacheHit
  PROVE  IInv'
<1> USE DEF IInv
<1>1. /\ UNCHANGED <<artifact, seal>> /\ Kept' /\ faults' \in Nat
      /\ artifacts' \in [Keys -> SUBSET (0..Rotten)]
      /\ seals' \in [Keys -> SUBSET (0..made)]
  BY TouchKeeps DEF CacheHit
<1>2. TypeOK'
  BY <1>1 DEF CacheHit, TypeOK, Idle, Job, Places, Absent
<1>3. Fresh' /\ Newer' /\ Refusers'
  BY DEF CacheHit, Idle, Fresh, Newer, Refusers, Absent, TypeOK
<1> QED BY <1>1, <1>2, <1>3

\* What was refused is not what is promised, or is promised no more.
LEMMA RefusedEnds ==
  ASSUME IInv, MaxContents \in Nat, NEW k \in Keys, NEW content, Refused(k, content)
  PROVE  /\ promised' \in [Keys -> 0..made] /\ faults' \in Nat
         /\ \A j \in Keys : promised'[j] \in {Absent, promised[j]}
         /\ promised'[k] # Absent => promised'[k] # content
<1>1. CASE artifact[k] # content /\ UNCHANGED <<faults, promised>>
  BY <1>1 DEF IInv, TypeOK, Kept
<1>2. CASE Fault /\ promised' = [promised EXCEPT ![k] = Absent]
  BY <1>2 DEF IInv, TypeOK, Fault, Absent
<1> QED BY <1>1, <1>2 DEF Refused

\* The worker refuses its artifact.
LEMMA CacheMissKeeps ==
  ASSUME IInv, MaxContents \in Nat, CacheMiss
  PROVE  IInv'
<1> USE DEF IInv
<1>1. encode.key \in Keys
  BY DEF TypeOK, Job
<1>2. /\ promised' \in [Keys -> 0..made] /\ faults' \in Nat
      /\ \A j \in Keys : promised'[j] \in {Absent, promised[j]}
      /\ promised'[encode.key] # Absent => promised'[encode.key] # encode.content
  BY <1>1, RefusedEnds DEF CacheMiss
<1>3. TypeOK' /\ Kept'
  <2>1. encode' \in Job
    BY DEF CacheMiss, TypeOK, Job, Places
  <2> QED BY <1>2, <2>1, QuietStep DEF CacheMiss, TypeOK
<1>4. encode'.at = "discard" /\ encode'.key = encode.key /\ encode'.content = encode.content
  BY DEF CacheMiss, TypeOK, Job
<1>5. Fresh' /\ Newer'
  BY <1>4 DEF CacheMiss, Fresh, Newer
<1>6. Refusers'
  BY <1>2, <1>4 DEF CacheMiss, Refusers, TypeOK, Job
<1> QED BY <1>3, <1>5, <1>6

\* The worker discards what it refused.
LEMMA DiscardCachedKeeps ==
  ASSUME IInv, MaxContents \in Nat, DiscardCached
  PROVE  IInv'
<1> USE DEF IInv
<1>1. encode.key \in Keys
  BY DEF TypeOK, Job
<1>2. promised[encode.key] # Absent => promised[encode.key] # encode.content
  BY DEF Refusers, DiscardCached
<1>3. /\ artifact' \in [Keys -> 0..Rotten] /\ seal' \in [Keys -> 0..made]
      /\ artifacts' \in [Keys -> SUBSET (0..Rotten)]
      /\ seals' \in [Keys -> SUBSET (0..made)]
      /\ faults' \in Nat
      /\ entries' = [entries EXCEPT ![encode.key] = Absent]
      /\ promised' = [promised EXCEPT ![encode.key] = Absent]
      /\ Kept'
  BY <1>1, <1>2, DiscardKeeps DEF DiscardCached
<1>4. /\ encode'.at = "encode" /\ encode'.key = encode.key
      /\ encode'.content = Absent /\ encode' \in Job
  <2>1. encode' = [at |-> "encode", key |-> encode.key, content |-> Absent]
    BY DEF DiscardCached, TypeOK, Job
  <2> QED BY <1>1, <2>1 DEF Job, Places, Absent
<1>5. TypeOK'
  <2>1. Absent \in 0..made
    BY DEF TypeOK, Absent
  <2>2. entries' \in [Keys -> 0..made] /\ promised' \in [Keys -> 0..made]
    BY <1>3, <2>1 DEF TypeOK
  <2>3. UNCHANGED <<made, rot, reader>>
    BY DEF DiscardCached
  <2> QED BY <1>3, <1>4, <2>2, <2>3 DEF TypeOK
<1>6. Fresh'
  BY <1>1, <1>3, <1>4 DEF Fresh, TypeOK
<1>7. Newer'
  BY <1>3, <1>4 DEF DiscardCached, Newer, TypeOK, Absent
<1>8. Refusers'
  BY <1>3, <1>4 DEF DiscardCached, Refusers, TypeOK, Job
<1> QED BY <1>3, <1>5, <1>6, <1>7, <1>8

\* An encode that works numbers its content; one that fails ends the job.
LEMMA EncodeKeeps ==
  ASSUME IInv, MaxContents \in Nat, Keys # {}, Encode
  PROVE  IInv'
<1> USE DEF IInv
<1>1. CASE encode' = Idle /\ UNCHANGED made
  <2>1. encode' \in Job
    BY <1>1 DEF Idle, Job, Places, Absent
  <2>2. TypeOK' /\ Kept'
    BY <1>1, <2>1, QuietStep DEF Encode, TypeOK
  <2>3. Fresh' /\ Newer' /\ Refusers'
    BY <1>1 DEF Encode, Idle, Fresh, Newer, Refusers, Absent, TypeOK
  <2> QED BY <2>2, <2>3
<1>2. CASE /\ made < MaxContents /\ made' = made + 1
           /\ encode' = [encode EXCEPT !.at = "evict", !.content = made + 1]
  <2>1. /\ encode'.at = "evict" /\ encode'.key = encode.key
        /\ encode'.content = made' /\ encode' \in Job
    <3>1. encode' = [at |-> "evict", key |-> encode.key, content |-> made + 1]
      BY <1>2 DEF TypeOK, Job
    <3>2. made + 1 \in 0..MaxContents /\ encode.key \in Keys
      BY <1>2 DEF TypeOK, Job
    <3> QED BY <1>2, <3>1, <3>2 DEF Job, Places
  <2>2. made' \in 0..MaxContents /\ 0..made \subseteq 0..made' /\ made' # Absent
    BY <1>2 DEF TypeOK, Absent
  <2>3. TypeOK'
    <3>1. /\ seal' \in [Keys -> 0..made'] /\ entries' \in [Keys -> 0..made']
          /\ promised' \in [Keys -> 0..made']
      BY <2>2 DEF Encode, TypeOK, disk
    <3>2. seals' \in [Keys -> SUBSET (0..made')]
      BY <2>2 DEF Encode, TypeOK, disk
    <3> QED BY <2>1, <2>2, <3>1, <3>2 DEF Encode, TypeOK, disk
  <2>4. Kept'
    BY DEF Encode, Kept, disk
  <2>5. Fresh'
    BY <2>1 DEF Encode, Fresh, disk
  <2>6. Newer'
    <3>1. \A k \in Keys : entries[k] # made'
      BY <1>2 DEF TypeOK
    <3>2. \A r \in Readers : reader[r].content <= made /\ reader[r].content \in Nat
      BY DEF Newer, TypeOK, Job
    <3>3. \A r \in Readers : reader[r].content # made' /\ reader[r].content <= made'
      BY <1>2, <3>2 DEF TypeOK
    <3> QED BY <2>1, <2>2, <3>1, <3>3 DEF Encode, Newer
  <2>7. Refusers'
    BY <2>1 DEF Encode, Refusers
  <2> QED BY <2>3, <2>4, <2>5, <2>6, <2>7
<1> QED BY <1>1, <1>2 DEF Encode

\* Entries and promises dropped for some keys, whose files may be unlinked,
\* leave the promises of the others.
LEMMA DropKeeps ==
  ASSUME IInv, MaxContents \in Nat, UNCHANGED made,
         NEW ks \in SUBSET Keys, NEW as \in SUBSET ks, NEW ss \in SUBSET ks,
         entries' = Dropped(entries, ks), promised' = Dropped(promised, ks),
         Unlinked(as, ss), Synced \/ Unsynced
  PROVE  /\ artifact' \in [Keys -> 0..Rotten] /\ seal' \in [Keys -> 0..made]
         /\ artifacts' \in [Keys -> SUBSET (0..Rotten)]
         /\ seals' \in [Keys -> SUBSET (0..made)]
         /\ entries' \in [Keys -> 0..made] /\ promised' \in [Keys -> 0..made]
         /\ \A k \in Keys : entries'[k] \in {Absent, entries[k]}
         /\ \A k \in Keys : promised'[k] \in {Absent, promised[k]}
         /\ Kept'
<1> USE DEF IInv
<1>1. Absent \in 0..Rotten /\ Absent \in 0..made
  BY DEF TypeOK, Absent, Rotten
<1>2. /\ artifact' \in [Keys -> 0..Rotten] /\ seal' \in [Keys -> 0..made]
  BY <1>1 DEF Unlinked, TypeOK
<1>3. /\ entries' \in [Keys -> 0..made] /\ promised' \in [Keys -> 0..made]
      /\ \A k \in Keys : entries'[k] \in {Absent, entries[k]}
      /\ \A k \in Keys : promised'[k] \in {Absent, promised[k]}
  BY <1>1 DEF Dropped, TypeOK
<1>4. \A k \in Keys: promised'[k] # Absent =>
        /\ promised[k] = promised'[k] /\ entries'[k] = entries[k]
        /\ artifact'[k] = artifact[k] /\ seal'[k] = seal[k]
  BY DEF Dropped, Unlinked
<1>5. Kept'
  BY <1>4, PromisesKept
<1> QED BY <1>2, <1>3, <1>5, DiskTyped

\* A step that forgets entries and promises and ends the job, or moves it
\* towards its publication, keeps what is known of workers and readers.
LEMMA ForgettingStep ==
  ASSUME IInv, MaxContents \in Nat, UNCHANGED <<made, reader>>,
         \A k \in Keys : entries'[k] \in {Absent, entries[k]},
         \A k \in Keys : promised'[k] \in {Absent, promised[k]},
         \/ encode' = Idle
         \/ /\ encode.at = "evict" /\ encode'.at = "rename"
            /\ encode'.key = encode.key /\ encode'.content = encode.content
  PROVE  Fresh' /\ Newer' /\ Refusers'
<1> USE DEF IInv
<1>1. encode.key \in Keys /\ \A r \in Readers : reader[r].key \in Keys
  BY DEF TypeOK, Job
<1>2. \A r \in Readers:
        reader'[r].at = "discard" /\ promised'[reader'[r].key] # Absent
          => promised'[reader'[r].key] # reader'[r].content
  BY <1>1 DEF Refusers
<1>3. CASE encode' = Idle
  BY <1>2, <1>3 DEF Idle, Fresh, Newer, Refusers, Absent, TypeOK
<1>4. CASE /\ encode.at = "evict" /\ encode'.at = "rename"
           /\ encode'.key = encode.key /\ encode'.content = encode.content
  <2>1. Fresh'
    BY <1>1, <1>4 DEF Fresh
  <2>2. Newer'
    BY <1>4 DEF Newer
  <2>3. Refusers'
    BY <1>2, <1>4 DEF Refusers
  <2> QED BY <2>1, <2>2, <2>3
<1> QED BY <1>3, <1>4

\* Room is made for the publication.
LEMMA EvictKeeps ==
  ASSUME IInv, MaxContents \in Nat, Evict
  PROVE  IInv'
<1> USE DEF IInv
<1>1. /\ encode'.at = "rename" /\ encode'.key = encode.key
      /\ encode'.content = encode.content /\ encode' \in Job
  <2>1. encode' = [at |-> "rename", key |-> encode.key, content |-> encode.content]
    BY DEF Evict, TypeOK, Job
  <2> QED BY <2>1 DEF TypeOK, Job, Places
<1>2. PICK victims \in SUBSET Keys:
        /\ Preflight(encode.key, victims)
        /\ entries' = Dropped(entries, victims)
        /\ promised' = Dropped(promised, victims)
        /\ IF victims = {} THEN UNCHANGED <<disk, faults>>
           ELSE \/ Unlinked(victims, victims) /\ PersistRecency
                \/ \E left \in SUBSET victims \ {{}}:
                     /\ Unlinked(victims, victims \ left)
                     /\ (Synced \/ Unsynced) /\ Fault
  BY DEF Evict
<1>3. UNCHANGED <<made, reader, rot>>
  BY DEF Evict
<1>4. CASE victims = {}
  <2>1. UNCHANGED <<disk, faults>>
    BY <1>2, <1>4
  <2>2. entries' = entries /\ promised' = promised
    BY <1>2, <1>4 DEF Dropped, TypeOK
  <2>3. TypeOK' /\ Kept'
    BY <1>1, <1>3, <2>1, <2>2, QuietStep DEF TypeOK
  <2>4. Fresh' /\ Newer' /\ Refusers'
    BY <1>1, <1>3, <2>2, ForgettingStep DEF Evict
  <2> QED BY <2>3, <2>4
<1>5. CASE victims # {}
  <2>1. PICK left \in SUBSET victims : Unlinked(victims, victims \ left)
    <3>1. CASE Unlinked(victims, victims)
      BY <3>1
    <3> QED BY <1>2, <1>5, <3>1
  <2>2. Synced \/ Unsynced
    BY <1>2, <1>5 DEF PersistRecency
  <2>3. faults' \in Nat
    <3>1. UNCHANGED faults \/ Fault
      BY <1>2, <1>5 DEF PersistRecency
    <3>2. faults \in Nat
      BY DEF TypeOK
    <3> QED BY <3>1, <3>2 DEF Fault
  <2>4. /\ artifact' \in [Keys -> 0..Rotten] /\ seal' \in [Keys -> 0..made]
        /\ artifacts' \in [Keys -> SUBSET (0..Rotten)]
        /\ seals' \in [Keys -> SUBSET (0..made)]
        /\ entries' \in [Keys -> 0..made] /\ promised' \in [Keys -> 0..made]
        /\ \A k \in Keys : entries'[k] \in {Absent, entries[k]}
        /\ \A k \in Keys : promised'[k] \in {Absent, promised[k]}
        /\ Kept'
    BY <1>2, <1>3, <2>1, <2>2, DropKeeps
  <2>5. TypeOK'
    BY <1>1, <1>3, <2>3, <2>4 DEF TypeOK
  <2>6. Fresh' /\ Newer' /\ Refusers'
    BY <1>1, <1>3, <2>4, ForgettingStep DEF Evict
  <2> QED BY <2>4, <2>5, <2>6
<1> QED BY <1>4, <1>5

\* The idle job is one.
LEMMA IdleIsJob ==
  ASSUME Keys # {}, MaxContents \in Nat
  PROVE  Idle \in Job
  BY DEF Idle, Job, Places, Absent

\* The preflight refuses, or an unlink fails.
LEMMA EvictFailsKeeps ==
  ASSUME IInv, MaxContents \in Nat, Keys # {}, EvictFails
  PROVE  IInv'
<1> USE DEF IInv
<1>1. encode' = Idle /\ Idle \in Job /\ UNCHANGED <<made, reader, rot>>
  BY IdleIsJob DEF EvictFails
<1>2. CASE UNCHANGED <<disk, entries, faults, promised>>
  <2>1. TypeOK' /\ Kept'
    BY <1>1, <1>2, QuietStep DEF TypeOK
  <2>2. Fresh' /\ Newer' /\ Refusers'
    BY <1>1, <1>2, ForgettingStep
  <2> QED BY <2>1, <2>2
<1>3. CASE \E victims \in SUBSET Keys : \E k \in victims, gone \in SUBSET victims:
             /\ Preflight(encode.key, victims) /\ k \notin gone
             /\ Fault
             /\ entries' = Dropped(entries, gone \cup {k})
             /\ promised' = Dropped(promised, gone \cup {k})
             /\ Unlinked(gone, gone) /\ Unsynced
  <2>1. PICK victims \in SUBSET Keys:
          \E k \in victims, gone \in SUBSET victims:
            /\ Fault
            /\ entries' = Dropped(entries, gone \cup {k})
            /\ promised' = Dropped(promised, gone \cup {k})
            /\ Unlinked(gone, gone) /\ Unsynced
    BY <1>3
  <2> PICK k \in victims, gone \in SUBSET victims:
        /\ Fault
        /\ entries' = Dropped(entries, gone \cup {k})
        /\ promised' = Dropped(promised, gone \cup {k})
        /\ Unlinked(gone, gone) /\ Unsynced
    BY <2>1
  <2> DEFINE ks == gone \cup {k}
  <2>2. /\ artifact' \in [Keys -> 0..Rotten] /\ seal' \in [Keys -> 0..made]
        /\ artifacts' \in [Keys -> SUBSET (0..Rotten)]
        /\ seals' \in [Keys -> SUBSET (0..made)]
        /\ entries' \in [Keys -> 0..made] /\ promised' \in [Keys -> 0..made]
        /\ \A x \in Keys : entries'[x] \in {Absent, entries[x]}
        /\ \A x \in Keys : promised'[x] \in {Absent, promised[x]}
        /\ Kept'
    <3>1. ks \in SUBSET Keys /\ gone \in SUBSET ks
      OBVIOUS
    <3>2. entries' = Dropped(entries, ks) /\ promised' = Dropped(promised, ks)
      OBVIOUS
    <3> QED BY <1>1, <3>1, <3>2, DropKeeps
  <2>3. TypeOK'
    <3>1. faults' \in Nat
      BY DEF Fault, TypeOK
    <3> QED BY <1>1, <2>2, <3>1 DEF TypeOK
  <2>4. Fresh' /\ Newer' /\ Refusers'
    BY <1>1, <2>2, ForgettingStep
  <2> QED BY <2>2, <2>3, <2>4
<1> QED BY <1>2, <1>3 DEF EvictFails

\* Artifact and seal are renamed under a key nothing is promised for.
LEMMA RenameKeeps ==
  ASSUME IInv, MaxContents \in Nat, Rename
  PROVE  IInv'
<1> USE DEF IInv
<1>1. encode.key \in Keys /\ encode.content \in 0..made /\ encode.content \in 0..Rotten
  BY DEF Rename, Newer, TypeOK, Job, Rotten
<1>2. promised[encode.key] = Absent
  BY <1>1 DEF Rename, Fresh, Kept
<1>3. /\ encode'.at = "sync" /\ encode'.key = encode.key
      /\ encode'.content = encode.content /\ encode' \in Job
  <2>1. encode' = [at |-> "sync", key |-> encode.key, content |-> encode.content]
    BY DEF Rename, TypeOK, Job
  <2> QED BY <2>1 DEF TypeOK, Job, Places
<1>4. /\ artifact' \in [Keys -> 0..Rotten] /\ seal' \in [Keys -> 0..made]
      /\ seal'[encode.key] = encode.content
  BY <1>1 DEF Rename, TypeOK
<1>5. TypeOK'
  BY <1>3, <1>4, DiskTyped DEF Rename, TypeOK
<1>6. Kept'
  BY <1>2, PromisesKept DEF Rename, TypeOK
<1>7. Fresh'
  BY <1>3, <1>4 DEF Rename, Fresh
<1>8. Newer' /\ Refusers'
  BY <1>3 DEF Rename, Newer, Refusers
<1> QED BY <1>5, <1>6, <1>7, <1>8

\* The publication becomes durable and is promised.
LEMMA SyncAndInsertKeeps ==
  ASSUME IInv, MaxContents \in Nat, Keys # {}, SyncAndInsert
  PROVE  IInv'
<1> USE DEF IInv
<1>1. /\ encode.key \in Keys /\ encode.content = made /\ made \in 0..made
      /\ seal[encode.key] = made /\ made # Absent /\ Absent \in 0..made
  BY DEF SyncAndInsert, Newer, Fresh, TypeOK, Job, Absent
<1>2. /\ entries' \in [Keys -> 0..made] /\ promised' \in [Keys -> 0..made]
      /\ entries' = [entries EXCEPT ![encode.key] = made]
      /\ promised'[encode.key] \in {Absent, made}
      /\ promised'[encode.key] # Absent => artifact[encode.key] = made
      /\ \A k \in Keys \ {encode.key} : promised'[k] = promised[k]
  BY <1>1 DEF SyncAndInsert, TypeOK
<1>3. encode' = Idle /\ Idle \in Job
  BY IdleIsJob DEF SyncAndInsert
<1>4. TypeOK'
  BY <1>2, <1>3, DiskTyped DEF SyncAndInsert, TypeOK
<1>5. Kept'
  <2> SUFFICES ASSUME NEW k \in Keys, promised'[k] # Absent
               PROVE  /\ artifact'[k] = promised'[k] /\ seal'[k] = promised'[k]
                      /\ artifacts'[k] = {promised'[k]} /\ seals'[k] = {promised'[k]}
                      /\ entries'[k] = promised'[k]
    BY DEF Kept, Absent
  <2>1. CASE k = encode.key
    BY <1>1, <1>2, <2>1 DEF SyncAndInsert, Synced, TypeOK
  <2>2. CASE k # encode.key
    BY <1>2, <2>2 DEF SyncAndInsert, Synced, TypeOK, Kept
  <2> QED BY <2>1, <2>2
<1>6. Fresh' /\ Newer'
  BY <1>3 DEF SyncAndInsert, Idle, Fresh, Newer, Absent, TypeOK
<1>7. Refusers'
  <2>1. \A r \in Readers : reader[r].content # made /\ reader[r].key \in Keys
    BY DEF SyncAndInsert, Newer, TypeOK, Job
  <2>2. \A r \in Readers:
          reader[r].at = "discard" /\ promised'[reader[r].key] # Absent
            => promised'[reader[r].key] # reader[r].content
    BY <1>2, <2>1 DEF Refusers
  <2> QED BY <1>3, <2>2 DEF SyncAndInsert, Refusers, Idle
<1> QED BY <1>4, <1>5, <1>6, <1>7

\* A publication that fails leaves its key without a promise.
LEMMA PublishFailsKeeps ==
  ASSUME IInv, MaxContents \in Nat, Keys # {}, PublishFails
  PROVE  IInv'
<1> USE DEF IInv
<1>1. encode.key \in Keys /\ encode.content \in 0..Rotten
  BY DEF TypeOK, Job, Rotten
<1>2. promised[encode.key] = Absent
  BY <1>1 DEF PublishFails, Fresh, Kept
<1>3. encode' = Idle /\ Idle \in Job
  BY IdleIsJob DEF PublishFails
<1>4. /\ UNCHANGED <<seal, entries, reader, made, rot, promised>> /\ Unsynced
      /\ faults' \in Nat
  BY DEF PublishFails, Fault, TypeOK
<1>5. \/ UNCHANGED artifact
      \/ artifact' = [artifact EXCEPT ![encode.key] = encode.content]
  BY DEF PublishFails
<1>6. artifact' \in [Keys -> 0..Rotten]
  BY <1>1, <1>5 DEF TypeOK
<1>7. TypeOK'
  BY <1>3, <1>4, <1>6, DiskTyped DEF TypeOK
<1>8. Kept'
  <2>1. \A k \in Keys : promised[k] # Absent => artifact'[k] = artifact[k]
    BY <1>2, <1>5 DEF TypeOK
  <2> QED BY <1>4, <2>1, PromisesKept
<1>9. Fresh' /\ Newer' /\ Refusers'
  BY <1>3, <1>4, ForgettingStep
<1> QED BY <1>7, <1>8, <1>9

----------------------------------------------------------------------------
\* A reader's step that leaves the worker alone and ends or carries on with
\* what it read.
LEMMA ReaderStep ==
  ASSUME IInv, MaxContents \in Nat, NEW r \in Readers,
         UNCHANGED <<made, encode>>, NEW job \in Job,
         reader' = [reader EXCEPT ![r] = job],
         job.content <= made,
         encode.at \in {"evict", "rename", "sync"} => job.content # made,
         job.at = "discard" /\ promised'[job.key] # Absent
           => promised'[job.key] # job.content,
         encode.at = "sync" => seal'[encode.key] = seal[encode.key],
         \A k \in Keys : entries'[k] \in {Absent, entries[k]},
         \A k \in Keys : promised'[k] \in {Absent, promised[k]}
  PROVE  Fresh' /\ Newer' /\ Refusers' /\ reader' \in [Readers -> Job]
<1> USE DEF IInv
<1>1. encode.key \in Keys /\ \A q \in Readers : reader[q].key \in Keys
  BY DEF TypeOK, Job
<1>2. /\ reader' \in [Readers -> Job]
      /\ reader'[r] = job /\ \A q \in Readers \ {r} : reader'[q] = reader[q]
  BY DEF TypeOK
<1>3. Fresh'
  BY <1>1 DEF Fresh
<1>4. Newer'
  BY <1>2 DEF Newer
<1>5. Refusers'
  BY <1>1, <1>2 DEF Refusers
<1> QED BY <1>2, <1>3, <1>4, <1>5

\* A reader at work is a job, and so is what it becomes.
LEMMA ReaderJob ==
  ASSUME IInv, MaxContents \in Nat, NEW r \in Readers
  PROVE  /\ reader[r] \in Job /\ reader[r].key \in Keys
         /\ reader[r].content \in 0..MaxContents /\ reader[r].content <= made
         /\ encode.at \in {"evict", "rename", "sync"} => reader[r].content # made
         /\ \A at \in Places:
              /\ [reader[r] EXCEPT !.at = at] \in Job
              /\ [reader[r] EXCEPT !.at = at] =
                   [at |-> at, key |-> reader[r].key, content |-> reader[r].content]
<1>1. reader[r] \in Job
  BY DEF IInv, TypeOK
<1> QED BY <1>1 DEF IInv, Newer, Job

\* A reader takes key and digest under the lock.
LEMMA ConsultKeeps ==
  ASSUME IInv, MaxContents \in Nat, NEW r \in Readers, NEW k \in Keys, Consult(r, k)
  PROVE  IInv'
<1> USE DEF IInv
<1> DEFINE job == [at |-> "hash", key |-> k, content |-> entries[k]]
<1>1. entries[k] \in 0..made /\ entries[k] \in 0..MaxContents /\ entries[k] <= made
  BY DEF TypeOK
<1>2. job \in Job
  BY <1>1 DEF Job, Places
<1>3. encode.at \in {"evict", "rename", "sync"} => entries[k] # made
  BY DEF Newer
<1>4. reader' = [reader EXCEPT ![r] = job]
  BY DEF Consult
<1>5. Fresh' /\ Newer' /\ Refusers' /\ reader' \in [Readers -> Job]
  BY <1>1, <1>2, <1>3, <1>4, ReaderStep DEF Consult, disk
<1>6. TypeOK' /\ Kept'
  BY <1>5, QuietStep DEF Consult, TypeOK
<1> QED BY <1>5, <1>6

\* The bytes match, or the original cannot be probed.
LEMMA ReadKeeps ==
  ASSUME IInv, MaxContents \in Nat, Keys # {}, NEW r \in Readers,
         HashMatches(r) \/ ProbeFails(r)
  PROVE  IInv'
<1> USE DEF IInv
<1>1. UNCHANGED <<disk, entries, encode, made, faults, rot, promised>>
  BY DEF HashMatches, ProbeFails
<1>2. Fresh' /\ Newer' /\ Refusers' /\ reader' \in [Readers -> Job]
  <2>1. CASE HashMatches(r)
    <3> DEFINE job == [reader[r] EXCEPT !.at = "adopt"]
    <3>1. job \in Job /\ job.at = "adopt" /\ job.content = reader[r].content
      BY ReaderJob DEF Places
    <3>2. reader' = [reader EXCEPT ![r] = job]
      BY <2>1 DEF HashMatches, TypeOK
    <3> HIDE DEF job
    <3> QED BY <1>1, <3>1, <3>2, ReaderJob, ReaderStep DEF disk
  <2>2. CASE ProbeFails(r)
    <3>1. reader' = [reader EXCEPT ![r] = Idle] /\ Idle \in Job
      BY <2>2, IdleIsJob DEF ProbeFails
    <3>2. Idle.at = "idle" /\ Idle.content <= made
          /\ (encode.at \in {"evict", "rename", "sync"} => Idle.content # made)
      BY DEF Idle, Absent, TypeOK, Newer
    <3> QED BY <1>1, <3>1, <3>2, ReaderStep DEF disk
  <2> QED BY <2>1, <2>2
<1>3. TypeOK' /\ Kept'
  BY <1>1, <1>2, QuietStep DEF TypeOK
<1> QED BY <1>2, <1>3

\* A reader refuses what it read.
LEMMA ConsultRefusesKeeps ==
  ASSUME IInv, MaxContents \in Nat, NEW r \in Readers, ConsultRefuses(r)
  PROVE  IInv'
<1> USE DEF IInv
<1> DEFINE job == [reader[r] EXCEPT !.at = "discard"]
<1>1. /\ job \in Job /\ job.at = "discard" /\ job.content = reader[r].content
      /\ job.key = reader[r].key
  BY ReaderJob DEF Places
<1>2. reader' = [reader EXCEPT ![r] = job]
  BY DEF ConsultRefuses, TypeOK
<1>3. /\ promised' \in [Keys -> 0..made] /\ faults' \in Nat
      /\ \A j \in Keys : promised'[j] \in {Absent, promised[j]}
      /\ promised'[reader[r].key] # Absent
           => promised'[reader[r].key] # reader[r].content
  BY ReaderJob, RefusedEnds DEF ConsultRefuses
<1>4. UNCHANGED <<disk, entries, encode, made, rot>>
  BY DEF ConsultRefuses
<1> HIDE DEF job
<1>5. Fresh' /\ Newer' /\ Refusers' /\ reader' \in [Readers -> Job]
  <2>1. /\ job.content <= made
        /\ encode.at \in {"evict", "rename", "sync"} => job.content # made
    BY <1>1, ReaderJob
  <2>2. promised'[job.key] # Absent => promised'[job.key] # job.content
    BY <1>1, <1>3
  <2>3. /\ \A k \in Keys : entries'[k] \in {Absent, entries[k]}
        /\ seal'[encode.key] = seal[encode.key]
    BY <1>4 DEF disk
  <2> QED BY <1>1, <1>2, <1>3, <1>4, <2>1, <2>2, <2>3, ReaderStep
<1>6. TypeOK' /\ Kept'
  BY <1>3, <1>4, <1>5, QuietStep DEF TypeOK
<1> QED BY <1>5, <1>6

\* What an idle reader is.
LEMMA IdleReader ==
  ASSUME IInv, MaxContents \in Nat, Keys # {}
  PROVE  /\ Idle \in Job /\ Idle.at = "idle" /\ Idle.content <= made
         /\ encode.at \in {"evict", "rename", "sync"} => Idle.content # made
<1>1. Idle.at = "idle" /\ Idle.content = 0
  BY DEF Idle, Absent
<1>2. made \in Nat /\ (encode.at \in {"evict", "rename", "sync"} => made # 0)
  BY DEF IInv, TypeOK, Newer, Absent
<1> QED BY <1>1, <1>2, IdleIsJob

\* A reader adopts.
LEMMA AdoptKeeps ==
  ASSUME IInv, MaxContents \in Nat, Keys # {}, NEW r \in Readers, Adopt(r)
  PROVE  IInv'
<1> USE DEF IInv
<1>1. UNCHANGED <<entries, encode, made, rot, promised>>
  BY DEF Adopt
<1>2. /\ UNCHANGED <<artifact, seal>> /\ Kept' /\ faults' \in Nat
      /\ artifacts' \in [Keys -> SUBSET (0..Rotten)]
      /\ seals' \in [Keys -> SUBSET (0..made)]
  BY <1>1, TouchKeeps DEF Adopt
<1>3. reader' = [reader EXCEPT ![r] = Idle]
  BY DEF Adopt
<1>4. Fresh' /\ Newer' /\ Refusers' /\ reader' \in [Readers -> Job]
  BY <1>1, <1>2, <1>3, IdleReader, ReaderStep
<1>5. TypeOK'
  BY <1>1, <1>2, <1>4 DEF TypeOK
<1> QED BY <1>2, <1>4, <1>5

\* A reader discards what it refused.
LEMMA DiscardRefusedKeeps ==
  ASSUME IInv, MaxContents \in Nat, Keys # {}, NEW r \in Readers, DiscardRefused(r)
  PROVE  IInv'
<1> USE DEF IInv
<1> DEFINE k == reader[r].key
<1>1. k \in Keys
  BY ReaderJob
<1>2. promised[k] # Absent => promised[k] # reader[r].content
  BY DEF Refusers, DiscardRefused
<1>3. UNCHANGED <<encode, made, rot>> /\ reader' = [reader EXCEPT ![r] = Idle]
  BY DEF DiscardRefused
<1>4. DiscardInvalid(k, reader[r].content) /\ Unlocked
  BY DEF DiscardRefused, DiscardInvalid
<1> HIDE DEF k
<1>5. /\ artifact' \in [Keys -> 0..Rotten] /\ seal' \in [Keys -> 0..made]
      /\ artifacts' \in [Keys -> SUBSET (0..Rotten)]
      /\ seals' \in [Keys -> SUBSET (0..made)]
      /\ faults' \in Nat
      /\ entries' = [entries EXCEPT ![k] = Absent]
      /\ promised' = [promised EXCEPT ![k] = Absent]
      /\ Kept'
  BY <1>1, <1>2, <1>3, <1>4, DiscardKeeps
<1>6. /\ entries' \in [Keys -> 0..made] /\ promised' \in [Keys -> 0..made]
      /\ \A j \in Keys : entries'[j] \in {Absent, entries[j]}
      /\ \A j \in Keys : promised'[j] \in {Absent, promised[j]}
  <2>1. Absent \in 0..made
    BY DEF TypeOK, Absent
  <2> QED BY <1>5, <2>1 DEF TypeOK
<1>7. encode.at # "sync"
  BY <1>4 DEF Unlocked
<1>8. Fresh' /\ Newer' /\ Refusers' /\ reader' \in [Readers -> Job]
  BY <1>3, <1>6, <1>7, IdleReader, ReaderStep
<1>9. TypeOK'
  BY <1>3, <1>5, <1>6, <1>8 DEF TypeOK
<1> QED BY <1>5, <1>8, <1>9

----------------------------------------------------------------------------
\* A stop takes workers and readers; what is promised is on the disk twice
\* over and in the next session's index.
LEMMA RestartKeeps ==
  ASSUME IInv, MaxContents \in Nat, Keys # {}, Restart
  PROVE  IInv'
<1> USE DEF IInv
<1>1. /\ encode' = Idle /\ reader' = [r \in Readers |-> Idle]
      /\ UNCHANGED <<made, faults, rot, promised>>
  BY DEF Restart
<1>2. PICK as \in [Keys -> 0..Rotten], ss \in [Keys -> 0..made]:
        /\ Open(as, ss)
        /\ \/ as = artifact /\ ss = seal /\ Unsynced
           \/ /\ \A k \in Keys : as[k] \in artifacts[k] /\ ss[k] \in seals[k]
              /\ artifacts' = [k \in Keys |-> {as[k], artifact'[k]}]
              /\ seals' = [k \in Keys |-> {ss[k], seal'[k]}]
  <2>1. CASE Open(artifact, seal) /\ Unsynced
    BY <2>1 DEF TypeOK
  <2>2. CASE \E as, ss \in [Keys -> 0..Rotten]:
               /\ \A k \in Keys : as[k] \in artifacts[k] /\ ss[k] \in seals[k]
               /\ Open(as, ss)
               /\ artifacts' = [k \in Keys |-> {as[k], artifact'[k]}]
               /\ seals' = [k \in Keys |-> {ss[k], seal'[k]}]
    <3>1. PICK as \in [Keys -> 0..Rotten], ss \in [Keys -> 0..Rotten]:
            /\ \A k \in Keys : as[k] \in artifacts[k] /\ ss[k] \in seals[k]
            /\ Open(as, ss)
            /\ artifacts' = [k \in Keys |-> {as[k], artifact'[k]}]
            /\ seals' = [k \in Keys |-> {ss[k], seal'[k]}]
      BY <2>2
    <3>2. ss \in [Keys -> 0..made]
      BY <3>1 DEF TypeOK
    <3> QED BY <3>1, <3>2
  <2> QED BY <2>1, <2>2 DEF Restart
<1>3. Absent \in 0..Rotten /\ Absent \in 0..made
  BY DEF TypeOK, Absent, Rotten
<1>4. /\ artifact' \in [Keys -> 0..Rotten] /\ seal' \in [Keys -> 0..made]
      /\ entries' \in [Keys -> 0..made]
  BY <1>2, <1>3 DEF Open
<1>5. /\ artifacts' \in [Keys -> SUBSET (0..Rotten)]
      /\ seals' \in [Keys -> SUBSET (0..made)]
  <2>1. CASE Unsynced
    BY <1>1, <1>4, <2>1, DiskTyped
  <2>2. CASE /\ artifacts' = [k \in Keys |-> {as[k], artifact'[k]}]
             /\ seals' = [k \in Keys |-> {ss[k], seal'[k]}]
    BY <1>4, <2>2
  <2> QED BY <1>2, <2>1, <2>2
<1>6. TypeOK'
  BY <1>1, <1>4, <1>5, IdleIsJob DEF TypeOK
<1>7. Kept'
  <2> SUFFICES ASSUME NEW k \in Keys, promised[k] # Absent
               PROVE  /\ artifact'[k] = promised[k] /\ seal'[k] = promised[k]
                      /\ artifacts'[k] = {promised[k]} /\ seals'[k] = {promised[k]}
                      /\ entries'[k] = promised[k]
    BY <1>1 DEF Kept, Absent
  <2>1. as[k] = promised[k] /\ ss[k] = promised[k]
    BY <1>2 DEF Kept
  <2>2. /\ artifact'[k] = promised[k] /\ seal'[k] = promised[k]
        /\ entries'[k] = promised[k]
    BY <1>2, <2>1 DEF Open
  <2>3. artifacts'[k] = {promised[k]} /\ seals'[k] = {promised[k]}
    <3>1. CASE Unsynced
      BY <2>2, <3>1 DEF Unsynced, Kept
    <3>2. CASE /\ artifacts' = [j \in Keys |-> {as[j], artifact'[j]}]
               /\ seals' = [j \in Keys |-> {ss[j], seal'[j]}]
      BY <2>1, <2>2, <3>2
    <3> QED BY <1>2, <3>1, <3>2
  <2> QED BY <2>2, <2>3
<1>8. Idle.at = "idle" /\ Idle.content = 0 /\ made \in Nat
  BY DEF Idle, Absent, TypeOK
<1>9. Fresh' /\ Newer' /\ Refusers'
  BY <1>1, <1>8 DEF Fresh, Newer, Refusers
<1> QED BY <1>6, <1>7, <1>9

\* Changed bytes end their promise.
LEMMA RotKeeps ==
  ASSUME IInv, MaxContents \in Nat, NEW k \in Keys, Rot(k)
  PROVE  IInv'
<1> USE DEF IInv
<1>1. Rotten \in 0..Rotten /\ Absent \in 0..made
  BY DEF TypeOK, Absent, Rotten
<1>2. /\ artifact' \in [Keys -> 0..Rotten] /\ promised' \in [Keys -> 0..made]
      /\ artifacts' \in [Keys -> SUBSET (0..Rotten)]
  BY <1>1 DEF Rot, TypeOK
<1>3. TypeOK'
  BY <1>2 DEF Rot, TypeOK
<1>4. Kept'
  BY DEF Rot, Kept, TypeOK
<1>5. Fresh' /\ Newer'
  BY DEF Rot, Fresh, Newer
<1>6. Refusers'
  <2>1. \A j \in Keys : promised'[j] \in {Absent, promised[j]}
    BY DEF Rot, TypeOK
  <2>2. encode.key \in Keys /\ \A r \in Readers : reader[r].key \in Keys
    BY DEF TypeOK, Job
  <2> QED BY <2>1, <2>2 DEF Rot, Refusers
<1> QED BY <1>3, <1>4, <1>5, <1>6

\* Every step keeps the invariant.
LEMMA StepKeeps ==
  ASSUME MaxContents \in Nat, Keys # {}, IInv, [Next]_vars
  PROVE  IInv'
<1>1. CASE EncodeWorker
  BY <1>1, BeginEncodeKeeps, CacheHitKeeps, CacheMissKeeps, DiscardCachedKeeps,
     EncodeKeeps, EvictKeeps, EvictFailsKeeps, RenameKeeps, SyncAndInsertKeeps,
     PublishFailsKeeps DEF EncodeWorker
<1>2. CASE \E r \in Readers : Reader(r)
  BY <1>2, ConsultKeeps, ReadKeeps, ConsultRefusesKeeps, AdoptKeeps,
     DiscardRefusedKeeps DEF Reader
<1>3. CASE Restart
  BY <1>3, RestartKeeps
<1>4. CASE \E k \in Keys : Rot(k)
  BY <1>4, RotKeeps
<1>5. CASE UNCHANGED vars
  BY <1>5 DEF vars, disk, IInv, TypeOK, Kept, Fresh, Newer, Refusers
<1> QED BY <1>1, <1>2, <1>3, <1>4, <1>5 DEF Next

\* The invariant is one of every behaviour.
LEMMA InvariantHolds ==
  ASSUME MaxContents \in Nat, Keys # {}
  PROVE  Spec => []IInv
<1>1. Init => IInv
  BY InitIInv
<1>2. IInv /\ [Next]_vars => IInv'
  BY StepKeeps
<1> QED BY <1>1, <1>2, PTL DEF Spec

\* What was told to be ready survives stops, power losses and failures
\* (publish_staged, ProxyCacheStore::open).
THEOREM PublishedIsKept ==
  ASSUME MaxContents \in Nat, Keys # {}
  PROVE  Spec => []PublishedSurvives
<1>1. IInv => PublishedSurvives
  BY DEF IInv, Kept, PublishedSurvives
<1> QED BY <1>1, InvariantHolds, PTL

\* No seal and no index entry names bytes that no encode has made.
THEOREM ProxyTyped ==
  ASSUME MaxContents \in Nat, Keys # {}
  PROVE  Spec => []TypeOK
<1>1. IInv => TypeOK
  BY DEF IInv
<1> QED BY <1>1, InvariantHolds, PTL

----------------------------------------------------------------------------
(***************************************************************************)
(* The cache keeps its bound while no file operation fails.  The keys a    *)
(* stop may leave whole have both their files now (second part of Bound),  *)
(* those that have are in the index or just renamed (third), and these are *)
(* within the limits (last).                                               *)
(***************************************************************************)
Remaining == {k \in Keys : artifacts[k] # {Absent} /\ seals[k] # {Absent}}

Whole(k) == artifact[k] # Absent /\ seal[k] # Absent

\* The key for which the preflight has made room.
Landing == IF encode.at \in {"rename", "sync"} THEN {encode.key} ELSE {}

Bound ==
  /\ \A k \in Keys : artifact[k] \in artifacts[k] /\ seal[k] \in seals[k]
  /\ \A k \in Remaining : Whole(k)
  /\ \A k \in Keys :
       Whole(k) => k \in Indexed \/ (encode.at = "sync" /\ k = encode.key)
  /\ IsFiniteSet(Indexed) /\ Cardinality(Indexed \cup Landing) <= Capacity

Bounded == faults = 0 => Bound

\* At first there is nothing.
LEMMA BoundInit ==
  ASSUME Capacity \in Nat, Init
  PROVE  Bounded
<1>1. Indexed = {} /\ Remaining = {} /\ Landing = {}
  BY DEF Init, Indexed, Remaining, Landing, Idle, Absent
<1>2. Indexed \cup Landing = {}
  BY <1>1
<1> QED
  BY <1>1, <1>2, FS_EmptySet DEF Init, Bounded, Bound, Whole

\* After a directory sync only what is there can remain.
LEMMA SyncedRemaining ==
  ASSUME Synced
  PROVE  /\ \A k \in Keys : artifact'[k] \in artifacts'[k] /\ seal'[k] \in seals'[k]
         /\ \A k \in Remaining' : Whole(k)'
BY DEF Synced, Remaining, Whole

\* A file that stays, unsynced or not, remains as it could before.
LEMMA StillRemaining ==
  ASSUME Bound, UNCHANGED <<artifact, seal>>,
         Synced \/ Unsynced \/ UNCHANGED <<artifacts, seals>>
  PROVE  /\ \A k \in Keys : artifact'[k] \in artifacts'[k] /\ seal'[k] \in seals'[k]
         /\ \A k \in Remaining' : Whole(k)'
<1>1. CASE Synced
  BY <1>1, SyncedRemaining
<1>2. CASE Unsynced
  <2>1. ASSUME NEW k \in Keys
        PROVE  artifacts'[k] = artifacts[k] /\ seals'[k] = seals[k]
    BY <1>2 DEF Unsynced, Bound
  <2> QED
    BY <2>1 DEF Bound, Remaining, Whole
<1>3. CASE UNCHANGED <<artifacts, seals>>
  BY <1>3 DEF Bound, Remaining, Whole
<1> QED
  BY <1>1, <1>2, <1>3

\* The index and the landing key do not grow.
LEMMA SmallerBound ==
  ASSUME Capacity \in Nat, Bound,
         NEW T, T \subseteq Indexed \cup Landing
  PROVE  IsFiniteSet(T) /\ Cardinality(T) <= Capacity
<1> DEFINE S == Indexed \cup Landing
<1>1. IsFiniteSet(S) /\ Cardinality(S) <= Capacity
  <2>1. CASE Landing = {}
    <3>1. S = Indexed
      BY <2>1
    <3> QED
      BY <3>1 DEF Bound
  <2>2. CASE Landing = {encode.key}
    BY <2>2, FS_AddElement DEF Bound
  <2> QED
    BY <2>1, <2>2 DEF Landing
<1>2. IsFiniteSet(T) /\ Cardinality(T) <= Cardinality(S)
  BY <1>1, FS_Subset
<1>3. Cardinality(S) \in Nat /\ Cardinality(T) \in Nat
  BY <1>1, <1>2, FS_CardinalityType
<1> HIDE DEF S
<1> QED
  BY <1>1, <1>2, <1>3

\* A step that leaves the files and the index alone and keeps the lock's state.
LEMMA BoundKeeps ==
  ASSUME Bound, UNCHANGED <<artifact, seal, entries>>, Landing' = Landing,
         encode.at = "sync" => encode'.at = "sync" /\ encode'.key = encode.key,
         Synced \/ Unsynced \/ UNCHANGED <<artifacts, seals>>
  PROVE  Bound'
<1>1. Indexed' = Indexed
  BY DEF Indexed
<1>2. \A k \in Keys : Whole(k)' <=> Whole(k)
  BY DEF Whole
<1>3. \A k \in Keys : artifact'[k] \in artifacts'[k] /\ seal'[k] \in seals'[k]
  BY StillRemaining
<1>4. \A k \in Remaining' : Whole(k)'
  BY StillRemaining
<1>5. Cardinality(Indexed' \cup Landing') <= Capacity /\ IsFiniteSet(Indexed')
  BY <1>1 DEF Bound
<1>6. \A k \in Keys :
        Whole(k)' => k \in Indexed' \/ (encode'.at = "sync" /\ k = encode'.key)
  BY <1>1, <1>2 DEF Bound
<1> QED
  BY <1>3, <1>4, <1>5, <1>6 DEF Bound

\* A discard removes the files and the entry of its key.
LEMMA DiscardBound ==
  ASSUME Capacity \in Nat, Bound, TypeOK, faults = 0, faults' = 0,
         NEW k \in Keys, NEW d, DiscardInvalid(k, d), encode'.at \notin {"rename", "sync"}
  PROVE  Bound'
<1>1. /\ Unlocked /\ entries' = [entries EXCEPT ![k] = Absent]
      /\ Unlinked({k}, {k})
      /\ IF k \in Indexed THEN Synced ELSE Unsynced
  BY DEF DiscardInvalid, Fault, PersistRecency
<1>2. Landing = {} /\ Landing' = {} /\ encode.at # "sync"
  BY <1>1 DEF Unlocked, Landing
<1>3. Indexed' = Indexed \ {k}
  BY <1>1 DEF Indexed, TypeOK
<1>4. \A j \in Keys : /\ j # k => artifact'[j] = artifact[j] /\ seal'[j] = seal[j]
                      /\ j = k => artifact'[j] = Absent /\ seal'[j] = Absent
  BY <1>1 DEF Unlinked, TypeOK
<1>5. /\ \A j \in Keys : artifact'[j] \in artifacts'[j] /\ seal'[j] \in seals'[j]
      /\ \A j \in Remaining' : Whole(j)'
  <2>1. CASE Synced
    BY <2>1, SyncedRemaining
  <2>2. CASE Unsynced /\ k \notin Indexed
    <3>1. k \notin Remaining
      BY <1>2, <2>2 DEF Bound, Remaining
    <3>2. artifacts[k] = {Absent} \/ seals[k] = {Absent}
      BY <3>1 DEF Remaining
    <3>3. artifacts'[k] = {Absent} \/ seals'[k] = {Absent}
      BY <2>2, <3>2, <1>4 DEF Unsynced
    <3>4. ASSUME NEW j \in Keys, j # k
          PROVE  artifacts'[j] = artifacts[j] /\ seals'[j] = seals[j]
      BY <2>2, <3>4, <1>4 DEF Unsynced, Bound
    <3>5. ASSUME NEW j \in Remaining' PROVE Whole(j)'
      <4>1. j # k /\ j \in Keys
        BY <3>3 DEF Remaining
      <4>2. j \in Remaining
        BY <4>1, <3>4 DEF Remaining
      <4> QED
        BY <4>1, <4>2, <1>4 DEF Bound, Whole
    <3>6. \A j \in Keys : artifact'[j] \in artifacts'[j] /\ seal'[j] \in seals'[j]
      BY <2>2 DEF Unsynced
    <3> QED
      BY <3>5, <3>6
  <2> QED
    BY <1>1, <2>1, <2>2
<1>6. \A j \in Keys : Whole(j)' => j \in Indexed'
  BY <1>2, <1>3, <1>4 DEF Bound, Whole
<1>7. Indexed' \cup Landing' \subseteq Indexed \cup Landing
  BY <1>2, <1>3
<1>8. IsFiniteSet(Indexed') /\ Cardinality(Indexed' \cup Landing') <= Capacity
  <2>1. Indexed' \subseteq Indexed \cup Landing
    BY <1>3
  <2> QED
    BY <1>7, <2>1, SmallerBound
<1> QED
  BY <1>5, <1>6, <1>8 DEF Bound

\* The preflight makes room for one.
LEMMA EvictBound ==
  ASSUME Capacity \in Nat, Bound, TypeOK, faults = 0, faults' = 0, Evict
  PROVE  Bound'
<1>1. PICK victims \in SUBSET Keys :
        /\ Preflight(encode.key, victims)
        /\ entries' = Dropped(entries, victims)
        /\ IF victims = {} THEN UNCHANGED disk
           ELSE Unlinked(victims, victims) /\ Synced
  BY DEF Evict, PersistRecency, Fault
<1>2. encode.at = "evict" /\ encode' = [encode EXCEPT !.at = "rename"]
  BY DEF Evict
<1>3. Landing = {} /\ Landing' = {encode.key} /\ encode'.at = "rename" /\ encode.at # "sync"
  BY <1>2 DEF TypeOK, Job, Landing
<1>4. Indexed' = Indexed \ victims /\ victims \subseteq Indexed \ {encode.key}
  BY <1>1 DEF Indexed, Dropped, Preflight
<1>5. IsFiniteSet(Indexed) /\ IsFiniteSet(Indexed')
  BY <1>4, FS_Difference DEF Bound
<1>6. Cardinality(Indexed' \cup Landing') <= Capacity
  <2>1. /\ Cardinality(Indexed) \in Nat /\ Cardinality(Indexed') \in Nat
        /\ Cardinality(Indexed') = Cardinality(Indexed) - Cardinality(victims)
    <3>1. Indexed \cap victims = victims
      BY <1>4
    <3> QED
      BY <3>1, <1>4, <1>5, FS_Difference, FS_CardinalityType
  <2>2. Cardinality(Indexed' \cup Landing') =
          IF encode.key \in Indexed' THEN Cardinality(Indexed') ELSE Cardinality(Indexed') + 1
    BY <1>3, <1>5, FS_AddElement
  <2>3. /\ Cardinality(Indexed) <= Capacity
        /\ Cardinality(victims) = IF Cardinality(Indexed) < Capacity THEN 0
                                  ELSE Cardinality(Indexed) + 1 - Capacity
    BY <1>1 DEF Preflight
  <2>4. Cardinality(Indexed') + 1 <= Capacity
    BY <2>1, <2>3
  <2> QED
    BY <2>1, <2>2, <2>4
<1>7. /\ \A j \in Keys : artifact'[j] \in artifacts'[j] /\ seal'[j] \in seals'[j]
      /\ \A j \in Remaining' : Whole(j)'
  <2>1. CASE victims = {}
    BY <1>1, <2>1, StillRemaining DEF disk
  <2>2. CASE victims # {}
    BY <1>1, <2>2, SyncedRemaining
  <2> QED
    BY <2>1, <2>2
<1>8. \A j \in Keys : Whole(j)' => j \in Indexed'
  <2>1. \A j \in Keys : Whole(j)' => Whole(j) /\ j \notin victims
    <3>1. CASE victims = {}
      BY <1>1, <3>1 DEF disk, Whole
    <3>2. CASE victims # {}
      BY <1>1, <3>2 DEF Unlinked, Whole
    <3> QED
      BY <3>1, <3>2
  <2> QED
    BY <2>1, <1>3, <1>4 DEF Bound
<1> QED
  BY <1>5, <1>6, <1>7, <1>8 DEF Bound

\* The renamed artifact is the one there is room for.
LEMMA RenameBound ==
  ASSUME Bound, TypeOK, Newer, Rename
  PROVE  Bound'
<1>1. /\ encode.at = "rename" /\ encode' = [encode EXCEPT !.at = "sync"]
      /\ artifact' = [artifact EXCEPT ![encode.key] = encode.content]
      /\ seal' = [seal EXCEPT ![encode.key] = encode.content]
      /\ Unsynced /\ entries' = entries
  BY DEF Rename
<1>2. Landing' = Landing /\ Indexed' = Indexed /\ encode'.at = "sync" /\ encode'.key = encode.key
  BY <1>1 DEF TypeOK, Job, Landing, Indexed
<1>3. encode.content # Absent /\ encode.key \in Keys
  BY <1>1 DEF Newer, TypeOK, Job
<1>4. \A j \in Keys : /\ j # encode.key => artifact'[j] = artifact[j] /\ seal'[j] = seal[j]
                      /\ j = encode.key => Whole(j)'
  BY <1>1, <1>3 DEF Whole, TypeOK
<1>5. \A j \in Keys : artifact'[j] \in artifacts'[j] /\ seal'[j] \in seals'[j]
  BY <1>1 DEF Unsynced
<1>6. ASSUME NEW j \in Remaining' PROVE Whole(j)'
  <2>1. CASE j = encode.key
    BY <2>1, <1>3, <1>4
  <2>2. CASE j # encode.key
    <3>1. j \in Keys
      BY DEF Remaining
    <3>2. artifacts'[j] = artifacts[j] /\ seals'[j] = seals[j]
      BY <3>1, <2>2, <1>1, <1>4 DEF Unsynced, Bound
    <3>3. j \in Remaining
      BY <3>1, <3>2 DEF Remaining
    <3> QED
      BY <3>1, <3>3, <2>2, <1>4 DEF Bound, Whole
  <2> QED
    BY <2>1, <2>2
<1>7. \A j \in Keys :
        Whole(j)' => j \in Indexed' \/ (encode'.at = "sync" /\ j = encode'.key)
  BY <1>1, <1>2, <1>4 DEF Bound, Whole
<1>8. IsFiniteSet(Indexed') /\ Cardinality(Indexed' \cup Landing') <= Capacity
  BY <1>2 DEF Bound
<1> QED
  BY <1>5, <1>6, <1>7, <1>8 DEF Bound

\* The synced artifact enters the index.
LEMMA InsertBound ==
  ASSUME Capacity \in Nat, Bound, TypeOK, Newer, SyncAndInsert
  PROVE  Bound'
<1>1. /\ encode.at = "sync" /\ encode' = Idle /\ Synced /\ UNCHANGED <<artifact, seal>>
      /\ entries' = [entries EXCEPT ![encode.key] = encode.content]
  BY DEF SyncAndInsert
<1>2. encode.content # Absent /\ encode.key \in Keys
  BY <1>1 DEF Newer, TypeOK, Job
<1>3. /\ Indexed' = Indexed \cup {encode.key} /\ Landing = {encode.key} /\ Landing' = {}
      /\ Indexed' \cup Landing' = Indexed'
  BY <1>1, <1>2 DEF Indexed, TypeOK, Landing, Idle
<1>4. IsFiniteSet(Indexed') /\ Cardinality(Indexed' \cup Landing') <= Capacity
  BY <1>3, SmallerBound
<1>5. \A j \in Keys : Whole(j)' => j \in Indexed'
  BY <1>1, <1>3 DEF Bound, Whole
<1> QED
  BY <1>1, <1>4, <1>5, SyncedRemaining DEF Bound

\* A session opens what is whole, and that was within the limits.
LEMMA RestartBound ==
  ASSUME MaxContents \in Nat, Capacity \in Nat, Bound, TypeOK, Restart
  PROVE  Bound'
<1>1. PICK as \in [Keys -> 0..Rotten], ss \in [Keys -> 0..Rotten] :
        /\ Open(as, ss) /\ \A k \in Keys : as[k] \in artifacts[k] /\ ss[k] \in seals[k]
        /\ \/ as = artifact /\ ss = seal /\ Unsynced
           \/ /\ artifacts' = [k \in Keys |-> {as[k], artifact'[k]}]
              /\ seals' = [k \in Keys |-> {ss[k], seal'[k]}]
  <2>1. CASE Open(artifact, seal) /\ Unsynced
    <3>1. artifact \in [Keys -> 0..Rotten] /\ seal \in [Keys -> 0..Rotten]
      <4>1. 0..made \subseteq 0..Rotten
        BY DEF TypeOK, Rotten
      <4> QED
        BY <4>1 DEF TypeOK
    <3> QED
      BY <2>1, <3>1 DEF Bound
  <2>2. CASE ~(Open(artifact, seal) /\ Unsynced)
    BY <2>2 DEF Restart
  <2> QED
    BY <2>1, <2>2
<1> DEFINE W == {k \in Keys : as[k] # Absent /\ ss[k] # Absent}
<1>2. /\ \A k \in W : artifact'[k] = as[k] /\ seal'[k] = ss[k] /\ entries'[k] = ss[k]
      /\ \A k \in Keys \ W : artifact'[k] = Absent /\ seal'[k] = Absent /\ entries'[k] = Absent
  BY <1>1 DEF Open
<1>3. Indexed' = W /\ Landing' = {} /\ Indexed' \cup Landing' = W /\ encode' = Idle
  BY <1>2 DEF Indexed, Landing, Idle, Restart
<1>4. W \subseteq Remaining
  BY <1>1 DEF Remaining
<1>5. W \subseteq Indexed \cup Landing
  BY <1>4 DEF Bound, Landing, Remaining
<1>6. IsFiniteSet(Indexed') /\ Cardinality(Indexed' \cup Landing') <= Capacity
  BY <1>3, <1>5, SmallerBound
<1>7. \A k \in Keys : Whole(k)' <=> k \in W
  BY <1>2 DEF Whole
<1>8. ASSUME NEW k \in Remaining' PROVE k \in W
  <2>0. k \in Keys /\ artifacts'[k] # {Absent} /\ seals'[k] # {Absent}
    BY DEF Remaining
  <2>1. CASE as = artifact /\ ss = seal /\ Unsynced
    <3>1. ASSUME k \notin W PROVE FALSE
      <4>1. artifact'[k] = Absent /\ seal'[k] = Absent /\ ~Whole(k)
        BY <1>2, <2>0, <2>1, <3>1 DEF Whole
      <4>2. artifacts[k] = {Absent} \/ seals[k] = {Absent}
        BY <2>0, <4>1 DEF Bound, Remaining
      <4> QED
        BY <2>0, <2>1, <4>1, <4>2 DEF Unsynced
    <3> QED
      BY <3>1
  <2>2. CASE /\ artifacts' = [j \in Keys |-> {as[j], artifact'[j]}]
             /\ seals' = [j \in Keys |-> {ss[j], seal'[j]}]
    <3>1. artifacts'[k] = {as[k], artifact'[k]} /\ seals'[k] = {ss[k], seal'[k]}
      BY <2>0, <2>2
    <3> QED
      BY <2>0, <3>1, <1>2
  <2> QED
    BY <1>1, <2>1, <2>2
<1>9. \A k \in Keys : artifact'[k] \in artifacts'[k] /\ seal'[k] \in seals'[k]
  BY <1>1 DEF Unsynced
<1> HIDE DEF W
<1> QED
  BY <1>3, <1>6, <1>7, <1>8, <1>9 DEF Bound, Remaining

\* Other bytes under a seal weigh the same.
LEMMA RotBound ==
  ASSUME MaxContents \in Nat, Bound, TypeOK, NEW k \in Keys, Rot(k)
  PROVE  Bound'
<1>1. /\ artifact[k] # Absent /\ artifact' = [artifact EXCEPT ![k] = Rotten]
      /\ artifacts' = [artifacts EXCEPT ![k] = (@ \ {artifact[k]}) \cup {Rotten}]
      /\ UNCHANGED <<seal, seals, entries, encode>>
  BY DEF Rot
<1>2. Rotten # Absent
  BY DEF Rotten, Absent
<1>3. Indexed' = Indexed /\ Landing' = Landing
  BY <1>1 DEF Indexed, Landing
<1>4. \A j \in Keys : Whole(j)' <=> Whole(j)
  BY <1>1, <1>2 DEF Whole, TypeOK
<1>5. \A j \in Keys : artifact'[j] \in artifacts'[j] /\ seal'[j] \in seals'[j]
  BY <1>1 DEF Bound, TypeOK
<1>6. Remaining' \subseteq Remaining
  <2>1. artifacts[k] # {Absent}
    BY <1>1 DEF Bound
  <2>2. \A j \in Keys : j # k => artifacts'[j] = artifacts[j]
    BY <1>1 DEF TypeOK
  <2> QED
    BY <1>1, <2>1, <2>2 DEF Remaining
<1>7. \A j \in Remaining' : Whole(j)'
  BY <1>4, <1>6 DEF Bound, Remaining
<1> QED
  BY <1>1, <1>3, <1>4, <1>5, <1>7 DEF Bound

\* Every step without a failure keeps the bound.
LEMMA BoundStep ==
  ASSUME MaxContents \in Nat, Capacity \in Nat, IInv, Bounded, [Next]_vars
  PROVE  Bounded'
<1> SUFFICES ASSUME faults' = 0 PROVE Bound'
  BY DEF Bounded
<1>0. faults = 0 /\ Bound /\ TypeOK /\ Newer
  <2>1. faults' = faults \/ faults' = faults + 1
    BY DEF Next, vars, disk, encodeOnly, Restart, Rot, EncodeWorker, Reader, BeginEncode, CacheHit,
      CacheMiss, DiscardCached, Encode, Evict, EvictFails, Rename, SyncAndInsert,
      PublishFails, Consult, HashMatches, ConsultRefuses, Adopt, ProbeFails,
      DiscardRefused, Touch, Refused, DiscardInvalid, PersistRecency, Fault
  <2>2. faults \in Nat
    BY DEF IInv, TypeOK
  <2> QED
    BY <2>1, <2>2 DEF IInv, Bounded
<1>1. ~Fault
  BY <1>0 DEF Fault
<1>2. CASE UNCHANGED <<disk, entries>> /\ Landing' = Landing /\ encode.at # "sync"
  BY <1>0, <1>2, BoundKeeps DEF disk
<1>3. ASSUME NEW k \in Keys, BeginEncode(k) PROVE Bound'
  <2>1. encode.at = "idle" /\ encode'.at \notin {"rename", "sync"}
    BY <1>3 DEF BeginEncode
  <2> QED
    BY <1>2, <1>3, <2>1 DEF BeginEncode, encodeOnly, Landing
<1>4. CASE CacheHit
  <2>1. /\ UNCHANGED <<artifact, seal, entries>>
        /\ Synced \/ Unsynced \/ UNCHANGED <<artifacts, seals>>
        /\ Landing' = Landing /\ encode.at # "sync"
    BY <1>4 DEF CacheHit, Touch, PersistRecency, Landing, Idle
  <2> QED
    BY <1>0, <2>1, BoundKeeps
<1>5. CASE CacheMiss
  <2>1. encode.at = "check" /\ encode'.at = "discard"
    BY <1>0, <1>5 DEF CacheMiss, TypeOK, Job
  <2> QED
    BY <1>2, <1>5, <2>1 DEF CacheMiss, Landing
<1>6. CASE DiscardCached
  <2>1. DiscardInvalid(encode.key, encode.content) /\ encode.key \in Keys
        /\ encode'.at = "encode"
    BY <1>0, <1>6 DEF DiscardCached, TypeOK, Job
  <2> QED
    BY <1>0, <2>1, DiscardBound
<1>7. CASE Encode
  <2>1. encode.at = "encode" /\ encode'.at \in {"evict", "idle"}
    <3>1. CASE encode' = Idle
      BY <1>7, <3>1 DEF Encode, Idle
    <3>2. CASE encode' = [encode EXCEPT !.at = "evict", !.content = made + 1]
      BY <1>0, <1>7, <3>2 DEF Encode, TypeOK, Job
    <3> QED
      BY <1>7, <3>1, <3>2 DEF Encode
  <2> QED
    BY <1>2, <1>7, <2>1 DEF Encode, Landing
<1>8. CASE Evict
  BY <1>0, <1>8, EvictBound
<1>9. CASE EvictFails
  <2>1. encode.at = "evict" /\ encode' = Idle /\ UNCHANGED <<disk, entries>>
    BY <1>1, <1>9 DEF EvictFails
  <2> QED
    BY <1>2, <2>1 DEF Landing, Idle
<1>10. CASE Rename
  BY <1>0, <1>10, RenameBound
<1>11. CASE SyncAndInsert
  BY <1>0, <1>11, InsertBound
<1>12. CASE PublishFails
  BY <1>1, <1>12 DEF PublishFails
<1>13. ASSUME NEW r \in Readers, Reader(r) PROVE Bound'
  <2>1. CASE DiscardRefused(r)
    <3>1. /\ DiscardInvalid(reader[r].key, reader[r].content) /\ reader[r].key \in Keys
          /\ encode' = encode /\ encode.at \notin {"rename", "sync"}
      BY <1>0, <2>1 DEF DiscardRefused, TypeOK, Job, DiscardInvalid, Unlocked
    <3> QED
      BY <1>0, <3>1, DiscardBound
  <2>2. CASE ~DiscardRefused(r)
    <3>1. /\ UNCHANGED <<artifact, seal, entries, encode>>
          /\ Synced \/ Unsynced \/ UNCHANGED <<artifacts, seals>>
      BY <1>13, <2>2 DEF Reader, Consult, HashMatches, ConsultRefuses, Adopt,
        ProbeFails, Touch, PersistRecency, disk
    <3>2. Landing' = Landing
      BY <3>1 DEF Landing
    <3> QED
      BY <1>0, <3>1, <3>2, BoundKeeps
  <2> QED
    BY <2>1, <2>2
<1>14. CASE Restart
  BY <1>0, <1>14, RestartBound
<1>15. ASSUME NEW k \in Keys, Rot(k) PROVE Bound'
  BY <1>0, <1>15, RotBound
<1>16. CASE UNCHANGED vars
  <2>1. UNCHANGED <<disk, entries, encode>> /\ Landing' = Landing
    BY <1>16 DEF vars, Landing
  <2> QED
    BY <1>0, <2>1, BoundKeeps DEF disk
<1> QED
  BY <1>3, <1>4, <1>5, <1>6, <1>7, <1>8, <1>9, <1>10, <1>11, <1>12, <1>13, <1>14,
     <1>15, <1>16
  DEF Next, EncodeWorker

\* As long as no file operation failed, what a stop may leave is within the
\* limits (ProxyCachePlan::preflight, persist_recency).
THEOREM CacheStaysBounded ==
  ASSUME MaxContents \in Nat, Capacity \in Nat, Keys # {}
  PROVE  Spec => []CacheBounded
<1>1. Init => IInv /\ Bounded
  BY InitIInv, BoundInit
<1>2. IInv /\ Bounded /\ [Next]_vars => IInv' /\ Bounded'
  BY StepKeeps, BoundStep
<1>3. IInv /\ Bounded => CacheBounded
  <2> SUFFICES ASSUME Bound PROVE Cardinality(Remaining) <= Capacity
    BY DEF Bounded, CacheBounded, Remaining
  <2>1. Remaining \subseteq Indexed \cup Landing
    BY DEF Bound, Landing, Remaining
  <2> QED
    BY <2>1, SmallerBound
<1> QED
  BY <1>1, <1>2, <1>3, PTL DEF Spec

----------------------------------------------------------------------------
(***************************************************************************)
(* The recovery journal (RecoveryWriter): an acknowledged checkpoint       *)
(* survives and a discarded one does not come back, for any limits and any *)
(* number of requests, faults, restarts and power losses.                  *)
(*                                                                         *)
(* Both speak of what a scan finds in each content a crash may leave       *)
(* (JournalFound).  A scan of one more line finds what it found before or  *)
(* that line (LatestAppend), so an append can do no harm; what is          *)
(* acknowledged was read back from the one content the syncs have left     *)
(* (JournalPlaced), and requests are served in the order of their ids      *)
(* (JournalOrder).                                                         *)
(***************************************************************************)
Lines == Journal!Records \cup {Torn}
Latest(f) == Journal!Scan(f).latest

\* What the code has for the constants: a journal holds at least one entry,
\* and no record is taken for a torn one or for none.
JournalAssumption ==
  /\ MaxEntries \in Nat \ {0} /\ MaxRequests \in Nat
  /\ Torn \notin Journal!Records /\ None \notin Journal!Records
  /\ None \notin Seq(Lines)

\* The ids rise from what is promised or forgotten to what is in flight to
\* what is pending.
JournalOrder ==
  /\ issued \in Nat /\ acknowledged \in Nat /\ forgotten \in Nat
  /\ issued <= MaxRequests
  /\ acknowledged <= issued /\ forgotten <= issued
  /\ wpc \in Journal!Busy =>
       /\ in_flight \in Journal!Ids
       /\ acknowledged < in_flight /\ forgotten < in_flight /\ in_flight <= issued
  /\ pending # None =>
       /\ pending \in Journal!Requests
       /\ acknowledged < pending.id /\ forgotten < pending.id /\ pending.id <= issued
       /\ wpc \in Journal!Busy => in_flight < pending.id
  /\ wpc \in {"discard", "emptied", "discarded"} => acknowledged = 0 /\ forgotten = 0

\* What a crash may leave is a journal or none.
JournalDisk ==
  /\ file \in tails
  /\ tails \cup olds \subseteq Seq(Lines) \cup {None}
  /\ file = None => tails = {None} /\ olds = {}
  /\ ~DirectorySyncs => olds \subseteq {None}
  /\ next_record \in Nat \ {0}

\* What a request has put on the disk so far.
JournalPlaced ==
  /\ wpc \in {"written", "placed", "verify"} =>
       file # None /\ Len(file) > 0 /\ file[Len(file)] = Journal!Record
  /\ wpc \in {"placed", "emptied", "verify", "discarded"} => tails = {file}
  /\ wpc \in {"emptied", "discarded"} => file = <<>>
  /\ wpc \in {"verify", "discarded"} /\ DirectorySyncs => olds = {}

\* What a scan of any of them finds.  Without directory syncs a journal that
\* was just created may be gone.
JournalFound ==
  \A f \in Journal!Survivors :
    /\ DirectorySyncs /\ acknowledged # 0 =>
         Latest(f) # None /\ Latest(f).id >= acknowledged
    /\ forgotten # 0 /\ Latest(f) # None => Latest(f).id > forgotten

JournalInv == JournalOrder /\ JournalDisk /\ JournalPlaced /\ JournalFound

\* A nonempty set of naturals has a least member.
LEMMA LeastNat ==
  ASSUME NEW T \in SUBSET Nat, T # {}
  PROVE  \E x \in T : \A y \in T : x <= y
<1> DEFINE R == {ss \in Nat \X Nat : ss[1] < ss[2]}
<1>1. IsWellFoundedOn(R, Nat)
  BY NatLessThanWellFounded DEF OpToRel
<1>2. PICK x \in T : \A y \in T : ~(<<y, x>> \in R)
  <2> HIDE DEF R
  <2> QED
    BY <1>1, WFMin, Zenon
<1>3. ASSUME NEW y \in T
      PROVE  x <= y
  <2>1. <<y, x>> \in Nat \X Nat
    OBVIOUS
  <2>2. ~(<<y, x>> \in R)
    BY <1>2
  <2> QED
    BY <2>1, <2>2
<1> QED
  BY <1>3

\* The valid prefix of c is n lines long.
Prefix(c, n) ==
  /\ n \in 0..Len(c)
  /\ \A i \in 1..n : Journal!Readable(c, i)
  /\ n < Len(c) => ~Journal!Readable(c, n + 1)

\* scan_bytes finds one: the lines before the first one that is not readable.
LEMMA PrefixFound ==
  ASSUME NEW c \in Seq(Lines)
  PROVE  Prefix(c, Journal!ValidPrefix(c))
<1> DEFINE T == {n \in 0..Len(c) : n < Len(c) => ~Journal!Readable(c, n + 1)}
<1>1. T \in SUBSET Nat /\ Len(c) \in T /\ Len(c) \in Nat
  OBVIOUS
<1>2. PICK n \in T : \A m \in T : n <= m
  BY <1>1, LeastNat
<1>3. ASSUME NEW i \in 1..n PROVE Journal!Readable(c, i)
  <2>1. i - 1 \in 0..Len(c) /\ i - 1 < n /\ i - 1 < Len(c) /\ (i - 1) + 1 = i
    BY <1>1, <1>2
  <2>2. i - 1 \notin T
    BY <2>1, <1>1, <1>2
  <2> QED
    BY <2>1, <2>2
<1>4. Prefix(c, n)
  BY <1>3 DEF Prefix
<1>5. \E m \in 0..Len(c) : Prefix(c, m)
  BY <1>2, <1>4
<1>6. Journal!ValidPrefix(c) =
        CHOOSE m \in 0..Len(c) :
          /\ \A i \in 1..m : Journal!Readable(c, i)
          /\ m < Len(c) => ~Journal!Readable(c, m + 1)
  BY DEF Journal!ValidPrefix
<1> QED
  BY <1>5, <1>6 DEF Prefix

\* What a scan of a nonempty journal, or of none, returns.
LEMMA ScanOf ==
  ASSUME JournalAssumption, NEW c \in Seq(Lines)
  PROVE  \E n \in 0..Len(c) :
           /\ Prefix(c, n)
           /\ Latest(c) = IF n = 0 THEN None ELSE c[n]
           /\ Journal!Scan(c).bad <=> n < Len(c)
<1>1. c # None
  BY DEF JournalAssumption
<1>2. Journal!Contents(c) = c
  BY <1>1 DEF Journal!Contents
<1> DEFINE n == Journal!ValidPrefix(c)
<1>3. Prefix(c, n) /\ n \in 0..Len(c)
  BY PrefixFound DEF Prefix
<1>4. Journal!Scan(c) =
        [latest |-> IF n = 0 THEN None ELSE c[n], entries |-> n, bad |-> n < Len(c)]
  BY <1>2 DEF Journal!Scan
<1> HIDE DEF n
<1>5. Latest(c) = IF n = 0 THEN None ELSE c[n]
  BY <1>4 DEF Latest
<1>6. Journal!Scan(c).bad = (n < Len(c))
  BY <1>4
<1> QED
  BY <1>3, <1>5, <1>6

\* No checkpoint is found where there is no file, or an empty one.
LEMMA LatestOfNothing ==
  ASSUME JournalAssumption
  PROVE  Latest(None) = None /\ Latest(<<>>) = None
<1>1. <<>> \in Seq(Lines) /\ 0..Len(<<>>) = {0}
  OBVIOUS
<1>2. Latest(<<>>) = None
  <2>1. PICK n \in 0..Len(<<>>) : Latest(<<>>) = IF n = 0 THEN None ELSE <<>>[n]
    BY <1>1, ScanOf
  <2>2. n = 0
    BY <2>1, <1>1
  <2> QED
    BY <2>1, <2>2
<1>3. Journal!Contents(None) = <<>> /\ Journal!Contents(<<>>) = <<>>
  BY DEF Journal!Contents
<1>4. Journal!Scan(None) = Journal!Scan(<<>>)
  BY <1>3 DEF Journal!Scan
<1> QED
  BY <1>2, <1>4 DEF Latest

\* What is found is a record or nothing.
LEMMA LatestTyped ==
  ASSUME JournalAssumption, NEW f \in Seq(Lines) \cup {None}
  PROVE  Latest(f) \in Journal!Records \cup {None}
<1>1. CASE f = None
  BY <1>1, LatestOfNothing
<1>2. CASE f \in Seq(Lines)
  <2>1. PICK n \in 0..Len(f) : Prefix(f, n) /\ Latest(f) = IF n = 0 THEN None ELSE f[n]
    BY <1>2, ScanOf
  <2>2. CASE n # 0
    <3>1. n \in 1..n /\ n \in 1..Len(f)
      BY <1>2, <2>2
    <3>2. f[n] # Torn /\ f[n] \in Lines
      BY <1>2, <2>1, <3>1 DEF Prefix, Journal!Readable
    <3> QED
      BY <2>1, <2>2, <3>2 DEF Lines
  <2> QED
    BY <2>1, <2>2
<1> QED
  BY <1>1, <1>2

\* One more line, torn or not, hides no record: a scan finds what it found
\* before, or the new one.
LEMMA LatestAppend ==
  ASSUME JournalAssumption, NEW c \in Seq(Lines), NEW x \in Lines
  PROVE  /\ Append(c, x) \in Seq(Lines)
         /\ \/ Latest(Append(c, x)) = Latest(c)
            \/ x \in Journal!Records /\ Latest(Append(c, x)) = x
<1> DEFINE d == Append(c, x)
<1>1. /\ d \in Seq(Lines) /\ Len(d) = Len(c) + 1 /\ Len(c) \in Nat
      /\ d[Len(c) + 1] = x
      /\ \A i \in 1..Len(c) : d[i] = c[i]
  OBVIOUS
<1> HIDE DEF d
<1>2. \A i \in 1..Len(c) : Journal!Readable(d, i) <=> Journal!Readable(c, i)
  <2> SUFFICES ASSUME NEW i \in 1..Len(c)
               PROVE  Journal!Readable(d, i) <=> Journal!Readable(c, i)
    OBVIOUS
  <2>1. d[i] = c[i] /\ (i > 1 => i - 1 \in 1..Len(c) /\ d[i - 1] = c[i - 1])
    BY <1>1
  <2> QED
    BY <2>1 DEF Journal!Readable
<1>3. PICK n \in 0..Len(c) : Prefix(c, n) /\ Latest(c) = IF n = 0 THEN None ELSE c[n]
  BY ScanOf
<1>4. PICK m \in 0..Len(d) : Prefix(d, m) /\ Latest(d) = IF m = 0 THEN None ELSE d[m]
  BY <1>1, ScanOf
<1>5. ~(m < n)
  <2>1. ASSUME m < n PROVE FALSE
    <3>1. m + 1 \in 1..n /\ m + 1 \in 1..Len(c) /\ m < Len(d)
      BY <2>1, <1>1
    <3>2. Journal!Readable(c, m + 1) /\ ~Journal!Readable(d, m + 1)
      BY <3>1, <1>3, <1>4 DEF Prefix
    <3> QED
      BY <3>1, <3>2, <1>2
  <2> QED
    BY <2>1
<1>6. n < m => n = Len(c)
  <2>1. ASSUME n < m, n # Len(c) PROVE FALSE
    <3>1. n + 1 \in 1..m /\ n + 1 \in 1..Len(c) /\ n < Len(c)
      BY <2>1, <1>1
    <3>2. ~Journal!Readable(c, n + 1) /\ Journal!Readable(d, n + 1)
      BY <3>1, <1>3, <1>4 DEF Prefix
    <3> QED
      BY <3>1, <3>2, <1>2
  <2> QED
    BY <2>1
<1>7. CASE m = n
  BY <1>1, <1>3, <1>4, <1>7 DEF d
<1>8. CASE n < m
  <2>1. m = Len(c) + 1 /\ m # 0 /\ m \in 1..m
    BY <1>1, <1>6, <1>8
  <2>2. Latest(d) = x /\ x # Torn
    BY <1>1, <1>4, <2>1 DEF Prefix, Journal!Readable
  <2> QED
    BY <1>1, <2>2 DEF d, Lines
<1> QED
  BY <1>1, <1>5, <1>7, <1>8

\* A journal of one record is found.
LEMMA LatestSingle ==
  ASSUME JournalAssumption, NEW x \in Journal!Records
  PROVE  <<x>> \in Seq(Lines) /\ Latest(<<x>>) = x
<1>1. <<x>> \in Seq(Lines) /\ Len(<<x>>) = 1 /\ <<x>>[1] = x
  BY DEF Lines
<1>2. PICK n \in 0..1 : /\ Prefix(<<x>>, n)
                        /\ Latest(<<x>>) = IF n = 0 THEN None ELSE <<x>>[n]
  BY <1>1, ScanOf
<1>3. Journal!Readable(<<x>>, 1)
  BY <1>1 DEF Journal!Readable, JournalAssumption
<1>4. n = 1
  BY <1>1, <1>2, <1>3 DEF Prefix
<1> QED
  BY <1>1, <1>2, <1>4

\* A journal without a bad line is found to its end.
LEMMA LatestWhole ==
  ASSUME JournalAssumption, NEW f \in Seq(Lines), Len(f) > 0, ~Journal!Scan(f).bad
  PROVE  Latest(f) = f[Len(f)]
<1>1. PICK n \in 0..Len(f) : /\ Latest(f) = IF n = 0 THEN None ELSE f[n]
                             /\ Journal!Scan(f).bad <=> n < Len(f)
  BY ScanOf
<1>2. n = Len(f) /\ n # 0
  BY <1>1
<1> QED
  BY <1>1, <1>2

----------------------------------------------------------------------------
\* At first there is no journal.
LEMMA JournalInit ==
  ASSUME JournalAssumption, Journal!Init
  PROVE  JournalInv
<1> USE DEF Journal!Init, JournalAssumption
<1>1. JournalOrder
  BY DEF JournalOrder, Journal!Busy
<1>2. JournalDisk /\ JournalPlaced
  BY DEF JournalDisk, JournalPlaced
<1>3. JournalFound
  BY DEF JournalFound
<1> QED
  BY <1>1, <1>2, <1>3 DEF JournalInv

\* The worker serves the newest request, and after the one before it.
LEMMA JournalOrderStep ==
  ASSUME JournalAssumption, JournalOrder, [Journal!Next]_(Journal!vars)
  PROVE  JournalOrder'
<1> USE DEF JournalOrder, JournalAssumption, Journal!Busy, Journal!Ids,
         Journal!shared, Journal!history
<1>1. ASSUME NEW op \in {"checkpoint", "discard"}, Journal!Request(op)
      PROVE  JournalOrder'
  <2>1. /\ issued' = issued + 1 /\ issued < MaxRequests
        /\ pending' = [id |-> issued', op |-> op]
        /\ UNCHANGED <<wpc, in_flight, acknowledged, forgotten>>
    BY <1>1 DEF Journal!Request
  <2>2. pending' \in Journal!Requests /\ pending'.id = issued + 1
    BY <2>1 DEF Journal!Requests
  <2> QED
    BY <2>1, <2>2
<1>2. CASE Journal!Take
  <2>1. /\ wpc = "idle" /\ pending # None /\ wpc' = pending.op
        /\ in_flight' = pending.id /\ pending' = None /\ issued' = issued
        /\ pending.op = "discard" => acknowledged' = 0 /\ forgotten' = 0
        /\ pending.op # "discard" => UNCHANGED <<acknowledged, forgotten>>
    BY <1>2 DEF Journal!Take
  <2>2. pending.id \in 1..MaxRequests /\ pending.op \in {"checkpoint", "discard"}
    BY <2>1 DEF Journal!Requests
  <2>3. /\ acknowledged < pending.id /\ forgotten < pending.id /\ pending.id <= issued
        /\ pending.id \in Nat
    BY <2>1, <2>2
  <2>4. CASE pending.op = "discard"
    BY <2>1, <2>2, <2>3, <2>4
  <2>5. CASE pending.op = "checkpoint"
    BY <2>1, <2>2, <2>3, <2>5
  <2> QED
    BY <2>2, <2>4, <2>5
<1>3. CASE Journal!Acknowledge \/ Journal!AcknowledgeDiscard
  <2>1. /\ wpc \in Journal!Busy /\ wpc' = "idle" /\ UNCHANGED <<pending, issued>>
        /\ acknowledged' \in {0, in_flight} /\ forgotten' \in {0, in_flight}
    BY <1>3 DEF Journal!Acknowledge, Journal!AcknowledgeDiscard, Journal!Settle
  <2>2. in_flight \in Nat /\ in_flight <= issued /\ 0 <= issued
    BY <2>1
  <2>3. pending # None => pending.id \in Nat /\ 0 < pending.id /\ in_flight < pending.id
    BY <2>1 DEF Journal!Requests
  <2> QED
    BY <2>1, <2>2, <2>3
<1>5. CASE \/ Journal!FlushBegin \/ Journal!FlushEnds \/ Journal!DropWriter
           \/ Journal!Opened \/ Journal!OpenFails \/ Journal!StopWhenDrained
           \/ Journal!Reopen \/ Journal!ReopenFails
  BY <1>5 DEF Journal!FlushBegin, Journal!FlushEnds, Journal!DropWriter,
    Journal!Opened, Journal!OpenFails, Journal!StopWhenDrained, Journal!Reopen,
    Journal!ReopenFails, Journal!Close
<1>6. CASE \/ Journal!AppendRecord \/ Journal!SyncFile \/ Journal!ReplaceByCheckpoint
           \/ Journal!ReplaceByNothing \/ Journal!SyncDirectory
  BY <1>6 DEF Journal!AppendRecord, Journal!SyncFile, Journal!ReplaceByCheckpoint,
    Journal!ReplaceByNothing, Journal!Replace, Journal!SyncDirectory
<1>7. CASE \/ Journal!OperationFails \/ Journal!AppendFailsTorn \/ Journal!Refuted
           \/ Journal!WorkerPanics
  BY <1>7 DEF Journal!OperationFails, Journal!AppendFailsTorn, Journal!Refuted,
    Journal!WorkerPanics, Journal!Failed
<1>8. CASE Journal!Killed \/ Journal!PowerLost
  BY <1>8 DEF Journal!Killed, Journal!PowerLost, Journal!Restart
<1>9. CASE UNCHANGED Journal!vars
  BY <1>9 DEF Journal!vars
<1> QED
  BY <1>1, <1>2, <1>3, <1>5, <1>6, <1>7, <1>8, <1>9
  DEF Journal!Next, Journal!WorkerStep, Journal!HostStep

\* The record under way is one, and may be appended.
LEMMA RecordTyped ==
  ASSUME JournalOrder, JournalDisk, wpc \in Journal!Busy
  PROVE  Journal!Record \in Journal!Records /\ Journal!Record.id = in_flight
BY DEF JournalOrder, JournalDisk, Journal!Record, Journal!Records

\* The next sequence follows the latest found.
LEMMA AfterTyped ==
  ASSUME JournalAssumption, JournalDisk, scan' = Journal!Scan(file)
  PROVE  Journal!After(scan') \in Nat \ {0}
<1>1. file \in Seq(Lines) \cup {None}
  BY DEF JournalDisk
<1>2. Latest(file) \in Journal!Records \cup {None} /\ scan'.latest = Latest(file)
  BY <1>1, LatestTyped DEF Latest
<1> QED
  BY <1>2 DEF Journal!After, Journal!Records

\* Files hold lines, and one that was created is there.
LEMMA JournalDiskStep ==
  ASSUME JournalAssumption, JournalOrder, JournalDisk, [Journal!Next]_(Journal!vars)
  PROVE  JournalDisk'
<1> USE DEF Journal!disk, Journal!journal
<1>1. CASE UNCHANGED <<file, tails, olds, next_record>>
  BY <1>1 DEF JournalDisk
<1>2. CASE Journal!HostStep
  BY <1>1, <1>2 DEF Journal!HostStep, Journal!Request, Journal!FlushBegin,
    Journal!FlushEnds, Journal!DropWriter
<1>3. CASE \/ Journal!OpenFails \/ Journal!Take \/ Journal!StopWhenDrained
           \/ Journal!OperationFails \/ Journal!Refuted \/ Journal!ReopenFails
           \/ Journal!WorkerPanics
  BY <1>1, <1>3 DEF Journal!OpenFails, Journal!Take, Journal!StopWhenDrained,
    Journal!OperationFails, Journal!Refuted, Journal!ReopenFails, Journal!WorkerPanics
<1>4. CASE Journal!Opened \/ Journal!Reopen
  <2>1. /\ UNCHANGED <<file, tails, olds>> /\ scan' = Journal!Scan(file)
        /\ next_record' = Journal!After(scan')
    BY <1>4 DEF Journal!Opened, Journal!Reopen
  <2> QED
    BY <2>1, AfterTyped DEF JournalDisk
<1>5. CASE Journal!Acknowledge \/ Journal!AcknowledgeDiscard
  <2>1. /\ UNCHANGED <<file, tails, olds>>
        /\ next_record' = next_record + 1 \/ next_record' = 1
    BY <1>5 DEF Journal!Acknowledge, Journal!AcknowledgeDiscard, Journal!Settle
  <2> QED
    BY <2>1 DEF JournalDisk
<1>6. CASE Journal!AppendRecord \/ Journal!AppendFailsTorn
  <2>1. /\ wpc = "checkpoint" /\ file # None /\ UNCHANGED <<olds, next_record>>
        /\ file' = Append(file, Journal!Record) \/ file' = Append(file, Torn)
        /\ file' \in tails'
        /\ tails' \subseteq tails \cup {Append(file, Journal!Record), Append(file, Torn)}
    BY <1>6 DEF Journal!AppendRecord, Journal!AppendFailsTorn, Journal!Compacts
  <2>2. file \in Seq(Lines) /\ Torn \in Lines /\ Journal!Record \in Lines
    BY <2>1, RecordTyped DEF JournalDisk, Lines, Journal!Busy
  <2>3. Append(file, Journal!Record) \in Seq(Lines) /\ Append(file, Torn) \in Seq(Lines)
    BY <2>2, LatestAppend
  <2>4. file' # None
    BY <2>1, <2>3 DEF JournalAssumption
  <2>5. tails' \cup olds' \subseteq Seq(Lines) \cup {None}
    BY <2>1, <2>3 DEF JournalDisk
  <2> QED
    BY <2>1, <2>4, <2>5 DEF JournalDisk
<1>7. CASE Journal!SyncFile
  BY <1>7 DEF Journal!SyncFile, JournalDisk
<1>8. CASE Journal!SyncDirectory
  BY <1>8 DEF Journal!SyncDirectory, JournalDisk
<1>9. CASE Journal!ReplaceByCheckpoint \/ Journal!ReplaceByNothing
  <2>1. /\ wpc \in Journal!Busy /\ next_record' = next_record
        /\ file' = <<Journal!Record>> \/ file' = <<>>
        /\ tails' = {file'}
        /\ olds' = IF DirectorySyncs \/ file = None THEN olds \cup tails ELSE {}
    BY <1>9 DEF Journal!ReplaceByCheckpoint, Journal!ReplaceByNothing, Journal!Replace,
      Journal!Busy
  <2>2. file' \in Seq(Lines)
    <3>1. Journal!Record \in Journal!Records
      BY <2>1, RecordTyped
    <3>2. <<Journal!Record>> \in Seq(Lines)
      BY <3>1, LatestSingle
    <3>3. <<>> \in Seq(Lines)
      OBVIOUS
    <3> QED
      BY <2>1, <3>2, <3>3
  <2>3. file' # None
    BY <2>2 DEF JournalAssumption
  <2>4. olds' \subseteq Seq(Lines) \cup {None} /\ (~DirectorySyncs => olds' \subseteq {None})
    BY <2>1 DEF JournalDisk
  <2> QED
    BY <2>1, <2>2, <2>3, <2>4 DEF JournalDisk
<1>10. CASE Journal!Killed \/ Journal!PowerLost
  <2>1. next_record' = 1
    BY <1>10 DEF Journal!Killed, Journal!PowerLost, Journal!Restart
  <2>2. CASE Journal!Killed
    BY <2>1, <2>2 DEF Journal!Killed, JournalDisk
  <2>3. CASE Journal!PowerLost
    BY <2>1, <2>3 DEF Journal!PowerLost, Journal!Survivors, JournalDisk
  <2> QED
    BY <1>10, <2>2, <2>3
<1>11. CASE UNCHANGED Journal!vars
  BY <1>1, <1>11 DEF Journal!vars
<1> QED
  BY <1>2, <1>3, <1>4, <1>5, <1>6, <1>7, <1>8, <1>9, <1>10, <1>11
  DEF Journal!Next, Journal!WorkerStep

\* Each request leaves on the disk what the syncs have made sure of.
LEMMA JournalPlacedStep ==
  ASSUME JournalAssumption, JournalOrder, JournalDisk, JournalPlaced,
         [Journal!Next]_(Journal!vars)
  PROVE  JournalPlaced'
<1> USE DEF JournalPlaced, Journal!disk, Journal!journal, Journal!Record
<1>1. CASE Journal!HostStep
  BY <1>1 DEF Journal!HostStep, Journal!Request, Journal!FlushBegin,
    Journal!FlushEnds, Journal!DropWriter
<1>2. CASE \/ Journal!OpenFails \/ Journal!StopWhenDrained
           \/ Journal!OperationFails \/ Journal!Refuted \/ Journal!ReopenFails
           \/ Journal!WorkerPanics \/ Journal!AppendFailsTorn \/ Journal!Opened
           \/ Journal!Reopen \/ Journal!Acknowledge \/ Journal!AcknowledgeDiscard
  <2>1. wpc' \in {"idle", "reopen", "done"}
    BY <1>2 DEF Journal!OpenFails, Journal!StopWhenDrained,
      Journal!OperationFails, Journal!Refuted, Journal!ReopenFails, Journal!WorkerPanics,
      Journal!AppendFailsTorn, Journal!Failed, Journal!Opened, Journal!Reopen,
      Journal!Acknowledge, Journal!AcknowledgeDiscard, Journal!Settle
  <2> QED
    BY <2>1
<1>3. CASE Journal!Take
  <2>1. pending.op \in {"checkpoint", "discard"} /\ wpc' = pending.op
    BY <1>3 DEF Journal!Take, JournalOrder, Journal!Requests
  <2> QED
    BY <2>1
<1>4. CASE Journal!AppendRecord
  <2>1. /\ wpc = "checkpoint" /\ wpc' = "written" /\ file # None
        /\ file' = Append(file, Journal!Record)
        /\ UNCHANGED <<next_record, in_flight>>
    BY <1>4 DEF Journal!AppendRecord, Journal!Compacts
  <2>2. file \in Seq(Lines) /\ Journal!Record \in Lines
    BY <2>1, RecordTyped DEF JournalDisk, Lines, Journal!Busy
  <2> HIDE DEF Journal!Record
  <2>3. file' \in Seq(Lines) /\ Len(file') > 0 /\ file'[Len(file')] = Journal!Record
    BY <2>1, <2>2
  <2>4. file' # None
    BY <2>3 DEF JournalAssumption
  <2> QED
    BY <2>1, <2>3, <2>4 DEF Journal!Record
<1>5. CASE Journal!SyncFile
  BY <1>5 DEF Journal!SyncFile
<1>6. CASE Journal!SyncDirectory
  BY <1>6 DEF Journal!SyncDirectory
<1>7. CASE Journal!ReplaceByCheckpoint
  <2>1. /\ wpc = "checkpoint" /\ wpc' = "placed" /\ tails' = {file'}
        /\ file' = <<Journal!Record>> /\ UNCHANGED <<next_record, in_flight>>
    BY <1>7 DEF Journal!ReplaceByCheckpoint, Journal!Replace
  <2>2. file' \in Seq(Lines)
    BY <2>1, RecordTyped, LatestSingle DEF Journal!Busy
  <2>3. file' # None
    BY <2>2 DEF JournalAssumption
  <2> HIDE DEF Journal!Record
  <2>4. Len(file') = 1 /\ file'[1] = Journal!Record
    BY <2>1
  <2> QED
    BY <2>1, <2>3, <2>4 DEF Journal!Record
<1>8. CASE Journal!ReplaceByNothing
  BY <1>8 DEF Journal!ReplaceByNothing, Journal!Replace
<1>9. CASE Journal!Killed \/ Journal!PowerLost
  BY <1>9 DEF Journal!Killed, Journal!PowerLost, Journal!Restart
<1>10. CASE UNCHANGED Journal!vars
  BY <1>10 DEF Journal!vars
<1> QED
  BY <1>1, <1>2, <1>3, <1>4, <1>5, <1>6, <1>7, <1>8, <1>9, <1>10
  DEF Journal!Next, Journal!WorkerStep

\* Nothing is to be found that was not, and no new promise made.
LEMMA FoundKeeps ==
  ASSUME JournalFound, Journal!Survivors' \subseteq Journal!Survivors,
         acknowledged' \in {0, acknowledged}, forgotten' \in {0, forgotten}
  PROVE  JournalFound'
BY DEF JournalFound

\* A scan keeps finding what is promised, and nothing that is forgotten.
LEMMA JournalFoundStep ==
  ASSUME JournalAssumption, JournalOrder, JournalDisk, JournalPlaced, JournalFound,
         [Journal!Next]_(Journal!vars)
  PROVE  JournalFound'
<1> USE DEF Journal!disk, Journal!history
<1>1. CASE /\ UNCHANGED <<file, tails, olds>>
           /\ acknowledged' \in {0, acknowledged} /\ forgotten' \in {0, forgotten}
  BY <1>1, FoundKeeps DEF Journal!Survivors
<1>2. CASE Journal!HostStep
  BY <1>1, <1>2 DEF Journal!HostStep, Journal!Request, Journal!FlushBegin,
    Journal!FlushEnds, Journal!DropWriter
<1>3. CASE \/ Journal!OpenFails \/ Journal!Take \/ Journal!StopWhenDrained
           \/ Journal!OperationFails \/ Journal!Refuted \/ Journal!ReopenFails
           \/ Journal!WorkerPanics \/ Journal!Opened \/ Journal!Reopen
  BY <1>1, <1>3 DEF Journal!OpenFails, Journal!Take, Journal!StopWhenDrained,
    Journal!OperationFails, Journal!Refuted, Journal!ReopenFails, Journal!WorkerPanics,
    Journal!Failed, Journal!Opened, Journal!Reopen
<1>4. CASE Journal!AppendRecord \/ Journal!AppendFailsTorn
  <2>1. /\ wpc = "checkpoint" /\ file # None /\ olds' = olds
        /\ UNCHANGED <<acknowledged, forgotten>>
        /\ tails' \subseteq tails \cup {Append(file, Journal!Record), Append(file, Torn)}
    BY <1>4 DEF Journal!AppendRecord, Journal!AppendFailsTorn, Journal!Compacts,
      Journal!Failed
  <2>2. /\ file \in Seq(Lines) /\ file \in Journal!Survivors
        /\ Torn \in Lines /\ Torn \notin Journal!Records
        /\ Journal!Record \in Journal!Records /\ Journal!Record.id = in_flight
        /\ Journal!Record \in Lines
    BY <2>1, RecordTyped
    DEF JournalDisk, Lines, Journal!Busy, Journal!Survivors, JournalAssumption
  <2>3. /\ Latest(Append(file, Torn)) = Latest(file)
        /\ \/ Latest(Append(file, Journal!Record)) = Latest(file)
           \/ Latest(Append(file, Journal!Record)) = Journal!Record
    BY <2>2, LatestAppend
  <2>4. /\ acknowledged < in_flight /\ forgotten < in_flight /\ in_flight \in Nat
        /\ acknowledged \in Nat /\ forgotten \in Nat /\ Journal!Record # None
    BY <2>1, <2>2 DEF JournalOrder, Journal!Busy, Journal!Ids, JournalAssumption
  <2>5. ASSUME NEW f \in Journal!Survivors'
        PROVE  \/ f \in Journal!Survivors \/ Latest(f) = Latest(file)
               \/ Latest(f) = Journal!Record
    BY <2>1, <2>3 DEF Journal!Survivors
  <2> HIDE DEF Journal!Record
  <2> QED
    BY <2>1, <2>2, <2>4, <2>5 DEF JournalFound
<1>5. CASE Journal!SyncFile \/ Journal!SyncDirectory
  <2>1. /\ Journal!Survivors' \subseteq Journal!Survivors
        /\ UNCHANGED <<acknowledged, forgotten>>
    BY <1>5 DEF Journal!SyncFile, Journal!SyncDirectory, Journal!Survivors, JournalDisk
  <2> QED
    BY <2>1, FoundKeeps
<1>6. CASE Journal!ReplaceByCheckpoint
  <2>1. /\ wpc = "checkpoint" /\ UNCHANGED <<acknowledged, forgotten>>
        /\ Journal!Survivors' \subseteq Journal!Survivors \cup {<<Journal!Record>>}
    BY <1>6 DEF Journal!ReplaceByCheckpoint, Journal!Replace, Journal!Survivors
  <2>2. /\ Journal!Record \in Journal!Records /\ Journal!Record.id = in_flight
        /\ Latest(<<Journal!Record>>) = Journal!Record
    BY <2>1, RecordTyped, LatestSingle DEF Journal!Busy
  <2>3. /\ acknowledged < in_flight /\ forgotten < in_flight /\ in_flight \in Nat
        /\ acknowledged \in Nat /\ forgotten \in Nat /\ Journal!Record # None
    BY <2>1, <2>2 DEF JournalOrder, Journal!Busy, Journal!Ids, JournalAssumption
  <2> HIDE DEF Journal!Record
  <2> QED
    BY <2>1, <2>2, <2>3 DEF JournalFound
<1>7. CASE Journal!ReplaceByNothing
  <2>1. acknowledged' = 0 /\ forgotten' = 0
    BY <1>7 DEF Journal!ReplaceByNothing, Journal!Replace, JournalOrder
  <2> QED
    BY <2>1 DEF JournalFound
<1>8. CASE Journal!Acknowledge
  <2>1. /\ wpc = "verify" /\ Journal!Verified(Journal!Scan(file))
        /\ UNCHANGED <<file, tails, olds>>
        /\ acknowledged' = in_flight /\ forgotten' = 0
    BY <1>8 DEF Journal!Acknowledge, Journal!Settle
  <2>2. /\ file \in Seq(Lines) /\ Len(file) > 0 /\ file[Len(file)] = Journal!Record
        /\ DirectorySyncs => Journal!Survivors' = {file}
    BY <2>1 DEF JournalPlaced, JournalDisk, Journal!Survivors
  <2>3. Latest(file) = Journal!Record
    BY <2>1, <2>2, LatestWhole DEF Journal!Verified
  <2>4. Journal!Record.id = in_flight /\ Journal!Record # None /\ in_flight \in Nat
    BY <2>1, RecordTyped
    DEF Journal!Busy, JournalOrder, Journal!Ids, JournalAssumption
  <2> HIDE DEF Journal!Record
  <2> QED
    BY <2>1, <2>2, <2>3, <2>4 DEF JournalFound
<1>9. CASE Journal!AcknowledgeDiscard
  <2>1. /\ wpc = "discarded" /\ UNCHANGED <<file, tails, olds>>
        /\ acknowledged' = 0
    BY <1>9 DEF Journal!AcknowledgeDiscard, Journal!Settle
  <2>2. Journal!Survivors' \subseteq {<<>>, None}
    BY <2>1 DEF JournalPlaced, JournalDisk, Journal!Survivors
  <2> QED
    BY <2>1, <2>2, LatestOfNothing DEF JournalFound
<1>10. CASE Journal!Killed
  BY <1>1, <1>10 DEF Journal!Killed, Journal!Restart
<1>11. CASE Journal!PowerLost
  <2>1. /\ Journal!Survivors' \subseteq Journal!Survivors
        /\ UNCHANGED <<acknowledged, forgotten>>
    BY <1>11 DEF Journal!PowerLost, Journal!Restart, Journal!Survivors
  <2> QED
    BY <2>1, FoundKeeps
<1>12. CASE UNCHANGED Journal!vars
  BY <1>1, <1>12 DEF Journal!vars
<1> QED
  BY <1>2, <1>3, <1>4, <1>5, <1>6, <1>7, <1>8, <1>9, <1>10, <1>11, <1>12
  DEF Journal!Next, Journal!WorkerStep

\* The journal's invariant is one of every behaviour.
LEMMA JournalHolds ==
  ASSUME JournalAssumption
  PROVE  Journal!Spec => []JournalInv
<1>1. Journal!Init => JournalInv
  BY JournalInit
<1>2. JournalInv /\ [Journal!Next]_(Journal!vars) => JournalInv'
  BY JournalOrderStep, JournalDiskStep, JournalPlacedStep, JournalFoundStep
  DEF JournalInv
<1> QED
  BY <1>1, <1>2, PTL DEF Journal!Spec

\* Where a directory can be synced, an acknowledged checkpoint or a newer one is
\* found after every power loss, until a discard is under way
\* (RecoveryJournal::checkpoint, write_atomic_replacement, scan_bytes).
THEOREM CheckpointSurvives ==
  ASSUME JournalAssumption, DirectorySyncs
  PROVE  Journal!Spec => []AcknowledgedSurvives
<1>1. JournalInv => AcknowledgedSurvives
  BY DEF JournalInv, JournalFound, AcknowledgedSurvives,
    Journal!AcknowledgedSurvives, Latest
<1> QED
  BY <1>1, JournalHolds, PTL

\* Once a discard is acknowledged nothing older is found again, on either kind
\* of system (RecoveryJournal::discard).
THEOREM DiscardIsFinal ==
  ASSUME JournalAssumption
  PROVE  Journal!Spec => []Journal!DiscardForgets
<1>1. JournalInv => Journal!DiscardForgets
  BY DEF JournalInv, JournalFound, Journal!DiscardForgets, Latest
<1> QED
  BY <1>1, JournalHolds, PTL

----------------------------------------------------------------------------
(***************************************************************************)
(* The journal implements its contract (DurableCheckpoint) where a         *)
(* directory can be synced.  Beyond the invariant above a request must be  *)
(* newer than all that can be found when it is taken (JournalNewest),      *)
(* failed writes included.                                                 *)
(***************************************************************************)
JournalNewest ==
  \A f \in Journal!Survivors :
    /\ Found(f) \in Nat /\ Found(f) <= issued
    /\ pending # None => Found(f) < pending.id

\* Found and Latest.
LEMMA FoundOf ==
  ASSUME NEW f
  PROVE  Found(f) = IF Latest(f) = None THEN 0 ELSE Latest(f).id
BY DEF Found, Latest

\* Nothing is to be found but what was there and what is under way.
LEMMA FoundAfter ==
  ASSUME JournalAssumption, JournalOrder, JournalDisk, wpc \in Journal!Busy
  PROVE  /\ Found(<<>>) = 0 /\ Found(None) = 0
         /\ Found(<<Journal!Record>>) = in_flight
         /\ file # None =>
              /\ Found(Append(file, Torn)) = Found(file)
              /\ Found(Append(file, Journal!Record)) \in {Found(file), in_flight}
<1>1. /\ Journal!Record \in Journal!Records /\ Journal!Record.id = in_flight
      /\ Journal!Record # None
  BY RecordTyped DEF JournalAssumption
<1>2. Found(<<>>) = 0 /\ Found(None) = 0
  BY LatestOfNothing, FoundOf
<1> HIDE DEF Journal!Record
<1>3. Found(<<Journal!Record>>) = in_flight
  <2>1. Latest(<<Journal!Record>>) = Journal!Record
    BY <1>1, LatestSingle
  <2> QED
    BY <1>1, <2>1, FoundOf
<1>4. ASSUME file # None
      PROVE  /\ Found(Append(file, Torn)) = Found(file)
             /\ Found(Append(file, Journal!Record)) \in {Found(file), in_flight}
  <2>1. /\ file \in Seq(Lines) /\ Torn \in Lines /\ Journal!Record \in Lines
        /\ Torn \notin Journal!Records
    BY <1>1, <1>4 DEF JournalDisk, Lines, JournalAssumption
  <2>2. Latest(Append(file, Torn)) = Latest(file)
    BY <2>1, LatestAppend
  <2>3. \/ Latest(Append(file, Journal!Record)) = Latest(file)
        \/ Latest(Append(file, Journal!Record)) = Journal!Record
    BY <2>1, LatestAppend
  <2>4. Found(Append(file, Torn)) = Found(file)
    BY <2>2, FoundOf
  <2>5. Found(Append(file, Journal!Record)) \in {Found(file), in_flight}
    BY <1>1, <2>3, FoundOf
  <2> QED
    BY <2>4, <2>5
<1> QED
  BY <1>2, <1>3, <1>4

\* What a step of a request adds to what may be found.
LEMMA FoundStep ==
  ASSUME JournalAssumption, JournalOrder, JournalDisk,
         \/ Journal!AppendRecord \/ Journal!AppendFailsTorn \/ Journal!SyncFile
         \/ Journal!SyncDirectory \/ Journal!ReplaceByCheckpoint
         \/ Journal!ReplaceByNothing
  PROVE  /\ wpc \in Journal!Busy
         /\ Journal!Survivors' # {}
         /\ \A f \in Journal!Survivors' :
              \/ \E g \in Journal!Survivors : Found(f) = Found(g)
              \/ Found(f) = in_flight /\ wpc \notin Erasing /\ ~Journal!AppendFailsTorn
              \/ Found(f) = 0 /\ wpc \in Erasing
<1> USE DEF Journal!Survivors
<1>1. CASE Journal!AppendRecord
  <2>1. /\ wpc = "checkpoint" /\ file # None /\ olds' = olds /\ file \in tails
        /\ tails' = tails \cup {Append(file, Torn), Append(file, Journal!Record)}
    BY <1>1 DEF Journal!AppendRecord, Journal!Compacts, JournalDisk
  <2>2. wpc \in Journal!Busy /\ wpc \notin Erasing
    BY <2>1 DEF Journal!Busy, Erasing
  <2>3. ~Journal!AppendFailsTorn
    BY <1>1 DEF Journal!AppendRecord, Journal!AppendFailsTorn, Journal!Failed
  <2>4. /\ Found(Append(file, Torn)) = Found(file)
        /\ Found(Append(file, Journal!Record)) \in {Found(file), in_flight}
    BY <2>1, <2>2, FoundAfter
  <2> HIDE DEF Journal!Record
  <2> QED
    BY <2>1, <2>2, <2>3, <2>4
<1>2. CASE Journal!AppendFailsTorn
  <2>1. /\ wpc = "checkpoint" /\ file # None /\ olds' = olds /\ file \in tails
        /\ tails' = tails \cup {Append(file, Torn)}
    BY <1>2 DEF Journal!AppendFailsTorn, Journal!Compacts, JournalDisk
  <2>2. wpc \in Journal!Busy
    BY <2>1 DEF Journal!Busy
  <2>3. Found(Append(file, Torn)) = Found(file)
    BY <2>1, <2>2, FoundAfter
  <2> QED
    BY <2>1, <2>2, <2>3
<1>3. CASE Journal!SyncFile \/ Journal!SyncDirectory
  <2>1. /\ wpc \in Journal!Busy /\ file \in tails
        /\ tails' \in {{file}, tails} /\ olds' \in {{}, olds}
    BY <1>3 DEF Journal!SyncFile, Journal!SyncDirectory, Journal!Busy, JournalDisk
  <2> QED
    BY <2>1
<1>4. CASE Journal!ReplaceByCheckpoint
  <2>1. /\ wpc = "checkpoint" /\ wpc' = "placed" /\ tails' = {<<Journal!Record>>}
        /\ olds' \subseteq olds \cup tails
    BY <1>4 DEF Journal!ReplaceByCheckpoint, Journal!Replace
  <2>2. wpc \in Journal!Busy /\ wpc \notin Erasing
    BY <2>1 DEF Journal!Busy, Erasing
  <2>3. ~Journal!AppendFailsTorn
    BY <2>1 DEF Journal!AppendFailsTorn, Journal!Failed
  <2>4. Found(<<Journal!Record>>) = in_flight
    BY <2>2, FoundAfter
  <2> HIDE DEF Journal!Record
  <2> QED
    BY <2>1, <2>2, <2>3, <2>4
<1>5. CASE Journal!ReplaceByNothing
  <2>1. wpc = "discard" /\ tails' = {<<>>} /\ olds' \subseteq olds \cup tails
    BY <1>5 DEF Journal!ReplaceByNothing, Journal!Replace
  <2>2. wpc \in Journal!Busy /\ wpc \in Erasing
    BY <2>1 DEF Journal!Busy, Erasing
  <2>3. Found(<<>>) = 0
    BY <2>2, FoundAfter
  <2> QED
    BY <2>1, <2>2, <2>3
<1> QED
  BY <1>1, <1>2, <1>3, <1>4, <1>5

\* No step makes anything be found that is newer than what was asked for.
LEMMA JournalNewestStep ==
  ASSUME JournalAssumption, JournalOrder, JournalDisk, JournalNewest,
         [Journal!Next]_(Journal!vars)
  PROVE  JournalNewest'
<1> USE DEF Journal!disk, Journal!history, Journal!shared
<1>1. ASSUME Journal!Survivors' \subseteq Journal!Survivors, issued' = issued,
             pending' \in {None, pending}
      PROVE  JournalNewest'
  BY <1>1 DEF JournalNewest
<1>2. ASSUME NEW op \in {"checkpoint", "discard"}, Journal!Request(op)
      PROVE  JournalNewest'
  <2>1. /\ Journal!Survivors' = Journal!Survivors /\ issued' = issued + 1
        /\ pending'.id = issued + 1 /\ issued \in Nat
    BY <1>2 DEF Journal!Request, Journal!Survivors, JournalOrder
  <2> QED
    BY <2>1 DEF JournalNewest
<1>3. CASE Journal!FlushBegin \/ Journal!FlushEnds \/ Journal!DropWriter
  BY <1>1, <1>3 DEF Journal!FlushBegin, Journal!FlushEnds, Journal!DropWriter,
    Journal!Survivors
<1>4. CASE \/ Journal!OpenFails \/ Journal!Take \/ Journal!StopWhenDrained
           \/ Journal!Opened \/ Journal!Reopen \/ Journal!ReopenFails
  BY <1>1, <1>4 DEF Journal!OpenFails, Journal!Take, Journal!StopWhenDrained,
    Journal!Opened, Journal!Reopen, Journal!ReopenFails, Journal!Survivors
<1>5. CASE Journal!OperationFails \/ Journal!Refuted \/ Journal!WorkerPanics
  BY <1>1, <1>5 DEF Journal!OperationFails, Journal!Refuted, Journal!WorkerPanics,
    Journal!Failed, Journal!Survivors
<1>6. CASE Journal!Acknowledge \/ Journal!AcknowledgeDiscard
  BY <1>1, <1>6 DEF Journal!Acknowledge, Journal!AcknowledgeDiscard, Journal!Settle,
    Journal!Survivors
<1>7. CASE Journal!Killed \/ Journal!PowerLost
  BY <1>1, <1>7 DEF Journal!Killed, Journal!PowerLost, Journal!Restart,
    Journal!Survivors
<1>8. CASE \/ Journal!AppendRecord \/ Journal!AppendFailsTorn \/ Journal!SyncFile
           \/ Journal!SyncDirectory \/ Journal!ReplaceByCheckpoint
           \/ Journal!ReplaceByNothing
  <2>1. UNCHANGED <<issued, pending>>
    BY <1>8 DEF Journal!AppendRecord, Journal!AppendFailsTorn, Journal!SyncFile,
      Journal!SyncDirectory, Journal!ReplaceByCheckpoint, Journal!ReplaceByNothing,
      Journal!Replace, Journal!Failed
  <2>2. /\ wpc \in Journal!Busy
        /\ \A f \in Journal!Survivors' :
             \/ \E g \in Journal!Survivors : Found(f) = Found(g)
             \/ Found(f) = in_flight
             \/ Found(f) = 0
    BY <1>8, FoundStep
  <2>3. /\ in_flight \in Nat /\ in_flight <= issued /\ issued \in Nat
        /\ pending # None => in_flight < pending.id /\ 0 < pending.id
    BY <2>2 DEF JournalOrder, Journal!Ids, Journal!Requests
  <2> QED
    BY <2>1, <2>2, <2>3 DEF JournalNewest
<1>9. CASE UNCHANGED Journal!vars
  BY <1>1, <1>9 DEF Journal!vars, Journal!Survivors
<1> QED
  BY <1>2, <1>3, <1>4, <1>5, <1>6, <1>7, <1>8, <1>9
  DEF Journal!Next, Journal!WorkerStep, Journal!HostStep

\* Where there was no journal a restart finds none.
LEMMA ContractInit ==
  ASSUME JournalAssumption, Journal!Init
  PROVE  Contract!Init /\ JournalNewest
<1>1. Journal!Survivors = {None} /\ wpc = "opening" /\ acknowledged = 0 /\ forgotten = 0
  BY DEF Journal!Init, Journal!Survivors
<1>2. Found(None) = 0
  BY LatestOfNothing, FoundOf
<1>3. Recoverable = {0}
  BY <1>1, <1>2 DEF Recoverable
<1>4. WritingNow = {} /\ ErasingNow = {}
  BY <1>1 DEF WritingNow, ErasingNow, Erasing, Journal!Busy
<1>5. JournalNewest
  BY <1>1, <1>2 DEF JournalNewest, Journal!Init
<1> QED
  BY <1>1, <1>3, <1>4, <1>5 DEF Contract!Init

\* A request is taken when it is newer than all that can be found.
LEMMA ContractTake ==
  ASSUME JournalAssumption, JournalOrder, JournalNewest, Journal!Take
  PROVE  Contract!Next
<1> DEFINE n == pending.id
<1>1. /\ wpc = "idle" /\ wpc' = pending.op /\ in_flight' = n /\ pending # None
      /\ UNCHANGED <<file, tails, olds>>
      /\ pending.op = "discard" => acknowledged' = 0 /\ forgotten' = 0
      /\ pending.op # "discard" => UNCHANGED <<acknowledged, forgotten>>
  BY DEF Journal!Take, Journal!disk
<1>2. n \in Journal!Ids /\ pending.op \in {"checkpoint", "discard"}
  BY <1>1 DEF JournalOrder, Journal!Requests
<1>3. Contract!Fresh(n)
  <2>1. acknowledged < n /\ forgotten < n
    BY <1>1 DEF JournalOrder
  <2>2. \A m \in Recoverable : m < n
    BY <1>1 DEF Recoverable, JournalNewest
  <2> QED
    BY <2>1, <2>2 DEF Contract!Fresh
<1>4. Recoverable' = Recoverable
  BY <1>1 DEF Recoverable, Journal!Survivors
<1>5. WritingNow = {} /\ ErasingNow = {}
  BY <1>1 DEF WritingNow, ErasingNow, Erasing, Journal!Busy
<1>6. CASE pending.op = "discard"
  <2>1. WritingNow' = {} /\ ErasingNow' = {n}
    BY <1>1, <1>6 DEF WritingNow, ErasingNow, Erasing, Journal!Busy
  <2>2. Contract!Discard(n)
    BY <1>1, <1>3, <1>4, <1>5, <1>6, <2>1 DEF Contract!Discard
  <2> QED
    BY <1>2, <2>2 DEF Contract!Next
<1>7. CASE pending.op = "checkpoint"
  <2>1. WritingNow' = {n} /\ ErasingNow' = {}
    BY <1>1, <1>7 DEF WritingNow, ErasingNow, Erasing, Journal!Busy
  <2>2. Contract!Checkpoint(n)
    BY <1>1, <1>3, <1>4, <1>5, <1>7, <2>1 DEF Contract!Checkpoint
  <2> QED
    BY <1>2, <2>2 DEF Contract!Next
<1> QED
  BY <1>2, <1>6, <1>7

\* The steps of a request leave what was to be found or its own effect.
LEMMA ContractWrite ==
  ASSUME JournalAssumption, JournalOrder, JournalDisk,
         \/ Journal!AppendRecord \/ Journal!SyncFile \/ Journal!SyncDirectory
         \/ Journal!ReplaceByCheckpoint \/ Journal!ReplaceByNothing
  PROVE  Contract!Write
<1>1. /\ wpc \in Journal!Busy /\ Journal!Survivors' # {}
      /\ \A f \in Journal!Survivors' :
           \/ \E g \in Journal!Survivors : Found(f) = Found(g)
           \/ Found(f) = in_flight /\ wpc \notin Erasing
           \/ Found(f) = 0 /\ wpc \in Erasing
  BY FoundStep
<1>2. /\ UNCHANGED <<in_flight, acknowledged, forgotten>> /\ wpc' \in Journal!Busy
      /\ wpc' \in Erasing <=> wpc \in Erasing
  BY DEF Journal!AppendRecord, Journal!SyncFile, Journal!SyncDirectory,
    Journal!ReplaceByCheckpoint, Journal!ReplaceByNothing, Journal!Replace,
    Journal!history, Journal!Busy, Erasing
<1>3. WritingNow' = WritingNow /\ ErasingNow' = ErasingNow
  BY <1>1, <1>2 DEF WritingNow, ErasingNow
<1>4. Contract!Effect = IF wpc \in Erasing THEN {0} ELSE {in_flight}
  <2>1. CASE wpc \in Erasing
    <3>1. WritingNow = {} /\ ErasingNow = {in_flight}
      BY <2>1 DEF WritingNow, ErasingNow
    <3> QED
      BY <2>1, <3>1 DEF Contract!Effect
  <2>2. CASE wpc \notin Erasing
    <3>1. WritingNow = {in_flight} /\ ErasingNow = {}
      BY <1>1, <2>2 DEF WritingNow, ErasingNow
    <3> QED
      BY <2>2, <3>1 DEF Contract!Effect
  <2> QED
    BY <2>1, <2>2
<1>5. Recoverable' # {} /\ Recoverable' \subseteq Recoverable \cup Contract!Effect
  <2>1. Recoverable' # {}
    BY <1>1 DEF Recoverable
  <2>2. ASSUME NEW f \in Journal!Survivors'
        PROVE  Found(f) \in Recoverable \cup Contract!Effect
    BY <1>1, <1>4, <2>2 DEF Recoverable
  <2> QED
    BY <2>1, <2>2 DEF Recoverable
<1> QED
  BY <1>2, <1>3, <1>4, <1>5 DEF Contract!Write

\* What is acknowledged is all that can be found.
LEMMA ContractWritten ==
  ASSUME JournalAssumption, DirectorySyncs, JournalInv, Journal!Acknowledge
  PROVE  Contract!Written
<1>1. /\ wpc = "verify" /\ Journal!Verified(Journal!Scan(file))
      /\ UNCHANGED <<file, tails, olds>> /\ wpc' = "idle"
      /\ acknowledged' = in_flight /\ forgotten' = 0
  BY DEF Journal!Acknowledge, Journal!Settle, Journal!disk
<1>2. /\ file \in Seq(Lines) /\ Len(file) > 0 /\ file[Len(file)] = Journal!Record
      /\ Journal!Survivors' = {file}
  BY <1>1 DEF JournalInv, JournalPlaced, JournalDisk, Journal!Survivors
<1>3. Latest(file) = Journal!Record
  BY <1>1, <1>2, LatestWhole DEF Journal!Verified
<1>4. Journal!Record.id = in_flight /\ Journal!Record # None
  BY <1>1, RecordTyped DEF Journal!Busy, JournalInv, JournalAssumption
<1> HIDE DEF Journal!Record
<1>5. Found(file) = in_flight
  BY <1>3, <1>4, FoundOf
<1>6. Recoverable' = {in_flight}
  BY <1>2, <1>5 DEF Recoverable
<1>7. /\ WritingNow = {in_flight} /\ WritingNow' = {}
      /\ ErasingNow = {} /\ ErasingNow' = {}
  BY <1>1 DEF WritingNow, ErasingNow, Erasing, Journal!Busy
<1> QED
  BY <1>1, <1>6, <1>7 DEF Contract!Written

\* After an acknowledged discard nothing can be found.
LEMMA ContractErased ==
  ASSUME JournalAssumption, DirectorySyncs, JournalInv, Journal!AcknowledgeDiscard
  PROVE  Contract!Erased
<1>1. /\ wpc = "discarded" /\ UNCHANGED <<file, tails, olds>> /\ wpc' = "idle"
      /\ acknowledged' = 0 /\ forgotten' = in_flight
  BY DEF Journal!AcknowledgeDiscard, Journal!Settle, Journal!disk
<1>2. Journal!Survivors' = {<<>>}
  BY <1>1 DEF JournalInv, JournalPlaced, JournalDisk, Journal!Survivors
<1>3. Found(<<>>) = 0
  BY LatestOfNothing, FoundOf
<1>4. Recoverable' = {0}
  BY <1>2, <1>3 DEF Recoverable
<1>5. /\ WritingNow = {} /\ WritingNow' = {}
      /\ ErasingNow = {in_flight} /\ ErasingNow' = {}
  BY <1>1 DEF WritingNow, ErasingNow, Erasing, Journal!Busy
<1> QED
  BY <1>1, <1>4, <1>5 DEF Contract!Erased

\* A failed request leaves what can be found as it is.
LEMMA ContractGiveUp ==
  ASSUME JournalAssumption, JournalOrder, JournalDisk,
         \/ Journal!OperationFails \/ Journal!AppendFailsTorn \/ Journal!Refuted
         \/ Journal!WorkerPanics \/ Journal!Killed
  PROVE  Contract!GiveUp
<1> USE DEF Journal!disk
<1>1. UNCHANGED <<acknowledged, forgotten>> /\ wpc' \in {"reopen", "done", "opening"}
  BY DEF Journal!OperationFails, Journal!AppendFailsTorn, Journal!Refuted,
    Journal!WorkerPanics, Journal!Killed, Journal!Restart, Journal!Failed
<1>2. WritingNow' = {} /\ ErasingNow' = {}
  BY <1>1 DEF WritingNow, ErasingNow, Erasing, Journal!Busy
<1>3. Recoverable' = Recoverable
  <2>1. CASE Journal!AppendFailsTorn
    <3>1. /\ wpc = "checkpoint" /\ file # None /\ olds' = olds /\ file \in tails
          /\ tails' = tails \cup {Append(file, Torn)}
      BY <2>1 DEF Journal!AppendFailsTorn, Journal!Compacts, JournalDisk
    <3>2. Found(Append(file, Torn)) = Found(file)
      BY <3>1, FoundAfter DEF Journal!Busy
    <3>3. Journal!Survivors' = Journal!Survivors \cup {Append(file, Torn)}
      BY <3>1 DEF Journal!Survivors
    <3>4. file \in Journal!Survivors
      BY <3>1 DEF Journal!Survivors
    <3> QED
      BY <3>2, <3>3, <3>4 DEF Recoverable
  <2>2. CASE \/ Journal!OperationFails \/ Journal!Refuted \/ Journal!WorkerPanics
             \/ Journal!Killed
    <3>1. UNCHANGED <<file, tails, olds>>
      BY <2>2 DEF Journal!OperationFails, Journal!Refuted, Journal!WorkerPanics,
        Journal!Killed
    <3> QED
      BY <3>1 DEF Recoverable, Journal!Survivors
  <2> QED
    BY <2>1, <2>2
<1> QED
  BY <1>1, <1>2, <1>3 DEF Contract!GiveUp

\* A power loss leaves one of what can be found.
LEMMA ContractCrash ==
  ASSUME Journal!PowerLost
  PROVE  Contract!Crash
<1>1. PICK f \in Journal!Survivors : file' = f /\ tails' = {f} /\ olds' = {}
  BY DEF Journal!PowerLost
<1>2. Journal!Survivors' = {f}
  BY <1>1 DEF Journal!Survivors
<1>3. Recoverable' = {Found(f)} /\ Found(f) \in Recoverable
  BY <1>1, <1>2 DEF Recoverable
<1>4. wpc' = "opening" /\ UNCHANGED <<acknowledged, forgotten>>
  BY DEF Journal!PowerLost, Journal!Restart
<1>5. WritingNow' = {} /\ ErasingNow' = {}
  BY <1>4 DEF WritingNow, ErasingNow, Erasing, Journal!Busy
<1> QED
  BY <1>3, <1>4, <1>5 DEF Contract!Crash

\* The other steps do not concern the contract.
LEMMA ContractStutter ==
  ASSUME \/ Journal!HostStep \/ Journal!Opened \/ Journal!OpenFails
         \/ Journal!StopWhenDrained \/ Journal!Reopen \/ Journal!ReopenFails
         \/ UNCHANGED Journal!vars
  PROVE  UNCHANGED Contract!vars
<1> USE DEF Journal!disk, Journal!history
<1>1. /\ UNCHANGED <<file, tails, olds, acknowledged, forgotten>>
      /\ \/ UNCHANGED <<wpc, in_flight>>
         \/ /\ wpc \in {"opening", "idle", "reopen"}
            /\ wpc' \in {"idle", "done"}
  <2>1. CASE Journal!HostStep
    BY <2>1 DEF Journal!HostStep, Journal!Request, Journal!FlushBegin,
      Journal!FlushEnds, Journal!DropWriter
  <2>2. CASE \/ Journal!Opened \/ Journal!OpenFails \/ Journal!StopWhenDrained
             \/ Journal!Reopen \/ Journal!ReopenFails
    BY <2>2 DEF Journal!Opened, Journal!OpenFails, Journal!StopWhenDrained,
      Journal!Reopen, Journal!ReopenFails
  <2>3. CASE UNCHANGED Journal!vars
    BY <2>3 DEF Journal!vars
  <2> QED
    BY <2>1, <2>2, <2>3
<1>2. Recoverable' = Recoverable
  BY <1>1 DEF Recoverable, Journal!Survivors
<1>3. WritingNow' = WritingNow /\ ErasingNow' = ErasingNow
  BY <1>1 DEF WritingNow, ErasingNow, Erasing, Journal!Busy
<1> QED
  BY <1>1, <1>2, <1>3 DEF Contract!vars

\* Every step of the writer and of its host is one of the contract or none.
LEMMA ContractStep ==
  ASSUME JournalAssumption, DirectorySyncs, JournalInv, JournalNewest,
         [Journal!Next]_(Journal!vars)
  PROVE  [Contract!Next]_(Contract!vars)
<1> USE DEF JournalInv, Contract!Next
<1>1. CASE Journal!Take
  BY <1>1, ContractTake
<1>2. CASE \/ Journal!AppendRecord \/ Journal!SyncFile \/ Journal!SyncDirectory
           \/ Journal!ReplaceByCheckpoint \/ Journal!ReplaceByNothing
  BY <1>2, ContractWrite
<1>3. CASE Journal!Acknowledge
  BY <1>3, ContractWritten
<1>4. CASE Journal!AcknowledgeDiscard
  BY <1>4, ContractErased
<1>5. CASE \/ Journal!OperationFails \/ Journal!AppendFailsTorn \/ Journal!Refuted
           \/ Journal!WorkerPanics \/ Journal!Killed
  BY <1>5, ContractGiveUp
<1>6. CASE Journal!PowerLost
  BY <1>6, ContractCrash
<1>7. CASE \/ Journal!HostStep \/ Journal!Opened \/ Journal!OpenFails
           \/ Journal!StopWhenDrained \/ Journal!Reopen \/ Journal!ReopenFails
           \/ UNCHANGED Journal!vars
  BY <1>7, ContractStutter
<1> QED
  BY <1>1, <1>2, <1>3, <1>4, <1>5, <1>6, <1>7 DEF Journal!Next, Journal!WorkerStep

\* Where a directory can be synced the journal is a durable register: it
\* implements DurableCheckpoint, for any limits and any number of requests,
\* failures, panics, kills and power losses (RecoveryJournal::checkpoint and
\* discard, recover_after_failure, scan_bytes).
THEOREM JournalImplements ==
  ASSUME JournalAssumption, DirectorySyncs
  PROVE  Journal!Spec => CheckpointSpec
<1>1. Journal!Init => Contract!Init /\ JournalNewest
  BY ContractInit
<1>2. JournalInv /\ JournalNewest /\ [Journal!Next]_(Journal!vars) => JournalNewest'
  BY JournalNewestStep DEF JournalInv
<1>3. JournalInv /\ JournalNewest /\ [Journal!Next]_(Journal!vars)
        => [Contract!Next]_(Contract!vars)
  BY ContractStep
<1> QED
  BY <1>1, <1>2, <1>3, JournalHolds, PTL DEF Journal!Spec, CheckpointSpec, Contract!Spec

\* The contract's own invariant: what is under way is newer than what is in
\* force, and a discard under way has given that up.
ContractInv ==
  /\ Recoverable \subseteq Nat /\ WritingNow \subseteq Nat /\ ErasingNow \subseteq Nat
  /\ acknowledged \in Nat /\ forgotten \in Nat
  /\ \A n \in WritingNow : acknowledged < n /\ forgotten < n
  /\ ErasingNow # {} => WritingNow = {} /\ acknowledged = 0 /\ forgotten = 0
  /\ Contract!Dependable

\* Each step of the contract keeps it.
LEMMA ContractInvStep ==
  ASSUME MaxRequests \in Nat, ContractInv, [Contract!Next]_(Contract!vars)
  PROVE  ContractInv'
<1> USE DEF ContractInv, Contract!Dependable
<1>1. ASSUME NEW n \in Journal!Ids, Contract!Checkpoint(n)
      PROVE  ContractInv'
  BY <1>1 DEF Contract!Checkpoint, Contract!Fresh, Journal!Ids
<1>2. ASSUME NEW n \in Journal!Ids, Contract!Discard(n)
      PROVE  ContractInv'
  BY <1>2 DEF Contract!Discard, Journal!Ids
<1>3. CASE Contract!Write
  <2>1. /\ UNCHANGED <<WritingNow, ErasingNow, acknowledged, forgotten>>
        /\ Recoverable' \subseteq Recoverable \cup WritingNow \cup {0 : n \in ErasingNow}
    BY <1>3 DEF Contract!Write, Contract!Effect
  <2>2. Recoverable' \subseteq Nat
    BY <2>1
  <2>3. CASE ErasingNow = {}
    <3>1. Recoverable' \subseteq Recoverable \cup WritingNow
      BY <2>1, <2>3
    <3>2. ASSUME NEW c \in Recoverable'
          PROVE  /\ acknowledged # 0 => c >= acknowledged
                 /\ forgotten # 0 => c = 0 \/ c > forgotten
      BY <3>1, <3>2
    <3> QED
      BY <2>1, <2>2, <2>3, <3>2
  <2>4. CASE ErasingNow # {}
    BY <2>1, <2>2, <2>4
  <2> QED
    BY <2>3, <2>4
<1>4. CASE Contract!Written
  <2>1. PICK n \in WritingNow :
          /\ Recoverable' = {n} /\ acknowledged' = n /\ forgotten' = 0
          /\ WritingNow' = {} /\ ErasingNow' = ErasingNow
    BY <1>4 DEF Contract!Written
  <2> QED
    BY <2>1
<1>5. CASE Contract!Erased
  <2>1. PICK n \in ErasingNow :
          /\ Recoverable' = {0} /\ acknowledged' = 0 /\ forgotten' = n
          /\ ErasingNow' = {} /\ WritingNow' = WritingNow
    BY <1>5 DEF Contract!Erased
  <2> QED
    BY <2>1
<1>6. CASE Contract!GiveUp \/ Contract!Crash
  BY <1>6 DEF Contract!GiveUp, Contract!Crash
<1>7. CASE UNCHANGED Contract!vars
  BY <1>7 DEF Contract!vars
<1> QED
  BY <1>1, <1>2, <1>3, <1>4, <1>5, <1>6, <1>7 DEF Contract!Next

\* The contract is enough for its user: whoever keeps it never loses the
\* checkpoint in force nor finds what was discarded.
THEOREM ContractKeeps ==
  ASSUME MaxRequests \in Nat
  PROVE  CheckpointSpec => []Contract!Dependable
<1>1. Contract!Init => ContractInv
  BY DEF Contract!Init, ContractInv, Contract!Dependable
<1>2. ContractInv /\ [Contract!Next]_(Contract!vars) => ContractInv'
  BY ContractInvStep
<1>3. ContractInv => Contract!Dependable
  BY DEF ContractInv
<1> QED
  BY <1>1, <1>2, <1>3, PTL DEF CheckpointSpec, Contract!Spec

----------------------------------------------------------------------------
(***************************************************************************)
(* The flight recorder (FlightRecorder): a sealed rotation outlives every  *)
(* end of the process and, where directories are synced and keep the order *)
(* of their operations, every power loss, for any retention, number of     *)
(* rotations, events and faults.                                           *)
(*                                                                         *)
(* Whatever a power loss may leave as completed has a durable marker       *)
(* (Durable) and is below the rotation being written (Above), because the  *)
(* newest completed rotation never goes (Top): so no file is reopened or   *)
(* overwritten that anyone has been told is sealed.                        *)
(***************************************************************************)
Directory == [Flight!Rotations -> {"none", "active", "completed"}]

Completed(d) == {n \in Flight!Rotations : d[n] = "completed"}

NewerIn(d, n) == {m \in Completed(d) : m > n}

\* What is sealed is completed in d, or as many newer ones as are retained.
SealedIn(d) ==
  \A n \in sealed \ Completed(d) : Cardinality(NewerIn(d, n)) >= Retained

FlightAssumption ==
  /\ MaxRotation \in Nat /\ Retained \in Nat \ {0}
  /\ MaxEvents \in Nat /\ QueueCapacity \in Nat

Opening == {"trim", "trimmed", "open"}
Writing == {"receive", "append", "seal", "sync", "rename"}

FlightTyped ==
  /\ directory \in directories /\ directories \subseteq Directory
  /\ marker \in [Flight!Rotations -> {"missing", "written", "durable"}]
  /\ sealed \subseteq Flight!Rotations /\ rotation \in Nat
  /\ pc \in Writing \cup {"syncdir"} => rotation \in Flight!Rotations
  /\ pc \in Opening => rotation # 0

Durable == \A d \in directories : \A n \in Completed(d) : marker[n] = "durable"

Top ==
  \A d \in directories : \A n \in Completed(d) :
    \E m \in Completed(directory) : n <= m

Above ==
  pc \in Opening \cup Writing =>
    \A d \in directories : \A n \in Completed(d) : n < rotation

Marked ==
  /\ pc = "rename" => marker[rotation] = "durable"
  /\ pc = "syncdir" => directory[rotation] = "completed"

\* The directories a stop may leave that takes no name back.
Keeping == IF Flight!NamesLast THEN directories ELSE {directory}

AllSealed == \A d \in Keeping : SealedIn(d)

FlightInv == FlightTyped /\ Durable /\ Top /\ Above /\ Marked /\ AllSealed

\* The instance counts as this module does.
LEMMA SameCount ==
  ASSUME NEW S
  PROVE  Flight!Cardinality(S) = Cardinality(S)
<1> QED
  BY DEF Flight!Cardinality, Cardinality

\* Sets of rotations are finite.
LEMMA RotationsFinite ==
  ASSUME FlightAssumption, NEW S \in SUBSET Flight!Rotations
  PROVE  IsFiniteSet(S) /\ Cardinality(S) \in Nat /\ S \subseteq Nat
<1>1. IsFiniteSet(Flight!Rotations) /\ Flight!Rotations \subseteq Nat
  BY FS_Interval DEF Flight!Rotations, FlightAssumption
<1> QED
  BY <1>1, FS_Subset, FS_CardinalityType

\* A nonempty bounded set of numbers has a last one.
LEMMA LastNumber ==
  ASSUME NEW k \in Nat, NEW S \in SUBSET (1..k), S # {}
  PROVE  \E x \in S : \A y \in S : y <= x
<1> DEFINE T == {k - x : x \in S}
<1>1. \A x \in S : x \in Nat /\ k - x \in Nat
  OBVIOUS
<1>2. T \in SUBSET Nat /\ T # {}
  <2>1. \A u \in T : u \in Nat
    BY <1>1
  <2>2. PICK x \in S : TRUE
    OBVIOUS
  <2>3. k - x \in T
    OBVIOUS
  <2> QED
    BY <2>1, <2>3
<1>3. PICK t \in T : \A u \in T : t <= u
  BY <1>2, LeastNat
<1>4. PICK x \in S : t = k - x
  OBVIOUS
<1>5. ASSUME NEW y \in S PROVE y <= x
  <2>1. t <= k - y
    BY <1>3
  <2>2. x \in Nat /\ y \in Nat
    BY <1>1
  <2> QED
    BY <1>4, <2>1, <2>2
<1> QED
  BY <1>5

\* A larger set of newer ones is not smaller.
LEMMA NoFewer ==
  ASSUME FlightAssumption,
         NEW S \in SUBSET Flight!Rotations, NEW T \in SUBSET Flight!Rotations,
         S \subseteq T, Cardinality(S) >= Retained
  PROVE  Cardinality(T) >= Retained
<1>1. Cardinality(S) <= Cardinality(T) /\ Cardinality(S) \in Nat /\ Cardinality(T) \in Nat
  BY RotationsFinite, FS_Subset
<1> QED
  BY <1>1 DEF FlightAssumption

\* retain_latest_completed leaves as many as are retained above each one it
\* removes, also when it fails half-way.
LEMMA RetainedAbove ==
  ASSUME FlightAssumption, NEW C \in SUBSET Flight!Rotations,
         NEW gone \in SUBSET Flight!Excess(C), NEW n \in gone
  PROVE  Cardinality({m \in C \ gone : m > n}) >= Retained
<1> DEFINE E == Flight!Excess(C)
<1>1. E \subseteq C /\ E \in SUBSET Flight!Rotations /\ n \in E /\ E # {}
  BY DEF Flight!Excess
<1>2. PICK e \in E : \A x \in E : x <= e
  BY <1>1, LastNumber DEF Flight!Rotations, FlightAssumption
<1>3. Cardinality({m \in C : m > e}) >= Retained
  BY <1>2, SameCount DEF Flight!Excess
<1>4. \A m \in C : m \in Nat /\ e \in Nat /\ n \in Nat
  BY <1>1, RotationsFinite
<1>5. {m \in C : m > e} \subseteq {m \in C \ gone : m > n}
  BY <1>1, <1>2, <1>4
<1> QED
  BY <1>3, <1>5, NoFewer

\* A new directory in which nothing is completed that is not durable, the
\* newest one stays and the sealed ones are, keeps the invariant's parts.
LEMMA NextDirectory ==
  ASSUME FlightTyped, Durable, Top, AllSealed,
         directory' \in Directory, sealed' = sealed,
         directories' = directories \cup {directory'} \/ directories' = {directory'},
         \A d \in directories : \A n \in Completed(d) :
           marker[n] = "durable" => marker'[n] = "durable",
         \A n \in Completed(directory') : marker'[n] = "durable",
         \A n \in Completed(directory) : \E m \in Completed(directory') : n <= m,
         SealedIn(directory')
  PROVE  /\ directory' \in directories' /\ directories' \subseteq Directory
         /\ Durable' /\ Top' /\ AllSealed'
<1>1. directory' \in directories' /\ directories' \subseteq Directory
  BY DEF FlightTyped
<1>2. Durable'
  BY DEF Durable
<1>3. ASSUME NEW d \in directories', NEW n \in Completed(d)
      PROVE  \E m \in Completed(directory') : n <= m
  <2>1. CASE d = directory'
    BY <2>1 DEF Completed, Flight!Rotations
  <2>2. CASE d \in directories
    <3>1. PICK m \in Completed(directory) : n <= m
      BY <2>2 DEF Top
    <3>2. PICK l \in Completed(directory') : m <= l
      BY <3>1
    <3> QED
      BY <3>1, <3>2 DEF Completed, Flight!Rotations
  <2> QED
    BY <2>1, <2>2
<1>4. AllSealed'
  BY DEF AllSealed, SealedIn, Keeping
<1> QED
  BY <1>1, <1>2, <1>3, <1>4 DEF Top

\* The completed ones are the same and only an active entry changed.
LEMMA SameCompleted ==
  ASSUME FlightTyped, AllSealed, Completed(directory') = Completed(directory)
  PROVE  /\ \A n \in Completed(directory) : \E m \in Completed(directory') : n <= m
         /\ SealedIn(directory')
<1>1. \A n \in Completed(directory) : n <= n
  BY DEF Completed, Flight!Rotations
<1>2. SealedIn(directory)
  BY DEF FlightTyped, AllSealed, Keeping
<1> QED
  BY <1>1, <1>2 DEF SealedIn, NewerIn

\* Pruning keeps the newest and enough above each sealed one.
LEMMA PruneKeeps ==
  ASSUME FlightAssumption, FlightTyped, AllSealed,
         NEW gone \in SUBSET Flight!Excess(Completed(directory)),
         directory' = [n \in Flight!Rotations |-> IF n \in gone THEN "none" ELSE directory[n]]
  PROVE  /\ directory' \in Directory
         /\ Completed(directory') = Completed(directory) \ gone
         /\ \A n \in Completed(directory) : \E m \in Completed(directory') : n <= m
         /\ SealedIn(directory')
<1> DEFINE C == Completed(directory)
<1>1. directory' \in Directory /\ C \in SUBSET Flight!Rotations
  BY DEF FlightTyped, Directory, Completed
<1>2. Completed(directory') = C \ gone
  BY DEF FlightTyped, Directory, Completed
<1>3. \A n \in gone : n \in C
  BY DEF Flight!Excess
<1>4. \A n \in gone : Cardinality({m \in C \ gone : m > n}) >= Retained
  BY <1>1, RetainedAbove
<1>5. ASSUME NEW n \in C PROVE \E m \in C \ gone : n <= m
  <2>1. CASE n \notin gone
    BY <2>1, <1>1, RotationsFinite
  <2>2. CASE n \in gone
    <3>1. {m \in C \ gone : m > n} # {}
      <4>1. Cardinality({m \in C \ gone : m > n}) > 0
        BY <2>2, <1>4, <1>1, RotationsFinite DEF FlightAssumption
      <4> QED
        BY <4>1, FS_EmptySet
    <3> QED
      BY <3>1, <1>1, RotationsFinite
  <2> QED
    BY <2>1, <2>2
<1>6. ASSUME NEW n \in sealed \ (C \ gone)
      PROVE  Cardinality({m \in C \ gone : m > n}) >= Retained
  <2>1. CASE n \in gone
    BY <2>1, <1>4
  <2>2. CASE n \notin gone
    <3>1. Cardinality({m \in C : m > n}) >= Retained
      BY <2>2 DEF FlightTyped, AllSealed, Keeping, SealedIn, NewerIn
    <3>2. CASE \E l \in gone : l > n
      <4>1. PICK l \in gone : l > n
        BY <3>2
      <4>2. n \in Nat /\ l \in Nat /\ \A m \in C : m \in Nat
        BY <1>1, <1>3, RotationsFinite DEF FlightTyped, Flight!Rotations
      <4>3. {m \in C \ gone : m > l} \subseteq {m \in C \ gone : m > n}
        BY <4>1, <4>2
      <4>4. Cardinality({m \in C \ gone : m > l}) >= Retained
        BY <1>4
      <4> QED
        BY <1>1, <4>3, <4>4, NoFewer
    <3>3. CASE ~\E l \in gone : l > n
      <4>1. {m \in C : m > n} = {m \in C \ gone : m > n}
        BY <3>3
      <4> QED
        BY <3>1, <4>1
    <3> QED
      BY <3>2, <3>3
  <2> QED
    BY <2>1, <2>2
<1> HIDE DEF C
<1> QED
  BY <1>1, <1>2, <1>5, <1>6 DEF SealedIn, NewerIn, C

\* Highest is at least every number of a bounded set, and one of them or 0.
LEMMA HighestAbove ==
  ASSUME NEW k \in Nat, NEW S \in SUBSET (1..k)
  PROVE  /\ Flight!Highest(S) \in Nat /\ Flight!Highest(S) \in S \cup {0}
         /\ \A n \in S : n <= Flight!Highest(S)
<1> DEFINE T == S \cup {Flight!Nothing}
<1>1. Flight!Nothing = 0 /\ \A n \in S : n \in Nat
  BY DEF Flight!Nothing
<1>2. \E x \in T : \A y \in T : x >= y
  <2>1. CASE S = {}
    BY <1>1, <2>1
  <2>2. CASE S # {}
    <3>1. PICK x \in S : \A y \in S : y <= x
      BY <2>2, LastNumber
    <3>2. \A y \in T : x >= y
      BY <1>1, <3>1
    <3> QED
      BY <3>2
  <2> QED
    BY <2>1, <2>2
<1>3. Flight!Highest(S) = CHOOSE x \in T : \A y \in T : x >= y
  BY DEF Flight!Highest, Flight!Max
<1>4. Flight!Highest(S) \in T /\ \A y \in T : Flight!Highest(S) >= y
  <2> HIDE DEF T
  <2> QED
    BY <1>2, <1>3
<1>5. Flight!Highest(S) \in S \cup {0}
  BY <1>1, <1>4
<1>6. \A n \in S : n <= Flight!Highest(S)
  BY <1>1, <1>4, <1>5
<1>7. Flight!Highest(S) \in Nat
  <2>1. CASE Flight!Highest(S) \in S
    BY <1>1, <2>1
  <2>2. CASE Flight!Highest(S) = 0
    BY <2>2
  <2> QED
    BY <1>5, <2>1, <2>2
<1> HIDE DEF T
<1> QED
  BY <1>5, <1>6, <1>7

\* A step that leaves the directory, the markers and the sealed ones alone.
LEMMA SameDisk ==
  ASSUME FlightInv, UNCHANGED <<directory, directories, marker, sealed>>
  PROVE  Durable' /\ Top' /\ AllSealed'
<1> QED
  BY DEF FlightInv, Durable, Top, AllSealed, Keeping, SealedIn

\* The next number is above everything a stop may leave completed.
LEMMA NextIsAbove ==
  ASSUME FlightAssumption, FlightTyped, Top,
         NEW S \in SUBSET Flight!Rotations, Completed(directory) \subseteq S
  PROVE  /\ Flight!Highest(S) + 1 \in Nat \ {0}
         /\ \A d \in directories : \A n \in Completed(d) : n < Flight!Highest(S) + 1
<1>1. Flight!Highest(S) \in Nat /\ \A n \in S : n <= Flight!Highest(S)
  BY HighestAbove DEF Flight!Rotations, FlightAssumption
<1>2. ASSUME NEW d \in directories, NEW n \in Completed(d)
      PROVE  n < Flight!Highest(S) + 1
  <2>1. PICK m \in Completed(directory) : n <= m
    BY DEF Top
  <2>2. n \in Nat /\ m \in Nat /\ m <= Flight!Highest(S)
    BY <1>1, <2>1, RotationsFinite DEF Completed
  <2> QED
    BY <1>1, <2>1, <2>2
<1> QED
  BY <1>1, <1>2

LEMMA FlightInit ==
  ASSUME FlightAssumption, Flight!Init
  PROVE  FlightInv
<1>1. directory \in Directory /\ Completed(directory) = {}
  BY DEF Flight!Init, Directory, Completed
<1> QED
  BY <1>1 DEF Flight!Init, FlightInv, FlightTyped, Durable, Top, Above, Marked,
    AllSealed, Keeping, SealedIn, Opening, Writing, Flight!Nothing

\* A leftover active file goes or stays; the next number is above them all.
LEMMA FlightPrepare ==
  ASSUME FlightAssumption, FlightInv, Flight!Prepare
  PROVE  FlightInv'
<1> USE DEF FlightInv
<1>1. PICK left \in SUBSET Flight!At("active") :
        directory' = [n \in Flight!Rotations |->
          IF n \in Flight!At("active") \ left THEN "none" ELSE directory[n]]
  BY DEF Flight!Prepare
<1>2. /\ directories' = directories \cup {directory'} /\ pc' = "trim"
      /\ UNCHANGED <<marker, sealed>>
      /\ rotation' = Flight!Highest(Flight!At("active") \cup Flight!At("completed")) + 1
  BY DEF Flight!Prepare, Flight!Unsynced
<1>3. directory' \in Directory /\ Completed(directory') = Completed(directory)
  BY <1>1 DEF FlightTyped, Directory, Completed, Flight!At
<1>4. \A n \in Completed(directory') : marker'[n] = "durable"
  BY <1>2, <1>3 DEF Durable, FlightTyped
<1>5. directory' \in directories' /\ directories' \subseteq Directory
      /\ Durable' /\ Top' /\ AllSealed'
  BY <1>2, <1>3, <1>4, SameCompleted, NextDirectory
<1>6. /\ rotation' \in Nat \ {0}
      /\ \A d \in directories : \A n \in Completed(d) : n < rotation'
  <2>1. /\ Flight!At("active") \cup Flight!At("completed") \in SUBSET Flight!Rotations
        /\ Completed(directory) \subseteq Flight!At("active") \cup Flight!At("completed")
    BY DEF Flight!At, Completed
  <2> QED
    BY <1>2, <2>1, NextIsAbove
<1>7. Above'
  BY <1>2, <1>3, <1>6 DEF Above, FlightTyped
<1> QED
  BY <1>2, <1>5, <1>6, <1>7 DEF FlightTyped, Marked, Writing

\* retain_latest_completed, at the start and after each seal.
LEMMA Pruned ==
  ASSUME FlightAssumption, FlightInv, NEW synced, NEW then, NEW failed,
         UNCHANGED <<marker, sealed, rotation>>,
         Flight!RetainLatest(synced, then, failed)
           \/ (Flight!SyncRetained(then) /\ UNCHANGED io_faults),
         {synced, then, failed} \cap (Writing \cup {"syncdir"}) = {},
         pc' \in Opening => pc \in Opening
  PROVE  /\ FlightInv'
         /\ \A n \in Completed(directory) : \E m \in Completed(directory') : n <= m
<1> USE DEF FlightInv
<1>1. \A n \in Completed(directory) : n <= n
  BY DEF Completed, Flight!Rotations
<1>2. pc' \in {synced, then, failed}
  BY DEF Flight!RetainLatest, Flight!SyncRetained
<1>3. CASE UNCHANGED <<directory, directories>>
  BY <1>1, <1>2, <1>3, SameDisk DEF FlightTyped, Above, Marked, Writing
<1>4. CASE Flight!SyncRetained(then) /\ DirectorySyncs
  <2>1. directory' = directory /\ directories' = {directory'}
    BY <1>4 DEF Flight!SyncRetained, Flight!Synced
  <2>2. /\ directory' \in Directory
        /\ \A n \in Completed(directory') : marker'[n] = "durable"
    BY <2>1 DEF FlightTyped, Durable
  <2>3. directory' \in directories' /\ directories' \subseteq Directory
        /\ Durable' /\ Top' /\ AllSealed'
    BY <2>1, <2>2, SameCompleted, NextDirectory
  <2>4. Above'
    BY <1>2, <2>1 DEF Above, FlightTyped
  <2> QED
    BY <1>1, <1>2, <2>1, <2>3, <2>4 DEF FlightTyped, Marked, Writing
<1>5. CASE \E gone \in SUBSET Flight!Excess(Flight!At("completed")) :
             /\ directory' = [n \in Flight!Rotations |->
                  IF n \in gone THEN "none" ELSE directory[n]]
             /\ directories' = directories \cup {directory'}
  <2>1. Flight!At("completed") = Completed(directory)
    BY DEF Flight!At, Completed
  <2>2. PICK gone \in SUBSET Flight!Excess(Completed(directory)) :
             /\ directory' = [n \in Flight!Rotations |->
                  IF n \in gone THEN "none" ELSE directory[n]]
             /\ directories' = directories \cup {directory'}
    BY <1>5, <2>1
  <2>3. /\ directory' \in Directory
        /\ Completed(directory') = Completed(directory) \ gone
        /\ \A n \in Completed(directory) : \E m \in Completed(directory') : n <= m
        /\ SealedIn(directory')
    BY <2>2, PruneKeeps
  <2>4. \A n \in Completed(directory') : marker'[n] = "durable"
    BY <2>3 DEF FlightTyped, Durable
  <2>5. directory' \in directories' /\ directories' \subseteq Directory
        /\ Durable' /\ Top' /\ AllSealed'
    BY <2>2, <2>3, <2>4, NextDirectory
  <2>6. Above'
    BY <1>2, <2>2, <2>3 DEF Above, FlightTyped
  <2> QED
    BY <1>2, <2>3, <2>5, <2>6 DEF FlightTyped, Marked, Writing
<1>6. CASE Flight!RetainLatest(synced, then, failed)
  BY <1>3, <1>5, <1>6 DEF Flight!RetainLatest, Flight!Unsynced
<1>7. CASE Flight!SyncRetained(then) /\ ~DirectorySyncs
  BY <1>3, <1>7 DEF Flight!SyncRetained, Flight!Synced
<1> QED
  BY <1>4, <1>6, <1>7

LEMMA FlightTrim ==
  ASSUME FlightAssumption, FlightInv, Flight!Trim
  PROVE  FlightInv'
<1>1. /\ UNCHANGED <<marker, sealed, rotation>> /\ pc \in Opening
      /\ \/ Flight!RetainLatest("trimmed", "open", "off")
         \/ Flight!SyncRetained("open") /\ UNCHANGED io_faults
  BY DEF Flight!Trim, Opening
<1>2. {"trimmed", "open", "off"} \cap (Writing \cup {"syncdir"}) = {}
  BY DEF Writing
<1> QED
  BY <1>1, <1>2, Pruned

LEMMA FlightRetain ==
  ASSUME FlightAssumption, FlightInv, Flight!Retain
  PROVE  /\ FlightInv'
         /\ \A n \in Completed(directory) : \E m \in Completed(directory') : n <= m
<1> DEFINE then == IF hand = Flight!Disconnected THEN "done" ELSE "reopen"
<1>1. /\ UNCHANGED <<marker, sealed, rotation>>
      /\ \/ Flight!RetainLatest("retained", then, "failed")
         \/ Flight!SyncRetained(then) /\ UNCHANGED io_faults
  BY DEF Flight!Retain
<1>2. /\ {"retained", then, "failed"} \cap (Writing \cup {"syncdir"}) = {}
      /\ {"retained", then, "failed"} \cap Opening = {}
  BY DEF Writing, Opening
<1>3. pc' \in {"retained", then, "failed"}
  BY <1>1 DEF Flight!RetainLatest, Flight!SyncRetained
<1> HIDE DEF then
<1> QED
  BY <1>1, <1>2, <1>3, Pruned

\* The opened rotation is above everything completed, so its old marker was
\* nobody's.
LEMMA Opened ==
  ASSUME FlightAssumption, FlightInv, NEW n \in Nat \ {0}, Flight!OpenRotation(n),
         \A d \in directories : \A m \in Completed(d) : m < n,
         pc' \in {"receive", "append"}, UNCHANGED sealed
  PROVE  FlightInv'
<1> USE DEF FlightInv
<1>1. /\ n \in Flight!Rotations /\ rotation' = n
      /\ directory' = [directory EXCEPT ![n] = "active"]
      /\ directories' = directories \cup {directory'}
      /\ marker' = [marker EXCEPT ![n] = "missing"]
  BY DEF Flight!OpenRotation, Flight!Rotations, FlightAssumption, Flight!Unsynced
<1>2. \A d \in directories : n \notin Completed(d)
  OBVIOUS
<1>3. directory' \in Directory /\ Completed(directory') = Completed(directory)
  BY <1>1, <1>2 DEF FlightTyped, Directory, Completed
<1>4. marker' \in [Flight!Rotations -> {"missing", "written", "durable"}]
      /\ \A m \in Flight!Rotations \ {n} : marker'[m] = marker[m]
  BY <1>1 DEF FlightTyped
<1>5. \A d \in directories : \A m \in Completed(d) :
        marker[m] = "durable" => marker'[m] = "durable"
  BY <1>2, <1>4 DEF Completed
<1>6. \A m \in Completed(directory') : marker'[m] = "durable"
  BY <1>3, <1>5 DEF Durable, FlightTyped
<1>7. directory' \in directories' /\ directories' \subseteq Directory
      /\ Durable' /\ Top' /\ AllSealed'
  BY <1>1, <1>3, <1>5, <1>6, SameCompleted, NextDirectory
<1>8. \A d \in directories' : \A m \in Completed(d) : m < rotation'
  BY <1>1, <1>3 DEF FlightTyped
<1> QED
  BY <1>1, <1>4, <1>7, <1>8 DEF FlightTyped, Above, Marked

LEMMA FlightOpen ==
  ASSUME FlightAssumption, FlightInv, Flight!Open \/ Flight!Reopen
  PROVE  FlightInv'
<1>1. CASE Flight!Open
  <2>1. /\ \A d \in directories : \A m \in Completed(d) : m < rotation
        /\ Flight!OpenRotation(rotation) /\ pc' = "receive" /\ UNCHANGED sealed
    BY <1>1 DEF FlightInv, Above, Opening, Flight!Open
  <2>2. rotation \in Nat \ {0}
    BY <1>1 DEF FlightInv, FlightTyped, Opening, Flight!Open
  <2> QED
    BY <2>1, <2>2, Opened
<1>2. CASE Flight!Reopen
  <2>1. /\ Flight!At("completed") = Completed(directory)
        /\ Completed(directory) \in SUBSET Flight!Rotations
    BY DEF Flight!At, Completed
  <2>2. /\ Flight!OpenRotation(Flight!Highest(Completed(directory)) + 1)
        /\ pc' \in {"receive", "append"} /\ UNCHANGED sealed
    BY <1>2, <2>1 DEF Flight!Reopen
  <2>3. /\ Flight!Highest(Completed(directory)) + 1 \in Nat \ {0}
        /\ \A d \in directories : \A m \in Completed(d) :
             m < Flight!Highest(Completed(directory)) + 1
    BY <2>1, NextIsAbove DEF FlightInv
  <2> QED
    BY <2>2, <2>3, Opened
<1> QED
  BY <1>1, <1>2

\* The marker is that of the rotation being written, which is nowhere
\* completed.
LEMMA FlightMarker ==
  ASSUME FlightAssumption, FlightInv, Flight!WriteMarker \/ Flight!SyncFile
  PROVE  FlightInv'
<1> USE DEF FlightInv
<1>1. /\ pc \in Writing /\ pc' \in {"sync", "rename"}
      /\ UNCHANGED <<directory, directories, rotation, sealed>>
      /\ \E value \in {"written", "durable"} :
           /\ marker' = [marker EXCEPT ![rotation] = value]
           /\ pc' = "rename" => value = "durable"
  BY DEF Flight!WriteMarker, Flight!SyncFile, Writing
<1>2. /\ rotation \in Flight!Rotations
      /\ \A d \in directories : rotation \notin Completed(d)
  BY <1>1 DEF FlightTyped, Above, Flight!Rotations
<1>3. /\ marker' \in [Flight!Rotations -> {"missing", "written", "durable"}]
      /\ \A m \in Flight!Rotations \ {rotation} : marker'[m] = marker[m]
      /\ pc' = "rename" => marker'[rotation] = "durable"
  BY <1>1, <1>2 DEF FlightTyped
<1>4. Durable'
  BY <1>1, <1>2, <1>3 DEF Durable, Completed
<1>5. Top' /\ AllSealed'
  BY <1>1 DEF Top, AllSealed, Keeping, SealedIn
<1>6. Above'
  BY <1>1 DEF Above
<1> QED
  BY <1>1, <1>2, <1>3, <1>4, <1>5, <1>6
    DEF FlightTyped, Marked, Opening, Writing

LEMMA FlightRename ==
  ASSUME FlightAssumption, FlightInv, Flight!Rename
  PROVE  FlightInv'
<1> USE DEF FlightInv
<1>1. /\ pc = "rename" /\ pc' = "syncdir" /\ rotation \in Flight!Rotations
      /\ directory' = [directory EXCEPT ![rotation] = "completed"]
      /\ directories' = directories \cup {directory'}
      /\ UNCHANGED <<marker, rotation, sealed>>
  BY DEF Flight!Rename, Flight!Unsynced, FlightTyped, Writing
<1>2. /\ directory' \in Directory
      /\ Completed(directory') = Completed(directory) \cup {rotation}
  BY <1>1 DEF FlightTyped, Directory, Completed
<1>3. \A n \in Completed(directory') : marker'[n] = "durable"
  BY <1>1, <1>2 DEF FlightTyped, Durable, Marked
<1>4. \A n \in Completed(directory) : \E m \in Completed(directory') : n <= m
  BY <1>2 DEF Completed, Flight!Rotations
<1>5. SealedIn(directory')
  <2>1. ASSUME NEW n \in sealed \ Completed(directory')
        PROVE  Cardinality(NewerIn(directory', n)) >= Retained
    <3>1. Cardinality(NewerIn(directory, n)) >= Retained
      BY <1>2, <2>1 DEF FlightTyped, AllSealed, Keeping, SealedIn
    <3>2. /\ NewerIn(directory, n) \subseteq NewerIn(directory', n)
          /\ NewerIn(directory, n) \in SUBSET Flight!Rotations
          /\ NewerIn(directory', n) \in SUBSET Flight!Rotations
      BY <1>2 DEF NewerIn, Completed
    <3> QED
      BY <3>1, <3>2, NoFewer
  <2> QED
    BY <1>1, <2>1 DEF SealedIn
<1>6. directory' \in directories' /\ directories' \subseteq Directory
      /\ Durable' /\ Top' /\ AllSealed'
  BY <1>1, <1>2, <1>3, <1>4, <1>5, NextDirectory
<1>7. directory'[rotation] = "completed"
  BY <1>1 DEF FlightTyped, Directory
<1> QED
  BY <1>1, <1>6, <1>7 DEF FlightTyped, Above, Marked, Opening, Writing

\* Only now is the rotation sealed: where the sync is one, no stop can take it
\* back.
LEMMA FlightSealed ==
  ASSUME FlightAssumption, FlightInv, Flight!SyncDirectory
  PROVE  FlightInv'
<1> USE DEF FlightInv
<1>1. /\ pc = "syncdir" /\ pc' = "retain" /\ UNCHANGED <<directory, marker, rotation>>
      /\ sealed' = sealed \cup {rotation}
      /\ directories' = IF DirectorySyncs THEN {directory} ELSE directories
  BY DEF Flight!SyncDirectory, Flight!Synced
<1>2. rotation \in Completed(directory)
  BY <1>1 DEF FlightTyped, Marked, Completed
<1>3. SealedIn(directory)'
  BY <1>1, <1>2 DEF FlightTyped, AllSealed, Keeping, SealedIn
<1>4. AllSealed'
  BY <1>1, <1>3 DEF AllSealed, Keeping, Flight!NamesLast
<1>5. Durable' /\ Top'
  BY <1>1 DEF Durable, Top, FlightTyped, Completed, Flight!Rotations
<1> QED
  BY <1>1, <1>2, <1>4, <1>5 DEF FlightTyped, Above, Marked, Opening, Writing, Completed

\* A power loss leaves one of the directories there may be or, where their
\* operations keep no order, each entry of one of them.
LEMMA FlightGone ==
  ASSUME FlightAssumption, FlightInv, Flight!Killed \/ Flight!PowerLost
  PROVE  FlightInv'
<1> USE DEF FlightInv
<1>1. pc' = "off" /\ rotation' = Flight!Nothing
  BY DEF Flight!Killed, Flight!PowerLost, Flight!Gone
<1>2. CASE Flight!Killed
  <2>1. UNCHANGED <<directory, directories, marker, sealed>>
    BY <1>2 DEF Flight!Killed
  <2> QED
    BY <1>1, <2>1, SameDisk
      DEF FlightTyped, Above, Marked, Opening, Writing, Flight!Nothing
<1>3. CASE Flight!PowerLost
  <2>1. /\ directory' \in Flight!Leftovers /\ directories' = {directory'}
        /\ marker' \in [Flight!Rotations -> {"missing", "durable"}]
        /\ \A n \in Flight!Rotations : marker[n] # "written" => marker'[n] = marker[n]
        /\ sealed' = IF Flight!NamesLast THEN sealed ELSE {}
    BY <1>3 DEF Flight!PowerLost
  <2>2. /\ directory' \in Directory
        /\ \A n \in Flight!Rotations : \E e \in directories : directory'[n] = e[n]
    BY <2>1 DEF Flight!Leftovers, FlightTyped, Directory
  <2>3. Durable'
    BY <2>1, <2>2 DEF Durable, Completed
  <2>4. Top'
    BY <2>1 DEF Top, Completed, Flight!Rotations
  <2>5. AllSealed'
    <3>1. CASE Flight!NamesLast
      <4>1. directory' \in directories /\ UNCHANGED sealed
        BY <2>1, <3>1 DEF Flight!Leftovers, Flight!NamesLast
      <4> QED
        BY <2>1, <3>1, <4>1 DEF AllSealed, Keeping, SealedIn
    <3>2. CASE ~Flight!NamesLast
      BY <2>1, <3>2 DEF AllSealed, SealedIn
    <3> QED
      BY <3>1, <3>2
  <2>6. marker' \in [Flight!Rotations -> {"missing", "written", "durable"}]
    BY <2>1
  <2> QED
    BY <1>1, <2>1, <2>2, <2>3, <2>4, <2>5, <2>6
      DEF FlightTyped, Above, Marked, Opening, Writing, Flight!Nothing
<1> QED
  BY <1>2, <1>3

\* The producer, the worker's other steps and its failures.
LEMMA FlightOthers ==
  ASSUME FlightInv,
         \/ Flight!StartFails \/ Flight!TryRecord \/ Flight!Finish
         \/ Flight!Receive \/ Flight!Silence \/ Flight!AppendEncoded
         \/ Flight!WorkerFails \/ UNCHANGED Flight!vars
  PROVE  FlightInv'
<1>1. UNCHANGED <<directory, directories, marker, sealed, rotation>>
  BY DEF Flight!StartFails, Flight!TryRecord, Flight!Finish, Flight!Receive,
    Flight!Silence, Flight!AppendEncoded, Flight!WorkerFails, Flight!vars,
    Flight!disk
<1>2. \/ pc' = pc \/ pc' \in {"off", "failed"}
      \/ pc \in Writing /\ pc' \in Writing \ {"rename"}
  BY DEF Flight!StartFails, Flight!TryRecord, Flight!Finish, Flight!Receive,
    Flight!Silence, Flight!AppendEncoded, Flight!WorkerFails, Flight!vars, Writing
<1> QED
  BY <1>1, <1>2, SameDisk
    DEF FlightInv, FlightTyped, Above, Marked, Opening, Writing

LEMMA FlightStep ==
  ASSUME FlightAssumption, FlightInv, [Flight!Next]_Flight!vars
  PROVE  FlightInv'
<1> QED
  BY FlightPrepare, FlightTrim, FlightRetain, FlightOpen, FlightMarker,
    FlightRename, FlightSealed, FlightGone, FlightOthers
    DEF Flight!Next, Flight!Worker

\* A sealed rotation outlives every end of the process, until as many newer ones
\* as are retained are readable, on every system; and every power loss, where
\* directories are synced and keep the order of their operations
\* (RotationFile::seal, retain_latest_completed, prepare_artifacts).
THEOREM SealedRotationsSurvive ==
  ASSUME FlightAssumption
  PROVE  Flight!Spec => []SealedSurvive
<1>1. Flight!Init => FlightInv
  BY FlightInit
<1>2. FlightInv /\ [Flight!Next]_Flight!vars => FlightInv'
  BY FlightStep
<1>3. FlightInv => SealedSurvive
  <2> SUFFICES ASSUME FlightInv PROVE SealedSurvive
    OBVIOUS
  <2>1. Keeping \subseteq directories
    BY DEF Keeping, FlightInv, FlightTyped
  <2>2. ASSUME NEW d \in directories PROVE Flight!Readable(d) = Completed(d)
    BY DEF Flight!Readable, Completed, FlightInv, Durable
  <2>3. ASSUME NEW d \in Keeping, NEW n \in sealed \ Flight!Readable(d)
        PROVE  Cardinality({m \in Flight!Readable(d) : m > n}) >= Retained
    BY <2>1, <2>2, <2>3 DEF FlightInv, AllSealed, SealedIn, NewerIn
  <2> QED
    BY <2>3, SameCount DEF Keeping, SealedSurvive, Flight!SealedSurvive
<1> QED
  BY <1>1, <1>2, <1>3, PTL DEF Flight!Spec

----------------------------------------------------------------------------
(***************************************************************************)
(* The flight recorder's evidence: a sealed rotation has counted every     *)
(* fact that is missing up to its last one, and the last rotation of a     *)
(* finished session every fact of it, for any capacity of the queue and of *)
(* the rotations, any drops and any faults.                                *)
(*                                                                         *)
(* The facts of a session are recorded, in the helper's hand or in the     *)
(* queue, in the order they were offered in (StreamOrdered), and all the   *)
(* others have been counted (StreamCounted): what is missing below the     *)
(* last recorded fact is in none of the three.                             *)
(***************************************************************************)

\* The facts this session has in a rotation, in its hand and in the queue.
Recorded == UNION {body[m].events : m \in mine}
InHand   == {hand} \cap (1..MaxEvents)
Waiting  == {queue[i] : i \in DOMAIN queue}
Facts    == Recorded \cup InHand \cup Waiting

Offered == 1..(next_sequence - 1)

Unstarted == {"off"} \cup Opening
Marking   == {"sync", "rename", "syncdir"}
Retaining == {"retain", "retained", "reopen"}

StreamTyped ==
  /\ body \in [Flight!Rotations -> [events : SUBSET (1..MaxEvents), dropped : Nat]]
  /\ mine \subseteq Flight!Rotations
  /\ next_sequence \in 1..(MaxEvents + 1) /\ dropped_full \in Nat
  /\ queue \in Seq(1..MaxEvents) /\ hand \in 0..(MaxEvents + 1)
  /\ pc \in Unstarted \cup Writing \cup Marking \cup Retaining \cup {"failed", "done"}

\* What the helper thread holds at each of its places.
StreamPlaced ==
  /\ pc \in Unstarted =>
       /\ mine = {} /\ hand = Flight!Nothing /\ queue = <<>>
       /\ next_sequence = 1 /\ closing = FALSE
  /\ pc \notin Unstarted => rotation \in mine /\ \A m \in mine : m <= rotation
  /\ pc \in Retaining => \E m \in Completed(directory) : rotation <= m
  /\ pc = "receive" => hand = Flight!Nothing
  /\ pc = "append" => hand \in 1..MaxEvents
  /\ pc = "reopen" => hand # Flight!Disconnected
  /\ pc = "done" => hand = Flight!Disconnected
  /\ hand = Flight!Disconnected => closing /\ queue = <<>>

\* The facts are in the order they were offered in: the recorded ones, the one
\* in hand and the waiting ones.
StreamOrdered ==
  /\ \A e \in Facts : e < next_sequence
  /\ \A e \in Recorded : \A f \in InHand \cup Waiting : e < f
  /\ \A e \in InHand : \A f \in Waiting : e < f
  /\ \A i, j \in DOMAIN queue : i < j => queue[i] < queue[j]

\* While the thread lives every fact that is nowhere was counted.
StreamCounted ==
  pc # "failed" => Cardinality(Offered \ Facts) <= dropped_full

\* A rotation's marker counts what is missing up to its last fact ...
Counted(n) ==
  Cardinality(Flight!Missing(Flight!Highest(body[n].events), n)) <= body[n].dropped

\* ... and that of the last one of a finished session what is missing at all.
AllCounted ==
  Cardinality(Flight!Missing(next_sequence - 1, rotation)) <= body[rotation].dropped

StreamSealed ==
  /\ \A n \in mine \cap sealed : Counted(n)
  /\ pc \in Marking => Counted(rotation)
  /\ pc \in Marking \cup {"retain", "retained", "done"} /\ hand = Flight!Disconnected =>
       AllCounted

StreamInv ==
  StreamTyped /\ StreamPlaced /\ StreamOrdered /\ StreamCounted /\ StreamSealed

\* A part of a bounded set of facts is not larger.
LEMMA FewerFacts ==
  ASSUME NEW k \in Nat, NEW T \in SUBSET (1..k), NEW S \in SUBSET T
  PROVE  Cardinality(S) \in Nat /\ Cardinality(T) \in Nat /\ Cardinality(S) <= Cardinality(T)
<1>1. IsFiniteSet(1..k)
  BY FS_Interval
<1> QED
  BY <1>1, FS_Subset, FS_CardinalityType

\* What is missing up to a rotation depends only on the session's rotations up
\* to it.
LEMMA KeptMissing ==
  ASSUME NEW n, NEW k,
         \A m : (m \in mine' /\ m <= n) <=> (m \in mine /\ m <= n),
         \A m \in mine : m <= n => body'[m].events = body[m].events
  PROVE  (1..k) \ UNION {body'[m].events : m \in {m \in mine' : m <= n}}
           = Flight!Missing(k, n)
<1> DEFINE A == {m \in mine : m <= n}
           B == {m \in mine' : m <= n}
<1>1. A = B /\ \A m \in A : body'[m].events = body[m].events
  OBVIOUS
<1> HIDE DEF A, B
<1>2. {body'[m].events : m \in B} = {body[m].events : m \in A}
  BY <1>1
<1> QED
  BY <1>2 DEF Flight!Missing, A, B

LEMMA KeptCounted ==
  ASSUME StreamInv, NEW n \in mine, Counted(n),
         \A m : (m \in mine' /\ m <= n) <=> (m \in mine /\ m <= n),
         \A m \in mine : m <= n => body'[m].events = body[m].events,
         body'[n].dropped = body[n].dropped, n \in Flight!Rotations
  PROVE  Counted(n)'
<1> DEFINE k == Flight!Highest(body[n].events)
<1>1. body'[n].events = body[n].events
  BY DEF Flight!Rotations
<1>2. Flight!Highest(body[n].events)' = k
  BY <1>1 DEF Flight!Highest
<1> DEFINE Left(j) == (1..j) \ UNION {body'[m].events : m \in {m \in mine' : m <= n}}
<1>3. \A j : Left(j) = Flight!Missing(j, n)
  BY KeptMissing
<1>4. Counted(n)' <=> Cardinality(Left(k)) <= body'[n].dropped
  BY <1>2 DEF Counted, Flight!Missing
<1> HIDE DEF k, Left
<1>5. Counted(n) <=> Cardinality(Flight!Missing(k, n)) <= body[n].dropped
  BY DEF Counted, k
<1> QED
  BY <1>3, <1>4, <1>5

\* A sealed rotation is below the one being written.
LEMMA SealedBelow ==
  ASSUME FlightAssumption, FlightInv, NEW limit \in Nat,
         \A m \in Completed(directory) : m < limit
  PROVE  \A n \in sealed : n < limit
<1>1. ASSUME NEW n \in sealed PROVE n < limit
  <2>1. n \in Nat /\ Completed(directory) \subseteq Nat
    BY DEF FlightInv, FlightTyped, Flight!Rotations, Completed
  <2>2. CASE n \in Completed(directory)
    BY <2>2
  <2>3. CASE n \notin Completed(directory)
    <3>1. Cardinality(NewerIn(directory, n)) >= Retained
      BY <2>3 DEF FlightInv, FlightTyped, AllSealed, Keeping, SealedIn
    <3>2. NewerIn(directory, n) # {}
      <4>1. NewerIn(directory, n) \in SUBSET Flight!Rotations
        BY DEF NewerIn, Completed
      <4>2. Cardinality(NewerIn(directory, n)) # 0
        BY <3>1, <4>1, RotationsFinite DEF FlightAssumption
      <4> QED
        BY <4>2, FS_EmptySet
    <3>3. PICK m \in NewerIn(directory, n) : TRUE
      BY <3>2
    <3>4. m \in Completed(directory) /\ m > n
      BY <3>3 DEF NewerIn
    <3> QED
      BY <2>1, <3>4
  <2> QED
    BY <2>2, <2>3
<1> QED
  BY <1>1

\* Where no session runs there is nothing to count.
LEMMA StreamStarts ==
  ASSUME FlightAssumption, pc' \in Unstarted,
         mine' = {}, hand' = Flight!Nothing, queue' = <<>>,
         next_sequence' = 1, closing' = FALSE, dropped_full' \in Nat,
         body' \in [Flight!Rotations -> [events : SUBSET (1..MaxEvents), dropped : Nat]]
  PROVE  StreamInv'
<1> USE DEF FlightAssumption
<1>1. /\ Flight!Nothing = 0 /\ Flight!Disconnected = MaxEvents + 1
      /\ pc' \notin Writing \cup Marking \cup Retaining \cup {"failed", "done"}
  BY DEF Flight!Nothing, Flight!Disconnected, Unstarted, Opening, Writing, Marking,
    Retaining
<1>2. StreamTyped'
  BY <1>1 DEF StreamTyped
<1>3. StreamPlaced'
  BY <1>1 DEF StreamPlaced, Writing
<1>4. Facts' = {} /\ Recorded' = {} /\ InHand' = {} /\ Waiting' = {} /\ Offered' = {}
  BY <1>1 DEF Facts, Recorded, InHand, Waiting, Offered
<1>5. StreamOrdered'
  BY <1>4 DEF StreamOrdered
<1>6. StreamCounted'
  BY <1>4, FS_EmptySet DEF StreamCounted
<1>7. StreamSealed'
  BY <1>1 DEF StreamSealed
<1> QED
  BY <1>2, <1>3, <1>5, <1>6, <1>7 DEF StreamInv

\* The session has not begun, or is over with its process.
LEMMA StreamOutside ==
  ASSUME FlightAssumption, StreamInv,
         \/ Flight!Prepare \/ Flight!Trim \/ Flight!StartFails
         \/ Flight!Killed \/ Flight!PowerLost
  PROVE  StreamInv'
<1>1. CASE Flight!Killed \/ Flight!PowerLost
  <2>1. Flight!Gone
    BY <1>1 DEF Flight!Killed, Flight!PowerLost
  <2>2. body' \in [Flight!Rotations -> [events : SUBSET (1..MaxEvents), dropped : Nat]]
    BY <2>1 DEF Flight!Gone, Flight!Empty
  <2> QED
    BY <2>1, <2>2, StreamStarts DEF Flight!Gone, Unstarted
<1>2. CASE Flight!Prepare \/ Flight!Trim \/ Flight!StartFails
  <2>1. pc \in Unstarted /\ pc' \in Unstarted
        /\ UNCHANGED <<body, hand, queue, next_sequence, dropped_full, closing, mine>>
    BY <1>2 DEF Flight!Prepare, Flight!Trim, Flight!StartFails, Flight!RetainLatest,
      Flight!SyncRetained, Flight!producer, Flight!disk, Unstarted, Opening
  <2> QED
    BY <2>1, StreamStarts DEF StreamInv, StreamTyped, StreamPlaced
<1> QED
  BY <1>1, <1>2

\* A rotation opened with a number above every other one of the session.
LEMMA StreamOpened ==
  ASSUME FlightAssumption, StreamInv, NEW n \in Nat, Flight!OpenRotation(n),
         \A m \in mine \cup sealed : m < n, n # 0,
         UNCHANGED <<hand, queue, next_sequence, dropped_full, closing, sealed>>,
         pc # "failed", pc' \in {"receive", "append"},
         pc' = "receive" => hand = Flight!Nothing,
         pc' = "append" => hand \in 1..MaxEvents,
         hand # Flight!Disconnected
  PROVE  StreamInv'
<1> USE DEF StreamInv, FlightAssumption
<1>1. /\ n \in Flight!Rotations /\ n \notin mine /\ n \notin sealed
      /\ rotation' = n /\ mine' = mine \cup {n}
      /\ body' = [body EXCEPT ![n] = Flight!Empty]
  BY DEF Flight!OpenRotation, Flight!Rotations
<1>2. /\ body'[n] = Flight!Empty
      /\ \A m \in Flight!Rotations \ {n} : body'[m] = body[m]
      /\ body' \in [Flight!Rotations -> [events : SUBSET (1..MaxEvents), dropped : Nat]]
      /\ mine' \subseteq Flight!Rotations
  BY <1>1 DEF StreamTyped, Flight!Empty
<1>3. pc' \notin Unstarted \cup Marking \cup Retaining \cup {"failed", "done"}
  BY DEF Unstarted, Opening, Marking, Retaining
<1>4. StreamTyped'
  BY <1>2 DEF StreamTyped, Writing
<1>5. StreamPlaced'
  BY <1>1, <1>3 DEF StreamPlaced, StreamTyped, Flight!Rotations, Retaining
<1>6. Recorded' = Recorded
  BY <1>1, <1>2 DEF Recorded, StreamTyped, Flight!Empty
<1>7. UNCHANGED <<Recorded, InHand, Waiting, Facts, Offered>>
  BY <1>6 DEF InHand, Waiting, Facts, Offered
<1>8. StreamOrdered' /\ StreamCounted'
  BY <1>7 DEF StreamOrdered, StreamCounted
<1>9. ASSUME NEW m \in mine' \cap sealed' PROVE Counted(m)'
  <2>1. m \in mine \cap sealed /\ m < n /\ m \in Flight!Rotations
    BY <1>1 DEF StreamTyped
  <2>2. \A l \in Flight!Rotations : l <= m => l # n
    BY <2>1 DEF Flight!Rotations
  <2>3. \A l : (l \in mine' /\ l <= m) <=> (l \in mine /\ l <= m)
    BY <1>1, <2>2
  <2>4. \A l \in mine : l <= m => body'[l].events = body[l].events
    BY <1>2, <2>2 DEF StreamTyped
  <2>5. body'[m].dropped = body[m].dropped /\ Counted(m)
    BY <1>2, <2>1 DEF StreamSealed
  <2> QED
    BY <2>1, <2>3, <2>4, <2>5, KeptCounted
<1> QED
  BY <1>3, <1>4, <1>5, <1>8, <1>9 DEF StreamSealed

LEMMA StreamOpen ==
  ASSUME FlightAssumption, FlightInv, StreamInv, Flight!Open \/ Flight!Reopen
  PROVE  StreamInv'
<1> USE DEF FlightInv, StreamInv
<1>1. CASE Flight!Open
  <2>1. /\ pc = "open" /\ pc' = "receive" /\ Flight!OpenRotation(rotation)
        /\ UNCHANGED <<hand, queue, next_sequence, dropped_full, closing, sealed>>
    BY <1>1 DEF Flight!Open, Flight!producer
  <2>2. mine = {} /\ hand = Flight!Nothing /\ hand # Flight!Disconnected
    BY <2>1 DEF StreamPlaced, Unstarted, Opening, Flight!Nothing, Flight!Disconnected,
      FlightAssumption
  <2>3. rotation \in Nat /\ rotation # 0 /\ \A m \in Completed(directory) : m < rotation
    BY <2>1 DEF FlightTyped, Above, Opening
  <2>4. \A m \in mine \cup sealed : m < rotation
    BY <2>2, <2>3, SealedBelow
  <2> QED
    BY <2>1, <2>2, <2>3, <2>4, StreamOpened
<1>2. CASE Flight!Reopen
  <2> DEFINE n == Flight!Highest(Completed(directory)) + 1
  <2>1. /\ Flight!At("completed") = Completed(directory)
        /\ Completed(directory) \in SUBSET Flight!Rotations
    BY DEF Flight!At, Completed
  <2>2. /\ pc = "reopen" /\ Flight!OpenRotation(n)
        /\ pc' = IF hand = Flight!Nothing THEN "receive" ELSE "append"
        /\ UNCHANGED <<hand, queue, next_sequence, dropped_full, closing, sealed>>
    BY <1>2, <2>1 DEF Flight!Reopen, Flight!producer
  <2>3. n \in Nat \ {0} /\ \A m \in Completed(directory) : m < n
    BY <2>1, NextIsAbove DEF FlightTyped
  <2>4. \A m \in mine : m < n
    <3>1. \A m \in mine : m <= rotation /\ rotation \in mine
      BY <2>2 DEF StreamPlaced, Unstarted, Opening
    <3>2. PICK l \in Completed(directory) : rotation <= l
      BY <2>2 DEF StreamPlaced, Retaining
    <3>3. l \in Nat /\ \A m \in mine : m \in Nat
      BY DEF Completed, StreamTyped, Flight!Rotations
    <3>4. l < n
      BY <2>3
    <3> HIDE DEF n
    <3> QED
      BY <2>3, <3>1, <3>2, <3>3, <3>4
  <2>5. \A m \in sealed : m < n
    BY <2>3, SealedBelow
  <2>6. /\ hand # Flight!Disconnected
        /\ hand # Flight!Nothing => hand \in 1..MaxEvents
    BY <2>2 DEF StreamPlaced, StreamTyped, Flight!Nothing, Flight!Disconnected,
      FlightAssumption
  <2> HIDE DEF n
  <2> QED
    BY <2>2, <2>3, <2>4, <2>5, <2>6, StreamOpened
<1> QED
  BY <1>1, <1>2

\* A step that leaves the session's rotations alone and does not touch what is
\* being sealed.
LEMMA SealedKept ==
  ASSUME StreamInv, UNCHANGED <<body, mine>>, UNCHANGED sealed
  PROVE  \A n \in mine' \cap sealed' : Counted(n)'
<1> QED
  BY DEF StreamInv, StreamSealed, Counted, Flight!Missing

\* try_record: the fact waits, or is counted, or finds the thread ended.
LEMMA StreamTryRecord ==
  ASSUME FlightAssumption, StreamInv, Flight!TryRecord
  PROVE  StreamInv'
<1> USE DEF StreamInv, FlightAssumption
<1>1. /\ pc \notin Unstarted /\ closing = FALSE /\ next_sequence <= MaxEvents
      /\ next_sequence' = next_sequence + 1
      /\ UNCHANGED <<directory, body, pc, rotation, hand, closing, mine, sealed>>
  BY DEF Flight!TryRecord, Flight!Started, Flight!disk, Unstarted, Opening, StreamPlaced
<1>2. /\ next_sequence \in 1..MaxEvents /\ next_sequence' \in 1..(MaxEvents + 1)
      /\ hand # Flight!Disconnected /\ pc # "done"
  BY <1>1 DEF StreamTyped, StreamPlaced
<1>3. StreamSealed'
  <2>1. pc \in Marking => Counted(rotation)'
    BY <1>1 DEF StreamSealed, Counted, Flight!Missing
  <2> QED
    BY <1>1, <1>2, <2>1, SealedKept DEF StreamSealed
<1>4. StreamPlaced'
  BY <1>1, <1>2 DEF StreamPlaced
<1>5. UNCHANGED <<Recorded, InHand>>
  BY <1>1 DEF Recorded, InHand
<1>6. Offered' = Offered \cup {next_sequence}
  BY <1>1, <1>2 DEF Offered
<1>7. CASE queue' = queue /\ dropped_full' = dropped_full /\ pc = "failed"
  <2>1. UNCHANGED Waiting /\ UNCHANGED Facts
    BY <1>5, <1>7 DEF Waiting, Facts
  <2>2. \A e \in Facts : e \in Nat
    BY DEF Facts, Recorded, InHand, Waiting, StreamTyped
  <2>3. StreamOrdered'
    BY <1>1, <1>2, <1>5, <1>7, <2>1, <2>2 DEF StreamOrdered
  <2> QED
    BY <1>1, <1>2, <1>3, <1>4, <1>7, <2>3 DEF StreamTyped, StreamCounted
<1>8. CASE queue' = Append(queue, next_sequence) /\ dropped_full' = dropped_full
  <2>1. /\ queue' \in Seq(1..MaxEvents) /\ Len(queue') = Len(queue) + 1
        /\ \A i \in DOMAIN queue : queue'[i] = queue[i] /\ i < Len(queue) + 1
        /\ queue'[Len(queue) + 1] = next_sequence
        /\ DOMAIN queue' = DOMAIN queue \cup {Len(queue) + 1}
    BY <1>2, <1>8 DEF StreamTyped
  <2>2. Waiting' = Waiting \cup {next_sequence}
    BY <2>1 DEF Waiting
  <2>3. Facts' = Facts \cup {next_sequence}
    BY <1>5, <2>2 DEF Facts
  <2>4. \A e \in Facts : e \in Nat /\ e < next_sequence
    BY DEF Facts, Recorded, InHand, Waiting, StreamTyped, StreamOrdered
  <2>5. \A i, j \in DOMAIN queue' : i < j => queue'[i] < queue'[j]
    <3>1. ASSUME NEW i \in DOMAIN queue', NEW j \in DOMAIN queue', i < j
          PROVE  queue'[i] < queue'[j]
      <4>1. i \in DOMAIN queue
        BY <2>1, <3>1 DEF StreamTyped
      <4>2. CASE j \in DOMAIN queue
        BY <2>1, <3>1, <4>1, <4>2 DEF StreamOrdered
      <4>3. CASE j = Len(queue) + 1
        <5>1. queue[i] \in Facts
          BY <4>1 DEF Facts, Waiting
        <5> QED
          BY <2>1, <2>4, <4>1, <4>3, <5>1
      <4> QED
        BY <2>1, <4>2, <4>3
    <3> QED
      BY <3>1
  <2>6. StreamOrdered'
    <3>1. \A e \in Facts' : e < next_sequence'
      BY <1>1, <1>2, <2>3, <2>4
    <3>2. /\ \A e \in Recorded' : \A f \in InHand' \cup Waiting' : e < f
          /\ \A e \in InHand' : \A f \in Waiting' : e < f
      BY <1>5, <2>2, <2>4 DEF StreamOrdered, Facts
    <3> QED
      BY <2>5, <3>1, <3>2 DEF StreamOrdered
  <2>7. StreamCounted'
    <3>1. Offered' \ Facts' \subseteq Offered \ Facts
      BY <1>6, <2>3
    <3>2. /\ Offered \ Facts \in SUBSET (1..(next_sequence - 1))
          /\ next_sequence - 1 \in Nat
      BY <1>2 DEF Offered
    <3>3. /\ Cardinality(Offered' \ Facts') <= Cardinality(Offered \ Facts)
          /\ Cardinality(Offered' \ Facts') \in Nat /\ Cardinality(Offered \ Facts) \in Nat
      BY <3>1, <3>2, FewerFacts
    <3> QED
      BY <1>1, <1>8, <3>3 DEF StreamCounted, StreamTyped
  <2> QED
    BY <1>1, <1>2, <1>3, <1>4, <1>8, <2>1, <2>6, <2>7 DEF StreamTyped
<1>9. CASE queue' = queue /\ dropped_full' = dropped_full + 1
  <2>1. UNCHANGED Waiting /\ UNCHANGED Facts
    BY <1>5, <1>9 DEF Waiting, Facts
  <2>2. \A e \in Facts : e \in Nat
    BY DEF Facts, Recorded, InHand, Waiting, StreamTyped
  <2>3. StreamOrdered'
    BY <1>1, <1>2, <1>5, <1>9, <2>1, <2>2 DEF StreamOrdered
  <2>4. StreamCounted'
    <3> DEFINE S == Offered \ Facts
    <3>1. S \in SUBSET (1..(next_sequence - 1)) /\ next_sequence - 1 \in Nat
      BY <1>2 DEF Offered
    <3>2. Offered' \ Facts' \subseteq S \cup {next_sequence}
      BY <1>6, <2>1
    <3>3. pc # "failed" => Cardinality(S) <= dropped_full
      BY DEF StreamCounted
    <3> HIDE DEF S
    <3>4. IsFiniteSet(S) /\ Cardinality(S) \in Nat
      <4>1. IsFiniteSet(1..(next_sequence - 1))
        BY <3>1, FS_Interval
      <4> QED
        BY <3>1, <4>1, FS_Subset, FS_CardinalityType
    <3>5. IsFiniteSet(S \cup {next_sequence})
          /\ Cardinality(S \cup {next_sequence}) \in Nat
          /\ Cardinality(S \cup {next_sequence}) <= Cardinality(S) + 1
      BY <3>4, FS_AddElement, FS_CardinalityType
    <3>6. Cardinality(Offered' \ Facts') <= Cardinality(S \cup {next_sequence})
          /\ Cardinality(Offered' \ Facts') \in Nat
      BY <3>2, <3>5, FS_Subset, FS_CardinalityType
    <3> QED
      BY <1>1, <1>9, <3>3, <3>4, <3>5, <3>6 DEF StreamCounted, StreamTyped
  <2> QED
    BY <1>1, <1>2, <1>3, <1>4, <1>9, <2>3, <2>4 DEF StreamTyped
<1> QED
  BY <1>2, <1>7, <1>8, <1>9 DEF Flight!TryRecord, Flight!Ended

LEMMA StreamFinish ==
  ASSUME FlightAssumption, StreamInv, Flight!Finish \/ UNCHANGED Flight!vars
  PROVE  StreamInv'
<1> USE DEF StreamInv, FlightAssumption
<1>1. /\ UNCHANGED <<directory, body, pc, rotation, hand, queue, next_sequence,
                     dropped_full, mine, sealed>>
      /\ closing' = closing \/ (closing' = TRUE /\ pc \notin Unstarted)
  BY DEF Flight!Finish, Flight!Started, Flight!vars, Flight!disk, Flight!producer,
    Unstarted, Opening
<1>2. UNCHANGED <<Recorded, InHand, Waiting, Facts, Offered>>
  BY <1>1 DEF Recorded, InHand, Waiting, Facts, Offered
<1>3. StreamTyped' /\ StreamPlaced'
  BY <1>1 DEF StreamTyped, StreamPlaced
<1>4. StreamOrdered' /\ StreamCounted'
  BY <1>1, <1>2 DEF StreamOrdered, StreamCounted
<1>5. StreamSealed'
  <2>1. /\ pc \in Marking => Counted(rotation)'
        /\ AllCounted <=> AllCounted'
    BY <1>1 DEF StreamSealed, Counted, AllCounted, Flight!Missing
  <2> QED
    BY <1>1, <2>1, SealedKept DEF StreamSealed
<1> QED
  BY <1>3, <1>4, <1>5

\* The first waiting fact goes to the hand.
LEMMA StreamReceive ==
  ASSUME FlightAssumption, StreamInv, Flight!Receive
  PROVE  StreamInv'
<1> USE DEF StreamInv, FlightAssumption
<1>1. /\ pc = "receive" /\ pc' \in {"append", "seal"} /\ queue # <<>>
      /\ hand' = Head(queue) /\ queue' = Tail(queue)
      /\ UNCHANGED <<directory, body, rotation, next_sequence, dropped_full, closing,
                     mine, sealed>>
  BY DEF Flight!Receive, Flight!disk, Flight!producer
<1>2. /\ 1 \in DOMAIN queue /\ hand' = queue[1] /\ hand' \in 1..MaxEvents
      /\ queue' \in Seq(1..MaxEvents)
      /\ \A i \in DOMAIN queue' : i + 1 \in DOMAIN queue /\ queue'[i] = queue[i + 1]
      /\ \A i \in DOMAIN queue : i = 1 \/ (i - 1 \in DOMAIN queue' /\ queue'[i - 1] = queue[i])
  BY <1>1 DEF StreamTyped
<1>3. /\ hand = 0 /\ hand # Flight!Disconnected /\ hand' # Flight!Disconnected
      /\ pc \notin Unstarted
      /\ pc' \notin Unstarted \cup Marking \cup Retaining \cup {"failed", "done"}
  BY <1>1, <1>2 DEF StreamPlaced, Flight!Nothing, Flight!Disconnected, Unstarted,
    Opening, Marking, Retaining
<1>4. StreamTyped'
  BY <1>1, <1>2 DEF StreamTyped, Writing
<1>5. StreamPlaced'
  BY <1>1, <1>2, <1>3 DEF StreamPlaced
<1>6. /\ UNCHANGED <<Recorded, Offered>> /\ InHand = {} /\ InHand' = {hand'}
  BY <1>1, <1>2, <1>3 DEF Recorded, Offered, InHand
<1>7. Waiting = Waiting' \cup {hand'}
  BY <1>2 DEF Waiting
<1>8. Facts' = Facts
  BY <1>6, <1>7 DEF Facts
<1>9. \A f \in Waiting' : hand' < f
  <2>1. ASSUME NEW i \in DOMAIN queue' PROVE hand' < queue'[i]
    <3>1. i + 1 \in DOMAIN queue /\ 1 < i + 1
      BY <1>2
    <3> QED
      BY <1>2, <3>1 DEF StreamOrdered
  <2> QED
    BY <2>1 DEF Waiting
<1>10. \A i, j \in DOMAIN queue' : i < j => queue'[i] < queue'[j]
  <2>1. ASSUME NEW i \in DOMAIN queue', NEW j \in DOMAIN queue', i < j
        PROVE  queue'[i] < queue'[j]
    <3>1. i + 1 \in DOMAIN queue /\ j + 1 \in DOMAIN queue /\ i + 1 < j + 1
      BY <1>2, <2>1
    <3> QED
      BY <1>2, <3>1 DEF StreamOrdered
  <2> QED
    BY <2>1
<1>11. StreamOrdered'
  BY <1>1, <1>6, <1>7, <1>8, <1>9, <1>10 DEF StreamOrdered
<1>12. StreamCounted'
  BY <1>1, <1>6, <1>8 DEF StreamCounted
<1>13. StreamSealed'
  BY <1>1, <1>3, SealedKept DEF StreamSealed
<1> QED
  BY <1>4, <1>5, <1>11, <1>12, <1>13

\* The rotation's time is over, or the channel.
LEMMA StreamSilence ==
  ASSUME FlightAssumption, StreamInv, Flight!Silence
  PROVE  StreamInv'
<1> USE DEF StreamInv, FlightAssumption
<1>1. /\ pc = "receive" /\ pc' = "seal" /\ queue = <<>>
      /\ hand' = IF closing THEN Flight!Disconnected ELSE Flight!Nothing
      /\ UNCHANGED <<directory, body, rotation, queue, next_sequence, dropped_full,
                     closing, mine, sealed>>
  BY DEF Flight!Silence, Flight!disk, Flight!producer
<1>2. /\ Flight!Nothing = 0 /\ Flight!Disconnected = MaxEvents + 1 /\ hand = 0
      /\ pc \notin Unstarted
      /\ pc' \notin Unstarted \cup Marking \cup Retaining \cup {"failed", "done"}
  BY <1>1 DEF StreamPlaced, Flight!Nothing, Flight!Disconnected, Unstarted,
    Opening, Marking, Retaining
<1>3. StreamTyped'
  BY <1>1, <1>2 DEF StreamTyped, Writing
<1>4. StreamPlaced'
  BY <1>1, <1>2 DEF StreamPlaced
<1>5. UNCHANGED <<Recorded, Waiting, Offered>> /\ InHand = {} /\ InHand' = {}
  BY <1>1, <1>2 DEF Recorded, Waiting, Offered, InHand
<1>6. Facts' = Facts
  BY <1>5 DEF Facts
<1>7. StreamOrdered' /\ StreamCounted'
  BY <1>1, <1>5, <1>6 DEF StreamOrdered, StreamCounted
<1>8. StreamSealed'
  BY <1>1, <1>2, SealedKept DEF StreamSealed
<1> QED
  BY <1>3, <1>4, <1>7, <1>8

\* The fact in hand is recorded in the active rotation, which is not sealed.
LEMMA StreamAppend ==
  ASSUME FlightAssumption, FlightInv, StreamInv, Flight!AppendEncoded
  PROVE  StreamInv'
<1> USE DEF StreamInv, FlightAssumption
<1>1. /\ pc = "append" /\ pc' = "receive" /\ hand' = Flight!Nothing
      /\ body' = [body EXCEPT ![rotation].events = @ \cup {hand}]
      /\ UNCHANGED <<directory, rotation, queue, next_sequence, dropped_full, closing,
                     mine, sealed>>
  BY DEF Flight!AppendEncoded, Flight!producer
<1>2. /\ Flight!Nothing = 0 /\ Flight!Disconnected = MaxEvents + 1 /\ hand \in 1..MaxEvents
      /\ pc \notin Unstarted /\ rotation \in mine /\ rotation \in Flight!Rotations
      /\ pc' \notin Unstarted \cup Marking \cup Retaining \cup {"failed", "done"}
  BY <1>1 DEF StreamPlaced, StreamTyped, Flight!Nothing, Flight!Disconnected, Unstarted,
    Opening, Marking, Retaining
<1>3. /\ body' \in [Flight!Rotations -> [events : SUBSET (1..MaxEvents), dropped : Nat]]
      /\ body'[rotation].events = body[rotation].events \cup {hand}
      /\ \A m \in Flight!Rotations \ {rotation} : body'[m] = body[m]
  BY <1>1, <1>2 DEF StreamTyped
<1>4. StreamTyped'
  BY <1>1, <1>2, <1>3 DEF StreamTyped, Writing
<1>5. StreamPlaced'
  BY <1>1, <1>2 DEF StreamPlaced
<1>6. Recorded' = Recorded \cup {hand}
  <2>1. ASSUME NEW e PROVE e \in Recorded' <=> e \in Recorded \/ e = hand
    <3>1. e \in Recorded' <=> \E m \in mine : e \in body'[m].events
      BY <1>1 DEF Recorded
    <3>2. e \in Recorded <=> \E m \in mine : e \in body[m].events
      BY DEF Recorded
    <3> QED
      BY <1>2, <1>3, <3>1, <3>2 DEF StreamTyped
  <2> QED
    BY <2>1
<1>7. UNCHANGED <<Waiting, Offered>> /\ InHand = {hand} /\ InHand' = {}
  BY <1>1, <1>2 DEF Waiting, Offered, InHand
<1>8. Facts' = Facts
  BY <1>6, <1>7 DEF Facts
<1>9. StreamOrdered' /\ StreamCounted'
  BY <1>1, <1>6, <1>7, <1>8 DEF StreamOrdered, StreamCounted
<1>10. ASSUME NEW n \in mine' \cap sealed' PROVE Counted(n)'
  <2>1. n < rotation
    <3>1. rotation \in Nat /\ \A m \in Completed(directory) : m < rotation
      BY <1>1 DEF FlightInv, FlightTyped, Above, Writing
    <3> QED
      BY <1>1, <3>1, SealedBelow
  <2>2. n \in mine /\ n \in sealed /\ n \in Flight!Rotations /\ Counted(n)
    BY <1>1 DEF StreamTyped, StreamSealed
  <2>3. \A m \in mine : m <= n => m # rotation
    BY <1>2, <2>1, <2>2 DEF StreamTyped, Flight!Rotations
  <2>4. \A m \in mine : m <= n => body'[m].events = body[m].events
    BY <1>3, <2>3 DEF StreamTyped
  <2>5. body'[n].dropped = body[n].dropped
    BY <1>3, <2>1, <2>2 DEF Flight!Rotations
  <2> QED
    BY <1>1, <2>2, <2>4, <2>5, KeptCounted
<1> QED
  BY <1>2, <1>4, <1>5, <1>9, <1>10 DEF StreamSealed, Retaining

\* The marker takes the drops so far: they cover what is missing.
LEMMA StreamMarker ==
  ASSUME FlightAssumption, FlightInv, StreamInv, Flight!WriteMarker
  PROVE  StreamInv'
<1> USE DEF StreamInv, FlightAssumption
<1>1. /\ pc \in {"seal", "append"} /\ pc' = "sync"
      /\ body' = [body EXCEPT ![rotation].dropped = dropped_full]
      /\ UNCHANGED <<directory, rotation, hand, queue, next_sequence, dropped_full,
                     closing, mine, sealed>>
  BY DEF Flight!WriteMarker, Flight!producer
<1>2. /\ pc \notin Unstarted /\ rotation \in mine /\ rotation \in Flight!Rotations
      /\ \A m \in mine : m <= rotation
      /\ pc' \notin Unstarted \cup Retaining \cup {"failed", "done"}
  BY <1>1 DEF StreamPlaced, StreamTyped, Unstarted, Opening, Retaining
<1>3. /\ body' \in [Flight!Rotations -> [events : SUBSET (1..MaxEvents), dropped : Nat]]
      /\ body'[rotation].dropped = dropped_full
      /\ \A m \in Flight!Rotations : body'[m].events = body[m].events
      /\ \A m \in Flight!Rotations \ {rotation} : body'[m] = body[m]
  BY <1>1, <1>2 DEF StreamTyped
<1>4. StreamTyped'
  BY <1>1, <1>3 DEF StreamTyped, Marking
<1>5. StreamPlaced'
  BY <1>1, <1>2 DEF StreamPlaced
<1>6. Recorded' = Recorded
  <2>1. \A m \in mine : body'[m].events = body[m].events
    BY <1>3 DEF StreamTyped
  <2> QED
    BY <1>1, <2>1 DEF Recorded
<1>7. UNCHANGED <<InHand, Waiting, Offered>>
  BY <1>1 DEF InHand, Waiting, Offered
<1>8. Facts' = Facts
  BY <1>6, <1>7 DEF Facts
<1>9. StreamOrdered' /\ StreamCounted'
  BY <1>1, <1>6, <1>7, <1>8 DEF StreamOrdered, StreamCounted
<1>10. ASSUME NEW n \in mine' \cap sealed' PROVE Counted(n)'
  <2>1. n < rotation
    <3>1. rotation \in Nat /\ \A m \in Completed(directory) : m < rotation
      BY <1>1 DEF FlightInv, FlightTyped, Above, Writing
    <3> QED
      BY <1>1, <3>1, SealedBelow
  <2>2. n \in mine /\ n \in sealed /\ n \in Flight!Rotations /\ Counted(n)
    BY <1>1 DEF StreamTyped, StreamSealed
  <2>3. \A m \in mine : m <= n => body'[m].events = body[m].events
    BY <1>3 DEF StreamTyped
  <2>4. body'[n].dropped = body[n].dropped
    BY <1>3, <2>1, <2>2 DEF Flight!Rotations
  <2> QED
    BY <1>1, <2>2, <2>3, <2>4, KeptCounted
<1>11. UNION {body'[m].events : m \in {m \in mine' : m <= rotation'}} = Recorded
  <2>1. {m \in mine' : m <= rotation'} = mine'
    BY <1>1, <1>2
  <2> QED
    BY <1>6, <2>1 DEF Recorded
<1>12. \A S \in SUBSET (Offered \ Facts) : Cardinality(S) <= dropped_full
  <2>1. /\ Offered \ Facts \in SUBSET (1..(next_sequence - 1))
        /\ next_sequence - 1 \in Nat
    BY DEF Offered, StreamTyped
  <2>2. Cardinality(Offered \ Facts) <= dropped_full /\ dropped_full \in Nat
    BY <1>1 DEF StreamCounted, StreamTyped
  <2>3. ASSUME NEW S \in SUBSET (Offered \ Facts) PROVE Cardinality(S) <= dropped_full
    <3>1. /\ Cardinality(S) \in Nat /\ Cardinality(Offered \ Facts) \in Nat
          /\ Cardinality(S) <= Cardinality(Offered \ Facts)
      BY <2>1, FewerFacts
    <3> QED
      BY <2>2, <3>1
  <2> QED
    BY <2>3
<1>13. Counted(rotation)'
  <2> DEFINE k == Flight!Highest(body[rotation].events)
  <2>1. Flight!Highest(body[rotation].events)' = k
    BY <1>1, <1>2, <1>3 DEF Flight!Highest
  <2>2. body[rotation].events \in SUBSET (1..MaxEvents)
    BY <1>2 DEF StreamTyped
  <2>3. k \in Nat /\ (k = 0 \/ k \in Recorded)
    BY <1>2, <2>2, HighestAbove DEF Recorded
  <2>4. (1..k) \ Recorded \in SUBSET (Offered \ Facts)
    <3>1. CASE k = 0
      BY <3>1
    <3>2. CASE k \in Recorded
      <4>1. k < next_sequence /\ \A f \in InHand \cup Waiting : k < f
        BY <3>2 DEF StreamOrdered, Facts
      <4>2. next_sequence \in Nat /\ InHand \cup Waiting \subseteq Nat
        BY DEF StreamTyped, InHand, Waiting
      <4>3. ASSUME NEW e \in 1..k, e \notin Recorded PROVE e \in Offered \ Facts
        <5>1. e \in Nat /\ e <= k /\ 1 <= e
          BY <2>3, <4>3
        <5>2. e \notin InHand \cup Waiting
          BY <2>3, <4>1, <4>2, <5>1
        <5>3. e \in Offered
          BY <2>3, <4>1, <4>2, <5>1 DEF Offered
        <5> QED
          BY <4>3, <5>2, <5>3 DEF Facts
      <4> QED
        BY <4>3
    <3> QED
      BY <2>3, <3>1, <3>2
  <2>5. Counted(rotation)' <=> Cardinality((1..k) \ Recorded) <= body'[rotation'].dropped
    BY <1>1, <1>11, <2>1 DEF Counted, Flight!Missing
  <2> HIDE DEF k
  <2> QED
    BY <1>1, <1>3, <1>12, <2>4, <2>5
<1>14. ASSUME hand' = Flight!Disconnected PROVE AllCounted'
  <2>1. InHand = {} /\ Waiting = {}
    BY <1>1, <1>14 DEF StreamPlaced, InHand, Waiting, Flight!Disconnected
  <2>2. (1..(next_sequence - 1)) \ Recorded \in SUBSET (Offered \ Facts)
    BY <2>1 DEF Offered, Facts
  <2>3. AllCounted' <=>
          Cardinality((1..(next_sequence - 1)) \ Recorded) <= body'[rotation'].dropped
    BY <1>1, <1>11 DEF AllCounted, Flight!Missing
  <2> QED
    BY <1>1, <1>3, <1>12, <2>2, <2>3
<1> QED
  BY <1>1, <1>4, <1>5, <1>9, <1>10, <1>13, <1>14 DEF StreamSealed

\* The steps of a seal and of the pruning leave the stream alone.
LEMMA StreamSeals ==
  ASSUME FlightAssumption, FlightInv, StreamInv,
         Flight!SyncFile \/ Flight!Rename \/ Flight!SyncDirectory \/ Flight!Retain
  PROVE  StreamInv'
<1> USE DEF StreamInv, FlightAssumption
<1>1. /\ UNCHANGED <<body, rotation, hand, queue, next_sequence, dropped_full, closing,
                     mine>>
      /\ pc \in Marking \cup {"retain", "retained"}
  BY DEF Flight!SyncFile, Flight!Rename, Flight!SyncDirectory, Flight!Retain,
    Flight!producer, Marking
<1>2. UNCHANGED <<Recorded, InHand, Waiting, Facts, Offered>>
  BY <1>1 DEF Recorded, InHand, Waiting, Facts, Offered
<1>3. StreamOrdered'
  BY <1>1, <1>2 DEF StreamOrdered
<1>4. StreamCounted'
  BY <1>1, <1>2 DEF StreamCounted, Marking
<1>5. /\ \A n : Counted(n) <=> Counted(n)'
      /\ AllCounted <=> AllCounted'
  BY <1>1 DEF Counted, AllCounted, Flight!Missing
<1>6. pc \notin Unstarted
  BY <1>1 DEF Unstarted, Opening, Marking
<1>7. CASE Flight!SyncFile \/ Flight!Rename
  <2>1. pc \in Marking /\ pc' \in Marking /\ UNCHANGED sealed
    BY <1>7 DEF Flight!SyncFile, Flight!Rename, Marking
  <2>2. StreamSealed'
    BY <1>1, <1>5, <2>1 DEF StreamSealed, Marking
  <2>3. StreamTyped' /\ StreamPlaced'
    BY <1>1, <1>6, <2>1 DEF StreamTyped, StreamPlaced, Marking, Retaining, Unstarted, Opening
  <2> QED
    BY <1>3, <1>4, <2>2, <2>3
<1>8. CASE Flight!SyncDirectory
  <2>1. /\ pc = "syncdir" /\ pc' = "retain" /\ UNCHANGED directory
        /\ sealed' = sealed \cup {rotation}
    BY <1>8 DEF Flight!SyncDirectory, Flight!Synced
  <2>2. StreamSealed'
    BY <1>1, <1>5, <2>1 DEF StreamSealed, Marking
  <2>3. \E m \in Completed(directory') : rotation <= m
    <3>1. rotation \in Completed(directory) /\ rotation \in Nat
      BY <2>1 DEF FlightInv, FlightTyped, Marked, Completed
    <3> QED
      BY <2>1, <3>1
  <2>4. StreamTyped' /\ StreamPlaced'
    BY <1>1, <1>6, <2>1, <2>3 DEF StreamTyped, StreamPlaced, Marking, Retaining, Unstarted, Opening
  <2> QED
    BY <1>3, <1>4, <2>2, <2>4
<1>9. CASE Flight!Retain
  <2>1. /\ pc \in {"retain", "retained"} /\ UNCHANGED sealed
        /\ pc' \in {"retained", "failed"}
             \cup {IF hand = Flight!Disconnected THEN "done" ELSE "reopen"}
    BY <1>9 DEF Flight!Retain, Flight!RetainLatest, Flight!SyncRetained
  <2>2. StreamSealed'
    BY <1>1, <1>5, <2>1 DEF StreamSealed, Marking
  <2>3. \E m \in Completed(directory') : rotation <= m
    <3>1. PICK m \in Completed(directory) : rotation <= m
      BY <2>1 DEF StreamPlaced, Retaining
    <3>2. PICK l \in Completed(directory') : m <= l
      BY <1>9, FlightRetain
    <3> QED
      BY <3>1, <3>2 DEF FlightInv, FlightTyped, Completed, Flight!Rotations
  <2>4. StreamTyped' /\ StreamPlaced'
    BY <1>1, <1>6, <2>1, <2>3 DEF StreamTyped, StreamPlaced, Marking, Retaining, Unstarted, Opening
  <2> QED
    BY <1>3, <1>4, <2>2, <2>4
<1> QED
  BY <1>7, <1>8, <1>9

\* An error ends the thread with what it held.
LEMMA StreamFails ==
  ASSUME FlightAssumption, StreamInv, Flight!WorkerFails
  PROVE  StreamInv'
<1> USE DEF StreamInv, FlightAssumption
<1>1. /\ pc \notin Unstarted /\ pc' = "failed" /\ queue' = <<>> /\ hand' = 0
      /\ UNCHANGED <<directory, body, rotation, next_sequence, dropped_full, closing,
                     mine, sealed>>
  BY DEF Flight!WorkerFails, Flight!disk, Flight!producer, Flight!Nothing, Unstarted,
    Opening
<1>2. /\ hand' # Flight!Disconnected
      /\ pc' \notin Unstarted \cup Writing \cup Marking \cup Retaining \cup {"done"}
  BY <1>1 DEF Flight!Disconnected, Unstarted, Opening, Writing, Marking, Retaining
<1>3. StreamTyped' /\ StreamPlaced'
  BY <1>1, <1>2 DEF StreamTyped, StreamPlaced, Writing
<1>4. Recorded' = Recorded /\ InHand' = {} /\ Waiting' = {}
  BY <1>1 DEF Recorded, InHand, Waiting
<1>5. StreamOrdered' /\ StreamCounted'
  BY <1>1, <1>4 DEF StreamOrdered, StreamCounted, Facts
<1>6. StreamSealed'
  BY <1>1, <1>2, SealedKept DEF StreamSealed
<1> QED
  BY <1>3, <1>5, <1>6

LEMMA StreamStep ==
  ASSUME FlightAssumption, FlightInv, StreamInv, [Flight!Next]_Flight!vars
  PROVE  StreamInv'
<1> QED
  BY StreamOutside, StreamOpen, StreamTryRecord, StreamFinish, StreamReceive,
    StreamSilence, StreamAppend, StreamMarker, StreamSeals, StreamFails
    DEF Flight!Next, Flight!Worker

\* A sealed rotation's marker has counted every fact that is missing up to its
\* last one, and that of the last rotation of a finished session every fact of
\* the session (FlightRecorder::try_record, writer_loop, RotationFile::seal).
THEOREM GapsCounted ==
  ASSUME FlightAssumption
  PROVE  Flight!Spec => []GapsAreCounted
<1>1. Flight!Init => FlightInv /\ StreamInv
  <2> SUFFICES ASSUME Flight!Init PROVE FlightInv /\ StreamInv
    OBVIOUS
  <2>1. StreamInv
    <3>1. /\ pc \in Unstarted /\ mine = {} /\ hand = 0 /\ queue = <<>>
          /\ next_sequence = 1 /\ closing = FALSE /\ dropped_full = 0 /\ sealed = {}
          /\ body \in [Flight!Rotations -> [events : SUBSET (1..MaxEvents), dropped : Nat]]
      BY DEF Flight!Init, Unstarted, Flight!Nothing, Flight!Empty
    <3>2. pc \notin Writing \cup Marking \cup Retaining \cup {"failed", "done"}
      BY DEF Flight!Init, Writing, Marking, Retaining
    <3>3. /\ Recorded = {} /\ InHand = {} /\ Waiting = {} /\ Facts = {} /\ Offered = {}
          /\ Flight!Nothing = 0 /\ Flight!Disconnected # 0
      BY <3>1 DEF Recorded, InHand, Waiting, Facts, Offered, Flight!Nothing,
        Flight!Disconnected, FlightAssumption
    <3>4. StreamTyped /\ StreamPlaced
      BY <3>1, <3>2, <3>3 DEF StreamTyped, StreamPlaced, FlightAssumption, Writing
    <3>5. StreamOrdered /\ StreamCounted
      <4>1. Offered \ Facts = {} /\ Cardinality(Offered \ Facts) = 0
        BY <3>3, FS_EmptySet
      <4>2. StreamCounted
        BY <3>1, <4>1 DEF StreamCounted
      <4>3. StreamOrdered
        BY <3>1, <3>3 DEF StreamOrdered
      <4> QED
        BY <4>2, <4>3
    <3>6. StreamSealed
      BY <3>1, <3>2 DEF StreamSealed, Retaining
    <3> QED
      BY <3>4, <3>5, <3>6 DEF StreamInv
  <2> QED
    BY <2>1, FlightInit
<1>2. FlightInv /\ StreamInv /\ [Flight!Next]_Flight!vars => FlightInv' /\ StreamInv'
  BY FlightStep, StreamStep
<1>3. StreamInv => GapsAreCounted
  <2> SUFFICES ASSUME StreamInv PROVE GapsAreCounted
    OBVIOUS
  <2>1. ASSUME NEW n \in mine \cap sealed
        PROVE  /\ Counted(n)
               /\ pc = "done" /\ n = rotation => AllCounted
    BY DEF StreamInv, StreamSealed, StreamPlaced
  <2> QED
    BY <2>1, SameCount DEF GapsAreCounted, Flight!GapsAreCounted, Counted, AllCounted
<1> QED
  BY <1>1, <1>2, <1>3, PTL DEF Flight!Spec
=============================================================================
