---------------------------- MODULE ProxyCache ----------------------------
(***************************************************************************)
(* The proxy cache (src/src/proxy_worker.rs): artifacts and their digest   *)
(* seals in one directory, the index the store rebuilds from it, the       *)
(* encode worker, and the readers that consult the cache: Main when a      *)
(* patch is loaded, and the adoption worker.                               *)
(*                                                                         *)
(* The store's lock is held from the preflight to the end of a             *)
(* publication; hashing and validation happen outside it.  The directory   *)
(* is what a read returns now, and what a power loss may leave instead:    *)
(* every rename and unlink since the last directory sync may be undone by  *)
(* itself.                                                                 *)
(*                                                                         *)
(* A content is the number of the encode that made it, and its own digest. *)
(* Artifacts weigh one unit.  The order of eviction (the recency record's  *)
(* ordinals) is left open: any entry may be the least recently used.  So   *)
(* are the job queue (any key may be next) and what makes an encode fail.  *)
(***************************************************************************)
EXTENDS Naturals, FiniteSets

CONSTANTS
  Keys,
  Readers,        \* Main and the adoption worker
  Capacity,       \* ProxyCacheLimits, in artifacts
  MaxContents,    \* bound on encodes
  MaxFaults,      \* bound on file operations that fail
  MaxRot          \* bound on artifacts corrupted from outside

Absent == 0
Rotten == MaxContents + 1     \* bytes no seal was ever written for

VARIABLES
  artifact, seal,          \* the directory, per key
  artifacts, seals,        \* per key, what a power loss may leave
  entries,                   \* ProxyCacheStore::entries: the digest per key
  encode,                  \* the encode worker: place, key, content
  reader,                  \* per reader: place, key, the digest it read
  made, faults, rot,       \* encodes, failures and corruptions so far
  promised                 \* per key, the content told to be ready

disk == <<artifact, seal, artifacts, seals>>
vars == <<disk, entries, encode, reader, made, faults, rot, promised>>

Idle == [at |-> "idle", key |-> CHOOSE k \in Keys : TRUE, content |-> Absent]

Init ==
  /\ artifact = [k \in Keys |-> Absent] /\ seal = artifact /\ entries = artifact
  /\ artifacts = [k \in Keys |-> {Absent}] /\ seals = artifacts
  /\ encode = Idle /\ reader = [r \in Readers |-> Idle]
  /\ made = 0 /\ faults = 0 /\ rot = 0
  /\ promised = [k \in Keys |-> Absent]

----------------------------------------------------------------------------
(***************************************************************************)
(* The directory and the store.                                            *)
(***************************************************************************)
Fault == faults < MaxFaults /\ faults' = faults + 1

\* sync_parent_directory makes everything so far durable.
Synced ==
  /\ artifacts' = [k \in Keys |-> {artifact'[k]}]
  /\ seals' = [k \in Keys |-> {seal'[k]}]

Unsynced ==
  /\ artifacts' = [k \in Keys |-> artifacts[k] \cup {artifact'[k]}]
  /\ seals' = [k \in Keys |-> seals[k] \cup {seal'[k]}]

\* As a bug: a record that is only advisory needs no sync.
PersistUnsynced == Unsynced /\ UNCHANGED faults

\* ProxyCacheStore::persist_recency: the advisory record is written through
\* the same directory and syncs it; a failure is soft.
PersistRecency ==
  \/ Synced /\ UNCHANGED faults
  \/ Unsynced /\ Fault

Unlinked(as, ss) ==
  /\ artifact' = [k \in Keys |-> IF k \in as THEN Absent ELSE artifact[k]]
  /\ seal' = [k \in Keys |-> IF k \in ss THEN Absent ELSE seal[k]]

Unlocked == encode.at \notin {"rename", "sync"}

Indexed == {k \in Keys : entries[k] # Absent}

\* ProxyCacheStore::discard_invalid, by someone who read the digest d: files
\* that cannot be unlinked stay behind.
DiscardInvalid(k, d) ==
  /\ Unlocked
  /\ entries' = [entries EXCEPT ![k] = Absent]
  /\ \/ /\ Unlinked({k}, {k})
        /\ IF k \in Indexed THEN PersistRecency ELSE Unsynced /\ UNCHANGED faults
     \/ \E as, ss \in SUBSET {k}:
          /\ as # {k} \/ ss # {k}
          /\ Unlinked(as, ss) /\ Fault
          /\ Unsynced \/ (k \in Indexed /\ Synced)
  /\ promised' = [promised EXCEPT ![k] = IF @ = d THEN @ ELSE Absent]

\* ProxyCacheStore::touch: an unknown key is inert.
Touch(k) ==
  /\ Unlocked /\ UNCHANGED <<artifact, seal>>
  /\ IF k \in Indexed THEN PersistRecency
     ELSE UNCHANGED <<artifacts, seals, faults>>

\* ProxyCacheStore::open: a key with both halves is admitted, a half alone is
\* removed, and nothing is hashed.
Open(as, ss) ==
  LET whole == {k \in Keys : as[k] # Absent /\ ss[k] # Absent}
      Kept(f) == [k \in Keys |-> IF k \in whole THEN f[k] ELSE Absent]
  IN artifact' = Kept(as) /\ seal' = Kept(ss) /\ entries' = Kept(ss)

\* The process stops, or the machine, and the next session opens the cache.
Restart ==
  /\ \/ Open(artifact, seal) /\ Unsynced
     \/ \E as, ss \in [Keys -> 0..Rotten]:
          /\ \A k \in Keys : as[k] \in artifacts[k] /\ ss[k] \in seals[k]
          /\ Open(as, ss)
          /\ artifacts' = [k \in Keys |-> {as[k], artifact'[k]}]
          /\ seals' = [k \in Keys |-> {ss[k], seal'[k]}]
  /\ encode' = Idle /\ reader' = [r \in Readers |-> Idle]
  /\ UNCHANGED <<made, faults, rot, promised>>

\* An artifact's bytes change under the cache.
Rot(k) ==
  /\ rot < MaxRot /\ artifact[k] # Absent
  /\ rot' = rot + 1
  /\ artifact' = [artifact EXCEPT ![k] = Rotten]
  /\ artifacts' = [artifacts EXCEPT ![k] = (@ \ {artifact[k]}) \cup {Rotten}]
  /\ promised' = [promised EXCEPT ![k] = Absent]
  /\ UNCHANGED <<seal, seals, entries, encode, reader, made, faults>>

----------------------------------------------------------------------------
(***************************************************************************)
(* The encode worker: run_proxy_encode_job.                                *)
(***************************************************************************)
encodeOnly == <<disk, entries, reader, made, faults, rot, promised>>

\* The next job, past the checks of its source.
BeginEncode(k) ==
  /\ encode.at = "idle"
  /\ encode' = [at |-> IF k \in Indexed THEN "check" ELSE "encode",
                key |-> k, content |-> entries[k]]
  /\ UNCHANGED encodeOnly

\* The seal is intact: already cached.
CacheHit ==
  /\ encode.at = "check" /\ artifact[encode.key] = encode.content
  /\ Touch(encode.key)
  /\ encode' = Idle
  /\ UNCHANGED <<entries, reader, made, rot, promised>>

\* What the seal refuses, or the validation, which may fail by itself.
Refused(k, content) ==
  \/ artifact[k] # content /\ UNCHANGED <<faults, promised>>
  \/ artifact[k] = content /\ Fault /\ promised' = [promised EXCEPT ![k] = Absent]

CacheMiss ==
  /\ encode.at = "check" /\ Refused(encode.key, encode.content)
  /\ encode' = [encode EXCEPT !.at = "discard"]
  /\ UNCHANGED <<disk, entries, reader, made, rot>>

DiscardCached ==
  /\ encode.at = "discard" /\ DiscardInvalid(encode.key, encode.content)
  /\ encode' = [encode EXCEPT !.at = "encode", !.content = Absent]
  /\ UNCHANGED <<reader, made, rot>>

\* Staging, the encoder, the validation and the hash of what it made; any
\* of them may fail, and the staging guard removes the rest.
Encode ==
  /\ encode.at = "encode"
  /\ \/ /\ made < MaxContents /\ made' = made + 1
        /\ encode' = [encode EXCEPT !.at = "evict", !.content = made + 1]
     \/ encode' = Idle /\ UNCHANGED made
  /\ UNCHANGED <<disk, entries, reader, faults, rot, promised>>

\* ProxyCachePlan::preflight: the least recently used of the others make
\* room for the artifact beside all that is retained.
Preflight(k, victims) ==
  /\ victims \subseteq Indexed \ {k}
  /\ Cardinality(Indexed) <= Capacity
  /\ Cardinality(victims) =
       IF Cardinality(Indexed) < Capacity THEN 0
       ELSE Cardinality(Indexed) + 1 - Capacity

Dropped(f, ks) == [k \in Keys |-> IF k \in ks THEN Absent ELSE f[k]]

Evict ==
  /\ encode.at = "evict"
  /\ \E victims \in SUBSET Keys:
       /\ Preflight(encode.key, victims)
       /\ entries' = Dropped(entries, victims)
       /\ promised' = Dropped(promised, victims)
       /\ IF victims = {} THEN UNCHANGED <<disk, faults>>
          ELSE \/ Unlinked(victims, victims) /\ PersistRecency
               \/ \E left \in SUBSET victims \ {{}}:
                    /\ Unlinked(victims, victims \ left)
                    /\ (Synced \/ Unsynced) /\ Fault
  /\ encode' = [encode EXCEPT !.at = "rename"]
  /\ UNCHANGED <<reader, made, rot>>

\* The preflight refuses, or a victim cannot be unlinked and is in the index
\* no more.
EvictFails ==
  /\ encode.at = "evict"
  /\ \/ /\ ~\E victims \in SUBSET Keys : Preflight(encode.key, victims)
        /\ UNCHANGED <<disk, entries, faults, promised>>
     \/ \E victims \in SUBSET Keys : \E k \in victims, gone \in SUBSET victims:
          /\ Preflight(encode.key, victims) /\ k \notin gone
          /\ Fault
          /\ entries' = Dropped(entries, gone \cup {k})
          /\ promised' = Dropped(promised, gone \cup {k})
          /\ Unlinked(gone, gone) /\ Unsynced
  /\ encode' = Idle
  /\ UNCHANGED <<reader, made, rot>>

\* ProxyCacheStore::publish_staged: the synced artifact first, its seal
\* second.
Rename ==
  /\ encode.at = "rename"
  /\ artifact' = [artifact EXCEPT ![encode.key] = encode.content]
  /\ seal' = [seal EXCEPT ![encode.key] = encode.content]
  /\ Unsynced
  /\ encode' = [encode EXCEPT !.at = "sync"]
  /\ UNCHANGED <<entries, reader, made, faults, rot, promised>>

\* As a bug: the publication relies on the record's sync.
InsertUnsynced ==
  /\ encode.at = "sync"
  /\ UNCHANGED <<artifact, seal>> /\ PersistRecency
  /\ entries' = [entries EXCEPT ![encode.key] = encode.content]
  /\ promised' = [promised EXCEPT ![encode.key] =
                   IF artifact[encode.key] = encode.content THEN encode.content ELSE Absent]
  /\ encode' = Idle
  /\ UNCHANGED <<reader, made, rot>>

\* The directory is synced, the index follows, the job is told finished.
SyncAndInsert ==
  /\ encode.at = "sync"
  /\ UNCHANGED <<artifact, seal>> /\ Synced
  /\ entries' = [entries EXCEPT ![encode.key] = encode.content]
  /\ promised' = [promised EXCEPT ![encode.key] =
                   IF artifact[encode.key] = encode.content THEN encode.content ELSE Absent]
  /\ encode' = Idle
  /\ UNCHANGED <<reader, made, faults, rot>>

\* Nothing, the artifact alone or both are renamed when it fails.
PublishFails ==
  /\ Fault
  /\ \/ /\ encode.at = "rename"
        /\ \/ UNCHANGED artifact
           \/ artifact' = [artifact EXCEPT ![encode.key] = encode.content]
     \/ encode.at = "sync" /\ UNCHANGED artifact
  /\ UNCHANGED seal /\ Unsynced
  /\ encode' = Idle
  /\ UNCHANGED <<entries, reader, made, rot, promised>>

EncodeWorker ==
  \/ \E k \in Keys : BeginEncode(k)
  \/ CacheHit \/ CacheMiss \/ DiscardCached \/ Encode
  \/ Evict \/ EvictFails \/ Rename \/ SyncAndInsert \/ PublishFails

----------------------------------------------------------------------------
(***************************************************************************)
(* The readers: consult_proxy_cache.                                       *)
(***************************************************************************)
Consult(r, k) ==
  /\ Unlocked /\ reader[r].at = "idle" /\ k \in Indexed
  /\ reader' = [reader EXCEPT ![r] = [at |-> "hash", key |-> k, content |-> entries[k]]]
  /\ UNCHANGED <<disk, entries, encode, made, faults, rot, promised>>

\* The bytes are those the seal names.
HashMatches(r) ==
  /\ reader[r].at = "hash" /\ artifact[reader[r].key] = reader[r].content
  /\ reader' = [reader EXCEPT ![r].at = "adopt"]
  /\ UNCHANGED <<disk, entries, encode, made, faults, rot, promised>>

\* They are not, or the validation fails.
ConsultRefuses(r) ==
  /\ reader[r].at = "hash" /\ Refused(reader[r].key, reader[r].content)
  /\ reader' = [reader EXCEPT ![r].at = "discard"]
  /\ UNCHANGED <<disk, entries, encode, made, rot>>

Adopt(r) ==
  /\ reader[r].at = "adopt" /\ Touch(reader[r].key)
  /\ reader' = [reader EXCEPT ![r] = Idle]
  /\ UNCHANGED <<entries, encode, made, rot, promised>>

\* The original cannot be probed: it is used without its artifact.
ProbeFails(r) ==
  /\ reader[r].at = "adopt"
  /\ reader' = [reader EXCEPT ![r] = Idle]
  /\ UNCHANGED <<disk, entries, encode, made, faults, rot, promised>>

DiscardRefused(r) ==
  /\ reader[r].at = "discard"
  /\ DiscardInvalid(reader[r].key, reader[r].content)
  /\ reader' = [reader EXCEPT ![r] = Idle]
  /\ UNCHANGED <<encode, made, rot>>

Reader(r) ==
  \/ \E k \in Keys : Consult(r, k)
  \/ HashMatches(r) \/ ConsultRefuses(r)
  \/ Adopt(r) \/ ProbeFails(r) \/ DiscardRefused(r)

Next ==
  \/ EncodeWorker
  \/ \E r \in Readers : Reader(r)
  \/ Restart
  \/ \E k \in Keys : Rot(k)

Spec == Init /\ [][Next]_vars

----------------------------------------------------------------------------
Places ==
  {"idle", "check", "discard", "encode", "evict", "rename", "sync", "hash", "adopt"}

Job == [at: Places, key: Keys, content: 0..MaxContents]

\* The types of the variables: no seal and no index entry names bytes that no
\* encode has made.
TypeOK ==
  /\ made \in 0..MaxContents /\ faults \in Nat /\ rot \in Nat
  /\ artifact \in [Keys -> 0..Rotten] /\ seal \in [Keys -> 0..made]
  /\ artifacts \in [Keys -> SUBSET (0..Rotten)]
  /\ seals \in [Keys -> SUBSET (0..made)]
  /\ entries \in [Keys -> 0..made] /\ promised \in [Keys -> 0..made]
  /\ encode \in Job /\ reader \in [Readers -> Job]

\* What was told to be ready survives restarts and power losses, failed
\* publications and evictions of other keys, until it is evicted, its bytes
\* change, a validation fails, or a reader discards it who read the seal of
\* an earlier publication (consult_proxy_cache discards by key).
PublishedSurvives ==
  \A k \in Keys: promised[k] # Absent =>
    /\ artifacts[k] = {promised[k]} /\ seals[k] = {promised[k]}
    /\ entries[k] = promised[k]

\* As long as no file operation failed, no stop leaves more sealed artifacts
\* than the limits admit, so the next session's preflight never refuses the
\* directory as it finds it.
CacheBounded ==
  faults = 0 =>
    Cardinality({k \in Keys : artifacts[k] # {Absent} /\ seals[k] # {Absent}}) <= Capacity
=============================================================================
