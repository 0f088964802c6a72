----------------------------- MODULE BodyCache -----------------------------
(***************************************************************************)
(* Message bodies: the cache objects and their states, the background      *)
(* fetch batch, the rescoring queue, the fetch a reader triggers by        *)
(* opening a message, and the content-addressed files both stage before    *)
(* their transaction (crates/posthaste-domain-service/src/service/cache/*, *)
(* cache/*, crates/posthaste-store/src/cache/*, store.rs staged_write).    *)
(*                                                                         *)
(* A fetcher is a background batch ("worker") or an opened message         *)
(* ("reader"); each stages the file, then runs its transaction.  Nothing   *)
(* serialises two fetchers before the transaction.                         *)
(***************************************************************************)
EXTENDS Naturals, FiniteSets

CONSTANTS Letters,           \* message ids
          SameBytes,         \* TRUE when every letter has the same raw bytes
          MaxFetchFailures,  \* bound: provider failures
          MaxCacheStops      \* bound: process stops

VARIABLES stored, object, sized, rescore, bodyRow, files, fetcher, letter, wrote,
          fetchFailures, cacheStops

cacheVars == <<stored, object, sized, rescore, bodyRow, files, fetcher, letter, wrote,
               fetchFailures, cacheStops>>

Fetchers == {"worker", "reader"}

\* store_raw_message names the file by the SHA-256 of the bytes.
Hash(m) == IF SameBytes THEN "sha" ELSE m

-----------------------------------------------------------------------------
\* ensure_body_cache_object_tx: a new object is wanted (cached when the body row is there);
\* an existing one only ever moves to cached.  The message is queued for rescoring.
Ensured(m, cached) ==
    CASE cached                          -> "cached"
      [] ~cached /\ object[m] = "none"   -> "wanted"
      [] OTHER                           -> object[m]

\* apply_sync_batch: a message arrives with its structural cache object, not yet sized.
Arrive(m) ==
    /\ m \notin stored /\ object[m] = "none"
    /\ \A f \in Fetchers : fetcher[f] # "idle" => letter[f] # m    \* ids are not reused at once
    /\ stored' = stored \cup {m}
    /\ object' = [object EXCEPT ![m] = Ensured(m, FALSE)]
    /\ rescore' = rescore \cup {m}
    /\ UNCHANGED <<sized, bodyRow, files, fetcher, letter, wrote, fetchFailures, cacheStops>>

\* upsert_body_cache_candidates after a batch: scored, sized and wanted unless it is cached,
\* an object that is being fetched included.
UpsertCandidate(m) ==
    /\ m \in stored /\ object[m] # "none" /\ m \notin sized
    /\ object' = [object EXCEPT ![m] = IF @ = "cached" THEN @ ELSE "wanted"]
    /\ sized' = sized \cup {m}
    /\ UNCHANGED <<stored, rescore, bodyRow, files, fetcher, letter, wrote, fetchFailures, cacheStops>>

\* delete_message_tx: the row and every cache row go; the file stays.
DeleteLetter(m) ==
    /\ m \in stored
    /\ stored' = stored \ {m}
    /\ object' = [object EXCEPT ![m] = "none"]
    /\ sized' = sized \ {m}
    /\ rescore' = rescore \ {m}
    /\ bodyRow' = bodyRow \ {m}
    /\ UNCHANGED <<files, fetcher, letter, wrote, fetchFailures, cacheStops>>

\* Fault: a rescore leaves the state alone.
RescoredKeepingFailed(state) == state

\* update_cache_priorities for one rescored message: sized, and a failed object is wanted again.
Rescored(state) == IF state \in {"cached", "fetching"} THEN state ELSE "wanted"

Rescore(m) ==
    /\ m \in rescore
    /\ rescore' = rescore \ {m}
    /\ object' = [object EXCEPT ![m] = Rescored(@)]
    /\ sized' = sized \cup {m}
    /\ UNCHANGED <<stored, bodyRow, files, fetcher, letter, wrote, fetchFailures, cacheStops>>

\* queue_stale_cache_rescore_candidates skips what is being fetched; record_cache_signal_updates
\* queues a message that a search showed.
QueueStale(m) ==
    /\ object[m] \notin {"none", "fetching"} /\ m \notin rescore
    /\ rescore' = rescore \cup {m}
    /\ UNCHANGED <<stored, object, sized, bodyRow, files, fetcher, letter, wrote, fetchFailures,
                   cacheStops>>

-----------------------------------------------------------------------------
\* list_cache_fetch_candidates: state wanted and fetch_bytes > 0; admission and the lease let
\* it through (a batch that may not fetch leaves the object as it is).
Fetchable(m) == object[m] = "wanted" /\ m \in sized

\* process_body_cache_batch marks the candidate before it awaits the provider.
BeginFetch(m) ==
    /\ fetcher["worker"] = "idle" /\ Fetchable(m)
    /\ object' = [object EXCEPT ![m] = "fetching"]
    /\ fetcher' = [fetcher EXCEPT !["worker"] = "awaiting"]
    /\ letter' = [letter EXCEPT !["worker"] = m]
    /\ UNCHANGED <<stored, sized, rescore, bodyRow, files, wrote, fetchFailures, cacheStops>>

\* get_message_detail: the body is fetched when the row has none.
OpenLetter(m) ==
    /\ fetcher["reader"] = "idle" /\ m \in stored /\ m \notin bodyRow
    /\ fetcher' = [fetcher EXCEPT !["reader"] = "awaiting"]
    /\ letter' = [letter EXCEPT !["reader"] = m]
    /\ UNCHANGED <<stored, object, sized, rescore, bodyRow, files, wrote, fetchFailures, cacheStops>>

\* Fault: an upsert, which brings back the object of a deleted message.
MarkedInserting(f, m, state) == IF f = "worker" THEN [object EXCEPT ![m] = state] ELSE object

\* mark_cache_object_state: an UPDATE, so an object deleted meanwhile stays deleted.
Marked(f, m, state) ==
    IF f = "worker" /\ object[m] # "none" THEN [object EXCEPT ![m] = state] ELSE object

\* The provider refuses, or the batch budget cuts the fetch: the worker marks it Failed.
FetchFails(f) ==
    /\ fetcher[f] = "awaiting" /\ fetchFailures < MaxFetchFailures
    /\ fetchFailures' = fetchFailures + 1
    /\ object' = Marked(f, letter[f], "failed")
    /\ fetcher' = [fetcher EXCEPT ![f] = "idle"]
    /\ UNCHANGED <<stored, sized, rescore, bodyRow, files, letter, wrote, cacheStops>>

\* staged_write, first half: the file is written unless one of that name exists, and only a
\* file this operation wrote is registered for removal.
Registered(m) == IF Hash(m) \in files THEN {} ELSE {Hash(m)}

Stage(f) ==
    /\ fetcher[f] = "awaiting"
    /\ wrote' = [wrote EXCEPT ![f] = Registered(letter[f])]
    /\ files' = files \cup {Hash(letter[f])}
    /\ fetcher' = [fetcher EXCEPT ![f] = "staged"]
    /\ UNCHANGED <<stored, object, sized, rescore, bodyRow, letter, fetchFailures, cacheStops>>

\* staged_write, second half: apply_message_body_tx commits when the message is still there,
\* sets the object cached and queues the rescore; the worker then marks it Cached again.
CommitBody(f) ==
    /\ fetcher[f] = "staged"
    /\ LET m == letter[f]
       IN  /\ m \in stored
           /\ bodyRow' = bodyRow \cup {m}
           /\ object' = [object EXCEPT ![m] = Ensured(m, TRUE)]
           /\ rescore' = rescore \cup {m}
    /\ fetcher' = [fetcher EXCEPT ![f] = IF f = "worker" THEN "applied" ELSE "idle"]
    /\ UNCHANGED <<stored, sized, files, letter, wrote, fetchFailures, cacheStops>>

MarkCached ==
    /\ fetcher["worker"] = "applied"
    /\ object' = Marked("worker", letter["worker"], "cached")
    /\ fetcher' = [fetcher EXCEPT !["worker"] = "idle"]
    /\ UNCHANGED <<stored, sized, rescore, bodyRow, files, letter, wrote, fetchFailures, cacheStops>>

\* ... and rolls back when it was deleted (NotFound): the guard removes what it registered.
RollBackBody(f) ==
    /\ fetcher[f] = "staged" /\ letter[f] \notin stored
    /\ files' = files \ wrote[f]
    /\ object' = Marked(f, letter[f], "failed")
    /\ fetcher' = [fetcher EXCEPT ![f] = "idle"]
    /\ UNCHANGED <<stored, sized, rescore, bodyRow, letter, wrote, fetchFailures, cacheStops>>

\* The process stops, or the supervisor drops the batch: fetchers vanish.  The next start runs
\* repair_missing_body_cache_objects, which restores objects that are missing altogether.
StopFetchers ==
    /\ \E f \in Fetchers : fetcher[f] # "idle"
    /\ cacheStops < MaxCacheStops
    /\ cacheStops' = cacheStops + 1
    /\ fetcher' = [f \in Fetchers |-> "idle"]
    /\ object' = [m \in Letters |-> IF m \in stored /\ object[m] = "none"
                                    THEN Ensured(m, m \in bodyRow) ELSE object[m]]
    /\ rescore' = (rescore \cap stored) \cup {m \in stored : object[m] = "none"}
    /\ UNCHANGED <<stored, sized, bodyRow, files, letter, wrote, fetchFailures>>

CacheInit ==
    /\ stored = {} /\ sized = {} /\ rescore = {} /\ bodyRow = {} /\ files = {}
    /\ object = [m \in Letters |-> "none"]
    /\ fetcher = [f \in Fetchers |-> "idle"]
    /\ letter = [f \in Fetchers |-> CHOOSE m \in Letters : TRUE]
    /\ wrote = [f \in Fetchers |-> {}]
    /\ fetchFailures = 0 /\ cacheStops = 0

CacheNext ==
    \/ \E m \in Letters : Arrive(m) \/ UpsertCandidate(m) \/ DeleteLetter(m) \/ Rescore(m)
                          \/ QueueStale(m) \/ BeginFetch(m) \/ OpenLetter(m)
    \/ \E f \in Fetchers : FetchFails(f) \/ Stage(f) \/ CommitBody(f) \/ RollBackBody(f)
    \/ MarkCached \/ StopFetchers

CacheSpec == CacheInit /\ [][CacheNext]_cacheVars

-----------------------------------------------------------------------------
\* A committed body row names a file that exists: what another fetcher's rollback removes is
\* never a file a committed row refers to (StagedBodyFiles; store_raw_message: a dedup hit
\* "must survive a rollback of this txn").  It fails when SameBytes = TRUE: the worker stages
\* a file, a reader of another letter finds it, commits on it and the worker's letter is
\* deleted; the worker's rollback then removes the file under the reader's row.
BodyRefsExist == \A m \in bodyRow : Hash(m) \in files

\* A cached object has its body: no order of the worker's own marks, a reader's commit and a
\* deletion leaves an object that claims a body nobody will fetch again.
CachedHasBody == \A m \in Letters : object[m] = "cached" => m \in bodyRow

\* Every message whose row stays gets its body in the end, whatever failed on the way: a Failed
\* object is rescored and wanted again (BODY_CACHE_BATCH_DEADLINE_ERROR_CODE).  The exception is
\* an object that was being fetched when the process stopped: nothing resets its mark.
EveryBodyFetched ==
    \A m \in Letters :
        (m \in stored) ~> (\/ m \in bodyRow \/ m \notin stored
                           \/ (object[m] = "fetching" /\ cacheStops > 0))

\* No dangling bodies: objects, rows and files agree on which bodies there are.
BodiesBacked == BodyRefsExist /\ CachedHasBody
=============================================================================
