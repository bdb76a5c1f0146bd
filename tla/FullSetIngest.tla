---------------------------- MODULE FullSetIngest ----------------------------
(***************************************************************************)
(* Ingesting a source that publishes its whole set each time, such as the  *)
(* EPSS daily file: application/fetch_source.go stores a changed file and  *)
(* enqueues its source.normalize job in one transaction, and               *)
(* normalize_source.go replaces the current set by a stored file.  Fetches *)
(* of one source run concurrently (a scheduled one, manual ones, one       *)
(* redelivered while the first still runs); the normalize jobs run under   *)
(* the queue of module JobQueue, which the relay implements: they may be   *)
(* repeated, late and out of order.                                        *)
(*                                                                         *)
(* A revision of the file is a number and stands for its raw record, its   *)
(* content hash and its normalize job, whose dedupe key is the raw         *)
(* record's id.  Abstracted: the rows in a file, quarantine, counters.     *)
(***************************************************************************)
EXTENDS Naturals, JobQueue

CONSTANTS Fetchers,     \* handlers of source.fetch jobs of this source
          LastRevision, \* bound: revisions the source publishes
          MaxFailures   \* bound: fetches that fail or are rate-limited

ASSUME RevisionAssumption == LastRevision \in Nat \ {0}
ASSUME JobsAreRevisions == Jobs = 1..LastRevision
ASSUME FailuresAssumption == MaxFailures \in Nat

NoRevision == 0

VARIABLES upstream,  \* the revision the source serves
          lastHash,  \* sources.config.last_content_hash
          raws,      \* raw_records of the source
          current,   \* the revision epss_current was loaded from
          at,        \* at[f]: "idle", "fetching" or "storing"
          seen,      \* seen[f]: the last_content_hash f read
          got,       \* got[f]: the revision f downloaded
          failures

fetchVars == <<at, seen, got>>
vars == <<upstream, lastHash, raws, current, fetchVars, failures, phase, handled>>

TypeOK ==
    /\ JQTypeOK
    /\ upstream \in Jobs
    /\ lastHash \in Jobs \union {NoRevision}
    /\ raws \subseteq Jobs
    /\ current \in Jobs \union {NoRevision}
    /\ at \in [Fetchers -> {"idle", "fetching", "storing"}]
    /\ seen \in [Fetchers -> Jobs \union {NoRevision}]
    /\ got \in [Fetchers -> Jobs \union {NoRevision}]
    /\ failures \in 0..MaxFailures

Init ==
    /\ JQInit
    /\ upstream = 1
    /\ lastHash = NoRevision /\ raws = {} /\ current = NoRevision
    /\ at = [f \in Fetchers |-> "idle"]
    /\ seen = [f \in Fetchers |-> NoRevision]
    /\ got = [f \in Fetchers |-> NoRevision]
    /\ failures = 0

-------------------------------------------------------------------------------
(* The source. *)

Publish ==
    /\ upstream < LastRevision
    /\ upstream' = upstream + 1
    /\ UNCHANGED <<lastHash, raws, current, fetchVars, failures, phase, handled>>

-------------------------------------------------------------------------------
(* One source.fetch job. *)

\* The handler returns: the job is acknowledged, left for a retry or
\* dead-lettered; another job of the source may start at any time.
FetchReturns(f) ==
    /\ at' = [at EXCEPT ![f] = "idle"]
    /\ seen' = [seen EXCEPT ![f] = NoRevision]
    /\ got' = [got EXCEPT ![f] = NoRevision]

\* The source row is read, the run is opened.
StartFetch(f) ==
    /\ at[f] = "idle"
    /\ at' = [at EXCEPT ![f] = "fetching"]
    /\ seen' = [seen EXCEPT ![f] = lastHash]
    /\ UNCHANGED <<upstream, lastHash, raws, current, got, failures, phase, handled>>

\* Mutant of Download: the hash is saved before the file is stored.
DownloadSavesHash(f) ==
    /\ at[f] = "fetching"
    /\ IF seen[f] = upstream
         THEN FetchReturns(f) /\ UNCHANGED lastHash
         ELSE /\ got' = [got EXCEPT ![f] = upstream]
              /\ at' = [at EXCEPT ![f] = "storing"]
              /\ lastHash' = upstream
              /\ UNCHANGED seen
    /\ UNCHANGED <<upstream, raws, current, failures, phase, handled>>

\* The adapter's Fetch, outside any transaction.  An unchanged file ends the
\* run as a successful no-op.
Download(f) ==
    /\ at[f] = "fetching"
    /\ IF seen[f] = upstream
         THEN FetchReturns(f)
         ELSE /\ got' = [got EXCEPT ![f] = upstream]
              /\ at' = [at EXCEPT ![f] = "storing"]
              /\ UNCHANGED seen
    /\ UNCHANGED <<upstream, lastHash, raws, current, failures, phase, handled>>

\* The terminal transaction: raw record (an existing one is found), last hash
\* and normalize job.
Store(f) ==
    /\ at[f] = "storing"
    /\ Enqueue(got[f])
    /\ raws' = raws \union {got[f]}
    /\ lastHash' = got[f]
    /\ FetchReturns(f)
    /\ UNCHANGED <<upstream, current, failures>>

\* The job's dedupe key is taken: the insert violates the unique constraint,
\* which aborts the transaction; the conflict is swallowed but the commit
\* fails, and the run with it.
StoreConflicts(f) ==
    /\ at[f] = "storing"
    /\ phase[got[f]] # "absent"
    /\ FetchReturns(f)
    /\ UNCHANGED <<upstream, lastHash, raws, current, failures, phase, handled>>

\* Any other failure, a rate limit, or a crash of the worker.
FetchFails(f) ==
    /\ at[f] # "idle"
    /\ failures < MaxFailures
    /\ failures' = failures + 1
    /\ FetchReturns(f)
    /\ UNCHANGED <<upstream, lastHash, raws, current, phase, handled>>

FetchStep(f) == StartFetch(f) \/ Download(f) \/ Store(f) \/ StoreConflicts(f)

-------------------------------------------------------------------------------
(* source.normalize jobs. *)

\* One pass: TRUNCATE and COPY in the transaction of the run.
Normalize(r) ==
    /\ Handle(r)
    /\ current' = r
    /\ UNCHANGED <<upstream, lastHash, raws, fetchVars, failures>>

\* The relay settles the job.
Settle(r) ==
    /\ Complete(r) \/ Abandon(r)
    /\ UNCHANGED <<upstream, lastHash, raws, current, fetchVars, failures>>

Next == \/ Publish
        \/ \E f \in Fetchers : FetchStep(f) \/ FetchFails(f)
        \/ \E r \in Jobs : Normalize(r) \/ Settle(r)

Spec == Init /\ [][Next]_vars

\* Every schedule slot brings a fetch job; the queue settles every job.
Fairness == /\ \A f \in Fetchers : WF_vars(FetchStep(f))
            /\ \A r \in Jobs : WF_vars(Settle(r))

FairSpec == Spec /\ Fairness

-------------------------------------------------------------------------------
(* Properties *)

\* The raw record, the hash that suppresses later fetches and the normalize
\* job commit together: there is no stored file without a job, and no hash of
\* a file that was not stored (fetch_source.go, the terminal commit).
StoredIsQueued ==
    /\ \A r \in raws : phase[r] # "absent"
    /\ lastHash # NoRevision => lastHash \in raws

\* Once the source stops publishing, its last revision is stored, its job is
\* enqueued and the queue settles it, whatever failed and whoever fetched
\* concurrently (fetch_source.go: the content-hash no-op never hides a file
\* that was not stored).
LastRevisionSettles == (upstream = LastRevision) ~> (phase[LastRevision] \in Settled)

-------------------------------------------------------------------------------
(* What the code's own comments say of it. *)

\* fetch_source.go, appendNormalizeJob: "a job already queued for the record
\* and version is a no-op conflict here, never an error".  The fetch that finds
\* it would then record the file it has just downloaded as the last one.
QueuedJobIsNoOp ==
    [][\A f \in Fetchers :
         at[f] = "storing" /\ at'[f] = "idle" /\ failures' = failures
         => lastHash' = got[f]]_vars

\* epss/doc.go: "A new day's file ... is stored and replaces the whole set on
\* the normalise side"; an older day's file would not.
CurrentSetNeverRegresses == [][current' >= current]_vars
===============================================================================
