-------------------------- MODULE IncrementalIngest --------------------------
(***************************************************************************)
(* Ingesting an incremental source (the NVD): application/fetch_source.go, *)
(* run_source.go and sources/nvd/nvd.go walk the window from the stored    *)
(* cursor minus an overlap to the instant the fetch began, page by page,   *)
(* store what they found and promote the cursor in one transaction.        *)
(* FetchSource leaves the refresh of the vulnerability rows to a           *)
(* source.normalize job, under the queue of module JobQueue; a step of the *)
(* full import, whose window may end in the past, goes through RunSource,  *)
(* which refreshes them in the same transaction.  Fetches of one source    *)
(* run concurrently.                                                       *)
(*                                                                         *)
(* A modification of a record is identified by its instant.  The API shows *)
(* it with a delay.  A source.normalize job is identified by the number of *)
(* the raw record.  Abstracted: what a record says, runs and counters; a   *)
(* fetch that fails for any reason leaves no trace but its failed run.     *)
(***************************************************************************)
EXTENDS Integers, FiniteSets, Sequences, JobQueue

CONSTANTS Records,    \* CVE records; the API lists a window in their order
          Fetchers,   \* fetches in progress
          Overlap,    \* config.overlap
          MaxLag,     \* the delay with which the API shows a modification
          PageSize,   \* resultsPerPage
          NoCursor,   \* sources.cursor IS NULL
          MaxTime     \* bound: instants

ASSUME RecordsAssumption == Records \subseteq Int /\ IsFiniteSet(Records)
ASSUME TimesAssumption == /\ Overlap \in Nat /\ MaxLag \in Nat /\ MaxTime \in Nat
                          /\ MaxLag <= Overlap
                          /\ NoCursor \notin Int
ASSUME PageAssumption == PageSize \in Nat \ {0}
\* Bound: raw records stored.
ASSUME RawsAssumption == IsFiniteSet(Jobs) /\ Jobs = 1..Cardinality(Jobs)

VARIABLES now,
          modified,  \* modified[r]: instant of r's last modification, 0: none
          shown,     \* shown[r]: the modification of r the API shows
          cursor,    \* sources.cursor, the last_modified watermark
          raws,      \* raws[j]: raw record j, the window and what it found
          row,       \* row[r]: the modification the vulnerability row of r holds
          fetch,     \* fetch[f]: window, next startIndex, what f found so far,
                     \* and whether it normalizes in its own transaction
          slipped    \* history: modifications that a page walk has missed because
                     \* the list got shorter before them

vars == <<now, modified, shown, cursor, raws, row, fetch, slipped, phase, handled>>

Versions == Records \X (1..MaxTime)

NotFetching ==
    [window |-> {}, to |-> 0, index |-> 0, found |-> {}, inline |-> FALSE]

TypeOK ==
    /\ JQTypeOK
    /\ now \in 1..MaxTime
    /\ modified \in [Records -> 0..MaxTime]
    /\ shown \in [Records -> 0..MaxTime]
    /\ cursor \in 1..MaxTime \union {NoCursor}
    /\ raws \in Seq([window : SUBSET (1..MaxTime), to : 1..MaxTime,
                     found : SUBSET Versions])
    /\ DOMAIN raws \subseteq Jobs
    /\ row \in [Records -> 0..MaxTime]
    /\ fetch \in [Fetchers -> [window : SUBSET (1..MaxTime), to : 0..MaxTime,
                               index : Nat, found : SUBSET Versions,
                               inline : BOOLEAN]]
    /\ slipped \subseteq Versions

Init ==
    /\ JQInit
    /\ now = 1
    /\ modified = [r \in Records |-> 0]
    /\ shown = [r \in Records |-> 0]
    /\ cursor = NoCursor
    /\ raws = <<>>
    /\ row = [r \in Records |-> 0]
    /\ fetch = [f \in Fetchers |-> NotFetching]
    /\ slipped = {}

-------------------------------------------------------------------------------
(* Time and the source. *)

\* A modification is shown at the latest MaxLag after its instant.
Tick ==
    /\ now < MaxTime
    /\ \A r \in Records : shown[r] # modified[r] => now < modified[r] + MaxLag
    /\ now' = now + 1
    /\ UNCHANGED <<modified, shown, cursor, raws, row, fetch, slipped, phase, handled>>

Modify(r) ==
    /\ modified[r] < now
    /\ modified' = [modified EXCEPT ![r] = now]
    /\ UNCHANGED <<now, shown, cursor, raws, row, fetch, slipped, phase, handled>>

\* What the API lists for f's window at this moment, and how many before r.
Listed(f) == {r \in Records : shown[r] \in fetch[f].window}
Place(f, r) == Cardinality({q \in Listed(f) : q < r})

\* When r leaves the window of a fetch that has passed it, the first record that
\* the fetch has not asked for moves to a page that it has.
Slips(r) == {<<q, shown[q]>> : q \in {x \in Records :
    \E f \in Fetchers : /\ r \in Listed(f) /\ modified[r] \notin fetch[f].window
                        /\ Place(f, r) < fetch[f].index
                        /\ x \in Listed(f) /\ Place(f, x) = fetch[f].index}}

Show(r) ==
    /\ shown[r] # modified[r]
    /\ shown' = [shown EXCEPT ![r] = modified[r]]
    /\ slipped' = slipped \union Slips(r)
    /\ UNCHANGED <<now, modified, cursor, raws, row, fetch, phase, handled>>

-------------------------------------------------------------------------------
(* Fetches. *)

\* Mutant of WindowFrom: no overlap.
WindowFromCursor == IF cursor = NoCursor THEN 0 ELSE cursor

\* windowFrom: the cursor minus the overlap, or the open lower bound.
WindowFrom == IF cursor = NoCursor THEN 0 ELSE cursor - Overlap

\* The source row is read and the window fixed; a window that is not positive
\* is an error.
OpenWindow(f, to, inline) ==
    /\ fetch[f] = NotFetching
    /\ WindowFrom < to
    /\ fetch' = [fetch EXCEPT ![f] =
                   [window |-> {t \in 1..to : t >= WindowFrom},
                    to |-> to, index |-> 0, found |-> {}, inline |-> inline]]
    /\ UNCHANGED <<now, modified, shown, cursor, raws, row, slipped, phase, handled>>

\* A source.fetch job.
StartFetch(f) == OpenWindow(f, now, FALSE)

\* A step of the full import: the driver has computed the end of the window
\* from the cursor of an earlier read.
StartImportStep(f) == \E to \in 1..now : OpenWindow(f, to, TRUE)

\* What f's next request lists, from startIndex on.
Page(f) ==
    {r \in Listed(f) : Place(f, r) \in fetch[f].index .. (fetch[f].index + PageSize - 1)}

\* One request of the walk.
GetPage(f) ==
    /\ fetch[f] # NotFetching
    /\ Page(f) # {}
    /\ fetch' = [fetch EXCEPT
                   ![f].found = @ \union {<<r, shown[r]>> : r \in Page(f)},
                   ![f].index = @ + PageSize]
    /\ UNCHANGED <<now, modified, shown, cursor, raws, row, slipped, phase, handled>>

RawRecord(f) ==
    [window |-> fetch[f].window, to |-> fetch[f].to, found |-> fetch[f].found]

\* The raw record gets number j; one with the same window and content is found.
InsertRaw(f, j) ==
    \/ j \in DOMAIN raws /\ raws[j] = RawRecord(f) /\ UNCHANGED raws
    \/ /\ \A i \in DOMAIN raws : raws[i] # RawRecord(f)
       /\ j = Len(raws) + 1
       /\ raws' = Append(raws, RawRecord(f))

\* The vulnerability rows take what the raw record says (UpsertVulnerability).
Refresh(found) ==
    row' = [r \in Records |->
              IF \E t \in 1..MaxTime : <<r, t>> \in found
                THEN CHOOSE t \in 1..MaxTime :
                       /\ <<r, t>> \in found
                       /\ \A u \in 1..MaxTime : <<r, u>> \in found => u <= t
                ELSE row[r]]

\* An empty page ends the walk, and the terminal transaction stores the raw
\* record and promotes the cursor.  FetchSource enqueues the normalize job, and
\* fails if the job's dedupe key is taken; RunSource refreshes the rows.
StoreWindow(f) ==
    /\ fetch[f] # NotFetching
    /\ Page(f) = {}
    /\ \E j \in Jobs :
         /\ InsertRaw(f, j)
         /\ IF fetch[f].inline
              THEN Refresh(fetch[f].found) /\ UNCHANGED <<phase, handled>>
              ELSE Enqueue(j) /\ UNCHANGED row
    /\ cursor' = fetch[f].to
    /\ fetch' = [fetch EXCEPT ![f] = NotFetching]
    /\ UNCHANGED <<now, modified, shown, slipped>>

\* A page or the transaction fails, the API rate-limits, the worker crashes:
\* nothing of the window is kept.
FetchFails(f) ==
    /\ fetch[f] # NotFetching
    /\ fetch' = [fetch EXCEPT ![f] = NotFetching]
    /\ UNCHANGED <<now, modified, shown, cursor, raws, row, slipped, phase, handled>>

-------------------------------------------------------------------------------
(* source.normalize jobs. *)

Normalize(j) ==
    /\ Handle(j)
    /\ Refresh(raws[j].found)
    /\ UNCHANGED <<now, modified, shown, cursor, raws, fetch, slipped>>

Settle(j) ==
    /\ Complete(j) \/ Abandon(j)
    /\ UNCHANGED <<now, modified, shown, cursor, raws, row, fetch, slipped>>

-------------------------------------------------------------------------------
Next == \/ Tick
        \/ \E r \in Records : Modify(r) \/ Show(r)
        \/ \E f \in Fetchers :
             \/ StartFetch(f) \/ StartImportStep(f) \/ GetPage(f)
             \/ StoreWindow(f) \/ FetchFails(f)
        \/ \E j \in Jobs : Normalize(j) \/ Settle(j)

Spec == Init /\ [][Next]_vars

-------------------------------------------------------------------------------
(* Properties *)

\* What all later windows start at or before is behind the cursor minus the
\* overlap: everything modified there is in some raw record (fetch_source.go,
\* fetchWindow: "so window boundaries never gap"), although concurrent fetches
\* move the cursor back and forth, the API shows modifications late, and the
\* pages of a walk are listed at different instants.  Excepted is what moved
\* from a page not asked for to one that was.
NoModificationIsLost ==
    \A r \in Records :
        /\ cursor # NoCursor /\ modified[r] # 0
        /\ modified[r] < cursor - Overlap
        /\ <<r, modified[r]>> \notin slipped
        => \E j \in DOMAIN raws : <<r, modified[r]>> \in raws[j].found

-------------------------------------------------------------------------------
(* What the code's own comments say of it. *)

\* fetch_source.go, fetchWindow: the overlap is there "so window boundaries never
\* gap", without exception.
BoundariesNeverGap ==
    \A r \in Records :
        cursor # NoCursor /\ modified[r] # 0 /\ modified[r] < cursor - Overlap
        => \E j \in DOMAIN raws : <<r, modified[r]>> \in raws[j].found

\* vulnerabilities.sql, UpsertVulnerability: on refresh the fields "follow the
\* latest statement".
RowFollowsLatest == [][\A r \in Records : row'[r] >= row[r]]_vars
===============================================================================
