----------------------------- MODULE SourceIntake -----------------------------
(***************************************************************************)
(* From a fetched document to vulnerabilities: source runs, normalisation  *)
(* and the quarantine (application/fetch_source.go, normalize_source.go,   *)
(* normalize_sink.go, quarantine.go and their repositories).  A run is     *)
(* opened and closed on transactions of its own; the pass over a document  *)
(* and the success of its run are one transaction.  A record that cannot   *)
(* be normalised becomes a quarantine row, which a clerk acknowledges or   *)
(* reprocesses: the whole document is then normalised again.               *)
(*                                                                         *)
(* Documents are numbered by age, quarantine rows and runs by insertion.   *)
(* Windows, cursors and full sets are IncrementalIngest and FullSetIngest. *)
(***************************************************************************)
EXTENDS Naturals, FiniteSets, SequencesExt

CONSTANTS Docs,            \* raw documents, numbered by age
          CVEs,
          Statements,      \* Statements[d]: the CVEs document d has a record of
          Defects,         \* <<d, c>>: the first release fails on c's record in d
          IntakeWorkers,   \* worker processes
          Clerks,          \* operators at the quarantine
          MaxFetches,      \* bound: fetch runs
          MaxQuarantined,  \* bound: quarantine rows at which no reprocess starts
          MaxIntakeFaults  \* bound: failing transactions, unheard commits, crashes

ASSUME DocsAssumption == Docs \subseteq Nat \ {0} /\ IsFiniteSet(Docs)
ASSUME StatementsAssumption ==
    /\ Statements \in [Docs -> SUBSET CVEs] /\ \A d \in Docs : IsFiniteSet(Statements[d])
    /\ \A p \in Defects : p[1] \in Docs /\ p[2] \in Statements[p[1]]
ASSUME IntakeBounds == {MaxFetches, MaxQuarantined, MaxIntakeFaults} \subseteq Nat

VARIABLES stored,     \* raw_records
          normJobs,   \* documents whose source.normalize job is open
          sourceRuns, \* source_runs, in the order of insertion
          latest,     \* latest[c]: the document the vulnerability's row states, 0 when none
          stating,    \* history: <<d, c>> whose record has become a statement
          rows,       \* quarantine, in the order of insertion
          passed,     \* history: documents a committed pass has normalised
          broken,     \* <<d, c>> the deployed adapter cannot normalise
          proc,       \* proc[w]: the source job in worker w
          desk,       \* desk[k]: the quarantine command of clerk k
          intakeFaults

intakeVars == <<stored, normJobs, sourceRuns, latest, stating, rows, passed, broken, proc,
                desk, intakeFaults>>
statements == <<latest, stating>>

Records == {p \in Docs \X CVEs : p[2] \in Statements[p[1]]}
NoJob == [pc |-> "idle", doc |-> 0, srun |-> 0]
AtEase == [pc |-> "idle", row |-> 0, read |-> "new"]
Statuses == {"new", "acknowledged", "ready_for_retry", "resolved"}

IntakeTypeOK ==
    /\ stored \subseteq Docs /\ normJobs \subseteq stored /\ passed \subseteq stored
    /\ broken \subseteq Defects /\ stating \subseteq Records
    /\ \A c \in CVEs : latest[c] # 0 => <<latest[c], c>> \in stating
    /\ \A i \in DOMAIN sourceRuns :
         /\ sourceRuns[i].status \in {"running", "succeeded", "failed"}
         /\ sourceRuns[i].quarantined \in 0..Cardinality(CVEs)
    /\ \A i \in DOMAIN rows :
         /\ <<rows[i].doc, rows[i].cve>> \in Records /\ rows[i].status \in Statuses
         /\ rows[i].attempts \in Nat /\ rows[i].srun \in 0..Len(sourceRuns)
    /\ \A w \in IntakeWorkers :
         /\ proc[w].pc \in {"idle", "fetch", "pass", "failed", "ended"}
         /\ proc[w].pc # "idle" => proc[w].srun \in DOMAIN sourceRuns /\ proc[w].doc \in Docs
    /\ \A k \in Clerks : /\ desk[k].pc \in {"idle", "acknowledge", "reprocess"}
                         /\ desk[k].pc # "idle" => desk[k].row \in DOMAIN rows

IntakeInit ==
    /\ stored = {} /\ normJobs = {} /\ sourceRuns = <<>> /\ rows = <<>> /\ passed = {}
    /\ latest = [c \in CVEs |-> 0] /\ stating = {}
    /\ broken = Defects
    /\ proc = [w \in IntakeWorkers |-> NoJob] /\ desk = [k \in Clerks |-> AtEase]
    /\ intakeFaults = 0

IntakeFault == intakeFaults < MaxIntakeFaults /\ intakeFaults' = intakeFaults + 1

-------------------------------------------------------------------------------
(* Source jobs. *)

OpenRun(w, pc, d) ==
    /\ proc[w].pc = "idle"
    /\ sourceRuns' = Append(sourceRuns, [kind |-> pc, status |-> "running", quarantined |-> 0])
    /\ proc' = [proc EXCEPT ![w] = [pc |-> pc, doc |-> d, srun |-> Len(sourceRuns) + 1]]
    /\ UNCHANGED <<stored, normJobs, statements, rows, passed, broken, desk, intakeFaults>>

\* The source publishes its documents one after the other; a document may be
\* fetched twice.
BeginFetch(w) ==
    /\ Cardinality({r \in DOMAIN sourceRuns : sourceRuns[r].kind = "fetch"}) < MaxFetches
    /\ \E d \in Docs : (\A e \in Docs : e < d => e \in stored) /\ OpenRun(w, "fetch", d)

\* Lease and redelivery are the relay's: a job may run in two workers at once.
StartPass(w) == \E d \in normJobs : OpenRun(w, "pass", d)

Closed(w, quarantined) ==
    sourceRuns' = [sourceRuns EXCEPT ![proc[w].srun].status = "succeeded",
                                     ![proc[w].srun].quarantined = quarantined]

\* A commit the caller does not hear of looks like a failure to it.
Committed(w, quarantined) ==
    /\ Closed(w, quarantined)
    /\ \/ proc' = [proc EXCEPT ![w].pc = "ended"] /\ UNCHANGED intakeFaults
       \/ proc' = [proc EXCEPT ![w].pc = "failed"] /\ IntakeFault

\* Mutant of JobFor: the document is stored, its job is not.
NoJobFor(d) == UNCHANGED normJobs

JobFor(d) == normJobs' = normJobs \union {d}

\* The document, its job and the success of the run are one transaction.
StoreDocument(w) ==
    LET d == proc[w].doc IN
    /\ proc[w].pc = "fetch" /\ d \notin stored
    /\ stored' = stored \union {d}
    /\ JobFor(d)
    /\ Committed(w, 0)
    /\ UNCHANGED <<statements, rows, passed, broken, desk>>

\* Of a document that is there, open or settled, the key of the job is taken: the
\* violation is no error to the caller, but it has aborted the transaction.
KeyIsTaken(w) ==
    /\ proc[w].pc = "fetch" /\ proc[w].doc \in stored
    /\ proc' = [proc EXCEPT ![w].pc = "failed"]
    /\ UNCHANGED <<stored, normJobs, sourceRuns, statements, rows, passed, broken, desk, intakeFaults>>

\* Content that the adapter recognises stores nothing.  An error of the run's
\* completion is dropped.
FindUnchanged(w) ==
    /\ proc[w].pc = "fetch" /\ proc[w].doc \in stored
    /\ proc' = [proc EXCEPT ![w].pc = "ended"]
    /\ \/ Closed(w, 0) /\ UNCHANGED intakeFaults
       \/ IntakeFault /\ UNCHANGED sourceRuns
    /\ UNCHANGED <<stored, normJobs, statements, rows, passed, broken, desk>>

Failing(d) == {c \in Statements[d] : <<d, c>> \in broken}

\* Mutant of Isolated: an incomplete record error is skipped.
NotIsolated(d, r) == <<>>

\* RecordError: one row per failed record, in the order of the document.
Isolated(d, r) ==
    LET order == SetToSeq(Failing(d))
    IN [i \in 1..Len(order) |->
          [doc |-> d, cve |-> order[i], srun |-> r, status |-> "new", attempts |-> 0]]

\* Vulnerability: the upsert takes whatever statement comes.
Normalise(d) ==
    LET good == Statements[d] \ Failing(d) IN
    /\ latest' = [c \in CVEs |-> IF c \in good THEN d ELSE latest[c]]
    /\ stating' = stating \union ({d} \X good)

PassRun(w) == proc[w].srun

PassDocument(w) ==
    LET d == proc[w].doc IN
    /\ proc[w].pc = "pass"
    /\ Normalise(d)
    /\ rows' = rows \o Isolated(d, PassRun(w))
    /\ passed' = passed \union {d}
    /\ Committed(w, Cardinality(Failing(d)))
    /\ UNCHANGED <<stored, normJobs, broken, desk>>

\* The job is settled after its transaction: a pass settles the document's job, a
\* fetch one of its own.
SettleJob(w) ==
    /\ proc[w].pc = "ended"
    /\ proc' = [proc EXCEPT ![w] = NoJob]
    /\ normJobs' = normJobs \ (IF sourceRuns[proc[w].srun].kind = "pass" THEN {proc[w].doc} ELSE {})
    /\ UNCHANGED <<stored, sourceRuns, statements, rows, passed, broken, desk, intakeFaults>>

TransactionFails(w) ==
    /\ proc[w].pc \in {"fetch", "pass"} /\ IntakeFault
    /\ proc' = [proc EXCEPT ![w].pc = "failed"]
    /\ UNCHANGED <<stored, normJobs, sourceRuns, statements, rows, passed, broken, desk>>

\* failRun: an error of its own transaction is dropped.  The job is retried.
FailRun(w) ==
    /\ proc[w].pc = "failed"
    /\ proc' = [proc EXCEPT ![w] = NoJob]
    /\ \/ /\ sourceRuns' = [sourceRuns EXCEPT ![proc[w].srun].status = "failed",
                                              ![proc[w].srun].quarantined = 0]
          /\ UNCHANGED intakeFaults
       \/ IntakeFault /\ UNCHANGED sourceRuns
    /\ UNCHANGED <<stored, normJobs, statements, rows, passed, broken, desk>>

Dies(w) ==
    /\ proc[w].pc # "idle" /\ IntakeFault
    /\ proc' = [proc EXCEPT ![w] = NoJob]
    /\ UNCHANGED <<stored, normJobs, sourceRuns, statements, rows, passed, broken, desk>>

-------------------------------------------------------------------------------
(* The quarantine. *)

\* A release fixes the adapter for a record.
Release(p) ==
    /\ p \in broken /\ broken' = broken \ {p}
    /\ UNCHANGED <<stored, normJobs, sourceRuns, statements, rows, passed, proc, desk, intakeFaults>>

\* Both commands read the row before their transaction.
ReadRow(k, i, pc) ==
    /\ desk[k].pc = "idle"
    /\ rows[i].status \in (IF pc = "acknowledge" THEN {"new"} ELSE Statuses \ {"resolved"})
    /\ pc = "reprocess" => Len(rows) < MaxQuarantined
    /\ desk' = [desk EXCEPT ![k] = [pc |-> pc, row |-> i, read |-> rows[i].status]]
    /\ UNCHANGED <<stored, normJobs, sourceRuns, statements, rows, passed, broken, proc, intakeFaults>>

Leave(k) ==
    /\ desk' = [desk EXCEPT ![k] = AtEase]
    /\ UNCHANGED <<stored, normJobs, sourceRuns, passed, broken, proc, intakeFaults>>

Acknowledgeable(status) == status = "new"

\* A row that has moved meanwhile is a conflict and stays as it is.
Acknowledge(k) ==
    LET i == desk[k].row IN
    /\ desk[k].pc = "acknowledge"
    /\ rows' = IF Acknowledgeable(rows[i].status)
               THEN [rows EXCEPT ![i].status = "acknowledged"] ELSE rows
    /\ Leave(k)
    /\ UNCHANGED statements

\* IncrementAttempts and MarkResolved.
RowOutcome(row, status, errors) ==
    IF errors = {} THEN [row EXCEPT !.status = "resolved"]
    ELSE [row EXCEPT !.status = status, !.attempts = @ + 1]

\* One transaction: MarkReadyForRetry for a row read as acknowledged, the pass,
\* its outcome.  A guard that misses rolls all of it back.
Reprocess(k) ==
    LET i == desk[k].row
        d == rows[i].doc
        reviewed == desk[k].read = "acknowledged"
        status == IF reviewed THEN "ready_for_retry" ELSE rows[i].status
    IN /\ desk[k].pc = "reprocess"
       /\ IF /\ reviewed => rows[i].status \in {"new", "acknowledged"}
             /\ status \in {"new", "ready_for_retry"}
          THEN /\ Normalise(d)
               /\ rows' = [rows EXCEPT ![i] = RowOutcome(@, status, Failing(d))] \o Isolated(d, 0)
          ELSE UNCHANGED <<statements, rows>>
       /\ Leave(k)

-------------------------------------------------------------------------------

FetchEnds(w) == StoreDocument(w) \/ KeyIsTaken(w) \/ FindUnchanged(w)

IntakeStep(w) == FetchEnds(w) \/ PassDocument(w) \/ SettleJob(w) \/ FailRun(w)

IntakeNext ==
    \/ \E w \in IntakeWorkers : \/ BeginFetch(w) \/ StartPass(w) \/ IntakeStep(w)
                                \/ TransactionFails(w) \/ Dies(w)
    \/ \E p \in Defects : Release(p)
    \/ \E k \in Clerks : \/ \E i \in DOMAIN rows, pc \in {"acknowledge", "reprocess"} : ReadRow(k, i, pc)
                         \/ Acknowledge(k) \/ Reprocess(k)

IntakeSpec == IntakeInit /\ [][IntakeNext]_intakeVars

\* Workers poll for jobs and finish them; the schedule goes on fetching.
IntakeFairness ==
    \A w \in IntakeWorkers : WF_intakeVars(IntakeStep(w)) /\ WF_intakeVars(StartPass(w))

-------------------------------------------------------------------------------
(* Properties *)

\* No record is dropped: each record of a normalised document is a statement or
\* a quarantine row, whichever of the transactions around the pass failed
\* (normalize_source.go: an isolated record is counted, not fatal).
NothingDropped ==
    \A p \in Records : p[1] \in passed =>
        p \in stating \/ \E i \in DOMAIN rows : <<rows[i].doc, rows[i].cve>> = p

\* A resolved row's record has become a statement, whoever raced to reprocess or
\* acknowledge the row (quarantine.go, QuarantineReprocess).
ResolvedIsNormalised ==
    \A i \in DOMAIN rows : rows[i].status = "resolved" => <<rows[i].doc, rows[i].cve>> \in stating

\* The state machine of domain/quarantine.go holds between concurrent clerks:
\* resolved is terminal, nothing is acknowledged twice or taken back, and an
\* attempt counted stays counted.
QuarantineMovesForward ==
    [][\A i \in DOMAIN rows : rows'[i] # rows[i] =>
          /\ rows'[i].attempts >= rows[i].attempts
          /\ <<rows[i].status, rows'[i].status>> \in
               {<<"new", "new">>, <<"new", "acknowledged">>, <<"new", "resolved">>,
                <<"new", "ready_for_retry">>, <<"acknowledged", "ready_for_retry">>,
                <<"acknowledged", "resolved">>, <<"ready_for_retry", "ready_for_retry">>,
                <<"ready_for_retry", "resolved">>}]_rows

\* The counters of a succeeded run are its rows (normalize_source.go,
\* normalizeCounters), redeliveries and reprocesses notwithstanding.
RunCountsItsRows ==
    \A r \in DOMAIN sourceRuns : sourceRuns[r].status = "succeeded" =>
        sourceRuns[r].quarantined = Cardinality({i \in DOMAIN rows : rows[i].srun = r})

\* A stored document is normalised in the end, whatever fails on the way
\* (fetch_source.go: the document and its job are one transaction).
StoredIsNormalised ==
    \A d \in Docs : d \in stored ~> d \in passed

\* source_runs.sql: "Exactly one end state per run".  A crash after openRun
\* leaves the run without one.
EveryRunEnds ==
    \A r \in 1..MaxFetches :
        (r \in DOMAIN sourceRuns) ~> (r \in DOMAIN sourceRuns /\ sourceRuns[r].status # "running")

\* The same line as an action property: a commit that nobody heard of gives
\* the run a second end state.
RunEndsOnce ==
    [][\A r \in DOMAIN sourceRuns :
          sourceRuns[r].status # "running" => sourceRuns'[r] = sourceRuns[r]]_sourceRuns

\* vulnerabilities.sql: the fields "follow the latest statement".  A document
\* normalised late, or reprocessed, puts its older statement back.
LatestStatementStays == [][\A c \in CVEs : latest'[c] >= latest[c]]_latest
===============================================================================
