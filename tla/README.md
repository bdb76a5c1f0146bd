# RiskSignal in TLA+

RiskSignal ingests vulnerability feeds, matches them against an inventory,
raises *risk signals* with a priority and SLA clocks, and notifies people. It is
one Go code base over one PostgreSQL database; several worker processes and the
API server run against that database at once, and a transactional outbox is its
only message channel.

This directory holds TLA+ modules of the parts where concurrency, crashes, order
and case distinctions decide whether the system is right, TLC configurations
that check them on small instances, and TLAPS proofs about the relay every other
part relies on. Paths below are relative to `src/`; `A/` is
`internal/application/`, `W/` `internal/adapters/worker/`, `R/`
`internal/adapters/postgres/repo/`, `Q/` `db/queries/`, `D/` `internal/domain/`,
`S/` `internal/adapters/sources/`.

To check: `tlc -config X.cfg M` for the pairs in the table of runs,
`tlapm OutboxRelayProofs.tla` for the proofs. `PROJECT.json` lists the runs, the
lines each definition stands for, the mutants, the hazards and the findings.

## 1. Inventory

### Components, their state and operations

| Component | State | Operations | What makes it correct | Modelled |
|---|---|---|---|---|
| Outbox and relay (`W/relay.go`, `W/worker.go`, `Q/outbox.sql`) | `outbox` rows: status, lease, attempts, dedupe key; a worker's batch in memory | append (in the command's transaction), claim a batch with a lease, dispatch, ack, leave for retry, dead-letter | nothing appended is lost; a settled row stays settled, and for a cause; redelivery is bounded; exclusive batches while nothing goes wrong | `OutboxRelay`, `JobQueue` |
| Notification delivery (`W/notify.go`, `R/notification.go`, `adapters/notify`) | `notifications` rows by (event, channel), the notification clock | store row, deliver, record receipt and fulfil clock, classify failures | no receipt without a message; receipt and clock together; no channel forgotten | `NotifyDelivery` |
| Signal triage (`A/signal_triage.go`) | `risk_signals` row with version, override columns; which clocks exist and are met | transition, acknowledge, override, revert, assign, pause, resume, comment | the transition matrix under races; an override survives; the computed priority is never lost | `SignalTriage` |
| SLA evaluator (`A/sla_evaluate.go`) | `escalated_at`, reminder dedupe keys | scan, escalate, remind | escalated once, and escalated in the end | `SignalTriage` |
| SLA clocks (`D/sla.go`, `Q/sla_clocks.sql`) | start, deadline, fulfilment, pauses | create, pause, resume, fulfil, tighten, reset, scan | time paused is credited, no more and no less; upgrades only tighten | `SlaClock` |
| Priority recompute (`A/priority_recompute.go`) | rule version, jobs by content-based keys, factors and priority of a signal, reopen proposals | publish, fan in, recompute, propose a reopen | published rules reach every open signal; no signal goes back to older rules | `RecomputeFanIn`, `SignalTriage` (one signal) |
| Priority rules (`D/predicate.go`, `D/priority_rules.go`) | a rule set of four definitions | validate, probe, evaluate | exactly the sets that can award every class are published | `PriorityRuleset` |
| Source scheduling (`A/source_schedule.go`, `A/source_jobs.go`) | schedule slots, dedupe keys | scan due slots, trigger by hand | one job per slot; scans neither deadlock nor starve each other | `SourceSchedule` |
| Full-set ingest: EPSS, KEV (`A/fetch_source.go`, `A/normalize_source.go`, `A/epss_bulk.go`) | last content hash, raw records, the current set | fetch, store, normalise (replace the set) | what is stored is normalised; the no-op check never hides a file | `FullSetIngest`, `KevCatalog` (removals) |
| Incremental ingest: NVD (`A/fetch_source.go`, `A/run_source.go`, `A/full_import_source.go`, `S/nvd/nvd.go`) | cursor, raw records, vulnerability rows | windowed and paged fetch, cursor promotion, upsert | no modification falls behind the cursor unseen | `IncrementalIngest` |
| Source runs, normalisation, quarantine (`A/normalize_*.go`, `A/quarantine.go`) | `source_runs`, statements, quarantined records | open and close a run, pass over a document, isolate, acknowledge, reprocess | a record is normalised or quarantined, never neither; what is stored is normalised | `SourceIntake` |
| Inventory import (`A/inventory_staged.go`, `A/inventory_commit.go`) | staged imports, components | stage, preview, commit | every change sets off a rebuild | `InventoryMatching` |
| Matching (`A/matching_*.go`, `A/matching/`) | matches, rebuild jobs, decision rules | rebuild, evaluate | no (vulnerability, component) pair is missed; the outcome is what the evidence says | `InventoryMatching`, `MatchEngine` |
| Version order (`D/version_strategy.go`, `A/matching/version.go`) | none | compare, contain | an order, whose windows leave no gap | `VersionOrder` |
| Audit chain (`R/audit.go`, `R/audit_chain.go`) | hash-chained events, an advisory lock | append, verify | the verification tells tampering from use | `AuditChain` |
| Exports (`A/*export*.go`, `W/export.go`, `adapters/export`) | export rows, artifacts | create, generate, download, sweep | the stamp is the artifact's; a created export is generated | `Exports` |
| Retention and legal hold (`A/retention_*.go`, `A/legal_hold.go`) | runs, holds, redactions | dry run, approve, reject, execute, place and release a hold | nothing under hold is deleted; an approved run closes | `RetentionRuns` |
| Users and roles (`A/user_admin.go`, `A/authz.go`) | roles, deactivation, their audit rows | grant, revoke, deactivate | the trail tells the roles, whoever races | `UserRoles` |
| Migrations (`adapters/postgres/migrate`) | `goose_db_version`, the checksum log, the session lock | verify, apply, record, recover | a run that succeeds leaves every migration applied and logged | `SchemaMigration` |
| Sessions, API, web UI, read models, demo, platform | sessions; otherwise none of their own | translate, query, configure | | not modelled (section 5) |

### How they interact

* A **command** reads without a transaction, validates, and then writes state,
  audit event and outbox event in one transaction.
* A **worker** is one scheduler loop: in every cycle it scans due sources,
  evaluates SLAs, sweeps exports and drains the outbox. Several workers share the
  tables through `FOR UPDATE SKIP LOCKED` and leases.
* **Handlers** (fetch, normalise, match, recompute, notify, export, execute
  retention) run under the relay: at least once, possibly late, in no particular
  order. What they write goes through the same use cases as the API.
* Each part hands rows and jobs to the next through the database: a schedule
  slot becomes a fetch job, a fetch a raw record and a normalise job, an import a
  rebuild job, a rebuild matches, a publish or a changed fact recompute jobs, a
  recompute clocks and events, an event notifications.
* Network I/O (feeds, SMTP, webhooks) is always outside a transaction, between
  a read and a later write.

### What is hard here

Stale reads before an optimistic write, and writes that lack the optimistic
guard (recompute, escalation, pauses, receipts, retention, exports); leases that
run out under a living worker; crashes between an external effect and its
record; jobs out of order; dedupe keys that outlive their reason; two processes
doing the same periodic work; unique violations inside a transaction; locks
taken after the instant that orders what they protect; comparators that are to
be orders; inclusive and exclusive boundaries of windows, deadlines and attempt
caps. `PROJECT.json` lists each hazard at its line with the properties aimed at
it.

## 2. Modules

| Module | Stands for |
|---|---|
| `JobQueue` | the abstract specification: what the outbox promises everybody else |
| `OutboxRelay` | outbox table, store and drain loop; refines `JobQueue` |
| `NotifyDelivery` | the notify handler; extends `OutboxRelay` and refines it |
| `SignalTriage` | one signal row and its clocks under users, recompute jobs, evaluators, deliveries |
| `SlaClock` | the arithmetic of one clock in time |
| `SourceSchedule` | scans and triggers that enqueue fetch jobs |
| `FullSetIngest`, `IncrementalIngest` | the two kinds of sources, on top of `JobQueue` |
| `SourceIntake` | runs, passes over documents, quarantine |
| `KevCatalog` | removals from the KEV catalog |
| `InventoryMatching` | imports, and the rebuild of matches they set off |
| `MatchEngine` | the evaluation of one vulnerability against one component |
| `VersionOrder` | the version comparators and version windows |
| `RecomputeFanIn` | rules and facts on their way to the priorities of signals |
| `PriorityRuleset` | the rule language and the validation of a rule set |
| `RetentionRuns` | dry run, approval, execution, holds |
| `AuditChain` | the hash chain of the audit trail |
| `Exports` | export rows, artifacts, jobs and sweeps |
| `UserRoles` | role changes and deactivation |
| `SchemaMigration` | migration runners against one database |
| `OutboxRelayProofs`, `NotifyDeliveryProofs` | the proofs about the relay, and about the handler on top of it |
| `SignalTriageProofs` | the proofs about `SignalTriage` |
| `SourceProofs` | the proofs about `SourceSchedule`, `SourceIntake`, `KevCatalog`, `FullSetIngest` |
| `WindowsProofs` | the proofs about `IncrementalIngest`, `MatchEngine`, `VersionOrder`, `PriorityRuleset` |
| `MatchingProofs` | the proofs about `InventoryMatching`, `RecomputeFanIn` |
| `RecordProofs` | the proofs about `Exports`, `SlaClock`, `AuditChain` |
| `GovernanceProofs` | the proofs about `UserRoles`, `RetentionRuns`, `SchemaMigration` |
| `MC...` | constants and symmetry sets for TLC, and the sums below |

Four MC modules are *sums*: `MCIngest`, `MCMatching`, `MCGovernance` and
`MCWindows` extend several modules that share no row which two of them change,
and each of their behaviours runs one of these, chosen in the initial state
(`way`, `part`, `concern`, `kind`). A sum has the reachable states of its parts
side by side, and a property of one part is checked on exactly the behaviours of
that part. The fairness of a sum is each module's own, in the behaviours that
run it. Interactions proper are inside modules: relay with handler, users with
evaluators and recomputes, import with rebuild, publish with job, hold with
execution, sweep with generation and download.

Operators whose comment begins with "Mutant of" are not used by any
specification: each is the definition after it with a plausible mistake. With
the mistake in place TLC finds the property named in `PROJECT.json` violated,
which shows that the property depends on that piece of code.

### JobQueue, OutboxRelay

The columns `status` and `attempts` are themselves; `lease_until` is kept
relative to `now()` ("held", "expired"). A worker's batch is `got[w]`, with the
attempts value its claim returned (the relay compares that copy with the cap,
not the column). `ClaimBatch` is the claim statement with its order, limit and
lease predicate; `Dispatch`, `HandlerReturns`, `Ack`, `LeaveForRetry` and
`DeadLetter` are the branches of `Relay.dispatch`; `StoreFailure` is a store
error that makes `Drain` return; `Crash` is the death of a process. Events of a
batch come in any order because `RETURNING` has none. `LeaseExpires` may happen
while the worker is still at work: that, a crash and a store failure are the
*faults*, bounded by `MaxFaults`. `verdicts` is a history variable. A batch size
of zero, or a second claim before the batch is finished, cannot occur in the
code and do not occur here.

`JobQueue` is the abstraction: absent, queued, done or failed; handler
successes may be repeated and may even come late. The refinement mapping is
`phaseBar`, `handledBar`. The ingest modules use `JobQueue` in place of the
relay, which is what the refinement permits. The other modules that consume jobs
have them as sets of open jobs whose delivery may fail, be repeated or overlap,
as `JobQueue` allows.

### NotifyDelivery

The handler runs between `Dispatch` and `HandlerReturns` of the relay. For each
channel of the policy: first transaction (`StoreRow`), transport (`Deliver`,
which may time out after the message was accepted), second transaction
(`Record`, receipt and clock). A transaction may fail (`TxFails`) and a crash
may fall anywhere. `FairSpec`, the whole specification of the relay, is checked
as a property of this module: putting the handler in adds nothing to the relay's
behaviour and takes nothing from its fairness.

### SignalTriage

One row and everyone who writes it. A command is two actions: `ReadForCommand`
(the read and the validation, outside the transaction) and the write, which
needs the version the client gave. That version may be any up to the current
one, since clients hold old pages. Recompute and escalation are read and write,
too, but their statements are not guarded by the version; pause and resume are
guarded by the clock's columns. All writes of one command touch the signal's row
first and are in one transaction, so its row lock makes them one action. The
history variables are `computed`, `born` and `escalations`. Priorities have an
SLA profile each; P1 and P4 are the two ends of the default profile.

### SlaClock

Time in ticks, two to a second, so that whole-second rounding is visible. A
command carries an instant that may be up to `MaxDelay` old, since it is taken
before the transaction. `pausedTicks` and `resumes` are history: the exact
length and number of pauses.

### SourceSchedule

A scan (`Scan`) and a manual trigger (`Trigger`) are transactions of an existence
check and an insert per key, in the order of `ListEnabledScheduledSources`;
`Statement` is one step of one of them. The unique index is PostgreSQL's: an
insert waits for the transaction that holds the key uncommitted (`WaitsFor`),
goes on when that one rolls back, and aborts its own transaction when that one
commits; an aborted transaction refuses further statements and its commit is a
rollback. A worker whose scan fails drains nothing in that cycle. Sources are
switched on and off between scans.

### FullSetIngest, IncrementalIngest

A fetch is: read the source row; network I/O; terminal transaction. Several run
at once (scheduled, manual, redelivered, full import). In `FullSetIngest` a
revision number stands for a file with its hash and its job. In
`IncrementalIngest` a modification is an instant, the API shows it up to
`MaxLag` late, and windows are walked page by page by start index; `FetchSource`
enqueues a normalize job, `RunSource` (the steps of the full import) normalises in the
terminal transaction. Each page is what the API lists when it is asked for
(`Listed`, `Place`), and a record that is modified again leaves the list of a
window that ends in the past. If the walk has passed it, the record at the next
start index moves to a page that was fetched before; the history variable
`slipped` keeps what the walk misses in this way (`Slips`).

### SourceIntake

A run is opened on a transaction of its own (`BeginFetch`, `StartPass`), the
pass over a document and the success of the run commit together, and the failure
of a run is again a transaction of its own (the stages of `proc[w]`). A commit
may succeed without the worker hearing of it (`TransactionFails`), and a worker
may die (`Dies`), which leaves its run "running". A release of the adapter
(`Release`) turns a defect into a record that can be normalised.
A fetch ends by storing its document with the job (`StoreDocument`); by finding
the document stored and the job's dedupe key taken, which aborts the transaction
and fails the run (`KeyIsTaken`); or by content the adapter recognises, whose
completion of the run may fail unnoticed (`FindUnchanged`). Clerks
acknowledge and reprocess quarantine rows, each a read and a guarded write;
reprocessing appends a normalise job for the whole document. Documents are
numbered by age; what a record says is left out.

### KevCatalog

`StoreCatalog` is a fetch that found a new catalog; `BeginKevPass` reads the
clock and the newest *other* catalog (`PreviousOf`), `CommitKevPass` states every
entry and the removals, `KevPassFails` puts the job off. `KEV(c)` is the factor
query: listed, and not removed after the newest listing.

### InventoryMatching

A commit of a staged import is steps of a server process: `ReadImport`, the
commit transaction (`DiffAsset`, `WriteInventory`, `CommitInventory`) and
`MarkCommitted`. The transaction
compares the file with the inventory, writes what differs (waiting for other
writers of the same rows or key) and appends a `matching.rebuild` job whose
dedupe key is the state of the inventory. `FinishFullImport` appends one for its snapshot too. `Rebuild` walks
the components page by page in id order and inserts a match of every candidate
pair that has none, one transaction a page, continuing from what is there when
an attempt breaks off (`RebuildFails`). `Learn` is a vulnerability that becomes
known. Outcomes of the engine are a constant.

### MatchEngine

`EvaluateStatement` is one turn of the engine's loop over the affected products
of a vulnerability: aliases resolve vendor and product, then identifiers, image,
names and versions are compared, which gives a method with its score, and the
strongest evidence so far is kept. `Evaluate` derives the match from it and
applies, among the decision rules that are in force at the instant and name the
component, the one with the lowest version, then id. Versions are places in an
order, with one the scheme cannot parse and one that is missing; product names
are sequences of words, so that `CandidateSimilarity` can be the code's mix of
common words and bounded edit distance, counted in words.

### VersionOrder

The comparators of the six schemes as functions of parsed versions: Debian,
generic and RPM versions are sequences of characters, because the code walks
over characters; semver, Maven and calver ones are sequences of parts.
`InRange` is the window of a rule. Every comparator is written as the first
difference of a sequence of parts (`FirstOf`), with a part for each turn of the
code's loop; where a loop consumes a string, what is left after `n` turns is a
recursive function of `n`. `VersionsAssumption` says that the versions of a scheme
are sequences of the model's characters or parts: three digits, two letters and
three marks, one of each kind the code tells apart and its neighbours. The states
are lists of up to three versions
that have been compared, so the properties are about every pair and every
triple of the universe.

### RecomputeFanIn

`PublishReads` and `PublishPriorityRules` are the read of the targets and the
transaction that commits the snapshot with a job for every open signal.
`FanInReads` and `EnqueueForVulnerabilities` are a `matching.recompute` run, two
of which may hold the same key, in which case the loser conflicts
(`FanInConflicts`). A job is its dedupe key: signal, rule version, factors held
when it was enqueued; keys stay taken. `Worker` is the handler: `ReadSignal`,
`ReadVersion` and `RebuildFactors` read the row, the rules in force and the
facts one after the other, `RecomputePriority` writes the row, or proposes the
reopen of a closed signal.
`FactsChange`, `CreateSignal` and `Move` are the rest of the system.

### PriorityRuleset

`Choose` hands in a definition, `PublishPriorityRules` validates the set: the
atoms and nodes of `D/predicate.go`, the fixed ids and order, and the probes of
`rulesetProbeFactors` (zero, each threshold a rule compares with and a value
between each two of them, times the enumerated fields). Definitions are trees with the fields of
`RuleDefinition`, given with the height of each node (`Levels`: conditions first,
then the groups of what came before), over which the walks of the code are
recursive functions; scores are counted in halves of the distance between the
thresholds in use, so that there is always something between two of them.

### RetentionRuns

`DryRun` proposes, `ApproveRun` (with the job, in one transaction) or
`RejectRun` decides, `ExecuteRetention` is the handler's next
step: claim the run, scan, take a batch, and in the batch's transaction redact
and, in the delete stage, delete one signal after the other. Holds are set and
released, signals are reopened and closed again at any time in between, except
that a row a transaction has deleted is locked. `FailBatch` is a batch that
rolls back, `Abandon` a delivery that dies or fails. `owed` and `took` are
history: what the run still had to take, and what it took.

### AuditChain

`BeginCommand` takes the instant, before the transaction. `AppendRow` takes the
advisory lock if it is free, which the transaction keeps to its end, and links
the row to the last in the order of (`occurred_at`, `id`). The setting may be
changed by a restart. `EditRow` and `RemoveRow` are somebody else's hands;
`VerifyChain` is the verification as the code computes it. A row's hash is its
id, an edit is a flag.

### Exports

`CreateExport` is the row with its job; `Generate` the stages of the handler
(read, scan, write the artifact under the export's key, stamp the row), by
overlapping deliveries; `ReadExport` and `OpenArtifact` the two steps of a
download; `Sweep` lists expired rows, removes each artifact and then marks the
row. Either process may die between any two steps. The content of an artifact is
the version of the signals it was made of.

### UserRoles

`Accept` is a PATCH whose body becomes a list of use cases, grants before
revocations, or a deactivation; each use case is `Authorize`, `ReadUser` and
the transaction, and `Drop` is a request that fails in between. The transaction
is READ COMMITTED and two steps: its statement (`InsertRole`, `DeleteRole`), and
its audit row with the commit (`CommitRole`). What a statement has done shows in
`roles` with the commit only. `ON CONFLICT DO NOTHING` waits for an open
transaction that has written the row; `DELETE` waits for one that is deleting it,
and does not see one that is being inserted: it removes nothing, and the
transaction is audited all the same. `renounced` and `misled` are history, the
latter naming the roles whose last audit row is of a transaction that changed
nothing while another about the role was open.

### SchemaMigration

`Migrate` verifies the checksum log, `UpLocks` and `UpApplies` are goose under
its session lock, one transaction a migration, `RecordApplied` writes the log
outside the lock, `RereadLog`, `FindUnlogged` and `RecordUnlogged` are the
recovery of rows a crash has lost. `UpTimesOut`, `UpBreaksOff` and `RunBreaks`
are the failures at the lock, inside goose and anywhere else. A file is its
checksum; runners have the files of their own release.

## 3. Runs

| Run (cfg) | Properties | What it shows |
|---|---|---|
| relay (`MCOutboxRelay`) | `TypeOK`, `SettledForCause`, `RedeliveryBound`, `OverlapNeedsFault`, `TerminalIsFinal`, `EveryRowSettles`, `ImplementsJobQueue` | the relay keeps its statuses, loses no row and refines `JobQueue`, fairness included |
| notify_solo (`MCNotifySolo`) | `NoReceiptWithoutMessage`, `DoneHasNoOpenChannel`, `TerminalNotificationIsFinal` | one worker, with crashes and failing transactions between any two steps of the handler |
| notify_relay (`MCNotifyLive`) | `FairSpec` | two workers inside the handler for one event: relay with handler refines relay |
| triage_race (`MCTriageRace`) | `StatusFollowsMatrix`, `OverrideSurvives`, `DecidedIsAssessed`, `EscalatedOnce` | two users, two evaluators and a recompute at one row and its clocks |
| triage_live (`MCTriageLive`) | `BreachIsEscalated` | nobody can keep a breach from being escalated |
| ingest (`MCIngest`) | `ScansNeverDeadlock`, `CurrentSlotIsServed`, `LastRevisionSettles`, `NothingDropped`, `StoredIsNormalised`, `FactorFollowsCatalog` | the ways into the database: schedule, full-set files, passes and quarantine, KEV removals |
| matching (`MCMatching`) | `WrittenIsMatched`, `RebuildIsComplete`, `PublishReachesOpenSignals`, `RulesNeverRegress` | what a change sets off: imports and rebuilds, published rules and recomputes |
| governance (`MCGovernance`) | `PauseDriftBounded`, `VerifyDecidesChain`, `OrderedChainVerifies`, `StampMatchesArtifact`, `CreatedIsGenerated`, `HoldIsHonoured`, `ApprovedRunCloses`, `TrailTellsRoles`, `SuccessLogsAll` | the records people rely on: deadlines, audit chain, exports, retention, roles, migrations |
| windows (`MCWindows`) | `NoModificationIsLost`, `TotalOrder`, `WindowsPartition`, `OutcomeFollowsEvidence`, `ProbesDecide` | what is decided by comparing: fetch windows, version windows, matches, rule sets |

The module of a run is the cfg's name, except `MCNotifyDelivery` for the
`MCNotify...` and `MCSignalTriage` for the `MCTriage...` configurations. Three
runs expect a violation: each checks what a comment in the repository says and
the code does not keep.

| Run (cfg, module) | The comment | What the counterexample shows |
|---|---|---|
| triage_reopen (`MCTriageReopen`, `MCSignalTriage`) | `A/signal_triage.go:876` a reopen resets every clock of the priority | a recompute under an override raises the computed priority, the revert makes it effective and creates no clocks, and a later reopen finds one missing and fails |
| version_dpkg (`MCVersionDpkg`, `MCVersionOrder`) | `D/version_strategy.go:419` orders two versions with the dpkg algorithm of deb-version(7) | a digit that meets a letter in the non-digit part is weighed as a character and sorts after it: 2a1 is newer than 2ab, which dpkg orders the other way |
| roles_revoke (`MCRolesRevoke`, `UserRoles`) | `A/user_admin.go:170` RevokeRole removes the role, and its audit event commits in the same transaction | a revocation that has read the role as held finds it gone and misses the grant another request has not committed; it removes nothing, is audited, and commits after the grant: the trail ends with a revocation and the role is held |

### Further disagreements

Sentences of the repository's comments that TLC also answers with a
counterexample; they document what callers must not rely on. Those with a
configuration are kept beside the runs:

| Configuration (module) | Property | The comment | Counterexample |
|---|---|---|---|
| `MCIntakeLatest` (`MCSourceIntake`) | `LatestStatementStays` | `Q/vulnerabilities.sql:16` fields follow the latest statement | an older document normalised late, or reprocessed, puts its statement back |
| `MCMatchingRecommit` (`MCInventoryMatching`) | `RecommitChangesNothing` | `A/inventory_staged.go:18` a concurrent second commit is a no-op too | only the mark is guarded: a second commit puts its rows over those of an import in between |

The others are reproduced by giving a configuration of the same module another
property, and the constants where they are named:

| Property (module) | The comment | Reproduce with | Counterexample |
|---|---|---|---|
| `DeadLetterOnlyByHolder` (`OutboxRelay`) | `Q/outbox.sql:98` only a row the relay currently holds can be dead-lettered | `MCOutboxRelay` | the guard is the status, so an overtaken worker dead-letters the row another one is handling |
| `FailedChannelIsDeadLettered` (`NotifyDelivery`) | `W/notify.go:22` a permanent failure dead-letters the event | `MCNotifySolo` | a temporary failure beside it wins, the redelivery skips the failed channel, the event is acknowledged |
| `TerminalNotificationIsFinal` (`NotifyDelivery`) | `W/notify.go:16` a terminal notification is skipped | `MCNotifyLive` (two workers) | an overtaken worker writes its receipt by row id over a terminal one |
| `NoSecondMessage` (`NotifyDelivery`) | `adapters/notify/notify.go:68` no second message | `MCNotifySolo` | crash after delivery, before the receipt |
| `OnlyNewIsAcknowledged` (`SignalTriage`) | `A/signal_triage.go:392` a signal that is not new is a conflict | `MCTriageLive` with `MaxVersion = 4` | the matrix has edges from the closed states to in_review, so a closed signal can be acknowledged: a reopen without a reason or fresh clocks |
| `OnlyUnacknowledgedIsEscalated` (`SignalTriage`) | `A/sla_evaluate.go:16` per unacknowledged P1 signal | `MCTriageLive` | the signal is acknowledged between read and write |
| `ClosedIsNotRecomputed` (`SignalTriage`) | `A/priority_recompute.go:340` closed signals are never silently changed | `MCTriageLive` with `MaxVersion = 4` | the signal is closed between read and write |
| `NoPausedClockIsMet` (`SignalTriage`) | `D/sla.go:248` a paused clock must be resumed first | `MCTriageRace` | the statement does not look at `paused_at` |
| `ResumeTruncates` (`SlaClock`) | `Q/sla_clocks.sql:82` truncation | `MCGovernance` | the cast rounds |
| `QueuedJobIsNoOp` (`FullSetIngest`) | `A/fetch_source.go:215` a no-op conflict, never an error | `MCIngest` | the unique violation has aborted the transaction before it is swallowed |
| `CurrentSetNeverRegresses` (`FullSetIngest`) | `S/epss/doc.go:34` a new day's file replaces the set | `MCIngest` | a late job of an older file replaces a newer set |
| `BoundariesNeverGap` (`IncrementalIngest`) | `A/fetch_source.go:243` window boundaries never gap | `MCWindows` with `MaxTime = 4`, one fetcher | a record leaves the window between two pages, and the next one slips past the index |
| `RowFollowsLatest` (`IncrementalIngest`) | `Q/vulnerabilities.sql:16` fields follow the latest statement | `MCWindows` with `MaxTime = 4`, one fetcher, no symmetry, no view | a late job takes a row back |
| `RunEndsOnce` (`SourceIntake`) | `Q/source_runs.sql:4` exactly one end state per run | `MCIntakeLatest` | a commit nobody heard of, after which the failure is recorded |
| `FactorFollowsCatalog` (`KevCatalog`) | `Q/evidences.sql:40` as for `RemovalIsHistorised` | `MCIngest` with `MaxBacklog = 3` | with a backlog, the factor of a removed CVE stays |
| `OnlyClosedAreDeleted` (`RetentionRuns`) | `Q/retention.sql:17` a reopened signal is excluded | `MCGovernance` | reopened between the candidates' read and the batch |
| `ExpiredHasNoArtifact` (`Exports`) | `A/sweep_exports.go:20` artifact deleted and row flipped | `MCGovernance` | an overtaken generation writes after the sweep |
| `ExpiresAfterCreation` (`Exports`) | `A/export_ports.go:188` created_at + export.ttl | `MCGovernance` | the expiry counts from the generation |
| `UntouchedChainVerifies` (`AuditChain`) | `R/audit.go:71` concurrent chained appends cannot fork the chain | `MCGovernance` | the instant is taken before the lock, so a later append may sort before the row it should follow |
| `ServedAsStamped` (`Exports`) | `A/export_ports.go:182` the checksum is the SHA-256 of the artifact bytes | `MCGovernance` with `MaxExportFaults = 2` | a second delivery rewrites the artifact under the stamp a download has read |
| `EveryRunEnds` (`SourceIntake`) | `Q/source_runs.sql:4` exactly one end state per run | `MCIntakeLatest` with `FairIntake` | a worker dies inside its run and nothing closes it |
| `RemovalIsHistorised` (`KevCatalog`) | `Q/evidences.sql:40` removals are historised, never silently dropped | `MCIngest` with `MaxBacklog = 3` | with a backlog the pass compares with the newest other catalog, which is not the previous one |
| `MatchesFollowInventory` (`InventoryMatching`) | `A/matching_rebuild.go:6` the walk recomputes every match of the current inventory | `MCMatchingRecommit` | a pair that has a match is left alone, so the match tells of the component as it was |
| `ChangedFactorsDeriveNewKey` (`RecomputeFanIn`) | `A/priority_recompute.go:76` a changed factor set derives a new key | `MCMatching` | the key holds the factors *before* the change, so a change back finds its key taken |
| `ReportCountsDeletions` (`RetentionRuns`) | `A/retention_execute.go:56` the run is closed with the final counts | `MCGovernance` | signals of a batch that rolled back are counted as deleted |
| `GrantsAlternate` (`UserRoles`) | `A/user_admin.go:154` a held role is not re-granted and writes no audit row | `MCGovernance` with `MaxRequests = 3` | two grants read the user before either writes, and the second statement waits and does nothing |
| `DeactivatedRolesRest` (`UserRoles`) | `adapters/httpapi/i5b_users.go:91` a deactivated user is a 409 | `MCGovernance` | deactivated between read and write |
| `DebianIsTransitive` (`VersionOrder`) | `D/version_strategy.go:9` every strategy returns an ordering | `MCVersionDpkg` | a digit is a character against a letter and a number against the end |
| `DivergenceAborts` (`SchemaMigration`) | `adapters/postgres/migrate/runner.go:10` any divergence aborts before goose executes anything | `MCGovernance` | the log grows between the verification and the lock |
| `LogTellsWhatRan` (`SchemaMigration`) | `adapters/postgres/migrate/runner.go:220` a recovered checksum is protected from then on | `MCGovernance` | the row records the file at hand, which may be another than the one that ran |
| `PinnedIsAffected` (`MatchEngine`) | `A/matching/version.go:105` a CPE or purl with a version names it as exactly affected | `MCWindows` | the purl's version is passed over beside a CPE without one; with a window that misses, the component is even cleared |
| `EveryRuleFires` (`PriorityRuleset`) | `D/priority_rules.go:207` two identical predicates, a rule that can never fire, are rejected | `MCWindows` | P4 is awarded without its definition, which may repeat P1's or never hold |

The modules also state properties that hold in the same instances and are in no
run, since the runs check those that say more. They are proved (section 4), but
for `TimedOutIsExpired`, which is a liveness property.

### Bounds, and why they are enough

* *Relay*: two workers (the properties are about one worker and one other), two
  rows of which one has no handler, a cap of two attempts, three faults (one
  lets a row be taken over, two let it be taken back). The proofs lift all of
  these bounds for the safety properties.
* *Notify*: one event with three channels, two crashes and two failing
  transactions for one worker; a P1 and a passive event, one fault and one
  failing transaction for two workers. `DoneHasNoOpenChannel` and
  `TerminalNotificationIsFinal` are claimed for one worker only: with an
  overtaken one they do not hold. Clock and receipts are per event.
* *Triage*: two users, two evaluators, one recompute and versions up to 3; an
  actor that has begun finishes beyond the bound. The
  violations of the properties by mutants need at most three writes; the
  deepest counterexample (triage_reopen) has its own run with six versions.
* *Clock*: three pauses, durations of one and three seconds, half-second
  ticks, writes one tick late, nine instants: enough for a pause, an upgrade
  in the pause, a reset and another pause.
* *Schedule*: two schedulers and a manual trigger, three sources of which one
  never fires and two fire at different periods, one fault, one switch: enough
  for one scan to abort the other and for a wait in each direction.
* *Full set*: three revisions, two fetchers, two failures: one fetch may be two
  revisions behind.
* *Intake*: one document with two records of which one is defective, fetched
  twice, two clerks at its quarantine row, one fault: records do not influence
  each other except through their document.
* *KEV*: catalogs to which CVEs come, from which they go and to which they come
  back, two workers, two jobs put off. `FactorFollowsCatalog` is claimed while
  no more than one catalog waits, which is the normal daily schedule; with a
  backlog it does not hold.
* *Matching*: two imports and a full import about two components at one page
  each, so that a walk has a page behind it and one before it when an import
  writes; one vulnerability, since rows of different ones never meet.
* *Recompute*: two publishes, two fan-ins and one worker at one signal; jobs of
  different signals have different keys. The properties are claimed for one
  worker: a second one may write what it read before.
* *Audit*: two writers and three rows: a fork needs two rows after a third.
* *Exports*: one export (artifacts are per key), two overlapping deliveries, two
  sweeps, one download, one change of the signals, one fault.
* *Retention*: three signals in batches of two, so that a run has two batches; a
  hold, a reopened signal and a fault between any two steps, two workers.
* *Users*: two administrators, two requests, three changes: each may take the
  other's role, or its own, in the middle of the other's request, between its
  statement and its commit too. roles_revoke has three requests about one user:
  the two revocations and the grant of its counterexample.
* *Migrations*: three releases of three files, two of which grew apart and the
  third has both and an edited one; one fault.
* *Incremental*: three instants, two raw records, a lag equal to the overlap, and
  a page for each record. Two fetches overlap while one record changes; or two
  records change, and fetches and import steps come one after the other, the
  cursor going back and forth. One normalize job is delivered at most, since no
  fetch depends on what becomes of them. Records influence each
  other through their places in the list only, for which two are enough; that a
  modification slips and stays lost takes a fourth instant, and is one of the
  disagreements above. The lag may not exceed the overlap, which is the
  assumption the two-hour overlap stands for (`TimesAssumption`). The
  vulnerability rows are only written in this run and are left out of its view.
* *Versions*: all versions of up to two parts or characters over alphabets with
  every class the comparators distinguish, in triples.
* *Match engine*: up to three of ten statements in any order, six components,
  three sets of decision rules, one instant inside and one at the end of their
  validity: every tier, every version relation and every boundary occurs.
* *Rule sets*: four of eight definitions, one of them malformed, any of them
  disabled or renamed; two thresholds a score.
* Deadlock is not checked: bounded versions, rows and instants run out.
* Symmetry is used in safety runs only; in `MCWindows`, that of the fetchers.

### Fairness

| Assumed | Because |
|---|---|
| `WF(DrainStep(w))`: a worker goes on | `Scheduler.Run` has a ticker and survives a failing cycle; handlers run under contexts. SMTP is the exception: `smtp.SendMail` gets neither context nor timeout, and a hanging server breaks this assumption and stops the worker |
| `WF(LeaseExpires(r))` | time passes |
| `WF(Evaluator(e))` | every scheduler cycle evaluates on its cadence |
| `WF(Scan(w))`, `WF(Statement(a))` | every cycle begins with a scan; a transaction goes on unless it waits for another |
| `WF(FetchStep(f))` | every slot of the schedule brings a job |
| `WF(Settle(r))` | what the relay promises (`JobQueue`, shown by the relay run) |
| `WF(StartPass(w))`, `WF(IntakeStep(w))`; `WF(StartRebuild(w))`, `WF(Rebuild(w))`; `WF(Worker(w))`; `WF(Generate(g))`; `WF(ExecuteRetention(w))` | an open job is delivered, and its handler takes its next step: again what the relay promises |
| `WF(PublishPriorityRules)`, `WF(EnqueueForVulnerabilities(p))` | a transaction that has read goes on to its commit |
| `WF(Sweep(v))` | every scheduler cycle sweeps |

All of it is weak fairness. Crashes, failures, user commands and deliveries are
never fair: nothing relies on them.

## 4. Proofs

The theorems hold for every value of the constants that satisfies the `ASSUME`s
of the modules: any number of workers, users, rows, crashes and failures. The
assumptions are limits that are numbers, finite sets where the code has a table,
values that differ from each other; the ones that say something about the world
are named below. Where a theorem has a hypothesis of its own, it is the one under
which the property is checked, and the disagreements of section 3 show that it is
needed.

| Module | Theorem | What it proves |
|---|---|---|
| `OutboxRelayProofs` | `TypeCorrect` | `Spec => []TypeOK` |
| | `TerminalStatusIsFinal` | `Spec => TerminalIsFinal` |
| | `SettlementHasCause` | `Spec => []SettledForCause` |
| | `RedeliveryIsBounded` | `Spec => []RedeliveryBound` |
| | `BatchesAreExclusive` | `Spec => []OverlapNeedsFault` |
| | `RelayImplementsQueue` | `Spec => JQ!JQSafeSpec`, the safety part of the refinement |
| `NotifyDeliveryProofs` | `HandlerRunsUnderRelay` | `NotifySpec => Spec`, of the relay |
| | `ReceiptsAreTrue` | `NotifySpec => []NoReceiptWithoutMessage` |
| | `ReceiptsFulfilClocks` | `NotifySpec => []ReceiptFulfilsClock` |
| | `DoneIsDelivered` | `NotifySpec => [](Undisturbed => DoneHasNoOpenChannel)` |
| | `ReceiptsAreFinal` | terminal notifications stay, while undisturbed |
| | `SoloWorker` | with one worker, `[]DoneHasNoOpenChannel` and `TerminalNotificationIsFinal` |
| `SignalTriageProofs` | `LockProtects` | `Spec => []TriageInv` |
| | `StatusFollows` | `Spec => StatusFollowsMatrix` |
| | `OverrideStays` | `Spec => OverrideSurvives` |
| | `ComputedIsKept` | `Spec => []ComputedPriorityKept` |
| | `EscalationIsOnce` | `Spec => []EscalatedOnce` |
| | `DecisionsAreAssessed` | `Spec => []DecidedIsAssessed`, if every priority has an assessment clock |
| `SourceProofs` | `ScansAreDeadlockFree` | `ScheduleSpec => []ScansNeverDeadlock` |
| | `SuccessIsQueued` | `ScheduleSpec => []ReportedIsQueued` |
| | `NoRecordIsDropped` | `IntakeSpec => []NothingDropped` |
| | `ResolvedRowsAreStatements` | `IntakeSpec => []ResolvedIsNormalised` |
| | `RowsMoveForward` | `IntakeSpec => QuarantineMovesForward` |
| | `CountersAreRows` | `IntakeSpec => []RunCountsItsRows` |
| | `FactorsFollow` | `KevSpec => []FactorFollowsCatalog`, if one catalog waits at most |
| | `StoredHasJob` | `Spec => []StoredIsQueued`, of the full-set ingest |
| `WindowsProofs` | `WindowsNeverGap` | `Spec => []NoModificationIsLost`, for pages of any size |
| | `CandidateBand` | the similarity of any two names is between 1 and 54 |
| | `EvidenceDecides` | `MatchSpec => []OutcomeFollowsEvidence` |
| | `ComparatorsOrder` | `VersionSpec => []TotalOrder` |
| | `WindowsPartitionVersions` | `VersionSpec => []WindowsPartition` |
| | `ProbesDecideClasses` | `RulesetSpec => []ProbesDecide` |
| `MatchingProofs` | `RebuildsAreComplete` | `MatchSpec => RebuildIsComplete` |
| | `RulesGoForward` | `FanInSpec => RulesNeverRegress`, with one worker |
| `RecordProofs` | `StampsTell` | `ExportSpec => []StampMatchesArtifact` |
| | `StampsAreFinal` | `ExportSpec => StampedOnce` |
| | `ClockTypes` | `Spec => []TypeOK`, of the clock |
| | `DriftIsBounded` | `Spec => []PauseDriftBounded` |
| | `PauseFreezes` | `Spec => NoBreachInPause` |
| | `TighteningShortens` | `Spec => UpgradeNeverLengthens` |
| | `VerificationDecides` | `ChainSpec => []VerifyDecidesChain` |
| | `OrderedTrailsVerify` | `ChainSpec => []OrderedChainVerifies` |
| | `TamperingShows` | `ChainSpec => []TamperingIsSeen` |
| `GovernanceProofs` | `TrailTells` | `UsersSpec => []TrailTellsRoles` |
| | `Renounced` | `UsersSpec => RenouncedChangesNothing` |
| | `OneDeactivation` | `UsersSpec => []DeactivatedOnce` |
| | `HoldsAreHonoured` | `RetentionSpec => []HoldIsHonoured` |
| | `RunsExecuteOnce` | `RetentionSpec => []ExecutedOnce` |
| | `CompletedRunsAreComplete` | `RetentionSpec => []CompletedIsComplete` |
| | `SuccessIsLogged` | `SchemaSpec => []SuccessLogsAll` |
| | `AppliedOnce` | no step applies a migration again |

### The inductive invariants

Hardly any of the properties is inductive: each speaks of rows, and what the next
step does to a row depends on what some actor has read before. The invariants
supply what an actor in the middle of its work knows.

* *Relay.* `HandsOK`: a worker that is past "next" holds the row it is
  dispatching; the attempts it was told never exceed the column; what it holds was
  claimed at some time. Without it nothing relates a worker's copy to the table.
  `CauseOK`: a result a worker is about to act on is recorded, or the row has no
  handler. `AttemptsOK`: a claimed row that nobody is going to settle (its lease
  expired, or no worker has the last claim) is *strictly* below cap plus faults;
  that strictness is what the next claim uses up, and why an uncapped retry would
  break the bound. `ExclusiveOK`: without a fault, what a worker holds is claimed
  under a running lease and nobody else holds it. The refinement needs `CauseOK`
  for `Ack` (a completed job has a success).
* *Notify.* The handler's steps map to the relay's or to stutters, so the relay's
  invariants hold of them and are cited, not proved again. `ReceiptOK`: a worker
  about to write a receipt had its message accepted. `ProgressOK`: the channels a
  worker is done with are terminal and the one it is at is pending. It holds only
  while `Undisturbed` (no fault so far, or a single worker), since an overtaken
  worker looks at rows that somebody else changes.
* *Triage.* `FreshOK` is what the optimistic lock is worth: a command expects no
  version of the future, and if it expects the present one, then what it read is
  what the row says. From it a guarded write acts on the row it has seen, which
  gives the matrix and the override their step properties.
* *Schedule.* `TxOK`: the keys a transaction has inserted are a prefix of a plan
  sorted by the sources' ids. A circle of waiting transactions would then have a
  member whose awaited key is the greatest, and who waits for nobody in the circle.
* *Intake.* `NothingDropped` and `ResolvedIsNormalised` with the types and with
  `RowsOK` (rows are of records) are inductive: each commit of a pass does both
  halves of what they compare. The counters need `RunsOK`: no two jobs are of one
  run, and a run has no rows before its commit. `QuarantineStep` says that a row
  keeps its run and that only a pass of a run writes rows of one, so a commit adds
  exactly the rows its run counts.
* *KEV.* `StatedOK`, `CompleteOK` and `PassOK`: what is stated comes from the
  catalog its row names, every normalised catalog has stated all it lists and all
  removals since the one before, and a pass at work has read the previous
  catalog. The last needs that at most one waits.
* *Incremental.* `LagOK`: the API is at most `MaxLag` behind. `FetchOK`: whatever
  a fetch will leave behind the cursor it stores is in a raw record or in its
  window; in the latter case the fetch has it once its index has passed it, or it
  has slipped. This is where the overlap pays for the lag: `TimesAssumption`,
  `MaxLag <= Overlap`. When a record leaves the window, the place of every later
  one falls by one at most, so that only the one at the index can slip
  (`ShowKeepsWalk`); records that enter it only raise places. The places of a list
  leave out no number (`BeforeReaches`), so an empty page means that the index has
  passed everything.
* *Full set.* `FetchesOK`: a fetch about to store has a revision in hand. The
  rest is the step of the terminal transaction, which writes the file, its hash
  and its job, and that no step takes a job back (`JobsStay`).
* *Match engine.* `BestOK`: the evidence kept is that of one of the statements,
  and none scores higher. What a statement scores follows from its relation to
  the component (`StatementSays`), and since the bands of the scores do not
  overlap, the strongest one tells which kinds of statements there are
  (`BestTells`). For the lowest band this needs `CandidateBand`. The table of the
  edit distance is a recursive function, so it is first shown to exist: filled up
  to a diagonal, the next one can be computed from it (`TableExists`). Then its
  entries are natural numbers by the same induction over the diagonals. The
  induction is that of the natural numbers, stated for sets and derived from the
  well-foundedness of their order, as the library's theorem takes an operator.
* *Versions.* The states are any lists, so the proof is about the comparators
  (`VersionTypes` only says that what was asked is a version). A first difference
  is mirrored where each part is (`FirstOfMirrored`) and is transitive, equality
  included, where each part is (`FirstOfOrdered`): of two first differences the
  earlier one decides, and at its place the third comparison is the same. What
  remains is about the parts. Those of semver, calver and Maven are pairs of
  numbers. What an RPM turn leaves of a string depends on that string alone
  (`RpmUnreadIs`), so the turns of three versions can be lined up. A dpkg
  turn consumes both strings depending on both, so its parts are only mirrored,
  which is all `TotalOrder` claims of these schemes: they are not transitive
  (`DebianIsTransitive`). A window splits an order in three by the same facts.
* *Rule sets.* `RulesetInv`: the verdict is that of the rules as handed in. The
  rest is about trees. A valuation of the nodes that is computed from their
  children exists (`ValuationExists`, filled up one level of the trees after the
  other), and what passes from the children to a node holds of all
  (`NodesByInduction`). So the evaluation of a validated tree is what its words
  mean (`EvaluationMeans`), and factors on the same side of each threshold are
  judged alike (`CellsDecide`). `ProbesHitCells` finds a probe for any score: the
  greatest threshold that is not above it, or zero. So the midpoints the code
  probes as well are not needed; without the thresholds themselves the run fails.
* *Matching.* `StampInv`: every committer at work has an instant of its own, so no
  two write one stamp. `WalkOK` combines `NoReturn` (no committer at work can
  bring back a row version the walk has read) and `Ahead` (each pair the walk
  began with that is still a candidate lies ahead of the cursor, is matched, or is
  in hand). Without `NoReturn`, a row could change behind the cursor, be passed
  over, and change back.
* *Recompute.* `FanInInv`: the rules a handler holds are no older than those of
  the row it read, which nobody else writes while there is one worker.
* *Exports.* `AloneOK`: while no deliveries have overlapped, one generation at
  most is at an export, which has no stamp while it runs, and whose artifact is
  what it has written when it is about to be stamped.
* *Clock.* `CreditOK` bounds, in ticks, the difference between the seconds
  credited and the pauses there were, by the rounding of each.
* *Audit chain.* `RowsApart`: an id is drawn once and a row is in one place.
  `LockOK`: a transaction with chained rows holds the lock. `OrderOK`: while
  instants are in order, the chained rows of the trail and of the open
  transaction are a sequence, each linked to the one before. `TamperedOK`: what
  became of an edited or removed row. That verification and chain agree is a
  statement about any set of rows with any links: the walk of `n` steps is a
  recursive function, shown to be what paths of `n` links reach, and a chain and
  an accepted walk give each other by induction over `n`.
* *Users.* `RequestsOK`, `TrailOK`, and `StatementsOK`: a transaction about to
  commit has done what its row will say; or it has done nothing, and then the role
  is as its row will say, unless another transaction about the role was open beside
  it, of which both have a note (`alone`). `GrantedIfHeld`: an actor that gave up
  the role holds it again only if a row gives it back.
* *Retention.* `HoldOK`, `OneExecution`, and `ProgressOK`: whatever a run owes is
  in its worker's hands or settled unless a batch failed, and the count of its
  worker covers what was deleted.
* *Migrations.* `SchemaInv`: what a run knows of both tables at each stage, e.g.
  after the lock that everything of its own is applied or still to do.

Each of these was first checked by TLC on the instance of its run.

### Model-checked only

* Everything under fairness: `EveryRowSettles`, the liveness half of
  `ImplementsJobQueue`, `FairSpec`, `BreachIsEscalated`, `LastRevisionSettles`,
  `StoredIsNormalised`, `CurrentSlotIsServed`, `WrittenIsMatched`,
  `PublishReachesOpenSignals`, `CreatedIsGenerated`, `ApprovedRunCloses`, and
  `TimedOutIsExpired` (`Exports`), which is in no run. Liveness and `ENABLED` are
  out of the prover's reach.

## 5. Not modelled, and limits

* Authorisation (but in `UserRoles`), comments, audit rows and the outbox events
  that ride a command: they share its transaction and no modelled property
  depends on them.
* Sessions and token validation, pseudonymisation of users and the reveal of an
  identity: single guarded statements behind the API.
* The history of EPSS scores, the reasons and explanations of a match, the report
  of an import's preview, JSON and the parsing of documents, identifiers and
  versions: they decide what a value is, not when and in what order it counts.
* `matching.recompute` as a source of matches: nothing in the code enqueues that
  job; its fan-in to priorities is in `RecomputeFanIn`.
* HTTP API, web UI, command line, generated queries and handlers, read models,
  the synthetic source and the demo, configuration, logging, metrics, backup and
  the performance tool: no state the modelled parts depend on. They are most of
  the repository's lines (the generated API and query code alone is a quarter), so
  the share of all implementation lines behind the map stays well below a third,
  though nearly every state change of the application core has its action.
* The reminder cadence is a counter of windows; its duration is left out.
* A claim is one statement: PostgreSQL's row locks make it atomic. Transactions
  are READ COMMITTED, as in the code; what a second statement of a transaction
  may see differently, or a statement before another's commit, is modelled where
  it matters (schedule, publish, import, retention, role changes). The other
  transactions are one step: their writes are guarded by the row they change
  (signal commands, deactivation, settlements, run completions), or insert under a
  unique key.

## 6. Plan

Every part with state of its own has its module, and each safety invariant and
action property that a run checks is a theorem. What is left stays with TLC: the
liveness properties of section 4. That the steps of `FullSetIngest` and
`IncrementalIngest` on the queue are steps of `JobQueue` needs no proof: they are
its actions.
