----------------------------- MODULE RetentionRuns -----------------------------
(***************************************************************************)
(* Retention and legal holds: retention_dry_run.go, retention_approve.go,  *)
(* retention_execute.go, legal_hold.go, repo/retention.go and the worker's *)
(* retention.execute job.  A dry run proposes, a second person approves or *)
(* rejects, a job executes the approved run in batches, one transaction    *)
(* each: redact a signal, then, in the delete stage, delete it.            *)
(*                                                                         *)
(* All runs have one cutoff.  A signal is due (closed before the cutoff),  *)
(* open, recent (closed after it) or gone.  The read of a run that         *)
(* precedes a guarded update of the same condition is part of the update,  *)
(* except in the execution, where two deliveries may meet between them.    *)
(***************************************************************************)
EXTENDS Naturals, FiniteSets, FiniteSetsExt

CONSTANTS Subjects,         \* the signals, numbered in the order of the scan
          Runs,             \* retention_runs rows, numbered in the order of insertion
          PlanOf,           \* PlanOf[r]: policy, cutoff and partition of run r
          RetentionWorkers, \* worker processes
          BatchSize,        \* retention.batch_size
          MaxHolds,         \* bound: holds set
          MaxReopens,       \* bound: signals reopened
          MaxRunFaults      \* bound: batches and deliveries that fail

ASSUME SubjectsAssumption == Subjects \subseteq Nat /\ IsFiniteSet(Subjects)
ASSUME RunsAssumption == Runs \subseteq Nat /\ Runs # {}
ASSUME RetentionBounds ==
    /\ BatchSize \in Nat \ {0}
    /\ {MaxHolds, MaxReopens, MaxRunFaults} \subseteq Nat

VARIABLES subject,    \* subject[s]: due, open, recent or gone
          redacted,   \* the signals whose free text is redacted
          held,       \* the signals under an active hold
          run,        \* run[r]: the row of retention_runs
          queued,     \* the runs whose retention.execute job is not settled
          planKeys,   \* the dedupe keys of all jobs ever enqueued
          exec,       \* exec[w]: the execution in worker w
          owed,       \* history: what run r scanned as due and nobody held since
          took,       \* history: the signals run r deleted
          holds, reopens, runFaults

retentionVars == <<subject, redacted, held, run, queued, planKeys, exec, owed, took,
                   holds, reopens, runFaults>>
runRows == <<run, queued, planKeys>>
bounds == <<holds, reopens, runFaults>>

Stages == {"pseudonymise", "delete"}
NoRun == [status |-> "none", stage |-> "delete", pseudonymised |-> 0, deleted |-> 0, failed |-> 0]
Idle == [pc |-> "idle", of |-> CHOOSE r \in Runs : TRUE, left |-> {}, batch |-> {},
         touched |-> {}, heldThroughout |-> {}, pseudonymised |-> 0, deleted |-> 0, failed |-> 0]
Busy(w) == exec[w].pc # "idle"
Executing(w) == exec[w].pc \in {"scan", "next", "tx"}

\* Rows a worker's open transaction has deleted: everybody else waits for them.
RowLocked(s) == \E w \in RetentionWorkers :
    s \in exec[w].touched /\ run[exec[w].of].stage = "delete"

RetentionTypeOK ==
    /\ subject \in [Subjects -> {"due", "open", "recent", "gone"}]
    /\ redacted \subseteq Subjects /\ held \subseteq Subjects
    /\ queued \subseteq Runs /\ planKeys \subseteq {PlanOf[r] : r \in Runs}
    /\ \A r \in Runs :
         /\ run[r].status \in {"none", "dry_run", "approved", "rejected", "executing",
                               "completed", "failed"}
         /\ run[r].stage \in Stages
         /\ {run[r].pseudonymised, run[r].deleted, run[r].failed} \subseteq 0..Cardinality(Subjects)
         /\ took[r] \subseteq {s \in redacted : subject[s] = "gone"}
    /\ \A w \in RetentionWorkers :
         /\ exec[w].pc \in {"idle", "start", "scan", "next", "tx"}
         /\ exec[w].left \subseteq Subjects /\ exec[w].batch \subseteq Subjects \ exec[w].left
         /\ exec[w].touched \subseteq Subjects \ (exec[w].left \union exec[w].batch)
         /\ exec[w].touched # {} => exec[w].pc = "tx"

RetentionInit ==
    /\ subject = [s \in Subjects |-> "due"] /\ redacted = {} /\ held = {}
    /\ run = [r \in Runs |-> NoRun] /\ queued = {} /\ planKeys = {}
    /\ exec = [w \in RetentionWorkers |-> Idle]
    /\ owed = [r \in Runs |-> {}] /\ took = [r \in Runs |-> {}]
    /\ holds = 0 /\ reopens = 0 /\ runFaults = 0

-------------------------------------------------------------------------------
(* Proposal and decision. *)

DryRun(r, stage) ==
    /\ run[r].status = "none" /\ \A q \in Runs : q < r => run[q].status # "none"
    /\ run' = [run EXCEPT ![r].status = "dry_run", ![r].stage = stage]
    /\ UNCHANGED <<subject, redacted, held, queued, planKeys, exec, owed, took, bounds>>

\* Mutant of Enqueue: the job is left to a later call.
EnqueueLater(r) == UNCHANGED <<queued, planKeys>>

\* A second job of the same plan is refused, and the approval with it.
Enqueue(r) ==
    /\ PlanOf[r] \notin planKeys
    /\ planKeys' = planKeys \union {PlanOf[r]}
    /\ queued' = queued \union {r}

ApproveRun(r) ==
    /\ run[r].status = "dry_run"
    /\ run' = [run EXCEPT ![r].status = "approved"]
    /\ Enqueue(r)
    /\ UNCHANGED <<subject, redacted, held, exec, owed, took, bounds>>

RejectRun(r) ==
    /\ run[r].status = "dry_run"
    /\ run' = [run EXCEPT ![r].status = "rejected"]
    /\ UNCHANGED <<subject, redacted, held, queued, planKeys, exec, owed, took, bounds>>

-------------------------------------------------------------------------------
(* Holds, and what users do to the signals. *)

CreateLegalHold(s) ==
    /\ s \notin held /\ holds < MaxHolds /\ holds' = holds + 1
    /\ held' = held \union {s}
    /\ owed' = [r \in Runs |-> owed[r] \ {s}]
    /\ UNCHANGED <<subject, redacted, runRows, exec, took, reopens, runFaults>>

ReleaseLegalHold(s) ==
    /\ s \in held /\ held' = held \ {s}
    /\ exec' = [w \in RetentionWorkers |->
                  [exec[w] EXCEPT !.heldThroughout = @ \ {s}]]
    /\ UNCHANGED <<subject, redacted, runRows, owed, took, bounds>>

\* A reopened signal has no closed_at; closed again, it has a recent one.
Reopen(s) ==
    /\ subject[s] = "due" /\ ~RowLocked(s)
    /\ reopens < MaxReopens /\ reopens' = reopens + 1
    /\ subject' = [subject EXCEPT ![s] = "open"]
    /\ UNCHANGED <<redacted, held, runRows, exec, owed, took, holds, runFaults>>

CloseAgain(s) ==
    /\ subject[s] = "open" /\ ~RowLocked(s)
    /\ subject' = [subject EXCEPT ![s] = "recent"]
    /\ UNCHANGED <<redacted, held, runRows, exec, owed, took, bounds>>

-------------------------------------------------------------------------------
(* Execution. *)

\* A delivery of the job; one more than the first needs a lease that ran out.
Deliver(w, r) ==
    /\ ~Busy(w) /\ r \in queued
    /\ IF \E v \in RetentionWorkers : Busy(v) /\ exec[v].of = r
       THEN runFaults < MaxRunFaults /\ runFaults' = runFaults + 1
       ELSE UNCHANGED runFaults
    /\ IF run[r].status = "approved"
       THEN exec' = [exec EXCEPT ![w] = [Idle EXCEPT !.pc = "start", !.of = r]] /\ UNCHANGED queued
       ELSE UNCHANGED exec /\ queued' = queued \ {r}     \* a conflict is permanent
    /\ UNCHANGED <<subject, redacted, held, run, planKeys, owed, took, holds, reopens>>

Startable(r) == run[r].status = "approved"

StartRun(w) ==
    LET r == exec[w].of IN
    /\ exec[w].pc = "start"
    /\ IF Startable(r)
       THEN /\ run' = [run EXCEPT ![r].status = "executing"]
            /\ exec' = [exec EXCEPT ![w].pc = "scan"]
            /\ UNCHANGED queued
       ELSE /\ exec' = [exec EXCEPT ![w] = Idle]
            /\ queued' = queued \ {r}
            /\ UNCHANGED run
    /\ UNCHANGED <<subject, redacted, held, planKeys, owed, took, bounds>>

ScanRetentionCandidates(w) ==
    LET due == {s \in Subjects : subject[s] = "due"} \ held IN
    /\ exec[w].pc = "scan"
    /\ exec' = [exec EXCEPT ![w].pc = "next", ![w].left = due]
    /\ owed' = [owed EXCEPT ![exec[w].of] = due]
    /\ UNCHANGED <<subject, redacted, held, runRows, took, bounds>>

BeginBatch(w) ==
    LET left == exec[w].left
        batch == {s \in left : Cardinality({t \in left : t < s}) < BatchSize}
    IN /\ exec[w].pc = "next" /\ left # {}
       /\ exec' = [exec EXCEPT ![w].pc = "tx", ![w].left = left \ batch, ![w].batch = batch,
                               ![w].heldThroughout = held]
       /\ UNCHANGED <<subject, redacted, held, runRows, owed, took, bounds>>

\* Mutant of Spared: only the scan looks at the holds.
SparedByScan(s) == FALSE

Spared(s) == s \in held

\* The hold is looked up outside the transaction; the row is redacted and, in
\* the delete stage, deleted whatever its status is by now.
Candidate(w) ==
    LET s == Min(exec[w].batch) IN
    /\ exec[w].pc = "tx" /\ exec[w].batch # {}
    /\ Spared(s) \/ \A v \in RetentionWorkers : s \notin exec[v].touched
    /\ exec' = [exec EXCEPT ![w].batch = @ \ {s},
                            ![w].touched = IF Spared(s) THEN @ ELSE @ \union {s}]
    /\ UNCHANGED <<subject, redacted, held, runRows, owed, took, bounds>>

Tally(total, batch) == total + batch

\* A signal that another run has deleted meanwhile is counted all the same.
CommitBatch(w) ==
    LET e == exec[w]  n == Cardinality(e.touched)  deletes == run[e.of].stage = "delete" IN
    /\ e.pc = "tx" /\ e.batch = {}
    /\ redacted' = redacted \union e.touched
    /\ subject' = IF deletes
                  THEN [s \in Subjects |-> IF s \in e.touched THEN "gone" ELSE subject[s]]
                  ELSE subject
    /\ took' = IF deletes
               THEN [took EXCEPT ![e.of] = @ \union {s \in e.touched : subject[s] # "gone"}]
               ELSE took
    /\ exec' = [exec EXCEPT ![w].pc = "next", ![w].touched = {}, ![w].heldThroughout = {},
                            ![w].pseudonymised = Tally(@, n),
                            ![w].deleted = Tally(@, IF deletes THEN n ELSE 0)]
    /\ UNCHANGED <<held, runRows, owed, bounds>>

FailedBatch(failed) == failed + 1

FailBatch(w) ==
    /\ exec[w].pc = "tx" /\ runFaults < MaxRunFaults /\ runFaults' = runFaults + 1
    /\ exec' = [exec EXCEPT ![w].pc = "next", ![w].touched = {}, ![w].batch = {},
                            ![w].heldThroughout = {}, ![w].failed = FailedBatch(@)]
    /\ UNCHANGED <<subject, redacted, held, runRows, owed, took, holds, reopens>>

\* A failed run keeps the number of its failed batches and no other counter.
CloseRun(w) ==
    LET e == exec[w] IN
    /\ e.pc = "next" /\ e.left = {}
    /\ run' = [run EXCEPT ![e.of] =
                 IF e.failed > 0
                 THEN [@ EXCEPT !.status = "failed", !.failed = e.failed]
                 ELSE [@ EXCEPT !.status = "completed", !.pseudonymised = e.pseudonymised,
                                !.deleted = e.deleted]]
    /\ exec' = [exec EXCEPT ![w] = Idle] /\ queued' = queued \ {e.of}
    /\ UNCHANGED <<subject, redacted, held, planKeys, owed, took, bounds>>

\* The process dies, or a statement outside the batches fails: the job is
\* delivered again.
Abandon(w) ==
    /\ Busy(w) /\ runFaults < MaxRunFaults /\ runFaults' = runFaults + 1
    /\ exec' = [exec EXCEPT ![w] = Idle]
    /\ UNCHANGED <<subject, redacted, held, runRows, owed, took, holds, reopens>>

ExecuteRetention(w) ==
    \/ \E r \in Runs : Deliver(w, r)
    \/ StartRun(w) \/ ScanRetentionCandidates(w) \/ BeginBatch(w) \/ Candidate(w)
    \/ CommitBatch(w) \/ CloseRun(w)

RetentionNext ==
    \/ \E r \in Runs : (\E stage \in Stages : DryRun(r, stage)) \/ ApproveRun(r) \/ RejectRun(r)
    \/ \E s \in Subjects : CreateLegalHold(s) \/ ReleaseLegalHold(s) \/ Reopen(s) \/ CloseAgain(s)
    \/ \E w \in RetentionWorkers : ExecuteRetention(w) \/ FailBatch(w) \/ Abandon(w)

RetentionFairness == \A w \in RetentionWorkers : WF_retentionVars(ExecuteRetention(w))
RetentionSpec == RetentionInit /\ [][RetentionNext]_retentionVars
RetentionLiveSpec == RetentionSpec /\ RetentionFairness

-------------------------------------------------------------------------------
(* Properties *)

\* A run has one execution at most, whatever the relay redelivers (StartRun).
ExecutedOnce ==
    \A w, v \in RetentionWorkers :
        Executing(w) /\ Executing(v) /\ exec[w].of = exec[v].of => w = v

\* A hold that was active when the batch began and still is spares its signal
\* from both stages (ExecuteRetention: the per-candidate check).
HoldIsHonoured ==
    \A w \in RetentionWorkers : exec[w].touched \intersect exec[w].heldThroughout = {}

\* A completed run has dealt with every signal it scanned as due and that
\* nobody has held since, and its report covers every deletion it made
\* (ExecuteRetention: a failing batch stops only that batch).
CompletedIsComplete ==
    \A r \in Runs : run[r].status = "completed" =>
        /\ owed[r] \subseteq redacted
        /\ run[r].stage = "delete" => \A s \in owed[r] : subject[s] = "gone"
        /\ Cardinality(took[r]) <= run[r].deleted

\* An approved run is executed to its end unless something fails
\* (ApproveRetentionRun: the run and its job commit together).
ApprovedRunCloses ==
    \A r \in Runs : run[r].status = "approved" ~>
        run[r].status \in {"completed", "failed"} \/ runFaults > 0

-------------------------------------------------------------------------------
(* What the code's own comments say of it. *)

\* retention.sql, ListRetentionCandidates: "A reopened signal has its closed_at
\* cleared, so it is excluded".
OnlyClosedAreDeleted ==
    [][\A s \in Subjects : subject'[s] = "gone" => subject[s] # "open"]_retentionVars

\* retention_execute.go: the execution "closes the run with the final counts -
\* the retention report that survives the deletion".
ReportCountsDeletions ==
    \A r \in Runs : run[r].status \in {"completed", "failed"} => run[r].deleted = Cardinality(took[r])
===============================================================================
