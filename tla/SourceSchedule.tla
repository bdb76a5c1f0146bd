---------------------------- MODULE SourceSchedule ----------------------------
(***************************************************************************)
(* Enqueueing source.fetch jobs: application/source_schedule.go.  Every    *)
(* worker begins its cycle with a scan of the enabled sources, which       *)
(* appends the job of each source's current slot on one transaction; the   *)
(* rest of the cycle runs only when the scan committed.  An operator's     *)
(* manual trigger appends one job the same way.  The dedupe key is unique  *)
(* in PostgreSQL's sense: an insert waits for the transaction that holds   *)
(* the key uncommitted, and a committed key aborts the transaction.        *)
(*                                                                         *)
(* A scan or a trigger is a transaction of statements: an existence check  *)
(* and an insert per key.  Time is counted in the shortest period.         *)
(***************************************************************************)
EXTENDS Integers, FiniteSets, SequencesExt

CONSTANTS Sources,        \* ids, in the order of ORDER BY id
          Period,         \* Period[s]: ticks between slots, 0 when unparsable
          Scanners,       \* worker processes
          Requests,       \* operators' request ids, each for one source
          RequestFor,
          LastTick,       \* bound: the last instant
          MaxSwitches,    \* bound: sources enabled or disabled by an operator
          MaxScanFaults   \* bound: failing statements and crashes

ASSUME SourcesAssumption == Sources \subseteq Int /\ IsFiniteSet(Sources)
ASSUME PeriodAssumption == Period \in [Sources -> Nat]
ASSUME ScanBounds == {LastTick, MaxSwitches, MaxScanFaults} \subseteq Nat
ASSUME RequestsAssumption == RequestFor \in [Requests -> Sources]
ASSUME ActorsDiffer == Scanners \intersect Requests = {}

VARIABLES tick,          \* the clock
          enabled,       \* sources.enabled
          jobKeys,       \* dedupe keys of committed source.fetch jobs
          stage,         \* stage[a]: "idle", "running", "succeeded"
          plan,          \* plan[a]: the keys the transaction is to append
          pos,           \* pos[a]: the key it has come to
          absent,        \* absent[a]: the existence check of that key was negative
          uncommitted,   \* uncommitted[a]: keys inserted and not committed
          aborted,       \* aborted[a]: PostgreSQL has aborted the transaction
          drained,       \* keys some worker has seen in a drain
          switches, scanFaults

txVars == <<plan, pos, absent, uncommitted, aborted>>
scheduleVars == <<tick, enabled, jobKeys, stage, txVars, drained, switches, scanFaults>>

Appenders == Scanners \union Requests
Slot(s, t) == t - (t % Period[s])
PlanKey(s, t) == <<"plan", s, Slot(s, t)>>
ManualKey(r) == <<"manual", RequestFor[r], r>>
PlanKeys == {<<"plan", s, t>> : s \in Sources, t \in 0..LastTick}
Keys == PlanKeys \union {ManualKey(r) : r \in Requests}

ScheduleTypeOK ==
    /\ tick \in 0..LastTick
    /\ enabled \subseteq Sources
    /\ jobKeys \subseteq Keys /\ drained \subseteq jobKeys
    /\ stage \in [Appenders -> {"idle", "running", "succeeded"}]
    /\ \A a \in Appenders : /\ IsInjective(plan[a]) /\ ToSet(plan[a]) \subseteq Keys
                            /\ pos[a] \in 1..(Len(plan[a]) + 1)
                            /\ uncommitted[a] \subseteq ToSet(plan[a])
                            /\ stage[a] # "running" => uncommitted[a] = {}
    /\ absent \in [Appenders -> BOOLEAN] /\ aborted \in [Appenders -> BOOLEAN]
    /\ switches \in 0..MaxSwitches /\ scanFaults \in 0..MaxScanFaults

ScheduleInit ==
    /\ tick = 0
    /\ enabled = Sources
    /\ jobKeys = {} /\ drained = {}
    /\ stage = [a \in Appenders |-> "idle"]
    /\ plan = [a \in Appenders |-> <<>>] /\ pos = [a \in Appenders |-> 1]
    /\ absent = [a \in Appenders |-> FALSE] /\ aborted = [a \in Appenders |-> FALSE]
    /\ uncommitted = [a \in Appenders |-> {}]
    /\ switches = 0 /\ scanFaults = 0

TimePasses ==
    /\ tick < LastTick
    /\ tick' = tick + 1
    /\ UNCHANGED <<enabled, jobKeys, stage, txVars, drained, switches, scanFaults>>

SetEnabled(s) ==
    /\ switches < MaxSwitches /\ switches' = switches + 1
    /\ enabled' = IF s \in enabled THEN enabled \ {s} ELSE enabled \union {s}
    /\ UNCHANGED <<tick, jobKeys, stage, txVars, drained, scanFaults>>

-------------------------------------------------------------------------------
(* Transactions. *)

Begin(a, keys) ==
    /\ stage[a] = "idle"
    /\ stage' = [stage EXCEPT ![a] = "running"]
    /\ plan' = [plan EXCEPT ![a] = keys]
    /\ UNCHANGED <<tick, enabled, jobKeys, pos, absent, uncommitted, aborted, drained, switches, scanFaults>>

\* Mutant of InScanOrder: the list comes back in no particular order.
InAnyOrder(S) == SetToSeqs(S)

\* ListEnabledScheduledSources is ordered by id.
InScanOrder(S) ==
    {list \in [1..Cardinality(S) -> S] : \A i, j \in DOMAIN list : i < j => list[i] < list[j]}

\* A cycle begins: the list and the instant are read outside the transaction;
\* a source whose schedule cannot be parsed is skipped.
Scan(w) ==
    \E list \in InScanOrder({s \in enabled : Period[s] # 0}) :
        Begin(w, [i \in DOMAIN list |-> PlanKey(list[i], tick)])

\* An operator asks for a run, perhaps once more with the same request id;
\* neither the schedule nor enabled matters.
Trigger(r) == Begin(r, <<ManualKey(r)>>)

NextKey(a) == pos' = [pos EXCEPT ![a] = @ + 1]

\* Mutant of Exists: no check before the insert.
NeverExists(a, k) == FALSE

\* OutboxDedupeKeyExists: committed keys and those of the own transaction.
Exists(a, k) == k \in jobKeys \union uncommitted[a]

Check(a) ==
    /\ stage[a] = "running" /\ ~aborted[a] /\ ~absent[a]
    /\ pos[a] <= Len(plan[a])
    /\ IF Exists(a, plan[a][pos[a]])
         THEN NextKey(a) /\ UNCHANGED absent
         ELSE absent' = [absent EXCEPT ![a] = TRUE] /\ UNCHANGED pos
    /\ UNCHANGED <<tick, enabled, jobKeys, stage, plan, uncommitted, aborted, drained, switches, scanFaults>>

\* b's uncommitted insert holds the key a is about to insert.
WaitsFor(a, b) == /\ absent[a] /\ a # b
                  /\ plan[a][pos[a]] \in uncommitted[b]

\* AppendOutbox.  A concurrent enqueue may have committed since the check: the
\* conflict is swallowed, the transaction is aborted.
Insert(a) ==
    /\ absent[a]
    /\ \A b \in Appenders : ~WaitsFor(a, b)
    /\ absent' = [absent EXCEPT ![a] = FALSE]
    /\ NextKey(a)
    /\ LET k == plan[a][pos[a]] IN
         IF k \in jobKeys
           THEN aborted' = [aborted EXCEPT ![a] = TRUE] /\ UNCHANGED uncommitted
           ELSE /\ uncommitted' = [uncommitted EXCEPT ![a] = @ \union {k}]
                /\ UNCHANGED aborted
    /\ UNCHANGED <<tick, enabled, jobKeys, stage, plan, drained, switches, scanFaults>>

Ends(a, outcome) ==
    /\ stage' = [stage EXCEPT ![a] = outcome]
    /\ plan' = [plan EXCEPT ![a] = IF outcome = "idle" THEN <<>> ELSE @]
    /\ pos' = [pos EXCEPT ![a] = 1]
    /\ uncommitted' = [uncommitted EXCEPT ![a] = {}]
    /\ absent' = [absent EXCEPT ![a] = FALSE]
    /\ aborted' = [aborted EXCEPT ![a] = FALSE]

CommitScan(a) ==
    /\ stage[a] = "running" /\ pos[a] > Len(plan[a])
    /\ ~aborted[a]
    /\ jobKeys' = jobKeys \union uncommitted[a]
    /\ Ends(a, "succeeded")
    /\ UNCHANGED <<tick, enabled, drained, switches, scanFaults>>

\* An aborted transaction fails at its next statement or at its commit: the
\* jobs of the whole scan are rolled back and the cycle ends.
Rollback(a) ==
    /\ aborted[a]
    /\ Ends(a, "idle")
    /\ UNCHANGED <<tick, enabled, jobKeys, drained, switches, scanFaults>>

\* A statement fails otherwise, or the process dies.
ScanFails(a) ==
    /\ stage[a] = "running" /\ scanFaults < MaxScanFaults
    /\ scanFaults' = scanFaults + 1
    /\ Ends(a, "idle")
    /\ UNCHANGED <<tick, enabled, jobKeys, drained, switches>>

\* The cycle goes on to its drain, a trigger answers its caller.
Finish(a) ==
    /\ stage[a] = "succeeded"
    /\ Ends(a, "idle")
    /\ drained' = IF a \in Scanners THEN jobKeys ELSE drained
    /\ UNCHANGED <<tick, enabled, jobKeys, switches, scanFaults>>

Statement(a) == Check(a) \/ Insert(a) \/ CommitScan(a) \/ Rollback(a) \/ Finish(a)

ScheduleNext ==
    \/ TimePasses
    \/ \E s \in Sources : SetEnabled(s)
    \/ \E w \in Scanners : Scan(w)
    \/ \E r \in Requests : Trigger(r)
    \/ \E a \in Appenders : Statement(a) \/ ScanFails(a)

ScheduleSpec == ScheduleInit /\ [][ScheduleNext]_scheduleVars

\* Scheduler.Run has a ticker; PostgreSQL answers every statement.
ScheduleFairness == /\ \A w \in Scanners : WF_scheduleVars(Scan(w))
                    /\ \A a \in Appenders : WF_scheduleVars(Statement(a))

-------------------------------------------------------------------------------
(* Properties *)

\* Transactions that append several keys take them in one order, so concurrent
\* scans and triggers never wait for each other in a circle (sources.sql,
\* ListEnabledScheduledSources, ORDER BY id).
ScansNeverDeadlock ==
    ~ \E S \in (SUBSET Appenders) \ {{}} : \A a \in S : \E b \in S : WaitsFor(a, b)

\* A scan or a trigger that returns without an error has left a job of every
\* key it was to enqueue, whether it or somebody else appended it
\* (source_schedule.go, postgres/tx.go).
ReportedIsQueued ==
    \A a \in Appenders : stage[a] = "succeeded" => ToSet(plan[a]) \subseteq jobKeys

\* Whatever fails, and however often schedulers abort each other's scans, the
\* current slot of an enabled source ends up enqueued and in front of a drain
\* (source_schedule.go: every worker cycle can run this scan without tracking
\* state).
CurrentSlotIsServed ==
    \A s \in Sources : Period[s] # 0 =>
        (<>[](s \in enabled /\ tick = LastTick) => <>(PlanKey(s, LastTick) \in drained))
===============================================================================
