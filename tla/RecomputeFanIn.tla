---------------------------- MODULE RecomputeFanIn ----------------------------
(***************************************************************************)
(* How new rules and new facts reach the priorities of signals:            *)
(* application/priority_recompute.go.  A publish commits a rule snapshot   *)
(* together with a priority.recompute job for every open signal; a         *)
(* matching.recompute run enqueues jobs for the signals of its             *)
(* vulnerabilities; the job's handler rebuilds the factors and evaluates   *)
(* the rules that are effective when it runs.                              *)
(*                                                                         *)
(* A job is its dedupe key: signal, rule version and the factors the row   *)
(* held when the job was enqueued.  Keys stay taken when jobs are done.    *)
(* Abstracted: overrides, clocks and audit rows of a recompute (module     *)
(* SignalTriage has them), the content of rules.                           *)
(***************************************************************************)
EXTENDS Naturals, FiniteSets

CONSTANTS Signals, Factors,
          Evaluate,         \* Evaluate[v][f]: the priority under snapshot v
          FirstFactors,     \* the facts at the beginning
          RecomputeWorkers, \* workers that handle priority.recompute jobs
          FanIns,           \* matching.recompute runs at work at once
          MaxVersion,       \* bound: snapshots published
          MaxChanges,       \* bound: changes of facts
          MaxFanIns,        \* bound: matching.recompute runs
          MaxMoves,         \* bound: signals closed or reopened
          MaxJobFaults      \* bound: attempts that fail, below the relay's cap

ASSUME FactorsAssumption == FirstFactors \in Factors
ASSUME FanInBounds == {MaxVersion, MaxChanges, MaxFanIns, MaxMoves, MaxJobFaults} \subseteq Nat

VARIABLES ruleVersion, \* the effective snapshot; 0 is the rules before any publish
          facts,       \* what a rebuild would find
          life,        \* life[s]: "absent", "open" or "closed"
          row,         \* row[s]: factors, rule_version and priority
          keys,        \* dedupe keys of priority.recompute jobs, whatever became of them
          queue,       \* those not settled
          proposals,   \* dedupe keys of reopen proposals
          publishing,  \* the targets a publish has read, or NotPublishing
          fanIn,       \* fanIn[p]: version and targets a run has read, or Idle
          job,         \* job[w]: what a handler has read, or Idle
          listed,      \* history: listed[v] are the signals the publish of v found
          spent        \* spent[b]: how much of a bound is used up

ruleVars == <<ruleVersion, publishing, listed>>
fanVars == <<facts, life, row, keys, queue, proposals, fanIn, job>>
recomputeVars == <<ruleVars, fanVars, spent>>

NotWorking == [stage |-> "idle"]
NotPublishing == {<<>>}
Versions == 0..MaxVersion
Limit == [change |-> MaxChanges, fanIn |-> MaxFanIns, move |-> MaxMoves, fault |-> MaxJobFaults]
Spend(b) == spent[b] < Limit[b] /\ spent' = [spent EXCEPT ![b] = @ + 1]

\* What PriorityRecomputeDedupeKey hashes.
DedupeKey(s, v, f) == <<s, v, f>>
AllKeys == {DedupeKey(s, v, f) : s \in Signals, v \in Versions, f \in Factors}
Rows == [factors : Factors, version : Versions,
         priority : UNION {{Evaluate[v][f] : v \in Versions} : f \in Factors}]

FanInTypeOK ==
    /\ ruleVersion \in Versions /\ facts \in [Signals -> Factors]
    /\ life \in [Signals -> {"absent", "open", "closed"}]
    /\ row \in [Signals -> Rows]
    /\ keys \subseteq AllKeys /\ queue \subseteq keys
    /\ proposals \subseteq AllKeys
    /\ listed \in [1..MaxVersion -> SUBSET Signals]
    /\ \A w \in RecomputeWorkers : job[w] # NotWorking => job[w].key \in keys
    /\ \A b \in DOMAIN Limit : spent[b] <= Limit[b]

FanInInit ==
    /\ ruleVersion = 0 /\ publishing = NotPublishing
    /\ listed = [v \in 1..MaxVersion |-> {}]
    /\ facts = [s \in Signals |-> FirstFactors]
    /\ life = [s \in Signals |-> "absent"]
    /\ row = [s \in Signals |-> [factors |-> FirstFactors, version |-> 0,
                                 priority |-> Evaluate[0][FirstFactors]]]
    /\ keys = {} /\ queue = {} /\ proposals = {}
    /\ fanIn = [p \in FanIns |-> NotWorking]
    /\ job = [w \in RecomputeWorkers |-> NotWorking]
    /\ spent = [b \in DOMAIN Limit |-> 0]

-------------------------------------------------------------------------------
(* Facts and people. *)

\* A source changes what is known of a signal's vulnerability.
FactsChange(s) ==
    /\ Spend("change")
    /\ \E f \in Factors \ {facts[s]} : facts' = [facts EXCEPT ![s] = f]
    /\ UNCHANGED <<ruleVars, life, row, keys, queue, proposals, fanIn, job>>

\* CreateSignal evaluates the facts under the fixed first rules.
CreateSignal(s) ==
    /\ life[s] = "absent"
    /\ life' = [life EXCEPT ![s] = "open"]
    /\ row' = [row EXCEPT ![s] = [factors |-> facts[s], version |-> 0,
                                  priority |-> Evaluate[0][facts[s]]]]
    /\ UNCHANGED <<ruleVars, facts, keys, queue, proposals, fanIn, job, spent>>

\* A user closes or reopens a signal.
Move(s) ==
    /\ life[s] # "absent" /\ Spend("move")
    /\ life' = [life EXCEPT ![s] = IF @ = "open" THEN "closed" ELSE "open"]
    /\ UNCHANGED <<ruleVars, facts, row, keys, queue, proposals, fanIn, job>>

-------------------------------------------------------------------------------
(* Enqueueing. *)

\* Mutant of JobKeys: the key leaves out the rule version.
JobKeysUnversioned(targets, v) == {DedupeKey(s, 0, row[s].factors) : s \in targets}

JobKeys(targets, v) == {DedupeKey(s, v, row[s].factors) : s \in targets}

\* Jobs whose key is taken, by a job that is queued, done or dead, are left out.
EnqueueRecompute(new) ==
    /\ keys' = keys \union new
    /\ queue' = queue \union (new \ keys)

\* Inside the publish's transaction, but on a connection of its own: the open
\* signals that are committed now.
PublishReads ==
    /\ publishing = NotPublishing /\ ruleVersion < MaxVersion
    /\ publishing' = JobKeys({s \in Signals : life[s] = "open"}, ruleVersion + 1)
    /\ listed' = [listed EXCEPT ![ruleVersion + 1] = {s \in Signals : life[s] = "open"}]
    /\ UNCHANGED <<ruleVersion, fanVars, spent>>

PublishPriorityRules ==
    /\ publishing # NotPublishing
    /\ ruleVersion' = ruleVersion + 1
    /\ EnqueueRecompute(publishing)
    /\ publishing' = NotPublishing
    /\ UNCHANGED <<listed, facts, life, row, proposals, fanIn, job, spent>>

\* A run of matching.recompute reads the version and then the signals of its
\* vulnerabilities, open or not.
FanInReads(p) ==
    /\ fanIn[p] = NotWorking /\ ruleVersion > 0
    /\ Spend("fanIn")
    /\ \E targets \in SUBSET {s \in Signals : life[s] # "absent"} :
         fanIn' = [fanIn EXCEPT ![p] = [stage |-> "enqueue", known |-> keys,
                                        keys |-> JobKeys(targets, ruleVersion)]]
    /\ UNCHANGED <<ruleVars, facts, life, row, keys, queue, proposals, job>>

EnqueueForVulnerabilities(p) ==
    /\ fanIn[p] # NotWorking
    /\ EnqueueRecompute(fanIn[p].keys)
    /\ fanIn' = [fanIn EXCEPT ![p] = NotWorking]
    /\ UNCHANGED <<ruleVars, facts, life, row, proposals, job, spent>>

\* Somebody else inserts one of the keys between the check and the insert: the
\* transaction fails, and the conflict is permanent for the relay.
FanInConflicts(p) ==
    /\ fanIn[p] # NotWorking
    /\ fanIn[p].keys \intersect (keys \ fanIn[p].known) # {}
    /\ fanIn' = [fanIn EXCEPT ![p] = NotWorking]
    /\ UNCHANGED <<ruleVars, facts, life, row, keys, queue, proposals, job, spent>>

-------------------------------------------------------------------------------
(* The handler of a priority.recompute job. *)

JobStep(w, j) == job' = [job EXCEPT ![w] = j]

\* The signal is read first; the result is what was seen until it is replaced.
ReadSignal(w) ==
    /\ job[w] = NotWorking
    /\ \E k \in queue : JobStep(w, [stage |-> "version", key |-> k, life |-> life[k[1]],
                                    seen |-> row[k[1]], result |-> row[k[1]]])
    /\ UNCHANGED <<ruleVars, facts, life, row, keys, queue, proposals, fanIn, spent>>

\* Mutant of ReadVersion: the version the job was enqueued under.
ReadVersionOfJob(w) ==
    /\ job[w].stage = "version"
    /\ JobStep(w, [job[w] EXCEPT !.stage = "rules", !.result.version = job[w].key[2]])
    /\ UNCHANGED <<ruleVars, facts, life, row, keys, queue, proposals, fanIn, spent>>

ReadVersion(w) ==
    /\ job[w].stage = "version"
    /\ JobStep(w, [job[w] EXCEPT !.stage = "rules", !.result.version = ruleVersion])
    /\ UNCHANGED <<ruleVars, facts, life, row, keys, queue, proposals, fanIn, spent>>

\* The rules are a second read, the factors a third.
RebuildFactors(w) ==
    /\ job[w].stage = "rules"
    /\ LET f == facts[job[w].key[1]] IN
         JobStep(w, [job[w] EXCEPT !.stage = "write", !.result.factors = f,
                                   !.result.priority = Evaluate[ruleVersion][f]])
    /\ UNCHANGED <<ruleVars, facts, life, row, keys, queue, proposals, fanIn, spent>>

\* The transaction, unless nothing changed; the job is done.  A closed signal
\* is never changed: a proposal to reopen it is made once.
RecomputePriority(w) ==
    /\ job[w].stage = "write"
    /\ LET j == job[w]
           s == j.key[1]
       IN IF j.life = "closed"
            THEN /\ proposals' = IF j.result.priority = j.seen.priority THEN proposals
                                 ELSE proposals \union {DedupeKey(s, j.result.version, j.result.factors)}
                 /\ UNCHANGED row
            ELSE /\ row' = IF j.result = j.seen THEN row ELSE [row EXCEPT ![s] = j.result]
                 /\ UNCHANGED proposals
    /\ queue' = queue \ {job[w].key}
    /\ JobStep(w, NotWorking)
    /\ UNCHANGED <<ruleVars, facts, life, keys, fanIn, spent>>

\* An attempt fails, or the worker dies: the job comes back.
JobFails(w) ==
    /\ job[w] # NotWorking /\ Spend("fault")
    /\ JobStep(w, NotWorking)
    /\ UNCHANGED <<ruleVars, facts, life, row, keys, queue, proposals, fanIn>>

Worker(w) == ReadSignal(w) \/ ReadVersion(w) \/ RebuildFactors(w) \/ RecomputePriority(w)

FanInNext ==
    \/ PublishReads \/ PublishPriorityRules
    \/ \E s \in Signals : FactsChange(s) \/ CreateSignal(s) \/ Move(s)
    \/ \E p \in FanIns : FanInReads(p) \/ EnqueueForVulnerabilities(p)
                        \/ FanInConflicts(p)
    \/ \E w \in RecomputeWorkers : Worker(w) \/ JobFails(w)

FanInSpec == FanInInit /\ [][FanInNext]_recomputeVars

\* Transactions end and workers poll.  A job that is done never comes back, so
\* no job waits for ever, in whatever order the relay brings them.
FanInFairness ==
    /\ WF_recomputeVars(PublishPriorityRules)
    /\ \A p \in FanIns : WF_recomputeVars(EnqueueForVulnerabilities(p))
    /\ \A w \in RecomputeWorkers : WF_recomputeVars(Worker(w))

-------------------------------------------------------------------------------
(* Properties, for one worker: a second one may write what it read before. *)

\* Published rules reach every signal that the publish found open, unless the
\* signal is closed first (priority_recompute.go, PublishPriorityRules: a
\* batched recompute over all open signals).
PublishReachesOpenSignals ==
    \A v \in 1..MaxVersion, s \in Signals :
        s \in listed[v] ~> (life[s] # "open" \/ row[s].version >= v)

\* Jobs arrive in any order and more than once, and yet no signal goes back to
\* older rules (priority_recompute.go, RecomputePriority: the handler evaluates
\* what is effective when it runs, not what its job was enqueued under).
RulesNeverRegress ==
    [][\A s \in Signals : life[s] # "absent" => row'[s].version >= row[s].version]_recomputeVars

-------------------------------------------------------------------------------
(* What the code's own comments say of it. *)

\* priority_recompute.go, PriorityRecomputeDedupeKey: "a changed factor-set or
\* rule version derives a new key and enqueues a fresh job".  The key of a run
\* for an open signal whose facts have changed would be new, unless a job of
\* the signal is still to come.
Pending(s) == \/ \E k \in queue : k[1] = s
              \/ \E w \in RecomputeWorkers : job[w] # NotWorking /\ job[w].key[1] = s

ChangedFactorsDeriveNewKey ==
    [][\A p \in FanIns : fanIn[p] = NotWorking /\ fanIn'[p] # NotWorking =>
         \A k \in fanIn'[p].keys :
            life[k[1]] = "open" /\ row[k[1]].factors # facts[k[1]]
            => k \notin keys \/ Pending(k[1])]_recomputeVars
===============================================================================
