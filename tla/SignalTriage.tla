----------------------------- MODULE SignalTriage -----------------------------
(***************************************************************************)
(* One risk signal and everybody who writes its row: the triage commands   *)
(* of users (application/signal_triage.go), the SLA evaluators of the      *)
(* worker processes (sla_evaluate.go), the recompute jobs                  *)
(* (priority_recompute.go) and the receipt of a delivered notification     *)
(* (worker/notify.go).  A command reads the row outside its transaction,   *)
(* validates against what it read, and writes under the optimistic lock;   *)
(* an evaluator and a recompute write without that lock.  All writes of    *)
(* one command or job are one transaction that updates the signal's row    *)
(* first, hence one action.                                                *)
(*                                                                         *)
(* Abstracted: instants and durations (module SlaClock has them; here the  *)
(* acknowledgement deadline passes or does not), owners and permissions,   *)
(* comments, the audit and outbox rows that ride each transaction.         *)
(***************************************************************************)
EXTENDS Integers, FiniteSets

CONSTANTS Users,        \* clients, one command at a time each
          Evaluators,   \* SLA evaluators, one per worker process
          Recomputers,  \* priority.recompute jobs being handled
          Priorities,   \* the priorities in use
          Profile,      \* Profile[p]: the SLA targets with a duration at p
          NoPriority,   \* NULL auto_priority
          MaxVersion,   \* bound: no command or job starts at this version
          MaxReminders  \* bound: reminder cadence windows

SlaTargets == {"notification", "acknowledgement", "assessment", "decision"}

ASSUME ProfileAssumption == Profile \in [Priorities -> SUBSET SlaTargets]
ASSUME NoPriorityAssumption == NoPriority \notin Priorities
ASSUME BoundsAssumption == MaxVersion \in Nat /\ MaxReminders \in Nat

VARIABLES status, priority, auto, version,  \* columns of risk_signals
          escalatedAt, \* escalated_at is set; closed_at follows the status
          clocks,      \* the targets that have a row in sla_clocks
          met,         \* ... those with fulfilled_at
          paused,      \* ... those with paused_at
          overdue,     \* the acknowledgement clock's effective deadline passed
          window,      \* reminder windows elapsed since the escalation
          reminders,   \* reminder dedupe keys in the outbox
          cmd,         \* cmd[u]: the command of u between its read and its write
          ev,          \* ev[e]: what evaluator e decided from what it read
          rec,         \* rec[k]: the recompute k decided to persist
          born,        \* history: the priority in the signal.created event
          computed,    \* history: the last priority the rules gave the signal
          escalations  \* history: signal.escalated events written

row == <<status, priority, auto, version, escalatedAt>>
slaVars == <<clocks, met, paused, overdue>>
actors == <<cmd, ev, rec>>
history == <<born, computed, escalations>>
vars == <<row, slaVars, window, reminders, actors, history>>

Statuses == {"new", "in_review", "action_planned",
             "resolved", "accepted", "not_affected"}
Closed == {"resolved", "accepted", "not_affected"}
Kinds == {"transition", "acknowledge", "override", "revert", "assign"}

\* signalTransitions, the matrix of ch. 6.3.
Edges == ({"new"} \X {"in_review", "action_planned", "not_affected"})
    \union ({"in_review"} \X {"action_planned", "not_affected", "accepted"})
    \union ({"action_planned"} \X {"accepted", "resolved"})
    \union (Closed \X {"in_review"})

Idle == [kind |-> "idle"]

\* What a command keeps of its input and of the row it read.
Commands == [kind : Kinds, expected : Nat, from : Statuses, to : Statuses,
             seen : Priorities, prio : Priorities]

Decisions == [kind : {"escalate"}] \union [kind : {"remind"}, index : 1..MaxReminders]

Recomputes == [kind : {"recompute"}, seen : Priorities, prio : Priorities]

TypeOK ==
    /\ status \in Statuses
    /\ priority \in Priorities
    /\ auto \in Priorities \union {NoPriority}
    /\ version \in Nat \ {0}
    /\ escalatedAt \in BOOLEAN
    /\ clocks \subseteq SlaTargets /\ met \subseteq clocks /\ paused \subseteq clocks
    /\ overdue \in BOOLEAN
    /\ window \in 0..MaxReminders /\ reminders \subseteq 1..MaxReminders
    /\ cmd \in [Users -> Commands \union {Idle}]
    /\ ev \in [Evaluators -> Decisions \union {Idle}]
    /\ rec \in [Recomputers -> Recomputes \union {Idle}]
    /\ born \in Priorities /\ computed \in Priorities
    /\ escalations \in Nat

\* The state CreateSignal commits: the signal and the clocks of its priority.
Init ==
    /\ status = "new" /\ version = 1 /\ auto = NoPriority
    /\ priority \in Priorities
    /\ escalatedAt = FALSE
    /\ clocks = Profile[priority] /\ met = {} /\ paused = {} /\ overdue = FALSE
    /\ window = 0 /\ reminders = {}
    /\ cmd = [u \in Users |-> Idle]
    /\ ev = [e \in Evaluators |-> Idle]
    /\ rec = [k \in Recomputers |-> Idle]
    /\ born = priority /\ computed = priority /\ escalations = 0

-------------------------------------------------------------------------------
(* Clock treatment of a write (signal_triage.go, ARCH-004 section 4.3). *)

ClocksUnchanged == UNCHANGED slaVars

\* Fulfil matches a clock that exists and is not fulfilled, paused or not.
FulfilClocks(ts) ==
    /\ met' = met \union (ts \intersect clocks)
    /\ UNCHANGED <<clocks, paused, overdue>>

\* Reset restarts every clock defined at the priority; one that has no row is
\* a not-found error and rolls the command back.
ResetClocks ==
    /\ Profile[priority] \subseteq clocks
    /\ met' = met \ Profile[priority]
    /\ paused' = paused \ Profile[priority]
    /\ overdue' = (overdue /\ "acknowledgement" \notin Profile[priority])
    /\ UNCHANGED clocks

\* applyUpgradeClocks: create what p defines and the signal lacks.  Tightening
\* an existing clock never makes it overdue.
UpgradeClocks(p) ==
    /\ clocks' = clocks \union Profile[p]
    /\ UNCHANGED <<met, paused, overdue>>

\* Mutant of TransitionClocks: not_affected is not a decision.
TransitionClocksPartly(from, to) ==
    CASE to \in {"action_planned", "accepted", "resolved"} ->
           FulfilClocks({"assessment", "decision"} \intersect Profile[priority])
      [] from \in Closed -> ResetClocks
      [] OTHER -> ClocksUnchanged

\* applyTransitionClocks.
TransitionClocks(from, to) ==
    LET defined == Profile[priority] IN
    CASE to \in {"action_planned", "accepted", "resolved"} ->
           FulfilClocks({"assessment", "decision"} \intersect defined)
      [] to = "not_affected" -> FulfilClocks({"assessment"} \intersect defined)
      [] from \in Closed -> ResetClocks
      [] OTHER -> ClocksUnchanged

-------------------------------------------------------------------------------
(* Triage commands. *)

\* A client that has seen version e starts a command: the handler reads the
\* row and validates the command against what it read.
ReadForCommand(u) ==
    /\ cmd[u] = Idle
    /\ version < MaxVersion
    /\ \E k \in Kinds, e \in 1..version, to \in Statuses, p \in Priorities :
         /\ CASE k = "transition" -> <<status, to>> \in Edges
              [] k = "acknowledge" -> to = "in_review" /\ <<status, to>> \in Edges
              [] k = "override" -> auto = NoPriority
              [] k = "revert" -> auto # NoPriority
              [] OTHER -> TRUE
         /\ k \notin {"transition", "acknowledge"} => to = status
         /\ k # "override" => p = priority
         /\ cmd' = [cmd EXCEPT ![u] =
                      [kind |-> k, expected |-> e, from |-> status, to |-> to,
                       seen |-> priority, prio |-> p]]
    /\ UNCHANGED <<row, slaVars, window, reminders, ev, rec, history>>

\* Mutant of Wins: the write does not compare the version.
WinsAlways(u, kind) ==
    /\ cmd[u].kind = kind
    /\ version' = version + 1
    /\ cmd' = [cmd EXCEPT ![u] = Idle]
    /\ UNCHANGED <<escalatedAt, window, reminders, ev, rec, born, computed, escalations>>

\* The writing transaction of u's command matched the version it expected.
Wins(u, kind) ==
    /\ cmd[u].kind = kind
    /\ cmd[u].expected = version
    /\ version' = version + 1
    /\ cmd' = [cmd EXCEPT ![u] = Idle]
    /\ UNCHANGED <<escalatedAt, window, reminders, ev, rec, born, computed, escalations>>

SetStatus(to) ==
    /\ status' = to
    /\ UNCHANGED <<priority, auto>>

TransitionSignal(u) ==
    /\ Wins(u, "transition")
    /\ SetStatus(cmd[u].to)
    /\ TransitionClocks(cmd[u].from, cmd[u].to)

AcknowledgeSignal(u) ==
    /\ Wins(u, "acknowledge")
    /\ SetStatus("in_review")
    /\ FulfilClocks({"acknowledgement"})

\* auto_priority gets the effective priority the command read.
OverridePriority(u) ==
    /\ Wins(u, "override")
    /\ priority' = cmd[u].prio
    /\ auto' = cmd[u].seen
    /\ UpgradeClocks(cmd[u].prio)
    /\ UNCHANGED status

\* No clock treatment.
RevertPriority(u) ==
    /\ Wins(u, "revert")
    /\ priority' = auto
    /\ auto' = NoPriority
    /\ ClocksUnchanged
    /\ UNCHANGED status

AssignOwner(u) ==
    /\ Wins(u, "assign")
    /\ ClocksUnchanged
    /\ UNCHANGED <<status, priority, auto>>

\* The write matched no row, or it rolled back: a reopen that finds a clock
\* missing answers not found.
CommandFails(u) ==
    /\ cmd[u] # Idle
    /\ \/ cmd[u].expected # version
       \/ /\ cmd[u].kind = "transition" /\ cmd[u].from \in Closed
          /\ ~(Profile[priority] \subseteq clocks)
    /\ cmd' = [cmd EXCEPT ![u] = Idle]
    /\ UNCHANGED <<row, slaVars, window, reminders, ev, rec, history>>

\* Pause and resume are guarded by the clock's own columns, not by version.
PauseSla(t) ==
    /\ t \in clocks /\ t \notin met /\ t \notin paused
    /\ paused' = paused \union {t}
    /\ UNCHANGED <<row, clocks, met, overdue, window, reminders, actors, history>>

ResumeSla(t) ==
    /\ t \in paused
    /\ paused' = paused \ {t}
    /\ UNCHANGED <<row, clocks, met, overdue, window, reminders, actors, history>>

-------------------------------------------------------------------------------
(* Recompute jobs, evaluators, deliveries, time. *)

\* A job reads the open signal and comes to priority p under the factors and
\* rules of the moment; a closed signal gets at most a proposal.
ReadForRecompute(k) ==
    /\ rec[k] = Idle
    /\ version < MaxVersion
    /\ status \notin Closed
    /\ \E p \in Priorities :
         rec' = [rec EXCEPT ![k] = [kind |-> "recompute", seen |-> priority, prio |-> p]]
    /\ UNCHANGED <<row, slaVars, window, reminders, cmd, ev, history>>

\* Mutant of RecomputePriority: the statement writes the effective priority
\* under an override, too.
RecomputeOverridden(k) ==
    /\ rec[k] # Idle
    /\ priority' = rec[k].prio
    /\ computed' = rec[k].prio
    /\ auto' = IF auto = NoPriority THEN NoPriority ELSE rec[k].prio
    /\ UpgradeClocks(rec[k].prio)
    /\ version' = version + 1
    /\ rec' = [rec EXCEPT ![k] = Idle]
    /\ UNCHANGED <<status, escalatedAt, window, reminders, cmd, ev, born, escalations>>

\* RecomputeRiskSignalPriority: not version-guarded; an override survives.
RecomputePriority(k) ==
    /\ rec[k] # Idle
    /\ LET p == rec[k].prio
           effective == IF auto = NoPriority THEN p ELSE priority
       IN /\ priority' = effective
          /\ auto' = IF auto = NoPriority THEN NoPriority ELSE p
          /\ computed' = p
          /\ IF effective # rec[k].seen THEN UpgradeClocks(effective)
                                        ELSE ClocksUnchanged
    /\ version' = version + 1
    /\ rec' = [rec EXCEPT ![k] = Idle]
    /\ UNCHANGED <<status, escalatedAt, window, reminders, cmd, ev, born,
                   escalations>>

\* Mutant of EvaluateSla: the scan leaves out paused clocks.
EvaluateRunningSla(e) ==
    /\ ev[e] = Idle
    /\ "acknowledgement" \in clocks \ (met \union paused)
    /\ overdue
    /\ priority = "P1" /\ status = "new"
    /\ escalatedAt => window > 0
    /\ ev' = [ev EXCEPT ![e] = IF escalatedAt
                                  THEN [kind |-> "remind", index |-> window]
                                  ELSE [kind |-> "escalate"]]
    /\ UNCHANGED <<row, slaVars, window, reminders, cmd, rec, history>>

\* The scan finds the acknowledgement clock due; the evaluator then reads the
\* signal and decides.
EvaluateSla(e) ==
    /\ ev[e] = Idle
    /\ "acknowledgement" \in clocks \ met
    /\ overdue
    /\ priority = "P1" /\ status = "new"
    /\ escalatedAt => window > 0
    /\ ev' = [ev EXCEPT ![e] = IF escalatedAt
                                  THEN [kind |-> "remind", index |-> window]
                                  ELSE [kind |-> "escalate"]]
    /\ UNCHANGED <<row, slaVars, window, reminders, cmd, rec, history>>

\* Mutant of EscalateSignal: MarkEscalated is not guarded.
EscalateAgain(e) ==
    /\ ev[e].kind = "escalate"
    /\ ev' = [ev EXCEPT ![e] = Idle]
    /\ escalatedAt' = TRUE
    /\ version' = version + 1
    /\ escalations' = escalations + 1
    /\ UNCHANGED <<status, priority, auto, slaVars, window, reminders,
                   cmd, rec, born, computed>>

\* MarkEscalated is guarded by escalated_at IS NULL only; a second evaluator
\* matches no row and writes nothing.
EscalateSignal(e) ==
    /\ ev[e].kind = "escalate"
    /\ ev' = [ev EXCEPT ![e] = Idle]
    /\ IF escalatedAt
         THEN UNCHANGED <<escalatedAt, version, escalations>>
         ELSE /\ escalatedAt' = TRUE
              /\ version' = version + 1
              /\ escalations' = escalations + 1
    /\ UNCHANGED <<status, priority, auto, slaVars, window, reminders,
                   cmd, rec, born, computed>>

RemindEscalatedSignal(e) ==
    /\ ev[e].kind = "remind"
    /\ ev' = [ev EXCEPT ![e] = Idle]
    /\ reminders' = reminders \union {ev[e].index}
    /\ UNCHANGED <<row, slaVars, window, cmd, rec, history>>

\* A signal.created or signal.escalated event at P1 was delivered: the relay
\* may do that at any time after it was written, and more than once.
NotificationDelivered ==
    /\ born = "P1" \/ escalations > 0
    /\ "notification" \in clocks \ met
    /\ met' = met \union {"notification"}
    /\ UNCHANGED <<row, clocks, paused, overdue, window, reminders, actors, history>>

\* The effective deadline of the acknowledgement clock passes; it cannot while
\* the clock is paused.
DeadlinePasses ==
    /\ ~overdue
    /\ "acknowledgement" \in clocks \ paused
    /\ overdue' = TRUE
    /\ UNCHANGED <<row, clocks, met, paused, window, reminders, actors, history>>

WindowElapses ==
    /\ escalatedAt
    /\ window < MaxReminders
    /\ window' = window + 1
    /\ UNCHANGED <<row, slaVars, reminders, actors, history>>

-------------------------------------------------------------------------------
Command(u) == \/ ReadForCommand(u) \/ TransitionSignal(u) \/ AcknowledgeSignal(u)
              \/ OverridePriority(u) \/ RevertPriority(u) \/ AssignOwner(u)
              \/ CommandFails(u)

Evaluator(e) == EvaluateSla(e) \/ EscalateSignal(e) \/ RemindEscalatedSignal(e)

Next == \/ \E u \in Users : Command(u)
        \/ \E t \in SlaTargets : PauseSla(t) \/ ResumeSla(t)
        \/ \E k \in Recomputers : ReadForRecompute(k) \/ RecomputePriority(k)
        \/ \E e \in Evaluators : Evaluator(e)
        \/ NotificationDelivered \/ DeadlinePasses \/ WindowElapses

Spec == Init /\ [][Next]_vars

\* The scheduler cycle of every worker evaluates on its cadence.
FairSpec == Spec /\ \A e \in Evaluators : WF_vars(Evaluator(e))

-------------------------------------------------------------------------------
(* Properties *)

\* Whatever was read before and written in between, the status only moves
\* along the matrix of ch. 6.3 (domain/status.go; the optimistic lock of
\* TransitionRiskSignal makes read, validate and write atomic).
StatusFollowsMatrix ==
    [][status' # status => <<status, status'>> \in Edges]_vars

\* The computed priority is never lost under an override: the row always still
\* holds the last value the rules produced, in auto_priority while overridden
\* and in priority otherwise (ADR-015 mirror; override and revert against
\* concurrent recomputes).
ComputedPriorityKept ==
    computed = IF auto = NoPriority THEN priority ELSE auto

\* A human decision survives: while an override is active only a revert ends
\* it and no recompute moves the effective priority (ARCH-004 section 3).
OverrideSurvives ==
    [][auto # NoPriority /\ auto' # NoPriority => priority' = priority]_vars

\* With an assessment clock at every priority, a signal that was decided on is
\* never left with its assessment clock running, whatever was overridden,
\* recomputed, paused or reopened on the way (applyTransitionClocks).
DecidedIsAssessed ==
    /\ status \in Closed \union {"action_planned"}
    /\ "assessment" \in clocks
    => "assessment" \in met

\* Concurrent evaluators escalate a signal once (MarkEscalated, set-once).
EscalatedOnce == escalations <= 1 /\ (escalatedAt <=> escalations = 1)

\* An unacknowledged P1 whose acknowledgement deadline passed is escalated in
\* the end, unless somebody takes it up or lowers its priority first; no stream
\* of commands, recomputes or other evaluators keeps it from that
\* (sla_evaluate.go).
BreachIsEscalated ==
    (status = "new" /\ priority = "P1" /\ overdue /\ ~escalatedAt)
        ~> (escalatedAt \/ status # "new" \/ priority # "P1")

-------------------------------------------------------------------------------
(* What the code's own comments say of it. *)

\* signal_triage.go, AcknowledgeSignal: "a signal that is not new is a
\* conflict".
OnlyNewIsAcknowledged ==
    [][\A u \in Users :
         cmd[u].kind = "acknowledge" /\ cmd'[u] = Idle /\ version' # version
         => status = "new"]_vars

\* sla_evaluate.go: escalation is for an "unacknowledged P1 signal".
OnlyUnacknowledgedIsEscalated ==
    [][escalatedAt' # escalatedAt => status = "new" /\ priority = "P1"]_vars

\* priority_recompute.go: "A closed signal is never silently changed: the
\* recompute skips it".
ClosedIsNotRecomputed ==
    [][(status \in Closed /\ priority' # priority) => cmd' # cmd]_vars

\* sla.go, Fulfil: "A paused clock must be resumed first".
NoPausedClockIsMet == met \intersect paused = {}

\* signal_triage.go, applyTransitionClocks: "a reopen ... resets every clock
\* defined at the signal's current priority"; one that is legal and up to date
\* should therefore not fail.
ReopenResetsItsClocks ==
    [][\A u \in Users :
         /\ cmd[u].kind = "transition" /\ cmd'[u] = Idle
         /\ cmd[u].from \in Closed /\ cmd[u].expected = version
         => version' # version]_vars
===============================================================================
