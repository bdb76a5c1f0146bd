-------------------------- MODULE SignalTriageProofs --------------------------
(***************************************************************************)
(* Proofs about SignalTriage, for any number of users, evaluators and      *)
(* recompute jobs, any priorities and any SLA profile.  A command reads    *)
(* the row outside the transaction that writes it, so that most of what it *)
(* does is right only because of the optimistic lock; the invariant says   *)
(* what the lock is worth:                                                 *)
(*   FreshOK      while a command's expected version is the row's version, *)
(*                what the command read is what the row says               *)
(***************************************************************************)
EXTENDS SignalTriage, TLAPS

\* A command expects no version of the future; if it expects the present one,
\* the row is as it was read.
FreshOK ==
    \A u \in Users : cmd[u].kind \in Kinds =>
      /\ cmd[u].expected <= version
      /\ cmd[u].expected = version =>
           /\ cmd[u].from = status /\ cmd[u].seen = priority
           /\ cmd[u].kind \in {"transition", "acknowledge"} => <<status, cmd[u].to>> \in Edges
           /\ cmd[u].kind = "acknowledge" => cmd[u].to = "in_review"
           /\ cmd[u].kind = "override" => auto = NoPriority
           /\ cmd[u].kind = "revert" => auto # NoPriority

TriageInv == TypeOK /\ FreshOK

USE ProfileAssumption, NoPriorityAssumption, BoundsAssumption

-------------------------------------------------------------------------------
(* Types *)

\* A command in hand is one that ReadForCommand made.
LEMMA OneCommand ==
    ASSUME TypeOK, NEW u \in Users
    PROVE  /\ cmd[u].kind \in Kinds => cmd[u] \in Commands /\ cmd[u] # Idle
           /\ cmd[u].kind \notin Kinds => cmd[u] = Idle
<1>1. cmd[u] \in Commands \union {Idle}
  BY DEF TypeOK
<1>2. CASE cmd[u] \in Commands
  BY <1>2 DEF Commands, Idle, Kinds
<1>3. CASE cmd[u] = Idle
  BY <1>3 DEF Idle, Kinds
<1> QED
  BY <1>1, <1>2, <1>3

\* What a command in hand carries.
LEMMA CommandFields ==
    ASSUME TypeOK, NEW u \in Users, cmd[u].kind \in Kinds
    PROVE  /\ cmd[u].expected \in Nat /\ cmd[u].from \in Statuses /\ cmd[u].to \in Statuses
           /\ cmd[u].seen \in Priorities /\ cmd[u].prio \in Priorities
  BY OneCommand DEF Commands

\* A job in hand has a priority to write.
LEMMA RecomputeFields ==
    ASSUME TypeOK, NEW k \in Recomputers, rec[k] # Idle
    PROVE  rec[k].seen \in Priorities /\ rec[k].prio \in Priorities
<1>1. rec[k] \in Recomputes
  BY DEF TypeOK
<1> QED
  BY <1>1 DEF Recomputes

\* Clocks are created and never deleted; only what exists is fulfilled.
LEMMA ClockTypes ==
    ASSUME TypeOK
    PROVE  /\ \A ts : FulfilClocks(ts) => (clocks \subseteq SlaTargets /\ met \subseteq clocks
                       /\ paused \subseteq clocks /\ overdue \in BOOLEAN)'
           /\ ResetClocks => (clocks \subseteq SlaTargets /\ met \subseteq clocks
                       /\ paused \subseteq clocks /\ overdue \in BOOLEAN)'
           /\ \A p \in Priorities : UpgradeClocks(p) => (clocks \subseteq SlaTargets
                       /\ met \subseteq clocks /\ paused \subseteq clocks /\ overdue \in BOOLEAN)'
           /\ ClocksUnchanged => (clocks \subseteq SlaTargets /\ met \subseteq clocks
                       /\ paused \subseteq clocks /\ overdue \in BOOLEAN)'
  BY DEF TypeOK, FulfilClocks, ResetClocks, UpgradeClocks, ClocksUnchanged, slaVars

\* A write moves the version past what every command in hand expects.
LEMMA LockIsLost ==
    ASSUME TriageInv, \A u \in Users : cmd'[u] = cmd[u] \/ cmd'[u] = Idle,
           version' = version + 1 \/ UNCHANGED <<status, priority, auto, version>>
    PROVE  FreshOK'
<1>1. Idle.kind \notin Kinds
  BY DEF Idle, Kinds
<1>2. version \in Nat
  BY DEF TriageInv, TypeOK
<1>3. ASSUME NEW u \in Users, cmd'[u].kind \in Kinds
      PROVE  cmd'[u] = cmd[u] /\ cmd[u].kind \in Kinds /\ cmd[u].expected \in Nat
                /\ cmd[u].expected <= version
  BY <1>1, <1>3, CommandFields DEF TriageInv, FreshOK
<1>4. CASE version' = version + 1
  BY <1>2, <1>3, <1>4 DEF FreshOK
<1>5. CASE UNCHANGED <<status, priority, auto, version>>
  BY <1>3, <1>5 DEF FreshOK, TriageInv
<1> QED
  BY <1>4, <1>5

\* A command that wins leaves a well-formed row if what it writes is.
LEMMA WinnerTypes ==
    ASSUME TriageInv, NEW u \in Users, NEW kind \in Kinds, Wins(u, kind),
           status' \in Statuses, priority' \in Priorities,
           auto' \in Priorities \union {NoPriority},
           (clocks \subseteq SlaTargets /\ met \subseteq clocks
              /\ paused \subseteq clocks /\ overdue \in BOOLEAN)'
    PROVE  TriageInv'
<1>1. /\ version' = version + 1 /\ cmd' = [cmd EXCEPT ![u] = Idle]
      /\ UNCHANGED <<escalatedAt, window, reminders, ev, rec, born, computed, escalations>>
  BY DEF Wins
<1>2. TypeOK'
  BY <1>1 DEF TriageInv, TypeOK
<1>3. \A v \in Users : cmd'[v] = cmd[v] \/ cmd'[v] = Idle
  BY <1>1 DEF TriageInv, TypeOK
<1> QED
  BY <1>1, <1>2, <1>3, LockIsLost DEF TriageInv

\* The columns a winning command writes.
LEMMA WhatWinnersWrite ==
    ASSUME TriageInv, NEW u \in Users
    PROVE  /\ TransitionSignal(u) => /\ <<status, status'>> \in Edges /\ status' \in Statuses
                                     /\ UNCHANGED <<priority, auto>>
           /\ AcknowledgeSignal(u) => /\ <<status, status'>> \in Edges /\ status' = "in_review"
                                      /\ UNCHANGED <<priority, auto>>
           /\ OverridePriority(u) => /\ auto = NoPriority /\ auto' = priority
                                     /\ priority' \in Priorities /\ status' = status
           /\ RevertPriority(u) => /\ auto \in Priorities /\ auto' = NoPriority
                                   /\ priority' = auto /\ status' = status
<1> USE DEF TriageInv, Wins
<1>0. "transition" \in Kinds /\ "acknowledge" \in Kinds /\ "override" \in Kinds /\ "revert" \in Kinds
  BY DEF Kinds
<1>1. ASSUME TransitionSignal(u)
      PROVE  <<status, status'>> \in Edges /\ status' \in Statuses /\ UNCHANGED <<priority, auto>>
  BY <1>0, <1>1, CommandFields DEF TransitionSignal, SetStatus, FreshOK
<1>2. ASSUME AcknowledgeSignal(u)
      PROVE  <<status, status'>> \in Edges /\ status' = "in_review" /\ UNCHANGED <<priority, auto>>
  BY <1>0, <1>2 DEF AcknowledgeSignal, SetStatus, FreshOK
<1>3. ASSUME OverridePriority(u)
      PROVE  auto = NoPriority /\ auto' = priority /\ priority' \in Priorities /\ status' = status
  BY <1>0, <1>3, CommandFields DEF OverridePriority, FreshOK
<1>4. ASSUME RevertPriority(u)
      PROVE  auto \in Priorities /\ auto' = NoPriority /\ priority' = auto /\ status' = status
  BY <1>0, <1>4 DEF RevertPriority, FreshOK, TypeOK
<1> QED
  BY <1>1, <1>2, <1>3, <1>4

\* What a recompute writes.
LEMMA WhatRecomputesWrite ==
    ASSUME TypeOK, NEW k \in Recomputers, RecomputePriority(k)
    PROVE  /\ priority' \in Priorities /\ computed' \in Priorities /\ status' = status
           /\ auto = NoPriority => auto' = NoPriority /\ priority' = computed'
           /\ auto # NoPriority => auto' = computed' /\ priority' = priority
           /\ UpgradeClocks(priority') \/ ClocksUnchanged
           /\ version' = version + 1 /\ rec' = [rec EXCEPT ![k] = Idle]
           /\ UNCHANGED <<escalatedAt, window, reminders, cmd, ev, born, escalations>>
<1>1. rec[k].prio \in Priorities /\ priority \in Priorities
  BY RecomputeFields DEF TypeOK, RecomputePriority
<1>2. PICK p \in Priorities : p = IF auto = NoPriority THEN rec[k].prio ELSE priority
  BY <1>1
<1>3. /\ priority' = p /\ computed' = rec[k].prio
      /\ auto' = IF auto = NoPriority THEN NoPriority ELSE rec[k].prio
      /\ UpgradeClocks(p) \/ ClocksUnchanged
      /\ version' = version + 1 /\ rec' = [rec EXCEPT ![k] = Idle]
      /\ UNCHANGED <<status, escalatedAt, window, reminders, cmd, ev, born, escalations>>
  BY <1>2 DEF RecomputePriority
<1> QED
  BY <1>1, <1>2, <1>3

\* Every step keeps the types and the worth of the lock.
LEMMA TriageStep == TriageInv /\ [Next]_vars => TriageInv'
<1> SUFFICES ASSUME TriageInv, [Next]_vars PROVE TriageInv'
  OBVIOUS
<1>0. TypeOK /\ FreshOK /\ version \in Nat
  BY DEF TriageInv, TypeOK
<1>1. ASSUME UNCHANGED <<status, priority, auto, version, cmd>>, TypeOK' PROVE TriageInv'
  BY <1>1, LockIsLost DEF TriageInv
<1>2. ASSUME NEW u \in Users, ReadForCommand(u) PROVE TriageInv'
  <2>0. PICK k \in Kinds, e \in 1..version, to \in Statuses, p \in Priorities :
          /\ CASE k = "transition" -> <<status, to>> \in Edges
               [] k = "acknowledge" -> to = "in_review" /\ <<status, to>> \in Edges
               [] k = "override" -> auto = NoPriority
               [] k = "revert" -> auto # NoPriority
               [] OTHER -> TRUE
          /\ cmd' = [cmd EXCEPT ![u] = [kind |-> k, expected |-> e, from |-> status, to |-> to,
                                        seen |-> priority, prio |-> p]]
    BY <1>2, Zenon DEF ReadForCommand
  <2>1. /\ k \in {"transition", "acknowledge"} => <<status, to>> \in Edges
        /\ k = "acknowledge" => to = "in_review"
        /\ k = "override" => auto = NoPriority
        /\ k = "revert" => auto # NoPriority
        /\ cmd' = [cmd EXCEPT ![u] = [kind |-> k, expected |-> e, from |-> status, to |-> to,
                                      seen |-> priority, prio |-> p]]
    BY <2>0
  <2> DEFINE c == [kind |-> k, expected |-> e, from |-> status, to |-> to,
                   seen |-> priority, prio |-> p]
  <2>2. UNCHANGED <<status, priority, auto, version, escalatedAt, slaVars, window, reminders, ev,
                    rec, history>>
    BY <1>2 DEF ReadForCommand, row
  <2>3. c \in Commands /\ c.kind = k /\ c.expected = e /\ c.from = status /\ c.to = to
        /\ c.seen = priority /\ e <= version
    BY <1>0 DEF Commands, TypeOK
  <2> HIDE DEF c
  <2>4. cmd' = [cmd EXCEPT ![u] = c]
    BY <2>1 DEF c
  <2>5. TypeOK'
    BY <1>0, <2>2, <2>3, <2>4 DEF TypeOK, slaVars, history
  <2>6. ASSUME NEW v \in Users \ {u}, cmd[v].kind \in Kinds PROVE cmd'[v] = cmd[v]
    BY <1>0, <2>4 DEF TypeOK
  <2>7. cmd'[u] = c /\ \A v \in Users \ {u} : cmd'[v] = cmd[v]
    BY <1>0, <2>4 DEF TypeOK
  <2>8. FreshOK'
    BY <1>0, <2>1, <2>2, <2>3, <2>7 DEF FreshOK
  <2> QED
    BY <2>5, <2>8 DEF TriageInv
<1>3. ASSUME NEW u \in Users, TransitionSignal(u) PROVE TriageInv'
  <2>1. TransitionClocks(cmd[u].from, cmd[u].to) =>
          \/ \E ts : FulfilClocks(ts)
          \/ ResetClocks
          \/ ClocksUnchanged
    BY DEF TransitionClocks
  <2>2. (clocks \subseteq SlaTargets /\ met \subseteq clocks
           /\ paused \subseteq clocks /\ overdue \in BOOLEAN)'
    BY <1>0, <1>3, <2>1, ClockTypes DEF TransitionSignal
  <2>3. Wins(u, "transition") /\ "transition" \in Kinds
    BY <1>3 DEF TransitionSignal, Kinds
  <2> QED
    BY <1>0, <1>3, <2>2, <2>3, WhatWinnersWrite, WinnerTypes DEF TypeOK
<1>4. ASSUME NEW u \in Users, AcknowledgeSignal(u) PROVE TriageInv'
  <2>1. /\ Wins(u, "acknowledge") /\ "acknowledge" \in Kinds /\ "in_review" \in Statuses
        /\ FulfilClocks({"acknowledgement"})
    BY <1>4 DEF AcknowledgeSignal, Kinds, Statuses
  <2> QED
    BY <1>0, <1>4, <2>1, ClockTypes, WhatWinnersWrite, WinnerTypes DEF TypeOK
<1>5. ASSUME NEW u \in Users, OverridePriority(u) PROVE TriageInv'
  <2>1. /\ Wins(u, "override") /\ "override" \in Kinds /\ cmd[u].kind \in Kinds
        /\ UpgradeClocks(cmd[u].prio)
    BY <1>5 DEF OverridePriority, Wins, Kinds
  <2>2. cmd[u].prio \in Priorities
    BY <1>0, <2>1, CommandFields
  <2> QED
    BY <1>0, <1>5, <2>1, <2>2, ClockTypes, WhatWinnersWrite, WinnerTypes DEF TypeOK
<1>6. ASSUME NEW u \in Users, RevertPriority(u) PROVE TriageInv'
  <2>1. Wins(u, "revert") /\ "revert" \in Kinds /\ ClocksUnchanged
    BY <1>6 DEF RevertPriority, Kinds
  <2> QED
    BY <1>0, <1>6, <2>1, ClockTypes, WhatWinnersWrite, WinnerTypes DEF TypeOK
<1>7. ASSUME NEW u \in Users, AssignOwner(u) PROVE TriageInv'
  <2>1. /\ Wins(u, "assign") /\ "assign" \in Kinds /\ ClocksUnchanged
        /\ UNCHANGED <<status, priority, auto>>
    BY <1>7 DEF AssignOwner, Kinds
  <2> QED
    BY <1>0, <2>1, ClockTypes, WinnerTypes DEF TypeOK
<1>8. ASSUME NEW u \in Users, CommandFails(u) PROVE TriageInv'
  <2>1. /\ cmd' = [cmd EXCEPT ![u] = Idle]
        /\ UNCHANGED <<row, slaVars, window, reminders, ev, rec, history>>
    BY <1>8 DEF CommandFails
  <2>2. TypeOK' /\ \A v \in Users : cmd'[v] = cmd[v] \/ cmd'[v] = Idle
    BY <1>0, <2>1 DEF TypeOK, row, slaVars, history
  <2> QED
    BY <2>1, <2>2, LockIsLost DEF TriageInv, row
<1>9. ASSUME NEW t \in SlaTargets, PauseSla(t) \/ ResumeSla(t) PROVE TriageInv'
  <2>1. TypeOK'
    BY <1>0, <1>9 DEF PauseSla, ResumeSla, TypeOK, row, actors, history
  <2> QED
    BY <1>1, <1>9, <2>1 DEF PauseSla, ResumeSla, row, actors
<1>10. ASSUME NEW k \in Recomputers, ReadForRecompute(k) PROVE TriageInv'
  <2>1. PICK p \in Priorities :
          rec' = [rec EXCEPT ![k] = [kind |-> "recompute", seen |-> priority, prio |-> p]]
    BY <1>10 DEF ReadForRecompute
  <2>2. [kind |-> "recompute", seen |-> priority, prio |-> p] \in Recomputes
    BY <1>0 DEF Recomputes, TypeOK
  <2>3. TypeOK'
    BY <1>0, <1>10, <2>1, <2>2 DEF ReadForRecompute, TypeOK, row, slaVars, history
  <2> QED
    BY <1>1, <1>10, <2>3 DEF ReadForRecompute, row
<1>11. ASSUME NEW k \in Recomputers, RecomputePriority(k) PROVE TriageInv'
  <2>1. (clocks \subseteq SlaTargets /\ met \subseteq clocks
           /\ paused \subseteq clocks /\ overdue \in BOOLEAN)'
    BY <1>0, <1>11, WhatRecomputesWrite, ClockTypes
  <2>2. /\ priority' \in Priorities /\ computed' \in Priorities
        /\ auto' \in Priorities \union {NoPriority} /\ version' \in Nat \ {0}
        /\ rec' \in [Recomputers -> Recomputes \union {Idle}]
    BY <1>0, <1>11, WhatRecomputesWrite DEF TypeOK
  <2>3. UNCHANGED <<status, escalatedAt, window, reminders, cmd, ev, born, escalations>>
    BY <1>0, <1>11, WhatRecomputesWrite
  <2>4. TypeOK'
    BY <1>0, <2>1, <2>2, <2>3 DEF TypeOK
  <2> QED
    BY <1>0, <1>11, <2>3, <2>4, WhatRecomputesWrite, LockIsLost DEF TriageInv
<1>12. ASSUME NEW e \in Evaluators, EvaluateSla(e) PROVE TriageInv'
  <2>1. PICK d \in Decisions : ev' = [ev EXCEPT ![e] = d]
    <3>1. CASE escalatedAt
      <4>1. window \in 1..MaxReminders
        BY <1>0, <1>12, <3>1 DEF EvaluateSla, TypeOK
      <4>2. [kind |-> "remind", index |-> window] \in Decisions
        BY <4>1 DEF Decisions
      <4> QED
        BY <1>12, <3>1, <4>2 DEF EvaluateSla
    <3>2. CASE ~escalatedAt
      <4>1. [kind |-> "escalate"] \in Decisions
        BY DEF Decisions
      <4> QED
        BY <1>12, <3>2, <4>1 DEF EvaluateSla
    <3> QED
      BY <3>1, <3>2
  <2>2. TypeOK'
    BY <1>0, <1>12, <2>1 DEF EvaluateSla, TypeOK, row, slaVars, history
  <2> QED
    BY <1>1, <1>12, <2>2 DEF EvaluateSla, row
<1>13. ASSUME NEW e \in Evaluators, EscalateSignal(e) PROVE TriageInv'
  <2>1. TypeOK'
    <3>1. /\ ev' = [ev EXCEPT ![e] = Idle]
          /\ UNCHANGED <<status, priority, auto, slaVars, window, reminders, cmd, rec, born, computed>>
          /\ \/ UNCHANGED <<escalatedAt, version, escalations>>
             \/ escalatedAt' = TRUE /\ version' = version + 1 /\ escalations' = escalations + 1
      BY <1>13 DEF EscalateSignal
    <3>2. ev' \in [Evaluators -> Decisions \union {Idle}]
      BY <1>0, <3>1 DEF TypeOK
    <3>3. version' \in Nat \ {0} /\ escalations' \in Nat
      BY <1>0, <3>1 DEF TypeOK
    <3>4. escalatedAt' \in BOOLEAN
      BY <1>0, <3>1 DEF TypeOK
    <3> QED
      BY <1>0, <3>1, <3>2, <3>3, <3>4 DEF TypeOK, slaVars
  <2>2. UNCHANGED <<status, priority, auto, cmd>> /\ (version' = version \/ version' = version + 1)
    BY <1>13 DEF EscalateSignal
  <2> QED
    BY <2>1, <2>2, LockIsLost DEF TriageInv
<1>14. ASSUME NEW e \in Evaluators, RemindEscalatedSignal(e) PROVE TriageInv'
  <2>1. ev[e] \in Decisions \union {Idle} /\ ev[e].kind = "remind"
    BY <1>0, <1>14 DEF TypeOK, RemindEscalatedSignal
  <2>2. ev[e].index \in 1..MaxReminders
    BY <2>1 DEF Decisions, Idle
  <2>3. TypeOK'
    BY <1>0, <1>14, <2>2 DEF RemindEscalatedSignal, TypeOK, row, slaVars, history
  <2> QED
    BY <1>1, <1>14, <2>3 DEF RemindEscalatedSignal, row
<1>15. CASE NotificationDelivered
  <2>1. TypeOK'
    BY <1>0, <1>15 DEF NotificationDelivered, TypeOK, row, actors, history
  <2> QED
    BY <1>1, <1>15, <2>1 DEF NotificationDelivered, row, actors
<1>16. CASE DeadlinePasses
  <2>1. TypeOK'
    BY <1>0, <1>16 DEF DeadlinePasses, TypeOK, row, actors, history
  <2> QED
    BY <1>1, <1>16, <2>1 DEF DeadlinePasses, row, actors
<1>17. CASE WindowElapses
  <2>1. TypeOK'
    BY <1>0, <1>17 DEF WindowElapses, TypeOK, row, slaVars, actors, history
  <2> QED
    BY <1>1, <1>17, <2>1 DEF WindowElapses, row, actors
<1>18. CASE UNCHANGED vars
  <2>1. TypeOK'
    BY <1>0, <1>18 DEF vars, TypeOK, row, slaVars, actors, history
  <2> QED
    BY <1>1, <1>18, <2>1 DEF vars, row, actors
<1> QED
  BY <1>2, <1>3, <1>4, <1>5, <1>6, <1>7, <1>8, <1>9, <1>10, <1>11, <1>12, <1>13, <1>14, <1>15,
     <1>16, <1>17, <1>18 DEF Next, Command, Evaluator

\* A signal is born without a command in hand.
LEMMA TriageInitOK == Init => TriageInv
<1> SUFFICES ASSUME Init PROVE TriageInv
  OBVIOUS
<1>1. FreshOK
  BY DEF Init, FreshOK, Idle, Kinds
<1>2. clocks \subseteq SlaTargets /\ met \subseteq clocks /\ paused \subseteq clocks
  BY DEF Init
<1>3. "new" \in Statuses /\ 0 \in 0..MaxReminders
  BY DEF Statuses
<1>4. TypeOK
  <2>1. /\ status = "new" /\ version = 1 /\ auto = NoPriority /\ priority \in Priorities
        /\ escalatedAt = FALSE /\ overdue = FALSE /\ window = 0 /\ reminders = {}
        /\ born = priority /\ computed = priority /\ escalations = 0
    BY DEF Init
  <2>2. /\ cmd \in [Users -> Commands \union {Idle}]
        /\ ev \in [Evaluators -> Decisions \union {Idle}]
        /\ rec \in [Recomputers -> Recomputes \union {Idle}]
    BY DEF Init
  <2>3. version \in Nat \ {0} /\ escalations \in Nat
    BY <2>1
  <2>4. window \in 0..MaxReminders /\ reminders \subseteq 1..MaxReminders /\ status \in Statuses
    BY <1>3, <2>1
  <2>5. auto \in Priorities \union {NoPriority} /\ born \in Priorities /\ computed \in Priorities
        /\ escalatedAt \in BOOLEAN /\ overdue \in BOOLEAN
    BY <2>1
  <2> QED
    BY <1>2, <2>1, <2>2, <2>3, <2>4, <2>5 DEF TypeOK
<1> QED
  BY <1>1, <1>4 DEF TriageInv

\* The type invariant, and what a command may rely on under its lock.
THEOREM LockProtects == Spec => []TriageInv
<1>1. Init => TriageInv
  BY TriageInitOK
<1>2. TriageInv /\ [Next]_vars => TriageInv'
  BY TriageStep
<1> QED
  BY <1>1, <1>2, PTL DEF Spec

-------------------------------------------------------------------------------
(* The status and the two priority columns *)

\* Who writes the status or a priority, and what becomes of the others.
LEMMA WhoWritesTheRow ==
    ASSUME TriageInv, [Next]_vars
    PROVE  \/ UNCHANGED <<status, priority, auto, computed>>
           \/ /\ <<status, status'>> \in Edges
              /\ UNCHANGED <<priority, auto, computed>>
           \/ /\ auto = NoPriority /\ auto' = priority /\ auto' # NoPriority
              /\ UNCHANGED <<status, computed>>
           \/ /\ auto # NoPriority /\ auto' = NoPriority /\ priority' = auto
              /\ UNCHANGED <<status, computed>>
           \/ /\ auto = NoPriority /\ auto' = NoPriority /\ priority' = computed'
              /\ status' = status
           \/ /\ auto # NoPriority /\ auto' = computed' /\ auto' # NoPriority /\ priority' = priority
              /\ status' = status
<1> DEFINE Same == UNCHANGED <<status, priority, auto, computed>>
<1>0. TypeOK
  BY DEF TriageInv
<1>1. ASSUME NEW u \in Users, TransitionSignal(u) \/ AcknowledgeSignal(u)
      PROVE  <<status, status'>> \in Edges /\ UNCHANGED <<priority, auto, computed>>
  BY <1>1, WhatWinnersWrite DEF TransitionSignal, AcknowledgeSignal, Wins
<1>2. ASSUME NEW u \in Users, OverridePriority(u)
      PROVE  /\ auto = NoPriority /\ auto' = priority /\ auto' # NoPriority
             /\ UNCHANGED <<status, computed>>
  BY <1>0, <1>2, WhatWinnersWrite DEF OverridePriority, Wins, TypeOK
<1>3. ASSUME NEW u \in Users, RevertPriority(u)
      PROVE  /\ auto # NoPriority /\ auto' = NoPriority /\ priority' = auto
             /\ UNCHANGED <<status, computed>>
  BY <1>3, WhatWinnersWrite DEF RevertPriority, Wins
<1>4. ASSUME NEW k \in Recomputers, RecomputePriority(k)
      PROVE  /\ status' = status
             /\ \/ auto = NoPriority /\ auto' = NoPriority /\ priority' = computed'
                \/ auto # NoPriority /\ auto' = computed' /\ auto' # NoPriority /\ priority' = priority
  BY <1>0, <1>4, WhatRecomputesWrite
<1>5. ASSUME NEW u \in Users, ReadForCommand(u) \/ AssignOwner(u) \/ CommandFails(u) PROVE Same
  BY <1>5 DEF ReadForCommand, AssignOwner, Wins, CommandFails, row, history
<1>6. ASSUME NEW t \in SlaTargets, PauseSla(t) \/ ResumeSla(t) PROVE Same
  BY <1>6 DEF PauseSla, ResumeSla, row, history
<1>7. ASSUME NEW k \in Recomputers, ReadForRecompute(k) PROVE Same
  BY <1>7 DEF ReadForRecompute, row, history
<1>8. ASSUME NEW e \in Evaluators, Evaluator(e) PROVE Same
  BY <1>8 DEF Evaluator, EvaluateSla, EscalateSignal, RemindEscalatedSignal, row, history
<1>9. CASE NotificationDelivered \/ DeadlinePasses \/ WindowElapses
  BY <1>9 DEF NotificationDelivered, DeadlinePasses, WindowElapses, row, history
<1>10. CASE UNCHANGED vars
  BY <1>10 DEF vars, row, history
<1> QED
  BY <1>1, <1>2, <1>3, <1>4, <1>5, <1>6, <1>7, <1>8, <1>9, <1>10 DEF Next, Command

\* A step along the matrix.
MatrixStep == status' # status => <<status, status'>> \in Edges

\* StatusFollowsMatrix: no interleaving of commands, jobs and evaluators moves
\* the status off the matrix (TransitionRiskSignal: the optimistic lock).
THEOREM StatusFollows == Spec => StatusFollowsMatrix
<1>1. TriageInv /\ [Next]_vars => [MatrixStep]_vars
  BY WhoWritesTheRow DEF MatrixStep
<1> QED
  BY <1>1, LockProtects, PTL DEF Spec, StatusFollowsMatrix, MatrixStep

\* A step under an override.
OverrideStep == auto # NoPriority /\ auto' # NoPriority => priority' = priority

\* OverrideSurvives: nothing but a revert ends an override, and no recompute
\* moves the effective priority under it (RecomputeRiskSignalPriority).
THEOREM OverrideStays == Spec => OverrideSurvives
<1>1. TriageInv /\ [Next]_vars => [OverrideStep]_vars
  BY WhoWritesTheRow DEF OverrideStep
<1> QED
  BY <1>1, LockProtects, PTL DEF Spec, OverrideSurvives, OverrideStep

\* ComputedPriorityKept: the row always holds what the rules said last, which an
\* override takes from the row it read (OverridePriority, the ADR-015 mirror).
THEOREM ComputedIsKept == Spec => []ComputedPriorityKept
<1>1. Init => ComputedPriorityKept
  BY DEF Init, ComputedPriorityKept
<1>2. TriageInv /\ ComputedPriorityKept /\ [Next]_vars => ComputedPriorityKept'
  BY WhoWritesTheRow DEF ComputedPriorityKept
<1> QED
  BY <1>1, <1>2, LockProtects, PTL DEF Spec

-------------------------------------------------------------------------------
(* Escalation *)

\* EscalatedOnce: the update that escalates is guarded by the column it sets, so
\* that any number of evaluators that decided on what they read write one event
\* (MarkEscalated).
THEOREM EscalationIsOnce == Spec => []EscalatedOnce
<1>1. Init => EscalatedOnce
  BY DEF Init, EscalatedOnce
<1>2. TriageInv /\ EscalatedOnce /\ [Next]_vars => EscalatedOnce'
  <2> SUFFICES ASSUME TriageInv, EscalatedOnce, [Next]_vars PROVE EscalatedOnce'
    OBVIOUS
  <2>1. escalations \in Nat /\ escalatedAt \in BOOLEAN
    BY DEF TriageInv, TypeOK
  <2>2. ASSUME NEW e \in Evaluators, EscalateSignal(e) PROVE EscalatedOnce'
    BY <2>1, <2>2 DEF EscalateSignal, EscalatedOnce
  <2>3. ASSUME UNCHANGED <<escalatedAt, escalations>> PROVE EscalatedOnce'
    BY <2>3 DEF EscalatedOnce
  <2> QED
    BY <2>2, <2>3 DEF Next, Command, Evaluator, ReadForCommand, TransitionSignal, AcknowledgeSignal,
       OverridePriority, RevertPriority, AssignOwner, CommandFails, Wins, PauseSla, ResumeSla,
       ReadForRecompute, RecomputePriority, EvaluateSla, RemindEscalatedSignal,
       NotificationDelivered, DeadlinePasses, WindowElapses, vars, row, history
<1> QED
  BY <1>1, <1>2, LockProtects, PTL DEF Spec

-------------------------------------------------------------------------------
(* The assessment clock *)

\* The states a decision leads to, and the clock it has met.
Decided == Closed \union {"action_planned"}

AssessedOK == "assessment" \in clocks /\ DecidedIsAssessed

\* What a transition does to the assessment clock: every decision meets it, and
\* only a reopen takes that back.
LEMMA TransitionAssesses ==
    ASSUME TriageInv, NEW u \in Users, TransitionSignal(u),
           "assessment" \in Profile[priority], "assessment" \in clocks
    PROVE  /\ "assessment" \in clocks'
           /\ status' \in Decided => "assessment" \in met'
<1>1. /\ status' = cmd[u].to /\ cmd[u].from = status /\ <<status, cmd[u].to>> \in Edges
      /\ TransitionClocks(status, cmd[u].to)
  BY DEF TransitionSignal, SetStatus, Wins, TriageInv, FreshOK, Kinds
<1>2. PICK to \in Statuses : to = cmd[u].to
  BY <1>1 DEF Edges, Statuses, Closed
<1>3. status \in Closed => to = "in_review"
  BY <1>1, <1>2 DEF Edges, Closed
<1>4. CASE to \in {"action_planned", "accepted", "resolved"}
  <2>1. FulfilClocks({"assessment", "decision"} \intersect Profile[priority])
    BY <1>1, <1>2, <1>3, <1>4 DEF TransitionClocks
  <2> QED
    BY <2>1 DEF FulfilClocks
<1>5. CASE to = "not_affected"
  <2>1. FulfilClocks({"assessment"} \intersect Profile[priority])
    BY <1>1, <1>2, <1>3, <1>5 DEF TransitionClocks
  <2> QED
    BY <2>1 DEF FulfilClocks
<1>6. CASE to \notin {"action_planned", "accepted", "resolved", "not_affected"}
  <2>1. clocks' = clocks
    BY <1>1, <1>2, <1>6 DEF TransitionClocks, ResetClocks, ClocksUnchanged, slaVars
  <2> QED
    BY <1>1, <1>2, <1>6, <2>1 DEF Decided, Closed
<1> QED
  BY <1>4, <1>5, <1>6

\* Nothing else takes a met clock back.
LEMMA MetStays ==
    ASSUME TriageInv, [Next]_vars, \A u \in Users : ~TransitionSignal(u)
    PROVE  /\ clocks \subseteq clocks' /\ met \subseteq met'
           /\ status' = status \/ status' = "in_review"
<1> DEFINE Stays == /\ clocks \subseteq clocks' /\ met \subseteq met'
                    /\ status' = status \/ status' = "in_review"
<1> USE DEF slaVars, row, ClocksUnchanged
<1>1. ASSUME NEW u \in Users, AcknowledgeSignal(u) PROVE Stays
  BY <1>1 DEF AcknowledgeSignal, SetStatus, FulfilClocks
<1>2. ASSUME NEW u \in Users, OverridePriority(u) PROVE Stays
  BY <1>2 DEF OverridePriority, UpgradeClocks
<1>3. ASSUME NEW u \in Users, RevertPriority(u) \/ AssignOwner(u) PROVE Stays
  BY <1>3 DEF RevertPriority, AssignOwner
<1>4. ASSUME NEW u \in Users, ReadForCommand(u) \/ CommandFails(u) PROVE Stays
  BY <1>4 DEF ReadForCommand, CommandFails
<1>5. ASSUME NEW t \in SlaTargets, PauseSla(t) \/ ResumeSla(t) PROVE Stays
  BY <1>5 DEF PauseSla, ResumeSla
<1>6. ASSUME NEW k \in Recomputers, ReadForRecompute(k) PROVE Stays
  BY <1>6 DEF ReadForRecompute
<1>7. ASSUME NEW k \in Recomputers, RecomputePriority(k) PROVE Stays
  BY <1>7, WhatRecomputesWrite DEF UpgradeClocks, TriageInv
<1>8. ASSUME NEW e \in Evaluators, Evaluator(e) PROVE Stays
  BY <1>8 DEF Evaluator, EvaluateSla, EscalateSignal, RemindEscalatedSignal
<1>9. CASE NotificationDelivered \/ DeadlinePasses \/ WindowElapses
  BY <1>9 DEF NotificationDelivered, DeadlinePasses, WindowElapses
<1>10. CASE UNCHANGED vars
  BY <1>10 DEF vars
<1> QED
  BY <1>1, <1>2, <1>3, <1>4, <1>5, <1>6, <1>7, <1>8, <1>9, <1>10 DEF Next, Command

\* DecidedIsAssessed under the profile it is about: with an assessment clock at
\* every priority, as domain/sla.go has it, a signal that is planned or closed
\* has met it, whatever was paused, overridden or recomputed on the way
\* (applyTransitionClocks).
THEOREM DecisionsAreAssessed ==
    ASSUME \A p \in Priorities : "assessment" \in Profile[p]
    PROVE  Spec => []DecidedIsAssessed
<1>1. Init => AssessedOK
  BY DEF Init, AssessedOK, DecidedIsAssessed, Closed
<1>2. TriageInv /\ AssessedOK /\ [Next]_vars => AssessedOK'
  <2> SUFFICES ASSUME TriageInv, AssessedOK, [Next]_vars PROVE AssessedOK'
    OBVIOUS
  <2>1. CASE \E u \in Users : TransitionSignal(u)
    BY <2>1, TransitionAssesses DEF TriageInv, TypeOK, AssessedOK, DecidedIsAssessed, Decided
  <2>2. CASE \A u \in Users : ~TransitionSignal(u)
    BY <2>2, MetStays DEF AssessedOK, DecidedIsAssessed, Closed
  <2> QED
    BY <2>1, <2>2
<1>3. AssessedOK => DecidedIsAssessed
  BY DEF AssessedOK
<1> QED
  BY <1>1, <1>2, <1>3, LockProtects, PTL DEF Spec
===============================================================================
