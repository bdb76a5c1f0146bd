\* A stream of commands, pauses and recomputes against the evaluators; no symmetry.
SPECIFICATION FairSpec
CONSTANTS
    Users = {u1}
    Evaluators = {e1, e2}
    Recomputers = {k1}
    Priorities = {"P1", "P4"}
    Profile <- P1P4
    NoPriority = NoPriority
    MaxVersion = 3
    MaxReminders = 0
PROPERTY BreachIsEscalated
CHECK_DEADLOCK FALSE
