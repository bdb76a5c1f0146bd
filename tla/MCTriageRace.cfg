\* Two users, two evaluators and a recompute job race for one row.
SPECIFICATION Spec
CONSTANTS
    Users = {u1, u2}
    Evaluators = {e1, e2}
    Recomputers = {k1}
    Priorities = {"P1", "P4"}
    Profile <- P1P4
    NoPriority = NoPriority
    MaxVersion = 3
    MaxReminders = 1
SYMMETRY ActorSymmetry
INVARIANTS DecidedIsAssessed EscalatedOnce
PROPERTIES StatusFollowsMatrix OverrideSurvives
CHECK_DEADLOCK FALSE
