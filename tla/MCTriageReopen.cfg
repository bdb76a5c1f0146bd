\* Are the clocks a reopen resets there?
SPECIFICATION FairSpec
CONSTANTS
    Users = {u1}
    Evaluators = {}
    Recomputers = {k1}
    Priorities = {"P1", "P4"}
    Profile <- P1P4
    NoPriority = NoPriority
    MaxVersion = 6
    MaxReminders = 0
PROPERTY ReopenResetsItsClocks
CHECK_DEADLOCK FALSE
