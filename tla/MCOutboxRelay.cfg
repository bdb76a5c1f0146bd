\* Two workers, two rows (the second of a type without a handler), batches of
\* two, two attempts, three faults; no symmetry, for liveness is checked.
SPECIFICATION FairSpec
CONSTANTS
    NoRow = NoRow
    Workers = {w1, w2}
    Rows = {1, 2}
    Registered = {1}
    BatchSize = 2
    MaxAttempts = 2
    MaxFaults = 3
INVARIANTS TypeOK SettledForCause RedeliveryBound OverlapNeedsFault
PROPERTIES TerminalIsFinal EveryRowSettles ImplementsJobQueue
CHECK_DEADLOCK FALSE
