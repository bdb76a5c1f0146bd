\* Matching and priority recompute, each on an instance of its own.
SPECIFICATION MatchingSpec
CONSTANTS
    \* InventoryMatching: two staged imports and a full import; one page a component.
    Components = {1, 2}
    Vulnerabilities = {"v1"}
    Outcome <- Outcomes
    NoCandidate = "none"
    Imports = {"i1", "i2"}
    File <- Files
    Committers = {a1, a2}
    RebuildWorkers = {w1}
    FirstInventory <- FirstTwo
    PageSize = 1
    MaxFullImports = 1
    MaxCommits = 2
    MaxMatchFaults = 1
    \* RecomputeFanIn: two publications of rules, two fan-ins, a signal.
    Signals = {s1}
    Factors = {"none", "kev"}
    Evaluate <- Evaluated
    FirstFactors = "none"
    RecomputeWorkers = {w1}
    FanIns = {p1, p2}
    MaxVersion = 2
    MaxChanges = 1
    MaxFanIns = 2
    MaxMoves = 1
    MaxJobFaults = 1
PROPERTIES WrittenIsMatched RebuildIsComplete PublishReachesOpenSignals RulesNeverRegress
CHECK_DEADLOCK FALSE
