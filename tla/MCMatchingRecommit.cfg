\* Two processes commit one import, another import between them.
SPECIFICATION MatchSpec
CONSTANTS
    Components = {1}
    Vulnerabilities = {"v1"}
    Outcome <- Outcomes
    NoCandidate = "none"
    Imports = {"i1", "i2"}
    File <- Disagreement
    Committers = {a1, a2}
    RebuildWorkers = {w1}
    FirstInventory <- FirstOne
    PageSize = 1
    MaxFullImports = 0
    MaxCommits = 3
    MaxMatchFaults = 0
PROPERTY RecommitChangesNothing
CHECK_DEADLOCK FALSE
