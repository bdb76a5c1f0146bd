\* Two documents, the older one late.
SPECIFICATION IntakeSpec
CONSTANTS
    Docs = {1, 2}
    CVEs = {"c1", "c2"}
    Statements <- BothCVEs
    Defects <- OneDefect
    IntakeWorkers = {w1}
    Clerks = {k1}
    MaxFetches = 2
    MaxQuarantined = 1
    MaxIntakeFaults = 1
PROPERTY LatestStatementStays
CHECK_DEADLOCK FALSE
