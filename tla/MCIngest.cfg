\* Each way into the database, on an instance of its own.
SPECIFICATION IngestSpec
CONSTANTS
    \* FullSetIngest: two concurrent fetchers, three revisions, two failures.
    Fetchers = {f1, f2}
    LastRevision = 3
    Jobs <- Revisions
    MaxFailures = 2
    \* KevCatalog: no more than one catalog waits to be normalised.
    Listed <- CatalogSeries
    KevCVEs = {"a", "b", "c"}
    KevWorkers = {w1, w2}
    MaxPutOff = 2
    MaxBacklog = 1
    \* SourceIntake: one document, fetched twice, with a defect two clerks handle.
    Docs = {1}
    CVEs = {"c1", "c2"}
    Statements <- BothCVEs
    Defects <- OneDefect
    IntakeWorkers = {w1}
    Clerks = {k1, k2}
    MaxFetches = 2
    MaxQuarantined = 2
    MaxIntakeFaults = 1
    \* SourceSchedule: two schedulers and a manual trigger.
    Sources = {1, 2, 3}
    Period <- Periods
    Scanners = {w1, w2}
    Requests = {r1}
    RequestFor <- AllForFirst
    LastTick = 1
    MaxSwitches = 1
    MaxScanFaults = 1
INVARIANTS FactorFollowsCatalog NothingDropped ScansNeverDeadlock
PROPERTIES LastRevisionSettles StoredIsNormalised CurrentSlotIsServed
CHECK_DEADLOCK FALSE
