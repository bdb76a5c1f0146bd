\* Deadlines, audit trail, exports, retention, roles and migrations, each on an
\* instance of its own.
SPECIFICATION GovernanceSpec
CONSTANTS
    \* SlaClock: half-second ticks; durations of one and three seconds.
    TicksPerSecond = 2
    Durations <- ShortAndLong
    NotPaused = NotPaused
    MaxDelay = 1
    MaxTime = 9
    MaxResumes = 3
    \* AuditChain: two writers, three rows, chaining switched once.
    RowIds = {1, 2, 3}
    AuditWriters = {c1, c2}
    RowsPerTx = 1
    MaxInstant = 3
    MaxRestarts = 1
    \* Exports: one export, a job delivered twice at once, two sweeps, a download.
    ExportIds = {e1}
    Generators = {g1, g2}
    Sweepers = {v1, v2}
    Readers = {d1}
    ExportTTL = 1
    MaxExportNow = 3
    MaxVersions = 2
    MaxExportFaults = 1
    MaxOverlaps = 1
    \* RetentionRuns: two batches, and hands that hold, release and reopen.
    Subjects = {1, 2, 3}
    Runs = {1}
    PlanOf <- OwnPlans
    RetentionWorkers = {w1, w2}
    BatchSize = 2
    MaxHolds = 1
    MaxReopens = 1
    MaxRunFaults = 1
    \* UserRoles: two administrators change each other's and their own roles.
    Users = {u1, u2}
    Analyst = analyst
    Admin = admin
    Requests = {q1, q2}
    MaxRequests = 2
    MaxChanges = 3
    \* SchemaMigration: three binaries, three versions, one fault.
    main = main
    fix = fix
    merged = merged
    Runners = {main, fix, merged}
    Versions = {1, 2, 3}
    FilesOf <- Branches
    MaxRuns = 3
    MaxSchemaFaults = 1
INVARIANTS PauseDriftBounded VerifyDecidesChain OrderedChainVerifies StampMatchesArtifact HoldIsHonoured TrailTellsRoles SuccessLogsAll
PROPERTIES CreatedIsGenerated ApprovedRunCloses
CHECK_DEADLOCK FALSE
