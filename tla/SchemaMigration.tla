--------------------------- MODULE SchemaMigration ---------------------------
(***************************************************************************)
(* The migration runner of adapters/postgres/migrate.  Several processes   *)
(* migrate one database at once, each with the files embedded in its       *)
(* binary: goose applies them under a session lock, one transaction a      *)
(* migration, and the runner keeps its own log of checksums beside it,     *)
(* before and after and outside the lock.                                  *)
(*                                                                         *)
(* A file is its checksum.  A dry run writes nothing and is left out.      *)
(***************************************************************************)
EXTENDS Naturals, FiniteSetsExt

CONSTANTS Runners,       \* processes that migrate
          Versions,      \* the versions of the migration files
          FilesOf,       \* FilesOf[r]: [version -> checksum] of r's binary
          MaxRuns,       \* bound on the runs that are started
          MaxSchemaFaults     \* bound on crashes, lost connections, failing migrations

ASSUME MigrationAssumption ==
    /\ Versions \subseteq Nat \ {0} /\ MaxRuns \in Nat /\ MaxSchemaFaults \in Nat
    /\ \A r \in Runners : DOMAIN FilesOf[r] \subseteq Versions

VARIABLES executed,      \* goose_db_version: version -> checksum of what was run
          checksumLog,   \* schema_migration_log: version -> checksum
          gooseLock,     \* the session advisory lock: at most one runner
          migration,     \* migration[r]: r's run
          runs, schemaFaults

schemaVars == <<executed, checksumLog, gooseLock, migration, runs, schemaFaults>>

Unwritten == "unwritten"
Written(table) == {v \in Versions : table[v] # Unwritten}

MigrationStages == {"idle", "verified", "up", "record", "reread", "find", "recover", "done", "failed"}

\* todo: the versions that are left to the current stage; mine: those that
\* goose has applied in this run; broken: goose has stopped with an error.
Run(stage, todo, mine, broken) == [stage |-> stage, todo |-> todo, mine |-> mine, broken |-> broken]
At(r, stage) == migration[r].stage = stage
Goto(r, run) == migration' = [migration EXCEPT ![r] = run]
Ended(stage) == Run(stage, {}, {}, FALSE)

FileChecksums == UNION {{FilesOf[r][v] : v \in DOMAIN FilesOf[r]} : r \in Runners}
ASSUME ChecksumAssumption == Unwritten \notin FileChecksums

SchemaTypeOK ==
    /\ {executed, checksumLog} \subseteq [Versions -> FileChecksums \union {Unwritten}]
    /\ gooseLock \subseteq Runners
    /\ \A r \in Runners : /\ migration[r].stage \in MigrationStages
                          /\ migration[r].todo \union migration[r].mine \subseteq Versions

SchemaInit ==
    /\ executed = [v \in Versions |-> Unwritten]
    /\ checksumLog = [v \in Versions |-> Unwritten]
    /\ gooseLock = {}
    /\ migration = [r \in Runners |-> Ended("idle")]
    /\ runs = 0 /\ schemaFaults = 0

-------------------------------------------------------------------------------
(* verifyApplied and goose. *)

\* Every logged version is among the files, unchanged.
Verified(r) == \A v \in Written(checksumLog) : v \in DOMAIN FilesOf[r] /\ FilesOf[r][v] = checksumLog[v]

Migrate(r) ==
    /\ migration[r].stage \in {"idle", "done", "failed"} /\ runs < MaxRuns
    /\ runs' = runs + 1
    /\ Goto(r, Ended(IF Verified(r) THEN "verified" ELSE "failed"))
    /\ UNCHANGED <<executed, checksumLog, gooseLock, schemaFaults>>

Pending(r) == DOMAIN FilesOf[r] \ Written(executed)

\* A file below the highest applied version that was never applied.
OutOfOrder(r) == \E v \in Pending(r), w \in Written(executed) : v < w

\* Goose reads its table once it holds the lock.
UpLocks(r) ==
    /\ At(r, "verified") /\ gooseLock = {}
    /\ IF OutOfOrder(r)
       THEN Goto(r, Ended("failed")) /\ UNCHANGED gooseLock
       ELSE Goto(r, Run("up", Pending(r), {}, FALSE)) /\ gooseLock' = {r}
    /\ UNCHANGED <<executed, checksumLog, runs, schemaFaults>>

\* The wait for the lock is bounded.
UpTimesOut(r) ==
    /\ At(r, "verified") /\ gooseLock # {}
    /\ Goto(r, Ended("failed"))
    /\ UNCHANGED <<executed, checksumLog, gooseLock, runs, schemaFaults>>

\* One transaction: the statements of the file and goose's row.
UpApplies(r) ==
    /\ At(r, "up") /\ migration[r].todo # {}
    /\ LET v == Min(migration[r].todo) IN
         /\ executed' = [executed EXCEPT ![v] = FilesOf[r][v]]
         /\ Goto(r, [migration[r] EXCEPT !.todo = @ \ {v}, !.mine = @ \union {v}])
    /\ UNCHANGED <<checksumLog, gooseLock, runs, schemaFaults>>

UpReturns(r) ==
    /\ At(r, "up") /\ migration[r].todo = {}
    /\ gooseLock' = {}
    /\ Goto(r, Run("record", migration[r].mine, migration[r].mine, FALSE))
    /\ UNCHANGED <<executed, checksumLog, runs, schemaFaults>>

\* A migration fails: goose reports the ones before it (PartialError), which
\* are recorded before the run fails.
UpBreaksOff(r) ==
    /\ At(r, "up") /\ migration[r].todo # {} /\ schemaFaults < MaxSchemaFaults
    /\ gooseLock' = {} /\ schemaFaults' = schemaFaults + 1
    /\ Goto(r, Run("record", migration[r].mine, migration[r].mine, TRUE))
    /\ UNCHANGED <<executed, checksumLog, runs>>

-------------------------------------------------------------------------------
(* The checksum log. *)

\* One row a statement, in version order; a row that exists is left alone.
InsertRow(r) ==
    LET v == Min(migration[r].todo) IN
    /\ checksumLog' = [checksumLog EXCEPT ![v] = IF @ = Unwritten THEN FilesOf[r][v] ELSE @]
    /\ Goto(r, [migration[r] EXCEPT !.todo = @ \ {v}])

RecordApplied(r) ==
    /\ At(r, "record")
    /\ IF migration[r].todo # {} THEN InsertRow(r)
       ELSE Goto(r, Ended(IF migration[r].broken THEN "failed" ELSE "reread")) /\ UNCHANGED checksumLog
    /\ UNCHANGED <<executed, gooseLock, runs, schemaFaults>>

\* Mutant of RereadLog: what this run has applied is all there is to record.
RereadNothing(r) ==
    /\ At(r, "reread")
    /\ Goto(r, Ended("done"))
    /\ UNCHANGED <<executed, checksumLog, gooseLock, runs, schemaFaults>>

RereadLog(r) ==
    /\ At(r, "reread")
    /\ Goto(r, Run("find", Written(checksumLog), {}, FALSE))
    /\ UNCHANGED <<executed, checksumLog, gooseLock, runs, schemaFaults>>

\* Goose's table is read later than the log; what goose has beyond it is to be
\* recorded, whichever run has applied it, unless the file is unknown.
FindUnlogged(r) ==
    /\ At(r, "find")
    /\ LET missing == Written(executed) \ migration[r].todo IN
         Goto(r, IF missing \subseteq DOMAIN FilesOf[r] THEN Run("recover", missing, {}, FALSE)
                 ELSE Ended("failed"))
    /\ UNCHANGED <<executed, checksumLog, gooseLock, runs, schemaFaults>>

RecordUnlogged(r) ==
    /\ At(r, "recover")
    /\ IF migration[r].todo # {} THEN InsertRow(r)
       ELSE Goto(r, Ended("done")) /\ UNCHANGED checksumLog
    /\ UNCHANGED <<executed, gooseLock, runs, schemaFaults>>

-------------------------------------------------------------------------------

\* The process dies, or a statement outside goose fails and ends the run; the
\* lock goes with the session.
RunBreaks(r) ==
    /\ migration[r].stage \notin {"idle", "done", "failed"} /\ schemaFaults < MaxSchemaFaults
    /\ schemaFaults' = schemaFaults + 1
    /\ Goto(r, Ended("failed")) /\ gooseLock' = gooseLock \ {r}
    /\ UNCHANGED <<executed, checksumLog, runs>>

SchemaNext == \E r \in Runners :
    \/ Migrate(r) \/ UpLocks(r) \/ UpTimesOut(r) \/ UpApplies(r) \/ UpReturns(r) \/ UpBreaksOff(r)
    \/ RecordApplied(r) \/ RereadLog(r) \/ FindUnlogged(r) \/ RecordUnlogged(r) \/ RunBreaks(r)

SchemaSpec == SchemaInit /\ [][SchemaNext]_schemaVars

-------------------------------------------------------------------------------
(* Properties *)

\* A run that succeeds leaves all its files applied and in the log, whichever
\* run applied them and wherever that one broke off, and so protected against
\* later changes (runner.go, Migrate: "Close the crash window").
SuccessLogsAll ==
    \A r \in Runners : At(r, "done") =>
        DOMAIN FilesOf[r] \subseteq Written(executed) \intersect Written(checksumLog)

\* runner.go: "any divergence aborts before goose executes anything".  The log
\* is verified before the lock is taken and may have grown when it is.
DivergenceAborts ==
    \A r \in Runners : migration[r].mine # {} =>
        \A v \in Written(checksumLog) \ migration[r].mine :
            v \in DOMAIN FilesOf[r] => FilesOf[r][v] = checksumLog[v]

\* recordUnlogged: a row that was lost is recorded "so its checksum is protected
\* from then on".  It is the checksum of the file at hand, not of what was run.
LogTellsWhatRan == \A v \in Written(checksumLog) : checksumLog[v] = executed[v]
===============================================================================
