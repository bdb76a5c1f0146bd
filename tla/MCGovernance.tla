------------------------------ MODULE MCGovernance ------------------------------
(* What is kept about signals, for TLC: the deadlines, the audit trail, the   *)
(* exports, the retention runs, the roles of the users and the schema itself. *)
(* Each behaviour runs one of the six modules, which share no row that two    *)
(* of them change.                                                            *)
EXTENDS MCSlaClock, AuditChain, Exports, MCRetentionRuns, UserRoles, SchemaMigration, TLC

(* Two releases that grew apart and one that has both and edits a migration. *)
CONSTANTS main, fix, merged

Branches == (main :> (1 :> "a" @@ 2 :> "b")) @@ (fix :> (1 :> "a" @@ 3 :> "c"))
              @@ (merged :> (1 :> "a" @@ 2 :> "x" @@ 3 :> "c"))

VARIABLE concern    \* the module this behaviour runs

GovernanceInit == /\ concern \in {"clock", "audit", "exports", "retention", "users", "schema"}
                  /\ Init /\ ChainInit /\ ExportInit /\ RetentionInit /\ UsersInit /\ SchemaInit
                  \* One initial state for each concern but its own.
                  /\ concern # "clock" => deadline = TicksPerSecond
                  /\ concern # "audit" => ~chainOn

GovernanceNext ==
    \/ /\ concern = "clock" /\ Next
       /\ UNCHANGED <<concern, chainVars, exportVars, retentionVars, userVars, schemaVars>>
    \/ /\ concern = "audit" /\ ChainNext
       /\ UNCHANGED <<concern, vars, exportVars, retentionVars, userVars, schemaVars>>
    \/ /\ concern = "exports" /\ ExportNext
       /\ UNCHANGED <<concern, vars, chainVars, retentionVars, userVars, schemaVars>>
    \/ /\ concern = "retention" /\ RetentionNext
       /\ UNCHANGED <<concern, vars, chainVars, exportVars, userVars, schemaVars>>
    \/ /\ concern = "users" /\ UsersNext
       /\ UNCHANGED <<concern, vars, chainVars, exportVars, retentionVars, schemaVars>>
    \/ /\ concern = "schema" /\ SchemaNext
       /\ UNCHANGED <<concern, vars, chainVars, exportVars, retentionVars, userVars>>

governanceVars == <<concern, vars, chainVars, exportVars, retentionVars, userVars, schemaVars>>

(* The fairness of each module, in the behaviours that run it. *)
GovernanceFairness ==
    /\ \A g \in Generators : WF_exportVars(concern = "exports" /\ Generate(g))
    /\ \A v \in Sweepers : WF_exportVars(concern = "exports" /\ Sweep(v))
    /\ \A w \in RetentionWorkers :
         WF_retentionVars(concern = "retention" /\ ExecuteRetention(w))

GovernanceSpec == GovernanceInit /\ [][GovernanceNext]_governanceVars /\ GovernanceFairness
===============================================================================
