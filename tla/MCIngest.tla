------------------------------- MODULE MCIngest -------------------------------
(* The ways into the database, for TLC: fetch jobs, full-set files, the KEV    *)
(* catalog and the passes over raw records.  Each behaviour runs one of them:  *)
(* they hand each other rows and jobs that wait in the database.               *)
EXTENDS MCFullSetIngest, MCKevCatalog, MCSourceIntake, SourceSchedule

VARIABLE way    \* the way this behaviour goes

(* SourceSchedule: a source without a schedule, a fast and a slow one. *)
Periods == [s \in Sources |-> IF s = 3 THEN 0 ELSE s]
AllForFirst == [r \in Requests |-> 1]

IngestInit == /\ way \in {"fullset", "kev", "intake", "schedule"}
              /\ Init /\ KevInit /\ IntakeInit /\ ScheduleInit

IngestNext ==
    \/ /\ way = "fullset" /\ Next
       /\ UNCHANGED <<way, kevVars, intakeVars, scheduleVars>>
    \/ /\ way = "kev" /\ KevNext
       /\ UNCHANGED <<way, vars, intakeVars, scheduleVars>>
    \/ /\ way = "intake" /\ IntakeNext
       /\ UNCHANGED <<way, vars, kevVars, scheduleVars>>
    \/ /\ way = "schedule" /\ ScheduleNext
       /\ UNCHANGED <<way, vars, kevVars, intakeVars>>

ingestVars == <<way, vars, kevVars, intakeVars, scheduleVars>>

(* The fairness of each module, in the behaviours that run it. *)
IngestFairness ==
    /\ \A f \in Fetchers : WF_vars(way = "fullset" /\ FetchStep(f))
    /\ \A r \in Jobs : WF_vars(way = "fullset" /\ Settle(r))
    /\ \A w \in IntakeWorkers : /\ WF_intakeVars(way = "intake" /\ IntakeStep(w))
                                 /\ WF_intakeVars(way = "intake" /\ StartPass(w))
    /\ \A w \in Scanners : WF_scheduleVars(way = "schedule" /\ Scan(w))
    /\ \A a \in Appenders : WF_scheduleVars(way = "schedule" /\ Statement(a))

IngestSpec == IngestInit /\ [][IngestNext]_ingestVars /\ IngestFairness
===============================================================================
