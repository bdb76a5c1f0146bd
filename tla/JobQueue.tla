------------------------------- MODULE JobQueue -------------------------------
(***************************************************************************)
(* What the outbox promises the rest of RiskSignal (ARCH-001 section 2): a *)
(* job that was enqueued by a committed transaction is kept until it is    *)
(* settled, it is settled once, it is only called done if some delivery of *)
(* it succeeded, and every enqueued job is settled in the end.  Deliveries *)
(* may be repeated and may even come after the job was settled: the queue  *)
(* promises at-least-once, never exactly-once.                             *)
(***************************************************************************)

CONSTANT Jobs   \* identities of the jobs

VARIABLES phase,    \* phase[j]: where the job stands
          handled   \* handled[j]: some handler run for j has succeeded

jqVars == <<phase, handled>>

Settled == {"done", "failed"}

JQTypeOK == /\ phase \in [Jobs -> {"absent", "queued"} \union Settled]
            /\ handled \in [Jobs -> BOOLEAN]

JQInit == /\ phase = [j \in Jobs |-> "absent"]
          /\ handled = [j \in Jobs |-> FALSE]

Enqueue(j) == /\ phase[j] = "absent"
              /\ phase' = [phase EXCEPT ![j] = "queued"]
              /\ UNCHANGED handled

\* A handler run succeeds; a worker that was overtaken may still do so after
\* another one settled the job.
Handle(j) == /\ phase[j] # "absent"
             /\ handled' = [handled EXCEPT ![j] = TRUE]
             /\ UNCHANGED phase

Complete(j) == /\ phase[j] = "queued"
               /\ handled[j]
               /\ phase' = [phase EXCEPT ![j] = "done"]
               /\ UNCHANGED handled

Abandon(j) == /\ phase[j] = "queued"
              /\ phase' = [phase EXCEPT ![j] = "failed"]
              /\ UNCHANGED handled

JQNext == \E j \in Jobs : Enqueue(j) \/ Handle(j) \/ Complete(j) \/ Abandon(j)

JQSafeSpec == JQInit /\ [][JQNext]_jqVars

JQSpec == JQSafeSpec /\ \A j \in Jobs : WF_jqVars(Complete(j) \/ Abandon(j))
===============================================================================
