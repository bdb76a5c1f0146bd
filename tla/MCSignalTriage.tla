---------------------------- MODULE MCSignalTriage ----------------------------
(* Instances of SignalTriage for TLC. *)
EXTENDS SignalTriage, TLC

\* The two ends of the default profile: P1 has every clock, P4 the assessment
\* clock only (domain/sla.go).
P1P4 == "P1" :> SlaTargets @@ "P4" :> {"assessment"}

\* Users and evaluators are interchangeable.
ActorSymmetry == Permutations(Users) \union Permutations(Evaluators)
===============================================================================
