------------------------------ MODULE MCMatching ------------------------------
(* What is made of the imported rows, for TLC: matches of the inventory and    *)
(* recomputed priorities.  Each behaviour runs one of the two, which share no   *)
(* row but through signals that neither changes for the other.                 *)
EXTENDS MCInventoryMatching, MCRecomputeFanIn

VARIABLE part    \* the part this behaviour runs

MatchingInit == /\ part \in {"matching", "recompute"}
                /\ MatchInit /\ FanInInit

MatchingNext ==
    \/ /\ part = "matching" /\ MatchNext
       /\ UNCHANGED <<part, recomputeVars>>
    \/ /\ part = "recompute" /\ FanInNext
       /\ UNCHANGED <<part, matchVars>>

matchingVars == <<part, matchVars, recomputeVars>>

(* The fairness of each module, in the behaviours that run it. *)
MatchingFairness ==
    /\ \A w \in RebuildWorkers : /\ WF_matchVars(part = "matching" /\ StartRebuild(w))
                                  /\ WF_matchVars(part = "matching" /\ Rebuild(w))
    /\ WF_recomputeVars(part = "recompute" /\ PublishPriorityRules)
    /\ \A p \in FanIns :
         WF_recomputeVars(part = "recompute" /\ EnqueueForVulnerabilities(p))
    /\ \A w \in RecomputeWorkers : WF_recomputeVars(part = "recompute" /\ Worker(w))

MatchingSpec == MatchingInit /\ [][MatchingNext]_matchingVars /\ MatchingFairness
===============================================================================
