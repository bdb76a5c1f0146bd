-------------------------- MODULE MCRecomputeFanIn ---------------------------
(* RecomputeFanIn for TLC: the published rules raise what KEV lists.          *)
EXTENDS RecomputeFanIn

Evaluated == [v \in 0..MaxVersion |->
                 [f \in Factors |-> IF v > 0 /\ f = "kev" THEN "P1" ELSE "P4"]]
===============================================================================
