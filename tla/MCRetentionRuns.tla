--------------------------- MODULE MCRetentionRuns ---------------------------
(* RetentionRuns for TLC: every run has a plan of its own.                    *)
EXTENDS RetentionRuns

OwnPlans == [r \in Runs |-> r]
===============================================================================
