------------------------- MODULE MCInventoryMatching -------------------------
(* InventoryMatching for TLC: with content "a" a component is affected, with   *)
(* "b" it is a candidate and not affected, with "c" it is no candidate.       *)
EXTENDS InventoryMatching

Outcomes == [a |-> [v1 |-> "exact"], b |-> [v1 |-> "no_match"], c |-> [v1 |-> "none"]]

\* Two components, and an import for each.
FirstTwo == [c \in {1, 2} |-> "c"]
Files == [i1 |-> [c \in {1} |-> "b"], i2 |-> [c \in {2} |-> "a"]]

\* One component that two imports disagree about.
FirstOne == [c \in {1} |-> "c"]
Disagreement == [i1 |-> [c \in {1} |-> "a"], i2 |-> [c \in {1} |-> "b"]]
===============================================================================
