--------------------------- MODULE MCSourceIntake ----------------------------
(* SourceIntake for TLC: every document has a statement about every CVE, and  *)
(* one statement of the first document cannot be normalised.                   *)
EXTENDS SourceIntake

BothCVEs == [d \in Docs |-> CVEs]
OneDefect == {<<1, "c1">>}

FairIntake == IntakeSpec /\ IntakeFairness
===============================================================================
