---------------------------- MODULE MCFullSetIngest ----------------------------
(* FullSetIngest for TLC: the jobs are the revisions the source publishes. *)
EXTENDS FullSetIngest

Revisions == 1..LastRevision
===============================================================================
