-------------------------- MODULE MCIncrementalIngest --------------------------
(* IncrementalIngest for TLC.  Nothing tells the fetchers apart, and no      *)
(* liveness is checked, so the symmetry is sound.                             *)
EXTENDS IncrementalIngest, TLC

FetcherSymmetry == Permutations(Fetchers)
===============================================================================
