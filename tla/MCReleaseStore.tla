--------------------------- MODULE MCReleaseStore ---------------------------
(* Values for the constants of ReleaseStore in the runs of TLC.              *)
EXTENDS ReleaseStore, TLC

CONSTANTS p1, p2, r1, r2, r3

Sym == Permutations(Proc) \cup Permutations(Release)
=============================================================================
