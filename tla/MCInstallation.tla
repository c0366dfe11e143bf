---------------------------- MODULE MCInstallation ----------------------------
(* Values for the constants of Installation in the runs of TLC.              *)
EXTENDS Installation, TLC

CONSTANTS s1, s2, v1, v2, c1, c2

Sym == Permutations({s1, s2}) \cup Permutations({v1, v2}) \cup Permutations({c1, c2})
=============================================================================
