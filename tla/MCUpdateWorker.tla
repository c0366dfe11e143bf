--------------------------- MODULE MCUpdateWorker ---------------------------
(* Values for the constants of UpdateWorker in the runs of TLC.              *)
EXTENDS UpdateWorker, TLC

CONSTANTS c1, svc, tomcat, php

Sym == Permutations({tomcat, php})
=============================================================================
