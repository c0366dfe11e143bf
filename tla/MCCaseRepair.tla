---------------------------- MODULE MCCaseRepair ----------------------------
(* Values for the constants of CaseRepair in the runs of TLC.                *)
EXTENDS CaseRepair, TLC

CONSTANTS p1, p2

Sym == Permutations(Proc)
=============================================================================
