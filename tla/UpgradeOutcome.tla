--------------------------- MODULE UpgradeOutcome ---------------------------
(***************************************************************************)
(* What the updater promises about the installed tooling package, without  *)
(* processes, locks, services or files.  The package is settled at a       *)
(* version (it is installed and the rollback package retained for it       *)
(* matches), busy being replaced, or in need of an operator's review.      *)
(***************************************************************************)
EXTENDS Naturals

CONSTANTS Version,   \* set of release numbers
          Nothing    \* no settled version

VARIABLES phase, version
outcome == <<phase, version>>

Init == \/ phase = "settled" /\ version \in Version
        \/ phase = "review" /\ version = Nothing

\* An attempt starts replacing the package; a settled version is where it
\* goes back to if it fails.
Begin ==
    /\ phase # "busy" /\ phase' = "busy"
    /\ version' \in Version
    /\ phase = "settled" => version' = version

\* The attempt ends where it began, or before it changed anything.
Restore == phase = "busy" /\ phase' = "settled" /\ version' = version

\* The attempt ends with a newer version, installed and retained.
Commit == /\ phase = "busy" /\ phase' = "settled"
          /\ version' \in Version /\ version' > version

\* The attempt and its rollback, or the machine, failed half way.
Abandon == phase = "busy" /\ phase' = "review" /\ version' = Nothing

\* What was left half way ends by itself.
Settle == phase = "review" /\ phase' = "settled" /\ version' \in Version

Next == Begin \/ Restore \/ Commit \/ Abandon \/ Settle

Spec == Init /\ [][Next]_outcome
=============================================================================
