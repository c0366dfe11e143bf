---------------------------- MODULE RestorePrepare ----------------------------
(***************************************************************************)
(* cmndctl prepare-windows-sql (restore_prepare.py): read a Windows backup,    *)
(* check and rewrite its dumps, and stage them with a manifest in a new        *)
(* directory.  Nothing keeps two processes apart that stage to the same one.   *)
(***************************************************************************)
EXTENDS SqlPreparation

CONSTANTS
    Preparer,     \* processes
    Backup,       \* archives
    Databases,    \* the databases in the order of their files (sorted)
    Dump,         \* the text of each database in each archive
    Definers,     \* how many definers a database is known to have
    WithHistory,  \* databases with a migration history
    Nothing,
    MaxPrepares,  \* bound: commands
    MaxFaults     \* bound: failing or killed steps

Staging == [of: Backup, whole: BOOLEAN]

ASSUME PrepareAssumption ==
    /\ Databases \in Seq(STRING) /\ "manifest" \notin {Databases[i] : i \in DOMAIN Databases}
    /\ \A i, j \in DOMAIN Databases : Databases[i] = Databases[j] => i = j
    /\ Nothing \notin Backup /\ Nothing \notin Staging
    /\ MaxPrepares \in Nat /\ MaxFaults \in Nat

Database == {Databases[i] : i \in DOMAIN Databases}
Files    == Databases \o <<"manifest">>
Name     == {Files[i] : i \in DOMAIN Files}

VARIABLES
    stage,      \* the destination: does it exist, and which archive each file is of
    preparing,  \* next step of each process, its archive, how many files it created
    prepares,   \* commands so far
    faults      \* failing or killed steps so far

prepareVars == <<stage, preparing, prepares, faults>>

Stage   == [exists: BOOLEAN, file: [Name -> {Nothing} \cup Staging]]
Idle    == [at |-> "idle", of |-> Nothing, made |-> 0]

PrepareInit ==
    /\ stage = [exists |-> FALSE, file |-> [n \in Name |-> Nothing]]
    /\ preparing = [p \in Preparer |-> Idle]
    /\ prepares = 0 /\ faults = 0

Fault == faults < MaxFaults /\ faults' = faults + 1

\* Every dump of the archive passes its checks.
Prepared(b) == \A d \in Database : Accepted(Dump[b][d], Definers[d], d \in WithHistory)

Goes(p, here, there) == preparing[p].at = here /\ preparing' = [preparing EXCEPT ![p].at = there]

\* The destination must not exist; then the archive is read, checked and rewritten in
\* memory.  What is refused here changes nothing.
Begin(p, b) ==
    /\ preparing[p].at = "idle" /\ prepares < MaxPrepares /\ prepares' = prepares + 1
    /\ ~stage.exists /\ Prepared(b)
    /\ preparing' = [preparing EXCEPT ![p] = [at |-> "mkdir", of |-> b, made |-> 0]]
    /\ UNCHANGED <<stage, faults>>

\* It may exist by now: that is an error, which the failure path answers too.
Mkdir(p) ==
    /\ IF stage.exists THEN Goes(p, "mkdir", "remove") /\ UNCHANGED stage
       ELSE Goes(p, "mkdir", "create") /\ stage' = [stage EXCEPT !.exists = TRUE]
    /\ UNCHANGED <<prepares, faults>>

File(p) == Files[preparing[p].made + 1]

\* O_EXCL: the file must be new (and the directory still there).
Create(p) ==
    /\ preparing[p].at = "create"
    /\ IF stage.exists /\ stage.file[File(p)] = Nothing
       THEN /\ preparing' = [preparing EXCEPT ![p].at = "write", ![p].made = @ + 1]
            /\ stage' = [stage EXCEPT !.file[File(p)] = [of |-> preparing[p].of, whole |-> FALSE]]
       ELSE preparing' = [preparing EXCEPT ![p].at = "unlink"] /\ UNCHANGED stage
    /\ UNCHANGED <<prepares, faults>>

Write(p) ==
    /\ Goes(p, "write", IF preparing[p].made = Len(Files) THEN "idle" ELSE "create")
    /\ stage' = [stage EXCEPT !.file[Files[preparing[p].made]] =
                              [of |-> preparing[p].of, whole |-> TRUE]]
    /\ UNCHANGED <<prepares, faults>>

\* The last write may fail after the last byte: the file is whole, the command failed.
WriteFails(p) ==
    /\ Fault /\ Goes(p, "write", "unlink")
    /\ \/ UNCHANGED stage
       \/ stage' = [stage EXCEPT !.file[Files[preparing[p].made]] =
                              [of |-> preparing[p].of, whole |-> TRUE]]
    /\ UNCHANGED prepares

CreateFails(p) ==
    /\ Fault
    /\ Goes(p, "create", "unlink") \/ Goes(p, "mkdir", "remove")
    /\ UNCHANGED <<stage, prepares>>

\* Fault: the files are removed in the order they were created in.
UnlinkForward(p) ==
    LET left == {i \in 1 .. preparing[p].made : stage.file[Files[i]] # Nothing} IN
    /\ IF left = {} THEN Goes(p, "unlink", "remove") /\ UNCHANGED stage
       ELSE /\ preparing[p].at = "unlink" /\ UNCHANGED preparing
            /\ \E i \in left : /\ \A j \in left : i <= j
                               /\ stage' = [stage EXCEPT !.file[Files[i]] = Nothing]
    /\ UNCHANGED <<prepares, faults>>

\* The failure path takes back what this process created, the last file first.
Unlink(p) ==
    /\ IF preparing[p].made = 0 THEN Goes(p, "unlink", "remove") /\ UNCHANGED stage
       ELSE /\ preparing[p].at = "unlink"
            /\ preparing' = [preparing EXCEPT ![p].made = @ - 1]
            /\ stage' = [stage EXCEPT !.file[Files[preparing[p].made]] = Nothing]
    /\ UNCHANGED <<prepares, faults>>

\* Fault: the directory goes with all that is in it.
RemoveTree(p) ==
    /\ Goes(p, "remove", "idle")
    /\ stage' = [exists |-> FALSE, file |-> [n \in Name |-> Nothing]]
    /\ UNCHANGED <<prepares, faults>>

\* rmdir removes the directory if it is empty, whoever made it.
Remove(p) ==
    /\ Goes(p, "remove", "idle")
    /\ IF \A n \in Name : stage.file[n] = Nothing
       THEN stage' = [stage EXCEPT !.exists = FALSE] ELSE UNCHANGED stage
    /\ UNCHANGED <<prepares, faults>>

\* A kill, Ctrl-C, or an unlink that fails: what is there stays.
Abandon(p) ==
    /\ Fault /\ preparing[p].at # "idle"
    /\ preparing' = [preparing EXCEPT ![p].at = "idle"]
    /\ UNCHANGED <<stage, prepares>>

Prepare(p) ==
    \/ \E b \in Backup : Begin(p, b)
    \/ Mkdir(p) \/ Create(p) \/ Write(p) \/ Unlink(p) \/ Remove(p)
    \/ WriteFails(p) \/ CreateFails(p) \/ Abandon(p)

\* No process that created the manifest is still at it.
ManifestSettled ==
    \A p \in Preparer : preparing[p].at \in {"write", "unlink"} => preparing[p].made < Len(Files)

PrepareNext == \E p \in Preparer : Prepare(p)

-----------------------------------------------------------------------------
(* Properties                                                                *)

\* A manifest, even one that is cut off, stands only beside all the files, each of them
\* whole and of the archive the manifest describes, whoever created and removed what.
ManifestVouches ==
    stage.file["manifest"] # Nothing => \A d \in Database :
        stage.file[d] = [of |-> stage.file["manifest"].of, whole |-> TRUE]

\* What a command that succeeded has staged is never touched again: the failure path of
\* another one, which could not create the directory, takes nothing out of it.
FinishedStays ==
    [][stage.file["manifest"] # Nothing /\ ManifestSettled => stage' = stage]_prepareVars
=============================================================================
