------------------------------ MODULE RestoreLab ------------------------------
(***************************************************************************)
(* scripts/lab_restore_sql.py: load a staged backup into a new MySQL container *)
(* of a disposable machine, qualify it, and migrate its SmartInstall schema    *)
(* with Flyway.  Five commands of one operator, each of them a long procedure  *)
(* without a failure path: what a failing or killed command leaves behind is   *)
(* what the next one finds, and the files in BASE tell it how far things are.  *)
(* By then the children of a killed command (docker, mysql, java) have ended.  *)
(***************************************************************************)
EXTENDS RestorePrepare

CONSTANTS
    Order,       \* the databases in the order of DATABASES: SmartInstall is the last one
    Approved,    \* the archive of EXPECTED_ARCHIVE_SHA256
    Version,     \* migrations whose shipped source may differ from the recorded one
    Known,       \* those of them the operator accepts (2.4, 2.13, 4.5)
    MaxCommands  \* bound: commands of the operator

ASSUME LabAssumption ==
    /\ Order \in Seq(Database) /\ {Order[i] : i \in DOMAIN Order} = Database /\ Order # <<>>
    /\ \A i, j \in DOMAIN Order : Order[i] = Order[j] => i = j
    /\ Approved \in Backup /\ Known \subseteq Version
    /\ MaxCommands \in Nat

Last == Len(Order)
Smart == Order[Last]

VARIABLES
    lab,       \* next step of the command, and the database it is at
    base,      \* does BASE exist
    input,     \* the copies in BASE/input
    file,      \* the other files in BASE: absent, cut off or whole
    cnf,       \* the importers' option files in BASE
    server,    \* none, volume, container (starting), ready
    db,        \* absent, empty, part (an import was cut off) or loaded
    importer,  \* the importers' accounts: none, open, locked
    upg,       \* the table upg_setting, which the dump of SmartInstall needs and lacks
    history,   \* flyway_schema_history: its rows, and the checksums repair replaced
    differs,   \* versions whose checksums in the history differ from the shipped sources
    named,     \* versions flyway-migrate.error names
    saved,     \* the history that was saved before the repair
    commands   \* commands so far

restored == <<input, cnf, db, importer, upg>>
migrated == <<history, differs, named, saved>>
labVars  == <<lab, base, file, server, restored, migrated, commands>>

Kept   == {"credentials", "qualification", "prerequisite", "runner", "error", "snapshot",
           "migration"}
Rested == [at |-> "idle", turn |-> 1]
Old    == [rows |-> "old", changed |-> {}]

LabInit ==
    /\ lab = Rested /\ base = FALSE /\ commands = 0
    /\ input = [n \in Name |-> Nothing]
    /\ file = [f \in Kept |-> "absent"] /\ cnf = [d \in Database |-> "absent"]
    /\ server = "none" /\ upg = FALSE
    /\ db = [d \in Database |-> "absent"] /\ importer = [d \in Database |-> "none"]
    /\ history = Old /\ named = {} /\ saved = Nothing
    /\ differs = {}

Command(here) ==
    /\ lab.at = "idle" /\ commands < MaxCommands /\ commands' = commands + 1
    /\ lab' = here

At(here) == lab.at = here /\ UNCHANGED <<prepareVars, commands>>
To(there) == lab' = [lab EXCEPT !.at = there]

-----------------------------------------------------------------------------
(* qualified_main: the initial restore.                                      *)

\* A manifest of the approved archive, and files with the checksums it gives.
Verified ==
    /\ stage.file["manifest"] = [of |-> Approved, whole |-> TRUE]
    /\ \A d \in Database : stage.file[d] = [of |-> Approved, whole |-> TRUE]

\* Fault: the files are not compared with the manifest.
RestoreUnverified ==
    /\ Command([Rested EXCEPT !.at = "base"])
    /\ ~base /\ server = "none" /\ ManifestSettled /\ stage.file["manifest"] # Nothing
    /\ UNCHANGED <<prepareVars, base, file, server, restored, migrated>>

\* Nothing of an earlier restore may exist.  The operator gives it the directory of a
\* command that has ended.
Restore ==
    /\ Command([Rested EXCEPT !.at = "base"])
    /\ ~base /\ server = "none" /\ Verified /\ ManifestSettled
    /\ UNCHANGED <<prepareVars, base, file, server, restored, migrated>>

MakeBase ==
    /\ At("base") /\ To("copy") /\ base' = TRUE
    /\ UNCHANGED <<file, server, restored, migrated>>

\* The source is read again, after it was verified.
CopyInput ==
    /\ At("copy") /\ To("credentials") /\ input' = stage.file
    /\ UNCHANGED <<base, file, server, cnf, db, importer, upg, migrated>>

WriteCredentials ==
    /\ At("credentials") /\ To("configs") /\ file' = [file EXCEPT !["credentials"] = "whole"]
    /\ UNCHANGED <<base, server, restored, migrated>>

\* One option file per importer, that of SmartInstall last.
WriteConfig ==
    /\ At("configs") /\ cnf' = [cnf EXCEPT ![Order[lab.turn]] = "whole"]
    /\ lab' = IF lab.turn = Last THEN [at |-> "volume", turn |-> 1]
              ELSE [lab EXCEPT !.turn = @ + 1]
    /\ UNCHANGED <<base, file, server, input, db, importer, upg, migrated>>

CreateVolume ==
    /\ At("volume") /\ To("run") /\ server' = "volume"
    /\ UNCHANGED <<base, file, restored, migrated>>

RunContainer ==
    /\ At("run") /\ To("wait") /\ server' = "container"
    /\ UNCHANGED <<base, file, restored, migrated>>

\* MySQL comes up in its own time.
MysqlReady ==
    /\ server = "container" /\ server' = "ready"
    /\ UNCHANGED <<prepareVars, lab, base, file, restored, migrated, commands>>

\* SELECT 1 succeeds.
WaitMysql ==
    /\ At("wait") /\ To("create") /\ server = "ready"
    /\ UNCHANGED <<base, file, server, restored, migrated>>

D == Order[lab.turn]

CreateDatabase ==
    /\ At("create") /\ To("import")
    /\ db' = [db EXCEPT ![D] = "empty"] /\ importer' = [importer EXCEPT ![D] = "open"]
    /\ UNCHANGED <<base, file, server, input, cnf, upg, migrated>>

\* The dump of SmartInstall has a view on the table that the backup leaves out.
Importable ==
    /\ server = "ready" /\ cnf[D] = "whole" /\ importer[D] = "open" /\ db[D] # "absent"
    /\ D = Smart => upg

\* mysql ends with success after the last statement of the dump, which drops and
\* creates its tables.
Import ==
    /\ At("import") /\ To("lock") /\ Importable
    /\ db' = [db EXCEPT ![D] = "loaded"]
    /\ UNCHANGED <<base, file, server, input, cnf, importer, upg, migrated>>

LockImporter ==
    /\ At("lock") /\ To("unlink") /\ importer' = [importer EXCEPT ![D] = "locked"]
    /\ UNCHANGED <<base, file, server, input, cnf, db, upg, migrated>>

\* The option file goes when its database is loaded and its account is locked.
UnlinkConfig ==
    /\ At("unlink") /\ cnf' = [cnf EXCEPT ![D] = "absent"]
    /\ lab' = IF lab.turn = Last THEN [lab EXCEPT !.at = "qualify"]
              ELSE [at |-> "create", turn |-> lab.turn + 1]
    /\ UNCHANGED <<base, file, server, input, db, importer, upg, migrated>>

\* The table counts tell an empty schema, and SmartInstall without its prerequisite,
\* from the right ones; an import that was cut off late may pass.
Counted == upg /\ \A d \in Database : db[d] \in {"part", "loaded"}

\* write_qualification: the counts, then the file.
Qualify ==
    /\ At("qualify") /\ To("idle") /\ Counted
    /\ file' = [file EXCEPT !["qualification"] = "whole"]
    /\ UNCHANGED <<base, server, restored, migrated>>

-----------------------------------------------------------------------------
(* resume_smartinstall and recover_smartinstall_prerequisite.                *)

\* An incomplete restore in which only SmartInstall is left to import: its option file
\* is there and no other one.
Resumable ==
    /\ base /\ file["qualification"] = "absent" /\ server \in {"container", "ready"}
    /\ cnf[Smart] # "absent"
    /\ \A d \in Database \ {Smart} : cnf[d] = "absent"

\* The rest is that of the initial restore, for SmartInstall alone.
Resume ==
    /\ Command([at |-> "import", turn |-> Last]) /\ Resumable
    /\ UNCHANGED <<prepareVars, base, file, server, restored, migrated>>

\* The table must be missing and not have been recovered before; its definition is read
\* from the fresh lab schema.
Recover ==
    /\ Command([at |-> "ddl", turn |-> Last])
    /\ base /\ file["credentials"] = "whole" /\ server = "ready"
    /\ file["prerequisite"] = "absent" /\ ~upg
    /\ UNCHANGED <<prepareVars, base, file, server, restored, migrated>>

CreatePrerequisite ==
    /\ At("ddl") /\ To("recovered") /\ db[Smart] # "absent" /\ upg' = TRUE
    /\ UNCHANGED <<base, file, server, input, cnf, db, importer, migrated>>

WritePrerequisite ==
    /\ At("recovered") /\ To("resume")
    /\ file' = [file EXCEPT !["prerequisite"] = "whole"]
    /\ UNCHANGED <<base, server, restored, migrated>>

RecoverResumes ==
    /\ At("resume") /\ To("import") /\ Resumable
    /\ UNCHANGED <<base, file, server, restored, migrated>>

-----------------------------------------------------------------------------
(* migrate_smartinstall and repair_and_migrate_smartinstall.                 *)

\* Only of a qualified restore, once, and from the history the backup came with.
Migrate ==
    /\ Command([Rested EXCEPT !.at = "runner"])
    /\ file["qualification"] # "absent" /\ file["migration"] = "absent"
    /\ file["runner"] = "absent" /\ server = "ready" /\ history.rows = "old"
    /\ UNCHANGED <<prepareVars, base, file, server, restored, migrated>>

\* The migrations of the vendor's archive, whatever they are, and the compiled runner.
BuildRunner ==
    /\ At("runner") /\ To("flyway") /\ file' = [file EXCEPT !["runner"] = "whole"]
    /\ differs' \in SUBSET Version
    /\ UNCHANGED <<base, server, restored, history, named, saved>>

\* Flyway migrates if the checksums of the history are those of its sources.
Flyway ==
    /\ At("flyway") /\ To("compare") /\ differs = {}
    /\ history' = [history EXCEPT !.rows = "new"]
    /\ UNCHANGED <<base, file, server, restored, differs, named, saved>>

\* It names those that are not, or fails in a migration; the error is kept.
FlywayFails ==
    /\ At("flyway") /\ To("idle") /\ file' = [file EXCEPT !["error"] = "whole"]
    /\ \/ differs # {} /\ named' = differs /\ UNCHANGED history
       \/ differs = {} /\ history' = [history EXCEPT !.rows = "mixed"] /\ UNCHANGED named
    /\ UNCHANGED <<base, server, restored, differs, saved>>

\* 122 successful rows, and the other schemas as they were.
Compare ==
    /\ At("compare") /\ To("evidence") /\ history.rows = "new"
    /\ UNCHANGED <<base, file, server, restored, migrated>>

WriteEvidence ==
    /\ At("evidence") /\ To("idle") /\ file' = [file EXCEPT !["migration"] = "whole"]
    /\ UNCHANGED <<base, server, restored, migrated>>

\* Only after a migration that failed for exactly the differences that are accepted.
Repair ==
    /\ Command([Rested EXCEPT !.at = "snapshot"])
    /\ file["runner"] # "absent" /\ file["error"] # "absent" /\ file["migration"] = "absent"
    /\ named = Known /\ server = "ready" /\ history.rows = "old"
    /\ UNCHANGED <<prepareVars, base, file, server, restored, migrated>>

\* Fault: an earlier snapshot is replaced.
SaveHistoryAgain ==
    /\ At("snapshot") /\ To("repair") /\ saved' = history
    /\ file' = [file EXCEPT !["snapshot"] = "whole"]
    /\ UNCHANGED <<base, server, restored, history, differs, named>>

\* O_EXCL: a history is saved once.
SaveHistory ==
    /\ At("snapshot") /\ To("repair") /\ file["snapshot"] = "absent" /\ saved' = history
    /\ file' = [file EXCEPT !["snapshot"] = "whole"]
    /\ UNCHANGED <<base, server, restored, history, differs, named>>

\* repair() takes over the checksums of the sources, whichever differ; then migrate().
RepairAndMigrate ==
    /\ At("repair") /\ To("examine")
    /\ history' = [rows |-> "new", changed |-> differs]
    /\ UNCHANGED <<base, file, server, restored, differs, named, saved>>

\* Fault: which checksums changed is not examined.
ExamineRowsOnly ==
    /\ At("examine") /\ To("evidence") /\ history.rows = "new"
    /\ UNCHANGED <<base, file, server, restored, migrated>>

\* The old rows are unchanged but for the checksums of the versions the error names.
Examine ==
    /\ At("examine") /\ To("evidence") /\ history.rows = "new"
    /\ history.changed = named
    /\ UNCHANGED <<base, file, server, restored, migrated>>

-----------------------------------------------------------------------------
(* What goes wrong.  No command has a failure path: it just ends.            *)

\* A step whose check refuses.
Raise ==
    /\ To("idle")
    /\ \/ At("resume") /\ ~Resumable /\ UNCHANGED <<file, db>>
       \/ At("ddl") /\ db[Smart] = "absent" /\ UNCHANGED <<file, db>>
       \/ At("snapshot") /\ file["snapshot"] # "absent" /\ UNCHANGED <<file, db>>
       \/ At("examine") /\ history.changed # named /\ UNCHANGED <<file, db>>
       \/ At("qualify") /\ (\E d \in Database : db[d] # "loaded") /\ UNCHANGED <<file, db>>
       \/ /\ At("import") /\ ~Importable /\ UNCHANGED file
          /\ db' = IF D = Smart /\ ~upg /\ importer[D] = "open" /\ db[D] # "absent"
                   THEN [db EXCEPT ![D] = "part"] ELSE db
    /\ UNCHANGED <<base, server, input, cnf, importer, upg, migrated>>

\* The file a step writes, which is created first and written then.
Writes == [credentials |-> "credentials", qualify |-> "qualification",
           recovered |-> "prerequisite", runner |-> "runner", flyway |-> "error",
           snapshot |-> "snapshot", evidence |-> "migration"]

\* A command that fails, or is killed, may have done a part of its step.  A file that is
\* cut off names some of the versions, and holds some of the rows.
CutShort ==
    /\ \/ lab.at = "copy" /\ input' = [n \in Name |-> [stage.file[n] EXCEPT !.whole = FALSE]]
       \/ UNCHANGED input
    /\ \/ lab.at = "configs" /\ cnf' = [cnf EXCEPT ![D] = "part"]
       \/ UNCHANGED cnf
    /\ \/ lab.at = "create" /\ db' = [db EXCEPT ![D] = "empty"]
       \/ lab.at = "import" /\ db[D] # "absent" /\ db' = [db EXCEPT ![D] = "part"]
       \/ UNCHANGED db
    /\ \/ lab.at \in DOMAIN Writes /\ file[Writes[lab.at]] = "absent"
          /\ file' = [file EXCEPT ![Writes[lab.at]] = "part"]
       \/ UNCHANGED file
    /\ \/ lab.at = "flyway" /\ named' \in SUBSET differs
       \/ UNCHANGED named
    /\ \/ lab.at = "flyway" /\ differs = {} /\ \E r \in {"mixed", "new"} :
              history' = [history EXCEPT !.rows = r]
       \/ lab.at = "repair" /\ \E r \in {"old", "mixed", "new"} :
              history' = [rows |-> r, changed |-> differs]
       \/ UNCHANGED history
    /\ \/ lab.at = "base" /\ base' = TRUE
       \/ UNCHANGED base
    /\ \/ lab.at = "volume" /\ server' = "volume"
       \/ lab.at = "run" /\ server' = "container"
       \/ UNCHANGED server

Fail ==
    /\ Fault /\ lab.at # "idle" /\ To("idle") /\ CutShort
    /\ UNCHANGED <<stage, preparing, prepares, importer, upg, saved, differs, commands>>

LabNext ==
    \/ Restore \/ MakeBase \/ CopyInput \/ WriteCredentials \/ WriteConfig \/ CreateVolume
    \/ RunContainer \/ MysqlReady \/ WaitMysql \/ CreateDatabase \/ Import \/ LockImporter
    \/ UnlinkConfig \/ Qualify
    \/ Resume \/ Recover \/ CreatePrerequisite \/ WritePrerequisite \/ RecoverResumes
    \/ Migrate \/ BuildRunner \/ Flyway \/ FlywayFails \/ Compare \/ WriteEvidence
    \/ Repair \/ SaveHistory \/ RepairAndMigrate \/ Examine
    \/ Raise \/ Fail

Init == PrepareInit /\ LabInit
Next == LabNext \/ (PrepareNext /\ UNCHANGED labVars)
Spec == Init /\ [][Next]_<<prepareVars, labVars>>

-----------------------------------------------------------------------------
(* Properties                                                                *)

\* qualification.json, even one that is cut off, stands only for five databases that
\* were each loaded from the whole dump of the approved archive, with every importer
\* locked, whatever failed on the way and whichever command finished the work.
QualifiedIsWhole ==
    file["qualification"] # "absent" =>
        /\ upg
        /\ \A d \in Database : /\ input[d] = [of |-> Approved, whole |-> TRUE]
                               /\ db[d] = "loaded" /\ importer[d] = "locked"
                               /\ cnf[d] = "absent"

\* The history that was saved is the one the backup came with; no checksum is changed
\* before it is saved.
SnapshotIsOriginal ==
    /\ saved \in {Nothing, Old}
    /\ history.changed # {} => saved = Old /\ file["snapshot"] = "whole"

\* migration-qualification.json stands only for a qualified restore whose history was
\* migrated to its end, with no checksum changed or exactly those that are accepted.
MigrationIsTrue ==
    file["migration"] # "absent" =>
        /\ file["qualification"] # "absent" /\ history.rows = "new"
        /\ history.changed \in {{}, Known}
=============================================================================
