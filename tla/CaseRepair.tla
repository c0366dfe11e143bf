----------------------------- MODULE CaseRepair -----------------------------
(***************************************************************************)
(* cmndctl native-database-case --execute (database_case.py): stop the       *)
(* services that write, take a cold backup of MySQL, switch its table lookup *)
(* on by an option file, verify, and start again what ran before.  It shares *)
(* the services and MySQL with systemd, whose units depend on each other     *)
(* (native_deploy.py, service_units), and with a release update, which takes *)
(* another lock.                                                            *)
(***************************************************************************)
EXTENDS Naturals

CONSTANTS
    Proc,        \* processes an operator may run
    Nothing,     \* no process, no update, no count
    MaxRuns,     \* bound: repairs that are started
    MaxUpdates,  \* bound: updates that are started
    MaxFaults,   \* bound: failing steps, unit restarts, kills and reboots
    MaxRows      \* bound: writes of the applications

ASSUME RepairAssumption ==
    /\ Nothing \notin Proc
    /\ Nothing \notin Nat
    /\ MaxRuns \in Nat /\ MaxUpdates \in Nat /\ MaxFaults \in Nat /\ MaxRows \in Nat

\* SERVICES of database_case.py; those of the update worker are App.
App  == {"tomcat", "apache", "php"}
Unit == App \cup {"admin", "path"}

VARIABLES
    unit,       \* each unit: down, starting (is-active is false) or up
    mysql,      \* down, or lower_case_table_names of the server that runs
    option,     \* the option file in the container: none, case, disabled
    rows,       \* the package rows, as the number of writes so far
    lock,       \* holder of the flock on database-case.lock
    pc, job,    \* each process: its next step, its local variables
    update,     \* the update worker: who started it, its next step
    count,      \* runs, updates and faults so far
    disturbed,  \* an update was active during this repair (history variable)
    outlived    \* a container outlived the stop of its unit (history variable)

services == <<unit, mysql>>
vars == <<services, option, rows, lock, pc, job, update, count, disturbed, outlived>>

Backup == {"tar", "record"}
Change == {"configure", "start-mysql", "verify"}
Undo   == {"undo-stop", "undo-configure", "undo-start", "undo-wait"}
Trying == {"stop", "count", "stop-mysql", "check"} \cup Backup \cup Change
Held   == {"audit", "query"} \cup Trying \cup Undo \cup {"raise", "restart", "wait"}
Label  == {"off", "lock"} \cup Held

Job   == [active: SUBSET Unit, before: Nat \cup {Nothing}, changed: BOOLEAN]
NoJob == [active |-> {}, before |-> Nothing, changed |-> FALSE]
Idle  == [by |-> Nothing, at |-> "off"]

Init ==
    /\ unit \in [Unit -> {"down", "up"}] /\ (unit["apache"] = "up" => unit["php"] = "up")
    /\ mysql = "0" /\ option = "none" /\ rows = 0 /\ lock = Nothing
    /\ pc = [p \in Proc |-> "off"] /\ job = [p \in Proc |-> NoJob]
    /\ update = Idle
    /\ count = [runs |-> 0, updates |-> 0, faults |-> 0]
    /\ disturbed = FALSE /\ outlived = FALSE

-----------------------------------------------------------------------------
(* systemd.                                                                  *)

\* Requires=: apache needs php, php and tomcat need MySQL.
WithNeeded(S)    == S \cup (IF "apache" \in S THEN {"php"} ELSE {})
WithDependent(S) == S \cup (IF "php" \in S THEN {"apache"} ELSE {})

\* lower_case_table_names of a server that starts now.
Mode == IF option = "case" THEN "1" ELSE "0"

\* systemctl start, as far as it goes at once; a unit is up when UnitUp says so.
StartUnits(S) ==
    /\ unit' = [u \in Unit |-> IF u \in WithNeeded(S) /\ unit[u] = "down" THEN "starting" ELSE unit[u]]
    /\ mysql' = IF mysql = "down" /\ S \cap App # {} THEN Mode ELSE mysql

Stopped(S) == [u \in Unit |-> IF u \in WithDependent(S) THEN "down" ELSE unit[u]]

\* systemctl stop cmnd-mysql: the units that require it stop as well, the
\* update service among them; the container may outlive its unit.
StopServer ==
    /\ unit' = Stopped(App)
    /\ update' = IF update.by = "service" THEN Idle ELSE update
    /\ \/ mysql' = "down" /\ UNCHANGED outlived
       \/ mysql' = mysql /\ outlived' = TRUE

\* native-wait-database holds php and tomcat back until MySQL answers.
UnitUp(u) ==
    /\ unit[u] = "starting"
    /\ u \in {"php", "tomcat"} => mysql # "down"
    /\ u = "apache" => unit["php"] = "up"
    /\ unit' = [unit EXCEPT ![u] = "up"]
    /\ UNCHANGED <<mysql, option, rows, lock, pc, job, update, count, disturbed, outlived>>

Fault == count.faults < MaxFaults /\ count' = [count EXCEPT !.faults = @ + 1]

\* Restart=on-failure: for a while the unit is activating.
UnitRestarts(u) ==
    /\ unit[u] = "up" /\ u # "path" /\ Fault
    /\ unit' = [unit EXCEPT ![u] = "starting"]
    /\ UNCHANGED <<mysql, option, rows, lock, pc, job, update, disturbed, outlived>>

\* The applications write to the database.
WriteRows ==
    /\ rows < MaxRows /\ mysql # "down" /\ \E u \in App : unit[u] = "up"
    /\ rows' = rows + 1
    /\ UNCHANGED <<services, option, lock, pc, job, update, count, disturbed, outlived>>

-----------------------------------------------------------------------------
(* The repair.                                                               *)

At(p, here)    == pc[p] = here
Goto(p, there) == pc' = [pc EXCEPT ![p] = there]
Keep == UNCHANGED <<rows, count, disturbed>>

Exit(p) == /\ Goto(p, "off") /\ job' = [job EXCEPT ![p] = NoJob]
           /\ lock' = IF lock = p THEN Nothing ELSE lock

Start(p) ==
    /\ At(p, "off") /\ count.runs < MaxRuns /\ count' = [count EXCEPT !.runs = @ + 1]
    /\ Goto(p, "lock")
    /\ UNCHANGED <<services, option, rows, lock, job, update, disturbed, outlived>>

Lock(p) ==
    /\ At(p, "lock")
    /\ IF lock = Nothing
       THEN /\ lock' = p /\ Goto(p, "audit") /\ UNCHANGED job
            /\ disturbed' = (update # Idle)
       ELSE Exit(p) /\ UNCHANGED disturbed
    /\ UNCHANGED <<services, option, rows, update, count, outlived>>

\* Fault: an option file of an earlier repair is overwritten.
AuditAnyFile(p) ==
    /\ At(p, "audit")
    /\ IF mysql = "0" THEN Goto(p, "query") /\ UNCHANGED <<lock, job>> ELSE Exit(p)
    /\ UNCHANGED <<services, option, update, outlived>> /\ Keep

\* Running server, old lookup, no option file; otherwise there is nothing to
\* do or the repair is refused.  Reads only, up to the backup's empty directory.
Audit(p) ==
    /\ At(p, "audit")
    /\ IF mysql = "0" /\ option = "none" THEN Goto(p, "query") /\ UNCHANGED <<lock, job>>
                                         ELSE Exit(p)
    /\ UNCHANGED <<services, option, update, outlived>> /\ Keep

\* systemctl is-active for each service.
Query(p) ==
    /\ At(p, "query") /\ Goto(p, "stop")
    /\ job' = [job EXCEPT ![p].active = {u \in Unit : unit[u] = "up"}]
    /\ UNCHANGED <<services, option, lock, update, outlived>> /\ Keep

Stop(p) ==
    /\ At(p, "stop") /\ Goto(p, "count")
    /\ unit' = Stopped(job[p].active)
    /\ UNCHANGED <<mysql, option, lock, job, update, outlived>> /\ Keep

Count(p) ==
    /\ At(p, "count") /\ mysql # "down" /\ Goto(p, "stop-mysql")
    /\ job' = [job EXCEPT ![p].before = rows]
    /\ UNCHANGED <<services, option, lock, update, outlived>> /\ Keep

StopMysql(p) ==
    /\ At(p, "stop-mysql") /\ StopServer /\ Goto(p, "check")
    /\ UNCHANGED <<option, lock, job>> /\ Keep

Check(p) ==
    /\ At(p, "check") /\ mysql = "down" /\ Goto(p, "tar")
    /\ UNCHANGED <<services, option, lock, job, update, outlived>> /\ Keep

Tar(p) ==
    /\ At(p, "tar") /\ Goto(p, "record")
    /\ UNCHANGED <<services, option, lock, job, update, outlived>> /\ Keep

\* The archive is listed and the four files of the backup are written.
Record(p) ==
    /\ At(p, "record") /\ Goto(p, "configure")
    /\ job' = [job EXCEPT ![p].changed = TRUE]
    /\ UNCHANGED <<services, option, lock, update, outlived>> /\ Keep

Configure(p) ==
    /\ At(p, "configure") /\ Goto(p, "start-mysql")
    /\ option' = "case"
    /\ UNCHANGED <<services, lock, job, update, outlived>> /\ Keep

StartServer == mysql' = IF mysql = "down" THEN Mode ELSE mysql

StartMysql(p) ==
    /\ At(p, "start-mysql") /\ StartServer /\ Goto(p, "verify")
    /\ UNCHANGED <<unit, option, lock, job, update, outlived>> /\ Keep

\* Fault: the row counts are not compared.
VerifyModeOnly(p) ==
    /\ At(p, "verify") /\ mysql = "1" /\ Goto(p, "restart")
    /\ UNCHANGED <<services, option, lock, job, update, outlived>> /\ Keep

Verify(p) ==
    /\ At(p, "verify") /\ mysql = "1" /\ rows = job[p].before /\ Goto(p, "restart")
    /\ UNCHANGED <<services, option, lock, job, update, outlived>> /\ Keep

\* Outside the try block: a failure here ends the command.
Restart(p) ==
    /\ At(p, "restart") /\ Goto(p, "wait")
    /\ StartUnits(job[p].active)
    /\ UNCHANGED <<option, lock, job, update, outlived>> /\ Keep

Done(p) ==
    /\ At(p, "wait") /\ \A u \in job[p].active : unit[u] = "up"
    /\ Exit(p)
    /\ UNCHANGED <<services, option, update, outlived>> /\ Keep

-----------------------------------------------------------------------------
(* except Exception.                                                         *)

UndoStop(p) ==
    /\ At(p, "undo-stop") /\ StopServer /\ Goto(p, "undo-configure")
    /\ UNCHANGED <<option, lock, job>> /\ Keep

\* Fault: the option that was added stays.
UndoConfigureSkipped(p) ==
    /\ At(p, "undo-configure") /\ Goto(p, "undo-start")
    /\ UNCHANGED <<services, option, lock, job, update, outlived>> /\ Keep

UndoConfigure(p) ==
    /\ At(p, "undo-configure") /\ Goto(p, "undo-start")
    /\ option' = "disabled"
    /\ UNCHANGED <<services, lock, job, update, outlived>> /\ Keep

\* Fault: the failure path starts the applications too.
UndoStartAll(p) ==
    /\ At(p, "undo-start") /\ StartUnits(job[p].active) /\ Goto(p, "undo-wait")
    /\ UNCHANGED <<option, lock, job, update, outlived>> /\ Keep

UndoStart(p) ==
    /\ At(p, "undo-start") /\ StartServer /\ Goto(p, "undo-wait")
    /\ UNCHANGED <<unit, option, lock, job, update, outlived>> /\ Keep

UndoWait(p) ==
    /\ At(p, "undo-wait") /\ mysql # "down" /\ Goto(p, "raise")
    /\ UNCHANGED <<services, option, lock, job, update, outlived>> /\ Keep

Reraise(p) ==
    /\ At(p, "raise") /\ Exit(p)
    /\ UNCHANGED <<services, option, update, outlived>> /\ Keep

-----------------------------------------------------------------------------
(* Steps that fail, and ends without a handler.                              *)

\* What a command that fails, or is cut short, may have done by then.
CutShort(p) ==
    \/ UNCHANGED <<services, option, update, outlived>>
    \/ /\ At(p, "stop") /\ \E S \in SUBSET job[p].active : unit' = Stopped(S)
       /\ UNCHANGED <<mysql, option, update, outlived>>
    \/ pc[p] \in {"stop-mysql", "undo-stop"} /\ StopServer /\ UNCHANGED option
    \/ /\ \/ At(p, "configure") /\ option' = "case"
          \/ At(p, "undo-configure") /\ option' = "disabled"
       /\ UNCHANGED <<services, update, outlived>>
    \/ /\ pc[p] \in {"start-mysql", "undo-start"} /\ StartServer
       /\ UNCHANGED <<unit, option, update, outlived>>
    \/ /\ At(p, "restart") /\ \E S \in SUBSET job[p].active : StartUnits(S)
       /\ UNCHANGED <<option, update, outlived>>

\* A condition that does not hold, or a step that fails for a reason of its own.
Refused(p) ==
    \/ pc[p] \in {"count", "undo-wait"} /\ mysql = "down"
    \/ At(p, "check") /\ mysql # "down"
    \/ At(p, "verify") /\ ~(mysql = "1" /\ rows = job[p].before)

Raise(p) ==
    /\ pc[p] \in Held \ {"raise"}
    /\ \/ Refused(p) /\ UNCHANGED count
       \/ Fault
    /\ CutShort(p)
    /\ IF pc[p] \in Trying
       THEN /\ Goto(p, IF job[p].changed THEN "undo-stop" ELSE "undo-start")
            /\ UNCHANGED <<lock, job>>
       ELSE Exit(p)
    /\ UNCHANGED <<rows, disturbed>>

\* A kill or Ctrl-C.
Kill(p) ==
    /\ pc[p] # "off" /\ Fault /\ CutShort(p) /\ Exit(p)
    /\ UNCHANGED <<rows, disturbed>>

\* Power loss; every unit is enabled, and the container keeps its option file.
Reboot ==
    /\ Fault
    /\ unit' = [u \in Unit |-> IF u = "path" THEN "up" ELSE "starting"]
    /\ \/ UNCHANGED option
       \/ \E p \in Proc : \/ At(p, "configure") /\ option' = "case"
                          \/ At(p, "undo-configure") /\ option' = "disabled"
    /\ mysql' = IF option' = "case" THEN "1" ELSE "0"
    /\ lock' = Nothing
    /\ pc' = [p \in Proc |-> "off"] /\ job' = [p \in Proc |-> NoJob]
    /\ update' = Idle
    /\ UNCHANGED <<rows, disturbed, outlived>>

-----------------------------------------------------------------------------
(* The update worker, as far as it touches the services (updates.py).        *)

Beginning(by) == /\ update = Idle /\ count.updates < MaxUpdates
                 /\ count' = [count EXCEPT !.updates = @ + 1]
                 /\ update' = [by |-> by, at |-> "stop"]
                 /\ disturbed' = (disturbed \/ lock # Nothing)

\* cmnd-update.path starts a service that requires MySQL; a terminal starts none.
UpdateBegin ==
    /\ \/ unit["path"] = "up" /\ Beginning("service") /\ StartServer
       \/ Beginning("terminal") /\ UNCHANGED mysql
    /\ UNCHANGED <<unit, option, rows, lock, pc, job, outlived>>

UpdateStep(here, there) == update.at = here /\ update' = [update EXCEPT !.at = there]
Others == UNCHANGED <<option, rows, lock, pc, job, count, disturbed, outlived>>

UpdateStop == UpdateStep("stop", "dump") /\ unit' = Stopped(App) /\ UNCHANGED mysql /\ Others

UpdateDump == UpdateStep("dump", "start") /\ UNCHANGED services /\ Others

\* After the package or, when something failed, from the exception handler.
UpdateStart == UpdateStep("start", "ready") /\ StartUnits(App) /\ Others

UpdateEnd == update.at = "ready" /\ update' = Idle /\ UNCHANGED services /\ Others

-----------------------------------------------------------------------------
Work(p) ==
    \/ Lock(p) \/ Audit(p) \/ Query(p) \/ Stop(p) \/ Count(p) \/ StopMysql(p) \/ Check(p)
    \/ Tar(p) \/ Record(p) \/ Configure(p) \/ StartMysql(p) \/ Verify(p) \/ Restart(p) \/ Done(p)
    \/ UndoStop(p) \/ UndoConfigure(p) \/ UndoStart(p) \/ UndoWait(p) \/ Reraise(p) \/ Raise(p)

Systemd == Reboot \/ \E u \in Unit : UnitUp(u) \/ UnitRestarts(u)

Update == UpdateBegin \/ UpdateStop \/ UpdateDump \/ UpdateStart \/ UpdateEnd

Next == WriteRows \/ Systemd \/ Update \/ \E p \in Proc : Start(p) \/ Work(p) \/ Kill(p)

Spec == Init /\ [][Next]_vars

-----------------------------------------------------------------------------
(* Properties.                                                               *)

\* The state is well typed; only the holder of the flock is past it, and only a
\* process that runs has variables.
TypeOK ==
    /\ unit \in [Unit -> {"down", "starting", "up"}]
    /\ mysql \in {"down", "0", "1"} /\ option \in {"none", "case", "disabled"}
    /\ rows \in Nat
    /\ pc \in [Proc -> Label] /\ lock \in Proc \cup {Nothing}
    /\ job \in [Proc -> Job]
    /\ \A p \in Proc : /\ pc[p] \in Held <=> lock = p
                       /\ pc[p] \notin Held => job[p] = NoJob
    /\ update = Idle \/ update \in [by: {"service", "terminal"}, at: {"stop", "dump", "start", "ready"}]
    /\ count \in [runs: Nat, updates: Nat, faults: Nat]
    /\ disturbed \in BOOLEAN /\ outlived \in BOOLEAN

\* "cold-backup MySQL" (database_case.py 62): unless an update starts services
\* meanwhile, no server runs, and none of the applications that would start one,
\* while its data directory is archived.
BackupIsCold ==
    \A p \in Proc : pc[p] \in Backup /\ ~disturbed =>
        mysql = "down" /\ \A u \in App : unit[u] = "down"

\* "leaves application writers stopped for investigation" (docs/DATABASE-CASE.md,
\* database_case.py 103): from the end of the backup until verification has passed
\* or the failure path is through, no application of the site runs, those that
\* were just starting when the active ones were stopped included.
WritersStayDown ==
    \A p \in Proc : job[p].changed /\ pc[p] # "wait" /\ ~disturbed =>
        \A u \in App : unit[u] = "down"

\* When the applications are started again, the lookup they need is switched on,
\* it survives a restart of MySQL, and no row was added or lost since the writers
\* were stopped (database_case.py 90-106).
SuccessIsTrue ==
    \A p \in Proc : At(p, "restart") /\ ~disturbed =>
        mysql = "1" /\ option = "case" /\ rows = job[p].before

\* A repair that reports its failure after a complete failure path has left
\* MySQL running with the lookup it had, unless the container outlived the stop
\* of its unit: that is looked at before the backup only (database_case.py 97-104).
FailureRestores ==
    \A p \in Proc : At(p, "raise") /\ ~disturbed =>
        option # "case" /\ mysql # "down" /\ (~outlived => mysql = "0")

\* "Existing configuration must never be overwritten, even on a repeated failed
\* attempt" (database_case.py 58): only an attempt that found no file writes the
\* option, and only the attempt that wrote it takes it back.
NeverOverwritten ==
    [][option' # option =>
         \/ option = "none"
         \/ option = "case" /\ option' = "disabled" /\ \E p \in Proc : lock = p /\ job[p].changed]_vars
=============================================================================
