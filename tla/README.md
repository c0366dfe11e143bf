# A TLA+ model of linux-cmnd

linux-cmnd installs and operates the CMND server software on Ubuntu: a Python package (`src/src/cmnd_linux`), a Debian
package that carries it, systemd units it renders, and scripts that bootstrap and qualify an installation. This
directory models the parts of it that change shared state, checks them with TLC on small instances, and proves the
properties that matter most with TLAPS for every value of the constants.

File names below without a directory are in `src/src/cmnd_linux`.

## 1. Inventory

| Component | State it keeps | Operations | Interacts with | What makes it correct |
|---|---|---|---|---|
| Update worker (`updates.py`) | `worker.lock`, `status.json`, `current.deb`, one private directory per attempt | `install_pending` | queue file, dpkg, systemd, MySQL dump, GUI | attempts exclude each other; backup before change; rollback package matches what is installed; reports are true; confirmations are spent once; the queue never wedges |
| Management GUI (`update_gui.py`) | last release check, sessions, login attempts, connection slots | check, login, install (publishes `request.json`) | worker through `request.json` and `status.json` | no job published while an attempt is reported; a job is never overwritten; what is queued is an eligible release; slots and limits hold; a check ends |
| Terminal updates (`update_cli.py`, `cli.py`) | none | `cmndctl --updates`, `update-apply` | worker, in the same process | leaves GUI confirmations alone; failures are reported |
| systemd units (`native_deploy.service_units`) | active units, start-limit counters | start, stop, path activation, restart | all services | the path unit reacts to the queue |
| Release store (`runtime.py`) | `releases/*`, `release.json`, `current.txt`, link `current`, lock file | install, rollback, backup, restore, status | none | what is activated is complete and stays; names agree |
| Case repair (`database_case.py`) | `database-case.lock`, MySQL option file, cold backup, services | audit, repair | the same services and database as the worker | writers stay down until MySQL is verified; a failure restores the old mode |
| Egress and license network (`egress.py`, `license_network.py`) | iptables chains, policy file, lock | apply, enable | every service start applies the policy | rules are never wider than the policy or its candidate; prior rules restored on failure |
| Clone export (`clone_export.py`) | received files, failures, byte budget, deadline | receive, export | one TV | completed means every requested item arrived intact and nothing failed |
| TV simulator (`simulator.py`, `callbacks.py`) | power, room, clone status per item, callbacks | WIXP commands, clone sessions in threads | clone server, callback receiver | no item stays in progress without a session that will settle it; the room is the one that was recorded |
| Discovery, inventory (`discovery.py`, `protocol.py`) | sqlite inventory | scan, verify identity, add | TVs | each probe is reported once, as what was seen; one address per device; a command reaches the allowed TV |
| Native deployment (`native_deploy.py`, `install_summary.py`, `native_config.py`, `application_stage.py`) | receipts, FAILED marker, units | deploy, wait_ready, summary | everything it installs | a summary says PASS only of a deployment whose every stage passed |
| Release selection (`updates.py` 111-181) | none | select_release, validate_manifest, validate_job | worker, GUI, terminal | the newest permitted release, never a downgrade |
| Restore (`restore_prepare.py`, `sql_audit.py`, `backups.py`, `scripts/lab_restore_sql.py`) | evidence files per stage | prepare, audit, import | lab MySQL | the text that is staged keeps its data and is normalised; a file of evidence stands only for what it says, whatever failed before it |
| Bootstrap and packaging (`scripts/`, `packaging/`) | download cache, package | install.sh, bootstrap.py, build_deb.py | dpkg | nothing unverified is executed |
| Certificates, vendor staging, helpers | files written once | generate, stage | deployment | pure transformations |

The behaviours that are hardest to get right are in the first four rows. A confirmation travels from a browser through
a file to a path unit, a root process and a dozen commands that may each fail, hang or be cut off; meanwhile a person
may start another update in a terminal, press Ctrl-C, or lose power. That is where the model starts. The other places
with real concurrency or failure are the release store (a lock file taken after the check it should protect, a
rollback without it), the case repair (a second lock over the same services), and the license network (two writers of
the same firewall chains). `PROJECT.json` lists every hazard at its line.

## 2. Plan

| # | Modules | Content | Status |
|---|---|---|---|
| 1 | `UpdateWorker`, `UpgradeOutcome`, `MCUpdateWorker`, `UpdateWorkerProofs` | worker, GUI confirmation, path unit, terminal, faults; abstract outcome; proofs | done |
| 2 | `ReleaseStore`, `MCReleaseStore`, `ReleaseStoreProofs` | install, rollback, crash, lock file; the window between check and lock; proofs | done |
| 3 | `CaseRepair`, `MCCaseRepair`, `CaseRepairProofs` | repair with its failure path, systemd dependencies, and a reduced update worker over the same services and MySQL; proofs | done |
| 4 | `LicenseNetwork`, `MCLicenseNetwork`, `LicenseNetworkProofs` | apply_policy per family and account, enable with fallback, concurrent service start; proofs | done |
| 5 | `CloneExport`, `MCTvSide`, `WixpProofs` | uploads, deadline, completion, shutdown, report; proofs | done |
| 6 | `Installation`, `MCInstallation`, `InstallationProofs` | the installer script and the native deployment, two sessions, failure path, receipts, restarts; proofs | done |
| 7 | `SqlPreparation`, `DumpText`, `RestorePrepare`, `RestoreLab`, `MCRestoreLab`, `RestoreLabProofs` | the text of a dump and its checks, staging with its failure path, the five commands of `lab_restore_sql.py` and their files of evidence; proofs | done |
| 8 | `AdminServer`, `MCAdminServer`, `AdminServerProofs` | connection slots, logins, sessions, the check thread, the release that is offered and confirmed; proofs | done |
| 9 | `Simulator`, `Discovery`, `MCTvSide`, `WixpProofs` | WIXP commands, clone sessions, callbacks; scan with bounded pool and cancellation, inventory, authorization; proofs | done |

Which release is selected is part of `AdminServer`, where a choice becomes a confirmation. `WixpProofs` holds the
theorems of the three modules that speak the TVs' protocol.

## 3. The update worker

### State

| Variable | In the code |
|---|---|
| `installed` | what dpkg has installed and `/opt/linux-cmnd/current` points to; `Broken` when dpkg was cut off |
| `baseline` | version of `/var/lib/cmnd-updates/current.deb`, the package a rollback installs |
| `up` | which of `SERVICES` run |
| `queue` | `/var/lib/cmnd-update-requests/request.json` |
| `orphans` | the dpkg that goes on although the terminal process that ran it was killed |
| `status` | `status.json`, reduced to state, version, `previous_runtime_recovered`, `backup_retained` |
| `gui` | the GUI process: the `__version__` it runs, the release it offers, the job between the read of status and its publication |
| `watch`, `burst` | `cmnd-update.path` is active; starts of the service in the current rate-limit window |
| `lock`, `pc`, `attempt` | holder of the flock on `worker.lock`; where each worker process is; its locals (`__version__`, job, version of `previous.deb`, `stopped`, `upgraded`, `database_backup_complete`, `recovered`) |
| `confirmed`, `faults` | counters; confirmations are numbered by `confirmed` |
| `ticket`, `begun` | history variables: the confirmation the queued job is for; how many attempts each confirmation led to |

Releases are numbers; their order is that of `version_tuple`, and `release_id` belongs to the version.

### Actions

One action is one command, or one write of `status.json`, of `install_pending`, in the order of the code, so that
anything else can happen between two of them. `Raise` is a command or write that fails: `CutShort` says what it may
have done by then, and `Handler` where the exception leads (rollback of package and services, of the services alone,
or straight to the final write), including the bare `except` inside the handler that abandons a rollback at its first
failure. `KillService`, `KillTerminal` and `Interrupt` end a process without the handler, because neither SIGKILL, the
unit's timeout nor KeyboardInterrupt is an `Exception`. They differ in what becomes of the command that runs: systemd
ends the whole unit, Ctrl-C reaches the whole terminal, but SIGKILL of a process in a terminal leaves its dpkg running
while the flock is free (`orphans`); until it ends (`OrphanEnds`) dpkg's own lock makes every other dpkg fail
(`DpkgFree`). `Reboot` ends everything and starts what is enabled. `GuiConfirm` and `GuiPublish` are two steps because
the GUI reads `status.json` and links the queue file at different moments, while the worker unlinks the queue file and
writes `verifying` at different moments too. A queue that cannot be read (`FindNoJob`) and the unlink of the refusal
(`Discard`) are two steps for the same reason: a confirmation the GUI links in between is deleted unread (`updates.py`
244); nothing in the repository promises otherwise. A valid job is read and unlinked in one step (`TakeQueued`), since
the link refuses to replace it and the worker has the lock. `CliApply` is `update-apply` run by hand; it confirms
nothing. `StartService`, `StartLimitHit` and `WindowEnds` are systemd's side: a path unit with `PathExists` starts its
service again as long as the file is there, and a service that exceeds its start limit fails the path unit with it.

Verification of a release (list, digests, manifest, package identity) is one step that may fail; what it can accept is
a version newer than the process's own, with a baseline of exactly that version. The commands' output, the log file,
the private copies of configuration and package and the free-space test are left out or are reasons for `Raise`.

### Abstract specification

`UpgradeOutcome` knows no processes: the package is *settled* at a version (installed and retained agree), *busy*, or
in need of *review*. A settled version is followed only by itself or a newer one, and is lost only from *busy*. What
was left half way may settle by itself (`Settle`): a dpkg that outlived its worker ends. `UpdateWorker` implements it
under the mapping `Phase`, `Settled` (property `OutcomeSpec`).

## 4. The release store

| Variable | In the code |
|---|---|
| `dir` | each directory under `releases/`: absent, partial (no `release.json`), whole, or damaged (`release.json` but not every file) |
| `current`, `link`, `pending` | `current.txt`, the link `current` the services run from, the link `.current.next` |
| `lock` | who created `.cmndctl.lock` |
| `pc`, `target` | where each process is, the release it works on |
| `ops`, `faults`, `overlapped` | counters; a history variable: two commands were once active at the same time |

An action is one change of the file system. `install_release` tests for an existing release (`Install`), then takes
the lock (`Lock`), creates and fills the directory (`Mkdir`, `Copy`), writes `release.json` (`Mark`) and activates it
(`Text`, `Unlink`, `Symlink`, `Replace`); an exception leads to `Remove` and `Unlock`. `rollback` shares the four
steps of the activation, has no handler and takes no lock. `IOError` is an exception, `Interrupt` what `except
Exception` does not catch (the lock is removed, the directory stays), `Kill` also leaves the lock.

`OneInstaller` holds in any overlap. `ActiveIsMarked` and `NamesAgree` speak of commands run one after the other,
because a rollback overlapping anything may activate the other's link. A removal that is cut short may leave
`release.json` without the files it vouches for; such a release counts as installed, so `ActiveIsMarked` says that
what runs was marked after a complete copy, not that nothing was deleted from it before.

## 5. The case repair

| Variable | In the code |
|---|---|
| `unit`, `mysql` | each unit: down, starting (what `systemctl is-active` calls inactive) or up; the server and its `lower_case_table_names` |
| `option` | the option file in the container: absent, `case.cnf`, or renamed to disabled |
| `rows` | what the count of package rows would find |
| `lock`, `pc`, `job` | holder of `database-case.lock`; each process's next step; its `active`, `before`, `changed` |
| `update` | an update worker, reduced to what it does to services and MySQL (stop, dump, start, wait) |
| `count` | counters |
| `disturbed`, `outlived` | history variables: an update was active during the repair; a container outlived the stop of its unit |

An action is one command of `repair` in the order of the code, `Raise` one that fails, `UndoStop` to `Reraise` the
failure path with its own failures. The services follow `Requires=` of the units: stopping MySQL stops php, tomcat and
the update service; starting php waits for MySQL. `UnitRestarts` is `Restart=on-failure`: for a while the unit is
activating and missing from the list that line 71 makes. The repair and the update use different locks, so the module
composes them over the state they share. Except for `NeverOverwritten`, what is promised is promised of a repair no
update overlaps (`disturbed`): the code has nothing to keep them apart and the documentation asks for a maintenance
window. `FailureRestores` excuses the container that outlives its unit, because only the path before the backup looks
for it.

## 6. Egress policy and license network

| Variable | In the code |
|---|---|
| `chain` | the chain of each family: absent, somebody else's, or cmnd's with the endpoints it lets through |
| `attached` | per family the accounts whose OUTPUT traffic is sent through the chain |
| `file` | `/etc/cmnd/egress.json`: all endpoints, and those of the last answer of the resolver |
| `lock`, `up`, `pc`, `job` | the flock on `license-network.lock`, running services, each process's next step and its locals |
| `count`, `disturbed` | counters; a history variable: since the last boot a kill, a failed fallback, or a unit started during an enable |

`apply_policy` is one set of actions used by the units' `ExecStartPre` (without the lock) and by `enable` (with it),
first for IPv4, then for IPv6: `Probe` looks at both chains before either changes, `Restore` is one
`iptables-restore`, `Attach` one insertion into OUTPUT, `Verify` the check of the family. In `enable`, `Handler` is
the `except` clause that applies the old policy again, and `Replace` the `os.replace` at the end. Addresses are
members of two disjoint sets, those of the site and those the vendor's name may resolve to.

## 7. The clone export

| Variable | In the code |
|---|---|
| `tv` | which TV has the target's address |
| `pc`, `first`, `sent`, `completed`, `report` | the main thread of `export_clone`: its step, the unique ID of the first check, the one in the command, the flag, `export-report.json` |
| `server`, `upload` | the `HTTPServer` (serving, stopping, closed) and the one connection it serves |
| `total`, `stored`, `files`, `failed`, `expired` | `ReceiveState`: bytes charged, bytes written, kinds of files received, whether `failures` is non-empty, the deadline |
| `count` | counters |

A file is what the code tells apart in it: the items it was identified as holding, and whether its CRCs were checked
(an encrypted archive's are not). Files of one kind are one element, since `files` is only ever read as a set.
`Charge` is the test of `Content-Length` against the budget, `Chunk` one read, which goes to the disk, `Extract` the
second copy of one part of the body to a file of its own and its inspection (`clone_export.py` 120-132), `Parse` the
end of the multipart inspection, where the files of the upload count before the sender has its answer, `Reject` every
exception of the handler, which removes nothing that was written. The parts of a body do not overlap, so its copies
are no longer than itself: the disk takes up to twice what is charged, and `BudgetKept` compares it with the room the
session asks for (`max_bytes * 2`, line 252). `Readdress` lets the address go to another TV at any moment. `Raise` is
a failing step of the main thread; from the `try` block on it leads to the shutdown and the report, before it to
nothing.

## 8. The installation

| Variable | In the code |
|---|---|
| `tooling`, `config`, `cache` | the version dpkg has installed; `/etc/cmnd/cmnd.toml`; the retained package `initial-installer.deb` |
| `owner` | who created `/var/lib/cmnd-deployment` |
| `site` | what `deploy` creates: the applications (by the configuration they were made for), databases, credentials, `current.deb`, `deployment.json`, `qualification.json`, `FAILED`, `install-summary.txt`; each absent, in part, or whole |
| `up`, `enabled` | units that run, units that start with the host |
| `pc`, `job` | each shell's next step; the package and configuration it was given, the version it is and the configuration it read |
| `count` | counters |
| `overlapped`, `inits`, `stuck`, `rebooted` | history variables: two sessions were past the test for existing state; how often the databases began to be created; the failure path's stop failed; the host was restarted |

A session enters through `bootstrap.py` (`Begin`, `Fetch`), through `install-native.sh` (`Check` to `Cache`) or through
`cmndctl deploy-native` (`Read` on). An action of `deploy` is a stage of it or a group of commands with one effect on
what the properties see; staging of the vendor files is one step. `CutShort` says what a failing step may have done,
`Handler` that only what comes after `STATE.mkdir` reaches the failure path (`UndoStop`, `UndoMark`, `UndoReceipt`),
which has no handler itself. The last line of the log (`Announce`) is inside the `try` after the receipt: if it fails,
the failure path stops the services and writes `FAILED` beside a receipt that says PASS. The receipt is therefore a
statement about the moment it was written, and `PassIsTrue` says of it that the evidence, the accounts and the
databases are whole and every unit is enabled, while `Pass`, which looks at `FAILED` too, never holds beside it; a
reader of the two files has to look at both. `Refuse` is a test of the code that fails, `Kill` also stands for Ctrl-C,
which is no `Exception`. `Pass` is what `install_summary.summary` makes of the files. Nothing but the `mkdir` keeps two
sessions apart; the tests of the script and of `preflight` come much earlier. What `PassIsTrue` says of the package and
the configuration it says of sessions that did not overlap: an overlapping script may replace the installed package
after the first session has deployed another version.

## 9. The restore of a Windows backup

`SqlPreparation` is what `sql_audit.py` and `restore_prepare.py` make of one dump. A dump is a sequence of tokens: the
marks at which the lexers turn (quotes of literals and of identifiers, escape, begin and end of comments, end of line)
and the words the checks look for. `Pass` is one pass over it as a recursive function; the code has several, and they
differ. `_lexically_mask` knows literals, identifiers and comments but ends an executable comment at the first end
mark, wherever that stands (`Visible`); schema names, the known definer and the history table are searched there,
identifiers included, and the other keywords in what is left without the identifiers (`Keywords`, a second pass that
pairs the backticks of the mask). `_literal_digest` knows literals only (`Literals`). The server reads an executable
comment to its real end (`Server`). `Staged` is the text after the replacements, `Accepted` all that is checked of it.

Lines are counted twice as well: `_history_digest` takes the line numbers of the mask to pick lines of the dump
(`History`), and `str.splitlines` ends a line at a vertical tab, form feed, file separator, NEL or U+2028 (the token
`separator`), which `_blank` turns into a space where it hides it (`MaskBreaks`).

`DumpText` lets a dump be any text, one token after the other; its `StagedIsSound` compares the code's passes with the
server's: literals are kept, and the code is normalised, in the code outside of identifiers without a definer of
somebody else or anything forbidden. It excuses the shapes on which the passes are wrong. An end mark in a literal,
identifier or comment of an executable comment parts the mask from the server (`EndsEarly`); for the literals it takes
also a quote in a comment or an identifier (`StrayQuote`), since where one of the two passes is wrong the other one
refuses. The text of the known definer that begins in an identifier is replaced and not counted (`DefinerInName`), so
one of somebody else may take its place in the count; such a text is not valid SQL. And behind a separator the mask
hides (`LinesShift`) nothing is said of the lines of the history: that is the run `restore_history`.

`RestorePrepare` is `cmndctl prepare-windows-sql` of several processes to one directory.

| Variable | In the code |
|---|---|
| `stage` | the destination: does it exist, and for each file which archive it is of and whether it is whole |
| `preparing` | each process: next step, its archive, how many files it created (`created`) |

`Begin` is everything up to `mkdir` (it only reads), `Create` is the `O_EXCL` open, `Write` the rest of a file; any
exception leads to `Unlink`, one file at a time from the last to the first, and `Remove`, the `rmdir` that may hit a
directory of somebody else.

`RestoreLab` extends it with `scripts/lab_restore_sql.py`.

| Variable | In the code |
|---|---|
| `lab` | next step of the command that runs, and the database it is at |
| `base`, `input`, `file`, `cnf` | `BASE`, the copies of the staged files, the other files in it (absent, cut off or whole), the importers' option files |
| `server`, `db`, `importer`, `upg` | the container and its volume, each schema, each importer's account, the table `upg_setting` that the backup lacks |
| `history`, `differs`, `named`, `saved` | the Flyway history (how far it is migrated, which checksums were replaced), the versions whose sources differ, those the error names, the history that was saved before the repair |

Its five commands are the five long procedures of the script, one action per command of the shell or file. None has a
failure path: `Raise` is a check that refuses half way, `Fail` (with `CutShort`) a step that fails or is killed, and
the next command starts from what is there. The abstractions are these. The children of a killed command (docker,
mysql, java) have ended before the operator starts the next one. An import drops and creates its tables, so repeating
it makes a schema whole. The counts of `write_qualification` tell an empty schema and a missing table, but may take an
import that was cut off late for a whole one (`Counted`); `QualifiedIsWhole` therefore rests on the option file that
goes only after the import and the lock of its account, not on the counts. The operator gives the restore the
directory of a `prepare-windows-sql` that has ended (`ManifestSettled`): nothing in the script could tell.

## 10. The management server

| Variable | In the code |
|---|---|
| `slots`, `conn` | the semaphore of `ManagementServer`; each connection's next step, and the release its body names |
| `attempts`, `sessions` | the list of times and the table of sessions of `GuiState`, each reduced to a time for each of some numbers |
| `checking`, `checked`, `result`, `checker` | the fields of `GuiState`; the check thread: its next step and what it found |
| `queue`, `now`, `faults` | `request.json`; the monotonic clock; a counter |
| `admitted` | history variable: the last logins whose password was looked at |

A connection is accepted by one thread (`Accept`, `StartThread` or `StartFails`) and handled by another (`Read` on).
Each section under `GuiState.lock` is one action: a login has two (`Admit`, `Issue`) with the slow comparison of the
password between them, a check has two (`Check`, `Record`) with the request to GitHub between them, a confirmation has
one. A connection without a free slot is shut down and changes nothing. The check thread is started after the section
that found a check due (`StartCheck`); `OneCheck` says that requests which come in between start no second one.
`SelectRelease` is `select_release`: the highest version among the published releases of the channel, and an error,
never a lower version, when its assets are not in order.

Two observations. If the check thread cannot be started (`update_gui.py` 93) nothing takes `checking` back, and no
check is made until the process is restarted (`StartCheckFails`; `CheckEnds` is about threads that were started). And
since `checked` is 0.0 at first and the clock counts from the start of the machine, a request for a check in the first
minute after that does nothing, while the reply says `checking`.

## 11. The TV side

`Simulator`:

| Variable | In the code |
|---|---|
| `tvState`, `clone`, `callbacks`, `requests` | `TVState`: power, reboots, room, services and application; status and details of each item; the two bounded lists |
| `handling` | each command's thread: its function, later its next step |
| `session` | each clone session (`fetch_all`): its items, how far it is, what it downloaded |
| `commands`, `lost`, `overlap` | counters; a history variable: two sessions had the room item at the same time |

Each section under `state.lock` is one action. A clone command examines all URLs, sets its items in progress and
starts a thread; sessions of the same items interleave. `Settle` records the outcome of an item (`simulator.py`
241-248). `ClonesSettle` says that an item is in progress only as long as a session that will settle it is left, and
that the room is the one recorded, unless two sessions with the room item overlapped: setting the room and recording
it are two sections (`simulator.py` 236 and 245), and between them another session may do both. A thread that could
not be started leaves its items in progress for ever. A command without `Cookie` is answered with an error after it
had its effect (386).

`Discovery`:

| Variable | In the code |
|---|---|
| `present`, `moves` | which device answers at each address |
| `scanner`, `cancel` | the loop of `scan`: targets requested, left and submitted (history), pending probes, results; the event of the caller |
| `proc` | other commands: what they do, what was verified where |
| `inventory` | the rows of the sqlite table |
| `uses`, `seen`, `obeyed` | a counter; history variables: who answered where; which device obeyed which operation at which address |

`Move` lets devices go and change addresses between any two requests. `Select` and `Insert` of `add_tv` are two steps
because sqlite begins the transaction at the insertion; `ip` is UNIQUE, so the later of two concurrent additions of
one address ends in an error of sqlite instead of the review it promises. A device is one identity; the code accepts
its unique ID, serial or MAC (what that means for an address that changes hands is in `CloneExport`). An entry of
the allowlist approves operations for one device at one address (`Allowed`). `CommandReachesAllowed` says that a TV
obeys an operation only where the list approves it for a device that was seen there, and that it is this device; a TV
that takes the address over between the verification and the command obeys too (`cli.py` 229-230), and only the second
half excuses that. `ScanAccounts` counts the probes that were submitted, so a scan that is cancelled has to report
those under way as well.

## 12. Runs

| Run | Question | Bounds |
|---|---|---|
| `worker_safety` | do the safety and action properties hold under every interleaving and fault, and does the updater implement `UpgradeOutcome` | 1 terminal + the service, 2 services, 3 versions, 2 confirmations, 2 kills, restarts or Ctrl-C, start limit 1, failing status writes |
| `worker_liveness` | do attempts end, queued files get taken, and the GUI never stay locked out | 2 versions, 3 confirmations, no kills, no failing status writes |
| `worker_watcher` | does a queued confirmation always have a live watcher | expected violation |
| `release_store` | do the store's properties hold in every overlap and under every fault | 2 processes, 3 releases, 4 commands, 2 faults |
| `release_race` | does the active release stay when installations overlap | expected violation |
| `case_repair` | does the repair keep its promises against systemd, updates, failures and kills | 2 processes, 2 repairs, 1 update, 2 faults, 1 write |
| `license_network` | do services run only behind the chains, and do rules and file agree | 2 services, 2 admins, 2 accounts, 2 families, 4 starts, 2 faults |
| `installation` | is what is reported as installed whole, is it deployed once, and is a failed one down | 2 sessions, 2 installations, 2 versions, 2 configurations, 2 faults |
| `restore` | is what is staged sound, does a manifest vouch for it, and do the lab's files of evidence tell the truth after any failures | 2 archives, 2 databases, 2 processes, 2 preparations, 5 commands, 2 faults; texts of up to 4 of 13 tokens, of up to 5 of each of three sets of 6 |
| `restore_history` | is the text of the migration history kept | expected violation |
| `admin_server` | do slots, limits and the confirmed release survive every interleaving, and does a check end | 2 connections, 2 slots, 1 login in 2 ticks, 1 session of 3 ticks, 3 releases, 4 ticks, 1 thread that cannot be started |
| `tv_side` | is a completed export whole and final, the right TV asked, the budget kept, the end reached; do clone sessions settle, does a scan account for its probes, is the inventory true, does a command reach the allowed TV | export: 2 items, 3 TVs, 2 uploads of up to 2 bytes and 2 parts, budget 3, 2 faults; simulator: 2 items, 2 commands, 5 packages, 1 thread that cannot be started; discovery: 3 addresses, 2 devices, 2 moves, 2 commands with one operation approved, or one scan of up to 3 targets with 2 probes at a time |

Three versions allow two successive updates, a stale terminal that waits through one of them, and a downgrade if the
code permitted one. Two confirmations allow one attempt in progress and another one queued or typed in a terminal, or
two attempts if one of them were taken up twice. Two services allow a partial stop and a partial start; they are
interchangeable, hence the symmetry. Two kills, restarts or Ctrl-C leave each intermediate state, a dpkg that outlives
its worker included, and let the next attempt be cut off too; more of them only repeat that, and the theorems hold for
any number. A start limit of 1 takes the watcher down at the second start in a window; the liveness run has 2.
Deadlock is not checked because the system may stop: confirmations run out, or nobody can run a broken package.

Two processes are what a lock file has to keep apart. Three releases and four commands allow a release to be
activated, another one to fail in its activation, and a rollback to either; two faults allow an error whose clean-up
is cut off. Processes and releases are interchangeable.

A second repair meets what the first one left (its option file, its services); one update, started through the queue or
a terminal, is enough to overlap any step; two faults allow a failure whose failure path fails, or a restart and a
failure. Four starts allow two enables with a service that starts during either, and a rerun after a failed enable; one
site and one vendor address per family tell the policies apart, including an answer that is withdrawn. Two uploads
allow both items apart, or both as parts of one and a second one that is rejected or unchecked after completion; a
budget of 3 with uploads of 2 makes the second one too long, and cuts a body into two parts; two of the three TVs carry
an identity that the operator's selection accepts. Two sessions can overlap at any step, or the second starts after
whatever the first one left; two versions and configurations are what they can disagree on; two faults allow a failure
whose failure path fails, or a failure and a restart.

Two archives are what a mixed directory is made of, two processes what it takes to mix them, and two faults let both
fail, or a failure path be cut short. Two databases, of which one is `smartinstall`, give an import before and an
import after a failure; five commands allow a failed restore, a failed recovery, another one that completes it, a
migration that fails and its repair, or two repairs. Two versions, one of them accepted, make every set of differences.
Four tokens are enough to open a literal, an identifier or a comment, put a word into it and close it; five put one
form into another (the first set), a separator into a comment before a line of the history (the second), and
identifiers beside both and definers of two kinds (the third). The preparation of a text is checked beside the state
machine, not in product with it, and proved for every text.

One login in a window and one session make each limit reachable by two threads; a window of two ticks and four ticks
let a window pass. A newer release, a preview and one with fewer digits are what the selection tells apart. Two
commands of the simulator and two items allow sessions with one item in common, in either order; three addresses with
two probes at a time fill the pool and leave a target. The allowlist approves one operation of one device at one
address, so that each of the three can be the wrong one. The export, the simulator and the discovery of `tv_side` share
nothing but the protocol and take turns: the last two begin where the first identity check of the export met another TV
and refused it (`Turned` of `MCTvSide`), and one of them moves in a behaviour; a scan, which writes nothing the others
read, runs alone. Of initial states that differ by a renaming of what is alike, `MCInit` takes one; it is no SYMMETRY,
which would not be sound beside the liveness property `ExportEnds`.

Fairness of `worker_liveness` (`FairSpec` of `UpdateWorker`): a worker process goes on, since every command it runs
has a timeout and every wait a deadline; a confirmation that passed the GUI's check is published by the same request
handler; systemd reacts to the queue file. Nobody is obliged to confirm, and no command to succeed. `NoStuckStatus` is
checked without kills and failing writes of `status.json`, because with them the code really leaves a state behind
that locks the GUI out. In `AdminServer` a started thread goes on, since a connection has a timeout of 5 seconds and
the check one of 20 seconds per answer and 300 in all; no connection is obliged to come. In `CloneExport` the main
thread goes on or raises, time passes, and the socket timeout or the deadline ends a connection (`WF_vars(Reject)`);
no sender is obliged to send. `QueueDrains` excuses a watcher that is down (`worker_watcher` shows how that happens)
and a package that cannot run.

### What the violations show

* `worker_watcher`: `update_cli.py` 44 says the terminal "never races the GUI queue watcher". It holds the lock for
  minutes; a confirmation queued meanwhile makes systemd start the service again and again, each start is refused and
  leaves the file, and the default start limit fails the path unit. The confirmation stays queued, unwatched, and
  blocks both the GUI (`os.link` refuses) and later terminals ("another update is queued").
* `release_race`: the lock (`runtime.py` 84) is taken after the test for an existing release (74). The second of two
  installations of the same release gets the lock when the first one is done, fails to create the directory, and its
  failure path removes it: the release that was just reported as installed and active is gone.
* `restore_history`: `docs/BACKUP-RESTORE.md` 36 says the preparation "preserves ... migration-history text". With a
  form feed in a comment or a literal the digest (`restore_prepare.py` 126-133) is taken of other lines of the dump than
  those that name the history table, and one that also names the schema by its Windows name is rewritten without a
  refusal. The same dump with a space for the form feed is refused.

More observations came up while modelling and are not runs of their own. Ctrl-C in the terminal update leaves
the attempt where it is and rolls nothing back. A unit that starts from an older policy writes its rules over those of
a policy saved in between. The units that a failed deployment had enabled start again with the next boot. A
deployment can leave `FAILED` beside a receipt that says PASS (section 8), and a refused queue file can take a
confirmation with it that came in the meantime (section 3).

## 13. Proofs

A type invariant and an invariant that is proved for every instance are not repeated in the runs unless a mutant of
the code shows what they rule out; `TypeOK` and the names below that the runs do not list are such.

`UpdateWorkerProofs` proves, from `ConstantsAssumption` alone (any number of terminals, services, releases,
confirmations, crashes), that `Spec` implies the invariants `TypeOK`, `OneAttempt`, `CompleteIsTrue`,
`WritersStopped`, `ConfirmationsSpentOnce`, the action properties `PackageChangeIsBackedUp`, `RecoveryIsTrue`,
`TerminalLeavesQueue`, and that it implements `UpgradeOutcome` (`OutcomeSpec`).

The inductive invariant `IInv` adds two families to those. `Locals(w)` says what a process knows at each program
point: from `verify` on, the rollback package is that of its own version and its job is newer; from `stop` on the flag
`stopped` is set, and so on. `Files(w)` says what the disk holds at each point: up to `retain` the baseline is the old
version, at `complete` the new one, during the rollback one of the two; from the write of `verifying` the status is an
active one, which is why a kill in the middle of an attempt cannot leave a `complete` that is no longer true. Neither
`TypeOK` nor `CompleteIsTrue` is inductive without them: that dpkg installs a version needs the job to be one, and
that a failed rollback does not falsify `complete` needs the status to have been overwritten. Only the lock holder can
disturb them (`HolderStep`), so every step of a process is proved for its own program point and all other processes
follow from mutual exclusion.

`ConfirmationsSpentOnce` counts the attempts of each confirmation, by its number, and allows one. `Spent` says that
the confirmation the GUI is publishing, the queued one and those the terminals still bring are pairwise different and
have led to no attempt yet, that no other one ever will, and that whoever has a job to take up has a confirmation for
it. A step moves a confirmation from one of these places to the next, takes it up, or drops it (`Drops`: a refused
terminal, a kill, a job discarded unread), and none copies it. `update-apply` by hand brings none. `LeftAlone` adds to
`IInv` what a dpkg without its worker leaves true: nothing reports completion while it runs.

`ReleaseStoreProofs` proves `TypeOK`, `OneInstaller`, `ActiveIsMarked` and `NamesAgree` from `StoreAssumption`, for
any number of processes, releases, commands and faults. `ActiveIsMarked` needs what is known of the release a lone
command works on (`Alone(p)`): it is marked from the moment its activation starts, the pending link names it, and an
installation that may still remove it is not working on the release the services run from, because that one was not
absent when it started. One process moves at a time, so `Mover` carries this over to the others, which are off.
`NamesAgree` needs `Agreed`: between the two changes of an activation `current.txt` is already the target, with no
pending link in the way of the symlink, and whoever has the lock is where it gives it up.

`CaseRepairProofs` proves its type invariant and all properties of its run from `RepairAssumption`. The holder of the
lock is the only one that writes the option, so `Known(p)` gives the option file and the flag `changed` at each of its
steps, whatever else happens; `Calm(p)` gives the services, MySQL and the rows while no update has overlapped, with
`Down(p)` naming the steps at which no application may run. `OneHolder` reduces every step to the process that takes
it.

`LicenseNetworkProofs` proves its type invariant and all properties of its run from `NetworkAssumption`. `Probed` says
that past its probe a process never meets a chain of somebody else; `Progress` that what was verified stays attached
until a reboot, so a service that starts finds both families in place although another process is replacing one;
`FileKnown` what the holder of the lock read is still the file; `Calm` which policy is in each chain at each step
while nothing disturbed it.

`WixpProofs` proves three modules. Of `CloneExport` it proves the type invariant and the safety properties of its run
from `ExportAssumption`, for any number of items, TVs, uploads and bytes. `Stage` ties the receiver to the step of the
main thread (a closed server has no connection, and the report comes after it is closed), `Charged` adds the bytes
still to come, in the body and in the copies of its parts, to those written and bounds the sum by twice what was
charged, `Command` says what the message names at each step, and `Observation` that files are
only ever added to what completion was observed of.

Of `Discovery` it proves `InventoryIsTrue` and `CommandReachesAllowed` (`ScanSpec`, from `DiscoveryAssumption`), for
any number of commands, addresses and devices and any allowlist: `Known` says that what a command expects is approved
for its operation and address from its first step on, that what it verified was seen where it says so, and that unless
the device has moved since it is still there. `ScanAccounts` needs `ScanInv`: the targets that are left, pending,
found and failed are disjoint sets without repetition (`Apart`), and those that were submitted are pending, found or
failed, cancelled or not, and until a cancellation make up with the ones left what was requested (`Accounted`), for
any finite set of addresses and any size of the pool.

Of `Simulator` it proves `ClonesSettle` (`SimSpec`, from `SimulatorAssumption`), for any number of items, commands and
sessions: `Settling` puts every item in progress into the hands of some session, `InTurn` ties a session's step to its
turn, so that one that is over has nothing left, and `OneRoom` says that without an overlap one session has the room
item, and that what it is about to record is the room it has set.

`AdminServerProofs` proves the three invariants of its run and `OneCheck` from `AdminAssumption`, for any number of
connections, limits, window, lifetime and any finite list of releases. `SlotsConserved` and `OneCheck` are inductive
with the types. `LoginsLimited` speaks of the logins whose password was looked at, the code of a list it prunes:
`Remembers` gives each login in the window a place of its own in that list, so a login that is let in finds fewer than
the limit. `QueuedIsEligible` follows from `Offers` (whatever is found, shown or queued is eligible) and from
`OffersTheHighest`, a theorem about `SelectRelease` alone: it offers the highest candidate of every finite list, or
nothing. That a highest one exists is shown by induction over finite sets, for an order of versions that is proved to
be one (`LaterOrders`).

Three assumptions were added for these proofs: `Client`, `Release` and `Address` are finite (threads, one answer of
GitHub, IPv4 addresses), and there is some application (the initial state of the simulator has one active).

`InstallationProofs` proves its type invariant and all properties of its run from `InstallAssumption`, for any number
of sessions, installations and faults. `Held` says that whoever is inside the deployment created its directory and
that there is nothing before that; `Alone` that without an overlap one session is past the script's test and none
writes the package or the configuration once a deployment exists; `Built`, `Enabled` and `Ended` what exists at each
step, which at the marker adds up to `Complete`; `Kept` that what is complete stays so; `Down` that the failure path's
stop holds from then on. The frame lemmas (`OutsideFrame`, `DeployFrame`, `FailFrame`, `UndoFrame`) reduce every step
to the session that takes it.

`RestoreLabProofs` proves all properties of its run. Five are of the restore's state machine and follow from
`PrepareAssumption` and `LabAssumption`, for any number of processes, archives, databases, versions, commands and
faults. `PrepareInv` says that files stand in the order of their creation (`Ordered`), that at most one process has
any (`OneOwner`) and which (`Owned`), although the directory may be removed and made again by others in between. With
the manifest there every other process finds its next file in its way or has nothing to take back (`FinishedStep`), so
what a restore has verified is what it copies. `RestoreInv` carries the evidence of the option files through the
commands: they exist only if the copies are whole (`Copied`), they tell which databases are left (`Left`), and one
without its file is loaded and locked (`Done`). `MigrateInv` carries the error, the snapshot and the changed checksums
in the same way.

`StagedIsSound` is proved for texts of any length (`DumpSpec`), without an assumption. `PassSteps` shows that the
recursive function in `Pass` exists and what it computes: it begins in code and moves once at each token.
`MaskIsServer` (where no end mark stands in a literal, identifier or comment of an executable comment the code's mask
is the server's), `DigestIsServer` (without a quote in a comment or an identifier the digest covers every literal of
the server's) and `CodeIsSearched` (the backticks before a place in the mask are odd in number just if the server is
in an identifier there, so its code is searched for keywords) compare two passes token by token; `HistoryIsStaged`
needs that up to a place no line end is hidden. The rest is what the checks leave. The library's induction over
numbers takes an operator, which the provers cannot instantiate; `UpTo` is an induction over a set of numbers instead,
from the well-foundedness of finite sets.

Every safety property of the passing runs is proved. Only model-checked is what rests on fairness, which this prover
does not cover: `QueueDrains`, `AttemptEnds`, `ExportEnds`, `CheckEnds`. The three expected violations are not theorems
of anything.

## 14. Mutants

Every property of a passing run has a mutant: an operator marked as a fault that replaces a handler or step by one
with a plausible bug (no test of the flock, a dump whose failure is not an error, a baseline that is not retained, a
queue file unlinked too late, and so on), under which TLC finds the property violated.

## 15. Not modelled

Listed per component in `PROJECT.json`. Of the modelled part: the network and release format, disk space, MySQL itself
and `Restart=on-failure` of its unit, restarts of single services during an update, a queue path that is a directory,
and an operator who repairs units or files by hand. The audit of the case repair reads the option file and the server's
variables in one step. Of the firewall: duplicate rules, and an operator who reloads it while a service runs. Of the
clone export: the parsing of multipart bodies and archives, and Ctrl-C. Of the installation: which release the
bootstrap chooses and how it verifies it, the contents of what is staged, `deploy-native` with another `--config`, an
update of an installed host (that is `UpdateWorker`, which starts where `PassIsTrue` ends), and an operator who removes
files. Of the restore: the syntax, limits and digests of archives, dumps as bytes (a text is a sequence of tokens; a
replacement whose match begins in an identifier and ends outside of it is one token), and what MySQL does with a dump
besides succeeding or failing half-way. Of the management server: passwords, cookies, TLS and the static pages. Of the
TV side: the contents of requests and of the TV's answers beyond identity and success.

Whole files that are left out: `callbacks.py`, `backups.py` and the loading of `config.py` (one pass from input to
output, covered by the unit tests), `validate_manifest` (a schema), the vendor payload, certificates, hardware
identity and logging helpers, the lab's reports and its other scripts, and the Debian packaging.
