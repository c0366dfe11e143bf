---------------------------- MODULE UpdateWorker ----------------------------
(***************************************************************************)
(* The release updater of linux-cmnd: the root worker install_pending      *)
(* (updates.py), the two ways a confirmation reaches it -- the management   *)
(* GUI's queue file watched by cmnd-update.path, and a process an operator  *)
(* starts in a terminal -- and the state they share: the worker lock, the   *)
(* queue file, status.json, the installed package, the retained baseline    *)
(* current.deb and the application services.                               *)
(*                                                                         *)
(* One action is one command or one write of the worker, so that another    *)
(* process, a kill or a power loss can fall between any two of them.        *)
(***************************************************************************)
EXTENDS Naturals, FiniteSets

CONSTANTS
    Cli,            \* processes an operator may run: cmndctl --updates, update-apply
    Svc,            \* the one process of cmnd-update.service
    Services,       \* SERVICES: the application units the worker stops
    MaxVersion,     \* releases are numbered 1..MaxVersion, 1 is installed first
    Nothing,        \* no file, no process, no answer
    Malformed,      \* queue content validate_job refuses
    Broken,         \* a package dpkg left half installed
    StartLimit,     \* StartLimitBurst of cmnd-update.service
    MaxConfirm,     \* bound: confirmations in a behaviour, numbered 1..MaxConfirm
    MaxFaults,      \* bound: kills, power losses, Ctrl-C in a terminal
    Crashes,        \* whether kills and power losses are among them
    WriteFails      \* whether a write of status.json may fail

Worker == Cli \cup {Svc}
Version == 1..MaxVersion

ASSUME ConstantsAssumption ==
    /\ Svc \notin Cli
    /\ MaxVersion \in Nat \ {0}
    /\ StartLimit \in Nat \ {0}
    /\ MaxConfirm \in Nat /\ MaxFaults \in Nat /\ Crashes \in BOOLEAN
    /\ WriteFails \in BOOLEAN
    /\ Nothing \notin Version \cup Worker
    /\ Malformed \notin Version \cup {Nothing}
    /\ Broken \notin Version \cup {Nothing}

VARIABLES
    installed,   \* what dpkg has on disk: a version or Broken
    baseline,    \* version of STATE/current.deb, the rollback package
    up,          \* the application services that run
    queue,       \* request.json: Nothing, a version, or Malformed
    orphans,     \* the dpkg a killed terminal process left running, if any
    status,      \* status.json
    gui,         \* cmnd-admin: its __version__, the release it offers, a job it is publishing
    watch,       \* cmnd-update.path is active
    burst,       \* starts of cmnd-update.service in the current rate-limit window
    lock,        \* holder of the flock on worker.lock
    pc,          \* where each worker process is
    attempt,     \* each worker's local variables
    confirmed,   \* number of confirmations given so far
    ticket,      \* history: the confirmation the queued job is for, 0 if none
    begun,       \* history: how many attempts each confirmation, and none (0), led to
    faults       \* kills, power losses and interrupts so far

packages == <<installed, baseline, orphans>>
systemd  == <<watch, burst>>
process  == <<lock, pc, attempt>>
request  == <<queue, ticket>>
counters == <<confirmed, begun, faults>>
vars == <<packages, up, request, status, gui, systemd, process, counters>>

-----------------------------------------------------------------------------
(* Status values.  Only the fields that say something about the system are  *)
(* kept; version is Nothing where the code writes none.                      *)

Progress(s, v) == [state |-> s, version |-> v, recovered |-> FALSE, backup |-> FALSE]
Complete(v)    == [state |-> "complete", version |-> v, recovered |-> FALSE, backup |-> TRUE]
Failed(r, b)   == [state |-> "failed", version |-> Nothing, recovered |-> r, backup |-> b]

\* The states in which the GUI refuses a new confirmation.
Active == {"verifying", "backing-up", "installing"}

Status == [state: Active \cup {"idle", "complete", "failed"},
           version: Version \cup {Nothing}, recovered: BOOLEAN, backup: BOOLEAN]

(* Program points of install_pending, named for what happens next.           *)
Entry  == {"start", "take", "discard", "reject", "attempt"}
Writes == {"verifying", "backing-up", "installing", "complete"}
Trying == Writes \cup {"verify", "stop", "dump", "dpkg", "services", "ready", "admin", "retain"}
Undo   == {"undo-dpkg", "undo-retain", "undo-admin", "undo-services", "undo-ready"}
Held   == (Entry \ {"start"}) \cup Trying \cup Undo \cup {"failed", "close"}
Label  == {"off", "start"} \cup Held

\* The number of a confirmation; 0 stands for none.
Ticket == 0..MaxConfirm

\* for: the confirmation this process or the GUI holds and has not handed on (history).
Attempt == [ver: Version \cup {Nothing}, job: Version \cup {Nothing}, prev: Version \cup {Nothing},
            stopped: BOOLEAN, upgraded: BOOLEAN, dumped: BOOLEAN, recovered: BOOLEAN, for: Ticket]

GuiState == [ver: Version \cup {Nothing}, offer: Version \cup {Nothing},
             sending: Version \cup {Nothing}, for: Ticket]

\* A dpkg without the process that ran it: what it installs, and for which attempt.
Orphan == [to: Version, of: Attempt]

\* A process that runs code of version v, with job j confirmed in a terminal as
\* confirmation n (Nothing and 0: the job is to be read from the queue).
Launched(v, j, n) == [ver |-> v, job |-> j, prev |-> Nothing, stopped |-> FALSE, upgraded |-> FALSE,
                      dumped |-> FALSE, recovered |-> FALSE, for |-> n]
NoAttempt == Launched(Nothing, Nothing, 0)

-----------------------------------------------------------------------------
Init ==
    /\ installed = 1
    /\ baseline \in {1, Nothing}
    /\ up = Services
    /\ orphans = {}
    /\ queue \in {Nothing, Malformed} /\ ticket = 0
    /\ status = Progress("idle", Nothing)
    /\ gui = [ver |-> 1, offer |-> Nothing, sending |-> Nothing, for |-> 0]
    /\ watch = TRUE /\ burst = 0
    /\ lock = Nothing
    /\ pc = [w \in Worker |-> "off"]
    /\ attempt = [w \in Worker |-> NoAttempt]
    /\ confirmed = 0 /\ begun = [n \in Ticket |-> 0]
    /\ faults = 0

-----------------------------------------------------------------------------
(* The management GUI.                                                       *)

\* A release check compares the releases with the GUI's own __version__.
GuiCheck ==
    /\ gui.ver # Nothing /\ gui.sending = Nothing
    /\ \E r \in {Nothing} \cup {v \in Version : v > gui.ver} : gui' = [gui EXCEPT !.offer = r]
    /\ UNCHANGED <<packages, up, request, status, systemd, process, counters>>

\* POST /api/install up to the read of status.json; the job is published later.
GuiConfirm ==
    /\ confirmed < MaxConfirm
    /\ gui.offer # Nothing /\ gui.sending = Nothing
    /\ status.state \notin Active
    /\ gui' = [gui EXCEPT !.sending = gui.offer, !.for = confirmed + 1]
    /\ confirmed' = confirmed + 1
    /\ UNCHANGED <<packages, up, request, status, systemd, process, begun, faults>>

\* publish_job: os.link refuses to replace a queued job.
GuiPublish ==
    /\ gui.sending # Nothing
    /\ IF queue = Nothing THEN queue' = gui.sending /\ ticket' = gui.for ELSE UNCHANGED request
    /\ gui' = [gui EXCEPT !.sending = Nothing, !.for = 0]
    /\ UNCHANGED <<packages, up, status, systemd, process, counters>>

\* The GUI after systemctl try-restart cmnd-admin: its memory is lost.
Restarted == [ver |-> installed, offer |-> Nothing, sending |-> Nothing, for |-> 0]

-----------------------------------------------------------------------------
(* How worker processes come to be.                                          *)

Launch(w, j, n) == /\ pc[w] = "off" /\ installed \in Version
                   /\ pc' = [pc EXCEPT ![w] = "start"]
                   /\ attempt' = [attempt EXCEPT ![w] = Launched(installed, j, n)]

\* PathExists starts the service; with broken code its ExecStart fails at once.
StartService ==
    /\ watch /\ queue # Nothing /\ pc[Svc] = "off" /\ burst < StartLimit
    /\ burst' = burst + 1
    /\ IF installed \in Version THEN Launch(Svc, Nothing, 0) ELSE UNCHANGED <<pc, attempt>>
    /\ UNCHANGED <<packages, up, request, status, gui, watch, lock, counters>>

\* A service that hits its start limit takes its path unit down with it.
StartLimitHit ==
    /\ watch /\ queue # Nothing /\ pc[Svc] = "off" /\ burst = StartLimit
    /\ watch' = FALSE
    /\ UNCHANGED <<packages, up, request, status, gui, burst, process, counters>>

\* The rate-limit window of the service manager passes.
WindowEnds == /\ burst # 0 /\ burst' = 0
              /\ UNCHANGED <<packages, up, request, status, gui, watch, process, counters>>

\* cmndctl --updates: a newer release is offered and INSTALL VERSION is typed.
CliConfirm(c) ==
    /\ confirmed < MaxConfirm
    /\ installed \in Version
    /\ \E v \in Version : v > installed /\ Launch(c, v, confirmed + 1)
    /\ confirmed' = confirmed + 1
    /\ UNCHANGED <<packages, up, request, status, gui, systemd, lock, begun, faults>>

\* cmndctl update-apply --execute run by hand: it confirms nothing.
CliApply(c) ==
    /\ Launch(c, Nothing, 0)
    /\ UNCHANGED <<packages, up, request, status, gui, systemd, lock, counters>>

-----------------------------------------------------------------------------
(* install_pending, from the lock to the first write of status.json.         *)

Goto(w, there) == pc' = [pc EXCEPT ![w] = there]
At(w, here)    == pc[w] = here

\* The process ends: the kernel drops its flock and its locals are gone.
Exit(w) == /\ pc' = [pc EXCEPT ![w] = "off"]
           /\ attempt' = [attempt EXCEPT ![w] = NoAttempt]
           /\ lock' = IF lock = w THEN Nothing ELSE lock

\* Fault: the flock is not tested.
AcquireUnlocked(w) ==
    /\ At(w, "start") /\ lock' = w /\ Goto(w, "take")
    /\ UNCHANGED <<packages, up, request, status, gui, systemd, attempt, counters>>

Acquire(w) ==
    /\ At(w, "start") /\ lock = Nothing
    /\ lock' = w /\ Goto(w, "take")
    /\ UNCHANGED <<packages, up, request, status, gui, systemd, attempt, counters>>

\* BlockingIOError: the queue is left as it is.
Refuse(w) ==
    /\ At(w, "start") /\ lock # Nothing
    /\ Exit(w)
    /\ UNCHANGED <<packages, up, request, status, gui, systemd, counters>>

\* A write of status.json outside the try block: a failure leaves the old file.
TryWrite(s) == \/ status' = s
               \/ WriteFails /\ UNCHANGED status

\* A worker takes up a confirmation (history).
TakeUp(n) == begun' = [begun EXCEPT ![n] = @ + 1]

\* Fault: a job confirmed in a terminal replaces the queued one.
TakeConfirmedOverQueue(w) ==
    /\ At(w, "take") /\ attempt[w].job # Nothing
    /\ queue' = Nothing /\ ticket' = 0
    /\ Goto(w, "attempt") /\ TakeUp(attempt[w].for) /\ attempt' = [attempt EXCEPT ![w].for = 0]
    /\ UNCHANGED <<packages, up, status, gui, systemd, lock, confirmed, faults>>

\* A job confirmed in a terminal is taken only if no other one is queued.
TakeConfirmed(w) ==
    /\ At(w, "take") /\ attempt[w].job # Nothing
    /\ IF queue = Nothing
       THEN /\ Goto(w, "attempt") /\ TakeUp(attempt[w].for)
            /\ attempt' = [attempt EXCEPT ![w].for = 0] /\ UNCHANGED lock
       ELSE Exit(w) /\ UNCHANGED begun
    /\ UNCHANGED <<packages, up, request, status, gui, systemd, confirmed, faults>>

\* A valid job is read.
Read(w) ==
    /\ At(w, "take") /\ attempt[w].job = Nothing
    /\ queue \in Version
    /\ Goto(w, "attempt") /\ TakeUp(ticket)
    /\ attempt' = [attempt EXCEPT ![w].job = queue]
    /\ UNCHANGED <<packages, up, status, gui, systemd, lock, confirmed, faults>>

\* Fault: a job is unlinked after the update only.
TakeKeepingJob(w) == Read(w) /\ UNCHANGED request

\* A queued job is unlinked before any of it is carried out; no other process can
\* put one in its place meanwhile: os.link refuses, and the lock is held.
TakeQueued(w) == Read(w) /\ queue' = Nothing /\ ticket' = 0

\* There is no job, or a malformed one.
FindNoJob(w) ==
    /\ At(w, "take") /\ attempt[w].job = Nothing
    /\ queue \notin Version /\ Goto(w, "discard")
    /\ UNCHANGED <<packages, up, request, status, gui, systemd, lock, attempt, counters>>

\* Fault: a malformed job is not unlinked.
DiscardNothing(w) ==
    /\ At(w, "discard") /\ Goto(w, "reject")
    /\ UNCHANGED <<packages, up, request, status, gui, systemd, lock, attempt, counters>>

\* The failure path unlinks whatever is there by now, a job queued since included.
Discard(w) ==
    /\ At(w, "discard") /\ Goto(w, "reject")
    /\ queue' = Nothing /\ ticket' = 0
    /\ UNCHANGED <<packages, up, status, gui, systemd, lock, attempt, counters>>

\* InvalidQueuedJob; the lock is closed whether or not the write succeeds.
RejectJob(w) ==
    /\ At(w, "reject")
    /\ TryWrite(Failed(FALSE, FALSE))
    /\ Exit(w)
    /\ UNCHANGED <<packages, up, request, gui, systemd, counters>>

\* attempt.mkdir; on failure the job is gone and status.json says nothing of it.
MakeAttempt(w) ==
    /\ At(w, "attempt")
    /\ \/ Goto(w, "verifying") /\ UNCHANGED <<lock, attempt>>
       \/ Exit(w)
    /\ UNCHANGED <<packages, up, request, status, gui, systemd, counters>>

-----------------------------------------------------------------------------
(* The try block.                                                            *)

\* write_status(s), then the flags the code sets before its next command.
Write(w, here, s, there) ==
    /\ At(w, here) /\ Goto(w, there)
    /\ status' = s
    /\ UNCHANGED <<packages, up, request, gui, systemd, lock, counters>>

WriteVerifying(w) ==
    /\ Write(w, "verifying", Progress("verifying", attempt[w].job), "verify")
    /\ UNCHANGED attempt

\* check_release against this process's own __version__, downloads, identity,
\* and the retained baseline, which must be the version that is running.
Verify(w) ==
    /\ At(w, "verify") /\ Goto(w, "backing-up")
    /\ attempt[w].job > attempt[w].ver
    /\ baseline = attempt[w].ver
    /\ attempt' = [attempt EXCEPT ![w].prev = baseline]
    /\ UNCHANGED <<packages, up, request, status, gui, systemd, lock, counters>>

WriteBackingUp(w) ==
    /\ Write(w, "backing-up", Progress("backing-up", attempt[w].job), "stop")
    /\ attempt' = [attempt EXCEPT ![w].stopped = TRUE]

StopServices(w) ==
    /\ At(w, "stop") /\ Goto(w, "dump")
    /\ up' = {}
    /\ UNCHANGED <<packages, request, status, gui, systemd, lock, attempt, counters>>

\* Fault: a dump that failed or timed out is not an error.
DumpUnchecked(w) ==
    /\ At(w, "dump") /\ Goto(w, "installing")
    /\ UNCHANGED <<packages, up, request, status, gui, systemd, lock, attempt, counters>>

\* Disk check, mysqldump and its compression.
Dump(w) ==
    /\ At(w, "dump") /\ Goto(w, "installing")
    /\ attempt' = [attempt EXCEPT ![w].dumped = TRUE]
    /\ UNCHANGED <<packages, up, request, status, gui, systemd, lock, counters>>

WriteInstalling(w) ==
    /\ Write(w, "installing", Progress("installing", attempt[w].job), "dpkg")
    /\ attempt' = [attempt EXCEPT ![w].upgraded = TRUE]

\* dpkg refuses to run beside another one: its own lock.
DpkgFree == orphans = {}

Dpkg(w) ==
    /\ At(w, "dpkg") /\ DpkgFree /\ Goto(w, "services")
    /\ installed' = attempt[w].job
    /\ UNCHANGED <<baseline, orphans, up, request, status, gui, systemd, lock, attempt, counters>>

StartServices(w) ==
    /\ At(w, "services") /\ Goto(w, "ready")
    /\ up' = Services
    /\ UNCHANGED <<packages, request, status, gui, systemd, lock, attempt, counters>>

\* wait_ready probes every route of the applications.
Ready == up = Services

WaitReady(w) ==
    /\ At(w, "ready") /\ Ready /\ Goto(w, "admin")
    /\ UNCHANGED <<packages, up, request, status, gui, systemd, lock, attempt, counters>>

RestartAdmin(w) ==
    /\ At(w, "admin") /\ Goto(w, "retain")
    /\ gui' = Restarted
    /\ UNCHANGED <<packages, up, request, status, systemd, lock, attempt, counters>>

\* Fault: the new package is not retained as the next baseline.
RetainSkipped(w) ==
    /\ At(w, "retain") /\ Goto(w, "complete")
    /\ UNCHANGED <<packages, up, request, status, gui, systemd, lock, attempt, counters>>

Retain(w) ==
    /\ At(w, "retain") /\ Goto(w, "complete")
    /\ baseline' = attempt[w].job
    /\ UNCHANGED <<installed, orphans, up, request, status, gui, systemd, lock, attempt, counters>>

WriteComplete(w) ==
    /\ Write(w, "complete", Complete(attempt[w].job), "close")
    /\ UNCHANGED attempt

-----------------------------------------------------------------------------
(* What a command cut short may have done, and the exception handler.        *)

\* The version the dpkg of a worker installs.
Packaging == {"dpkg", "undo-dpkg"}
Target(w) == IF pc[w] = "dpkg" THEN attempt[w].job ELSE attempt[w].prev

CutShort(w) ==
    /\ \/ UNCHANGED up
       \/ pc[w] = "stop" /\ up' \in SUBSET up
       \/ pc[w] \in {"services", "undo-services"} /\ \E s \in SUBSET Services : up' = up \cup s
    /\ \/ UNCHANGED installed
       \/ pc[w] \in Packaging /\ DpkgFree /\ installed' \in {Broken, Target(w)}
    /\ \/ UNCHANGED gui
       \/ pc[w] \in {"admin", "undo-admin"} /\ gui' = Restarted

\* Faults: only the services are rolled back; nothing is written when nothing
\* was stopped; a rollback step that fails is tried again.
HandlerKeepsPackage(w) == IF pc[w] \in Undo \/ ~attempt[w].stopped THEN "failed" ELSE "undo-services"
HandlerSilent(w) == IF ~attempt[w].stopped THEN "close" ELSE "failed"
HandlerRetries(w) == IF ~attempt[w].stopped THEN "failed" ELSE "undo-services"

\* Where an exception in the try block, or a swallowed one in the handler, leads.
Handler(w) ==
    IF pc[w] \in Undo \/ ~attempt[w].stopped THEN "failed"
    ELSE IF attempt[w].upgraded THEN "undo-dpkg" ELSE "undo-services"

Raise(w) ==
    /\ pc[w] \in Trying \cup Undo
    /\ pc[w] \in Writes => WriteFails
    /\ CutShort(w) /\ Goto(w, Handler(w))
    /\ UNCHANGED <<baseline, orphans, request, status, systemd, lock, attempt, counters>>

UndoDpkg(w) ==
    /\ At(w, "undo-dpkg") /\ DpkgFree /\ Goto(w, "undo-retain")
    /\ installed' = attempt[w].prev
    /\ UNCHANGED <<baseline, orphans, up, request, status, gui, systemd, lock, attempt, counters>>

UndoRetain(w) ==
    /\ At(w, "undo-retain") /\ Goto(w, "undo-admin")
    /\ baseline' = attempt[w].prev
    /\ UNCHANGED <<installed, orphans, up, request, status, gui, systemd, lock, attempt, counters>>

UndoAdmin(w) ==
    /\ At(w, "undo-admin") /\ Goto(w, "undo-services")
    /\ gui' = Restarted
    /\ UNCHANGED <<packages, up, request, status, systemd, lock, attempt, counters>>

UndoServices(w) ==
    /\ At(w, "undo-services") /\ Goto(w, "undo-ready")
    /\ up' = Services
    /\ UNCHANGED <<packages, request, status, gui, systemd, lock, attempt, counters>>

UndoReady(w) ==
    /\ At(w, "undo-ready") /\ Goto(w, "failed")
    /\ attempt' = [attempt EXCEPT ![w].recovered = Ready]
    /\ UNCHANGED <<packages, up, request, status, gui, systemd, lock, counters>>

WriteFailed(w) ==
    /\ At(w, "failed") /\ Goto(w, "close")
    /\ TryWrite(Failed(attempt[w].recovered, attempt[w].dumped))
    /\ UNCHANGED <<packages, up, request, gui, systemd, lock, attempt, counters>>

Close(w) ==
    /\ At(w, "close") /\ Exit(w)
    /\ UNCHANGED <<packages, up, request, status, gui, systemd, counters>>

-----------------------------------------------------------------------------
(* Faults.  None of them is an Exception, so the handler does not run.       *)

Fault == faults < MaxFaults /\ faults' = faults + 1

Die(w) == /\ pc[w] # "off" /\ CutShort(w) /\ Exit(w)
          /\ UNCHANGED <<baseline, orphans, request, status, systemd, confirmed, begun>>

\* The service is killed, or TimeoutStartSec expires: systemd ends its commands too.
KillService == Crashes /\ Fault /\ Die(Svc)

\* Ctrl-C or hangup of a terminal, delivered to the running command as well.
Interrupt(c) == Fault /\ Die(c)

\* SIGKILL of a process in a terminal: the flock is free (its descriptor is not
\* inherited) while a dpkg it runs goes on.  What systemd was asked for is ended
\* by the next start or stop, which replaces it, and a mysqldump writes a private
\* file: at any other step the kill does what Interrupt does.
KillTerminal(c) ==
    /\ Crashes /\ Fault
    /\ pc[c] \in Packaging /\ DpkgFree
    /\ orphans' = {[to |-> Target(c), of |-> attempt[c]]}
    /\ Exit(c)
    /\ UNCHANGED <<installed, baseline, up, request, status, gui, systemd, confirmed, begun>>

\* A dpkg left running ends, well or not.
OrphanEnds ==
    /\ \E o \in orphans : installed' \in {Broken, o.to}
    /\ orphans' = {}
    /\ UNCHANGED <<baseline, up, request, status, gui, systemd, process, counters>>

\* Power loss: the files survive, every process ends, systemd starts what is
\* enabled; a worker in the middle of a command leaves its partial effect.
Reboot ==
    /\ Crashes /\ Fault
    /\ \/ UNCHANGED installed
       \/ \E w \in Worker : pc[w] \in Packaging /\ DpkgFree /\ installed' \in {Broken, Target(w)}
       \/ \E o \in orphans : installed' \in {Broken, o.to}
    /\ orphans' = {}
    /\ up' \in SUBSET Services
    /\ gui' = [ver |-> IF installed' \in Version THEN installed' ELSE Nothing,
               offer |-> Nothing, sending |-> Nothing, for |-> 0]
    /\ watch' = TRUE /\ burst' = 0
    /\ lock' = Nothing
    /\ pc' = [w \in Worker |-> "off"]
    /\ attempt' = [w \in Worker |-> NoAttempt]
    /\ UNCHANGED <<baseline, request, status, confirmed, begun>>

-----------------------------------------------------------------------------
Work(w) ==
    \/ Acquire(w) \/ Refuse(w) \/ TakeConfirmed(w) \/ TakeQueued(w) \/ FindNoJob(w)
    \/ Discard(w) \/ RejectJob(w) \/ MakeAttempt(w) \/ WriteVerifying(w) \/ Verify(w) \/ WriteBackingUp(w)
    \/ StopServices(w) \/ Dump(w) \/ WriteInstalling(w) \/ Dpkg(w) \/ StartServices(w)
    \/ WaitReady(w) \/ RestartAdmin(w) \/ Retain(w) \/ WriteComplete(w)
    \/ Raise(w) \/ UndoDpkg(w) \/ UndoRetain(w) \/ UndoAdmin(w) \/ UndoServices(w)
    \/ UndoReady(w) \/ WriteFailed(w) \/ Close(w)

Gui == GuiCheck \/ GuiConfirm \/ GuiPublish

Watcher == StartService \/ StartLimitHit

Next ==
    \/ Gui \/ Watcher \/ WindowEnds \/ KillService \/ OrphanEnds \/ Reboot
    \/ \E w \in Worker : Work(w)
    \/ \E c \in Cli : CliConfirm(c) \/ CliApply(c) \/ Interrupt(c) \/ KillTerminal(c)

Spec == Init /\ [][Next]_vars

(* Every command of the worker has a deadline, a confirmation that passed the *)
(* check is published by the same request handler, and systemd reacts to the  *)
(* queue file.  Nothing obliges a person to confirm, or a fault to occur.     *)
Fairness == /\ \A w \in Worker : WF_vars(Work(w))
            /\ WF_vars(GuiPublish) /\ WF_vars(Watcher)

FairSpec == Spec /\ Fairness

-----------------------------------------------------------------------------
(* Properties.                                                               *)

\* The state is well typed.
TypeOK ==
    /\ installed \in Version \cup {Broken}
    /\ baseline \in Version \cup {Nothing}
    /\ up \subseteq Services
    /\ orphans \in SUBSET Orphan
    /\ queue \in Version \cup {Nothing, Malformed} /\ ticket \in Ticket
    /\ status \in Status
    /\ gui \in GuiState
    /\ watch \in BOOLEAN /\ burst \in 0..StartLimit
    /\ lock \in Worker \cup {Nothing}
    /\ pc \in [Worker -> Label]
    /\ attempt \in [Worker -> Attempt]
    /\ confirmed \in Ticket /\ begun \in [Ticket -> Nat]
    /\ faults \in Nat

\* Two attempts never overlap: only the holder of the flock is past it, and a
\* holder that exits in any way gives it up (updates.py 215-223, 342-343).
OneAttempt ==
    \A w \in Worker : pc[w] \in Held <=> lock = w

\* status.json says "complete" only of the version that is both installed and
\* retained as the next rollback package, whatever kills, interrupts, refused
\* jobs, stale terminals and later attempts follow (updates.py 314-324).
CompleteIsTrue ==
    status.state = "complete" => installed = status.version /\ baseline = status.version

\* The databases are dumped and the package is replaced only while no
\* application service of the site writes to them (updates.py 292-316).
WritersStopped ==
    \A w \in Worker : pc[w] \in {"dump", "installing", "dpkg"} => up = {}

\* No attempt is made without a confirmation, and no confirmation leads to two,
\* whichever process took it up, whatever became of the other confirmations, and
\* even when that process dies: the queued file is unlinked first (updates.py 224-236).
ConfirmationsSpentOnce == \A n \in Ticket : begun[n] <= IF n = 0 THEN 0 ELSE 1

\* No package is replaced unless the attempt it is for has a complete database
\* backup and a rollback package (updates.py 287, 297-316), be its worker alive or not.
BackedUp(a) == a.dumped /\ a.prev = a.ver
PackageChangeIsBackedUp ==
    [][installed' # installed => \/ \E w \in Worker : lock = w /\ BackedUp(attempt[w])
                                 \/ \E o \in orphans : BackedUp(o.of)]_vars

\* A failure that reports previous_runtime_recovered has the services running
\* and, if it touched the package, the version it started from installed and
\* retained again (updates.py 325-340).
RecoveryIsTrue ==
    [][status' # status /\ status'.recovered =>
         \E w \in Worker : /\ lock = w /\ up = Services
                           /\ attempt[w].upgraded => /\ installed = attempt[w].prev
                                                     /\ baseline = attempt[w].prev]_vars

\* "It does not overwrite or consume another pending GUI request"
\* (docs/UPDATES.md 38): a queued job only leaves the queue through a worker
\* that was not given a job of its own.
TerminalLeavesQueue ==
    [][queue # Nothing /\ queue' # queue =>
         \E w \in Worker : /\ lock = w /\ pc[w] \in {"take", "discard"}
                           /\ attempt[w].job = Nothing /\ queue' = Nothing]_vars

\* Without faults a finished attempt never leaves a state in status.json that
\* makes the GUI refuse every later confirmation (update_gui.py 202-203).
NoStuckStatus == lock = Nothing => status.state \notin Active

\* While cmnd-update.path lives and the installed code can run, a queued file --
\* a malformed one, and one refused because a terminal holds the lock, as well
\* -- is eventually taken (updates.py 215-249).
QueueDrains == queue # Nothing ~> queue = Nothing \/ ~watch \/ installed = Broken

\* An attempt that began, its rollback included, eventually ends and gives up
\* the lock (updates.py 325-343).
AttemptEnds == \A w \in Worker : lock = w ~> lock # w

\* The rest of the system may rely on UpgradeOutcome alone: the package is busy
\* from the first dpkg until the upgrade is reported or both the package and the
\* baseline are back (updates.py 315-341); a dpkg left alone needs a review.
Changing == {"dpkg", "services", "ready", "admin", "retain", "complete", "undo-dpkg", "undo-retain"}
Busy     == \E w \in Worker : pc[w] \in Changing
Matching == installed = baseline /\ orphans = {}
Phase    == IF Busy THEN "busy" ELSE IF Matching THEN "settled" ELSE "review"
Settled  == IF Busy THEN attempt[lock].prev ELSE IF Matching THEN baseline ELSE Nothing

Outcome == INSTANCE UpgradeOutcome WITH phase <- Phase, version <- Settled

\* A settled version is only ever followed by itself or a newer one, and is
\* lost only by an attempt that both failed and could not be rolled back.
OutcomeSpec == Outcome!Spec

\* "never races the GUI queue watcher" (update_cli.py 44), "without wedging
\* PathExists" (updates.py 241): a queued confirmation always has a live watcher.
QueueIsWatched == queue \in Version => watch

=============================================================================
