---------------------------- MODULE Installation ----------------------------
(***************************************************************************)
(* A fresh installation: bootstrap.py checks the host and downloads, or the   *)
(* operator calls cmnd-install (install-native.sh) with a package of his own;  *)
(* the script installs the tooling and calls cmndctl deploy-native, whose      *)
(* deploy (native_deploy.py) creates everything else and whose failure path    *)
(* stops it; install_summary.py tells whether it is complete.  Nothing but the *)
(* directory /var/lib/cmnd-deployment keeps two sessions apart.                *)
(***************************************************************************)
EXTENDS Naturals

CONSTANTS
    Session,     \* shells an operator may install from
    Nobody,      \* no session
    Version,     \* versions of the package
    Config,      \* reviewed configurations
    Nothing,     \* no such file
    Broken,      \* a file or package that is there in part
    MaxRuns,     \* bound: installations that are started
    MaxFaults    \* bound: failing steps, kills and reboots

ASSUME InstallAssumption ==
    /\ Nobody \notin Session
    /\ Nothing # Broken
    /\ {Nothing, Broken} \cap (Version \cup Config \cup {"whole", "pass", "fail"}) = {}
    /\ MaxRuns \in Nat /\ MaxFaults \in Nat

App  == {"tomcat", "apache", "php", "admin"}
Unit == App \cup {"egress", "mysql", "path"}

VARIABLES
    tooling,     \* the package dpkg has installed
    config,      \* /etc/cmnd/cmnd.toml
    cache,       \* initial-installer.deb
    owner,       \* who created /var/lib/cmnd-deployment
    site,        \* what deploy creates
    up,          \* units that run
    enabled,     \* units that start with the host
    pc, job,     \* each session: its next step, its package, configuration and version
    count,       \* runs and faults so far
    overlapped,  \* two sessions were past the script's test at once (history variable)
    inits,       \* how often the creation of the databases began (history variable)
    stuck,       \* the stop of the failure path did not work (history variable)
    rebooted     \* the host was restarted (history variable)

host     == <<tooling, config, cache>>
services == <<up, enabled>>
history  == <<overlapped, inits, stuck, rebooted>>
vars     == <<host, owner, site, services, pc, job, count, history>>

\* tree: the configuration the staged applications were made for; current:
\* current.deb; marker, report, receipt: deployment.json, qualification.json,
\* install-summary.txt; accounts: the credentials.
Whole == "whole"
Site  == [tree: Config \cup {Nothing, Broken}, database: {Nothing, Broken, Whole},
          accounts: {Nothing, Broken, Whole}, current: Version \cup {Nothing, Broken},
          marker: {Nothing, Broken, Whole}, report: {Nothing, Broken, Whole},
          failed: BOOLEAN, receipt: {Nothing, Broken, "pass", "fail"}]
NoSite == [tree |-> Nothing, database |-> Nothing, accounts |-> Nothing, current |-> Nothing,
           marker |-> Nothing, report |-> Nothing, failed |-> FALSE, receipt |-> Nothing]

Undo   == {"undo-stop", "undo-mark", "undo-receipt"}
Trying == {"stage", "units", "mysql", "schemas", "accounts", "validate", "retain", "php", "apps",
           "ready", "enable", "watch", "marker", "report", "summary", "receipt", "announce"}
Inside == Trying \cup Undo
Script == {"tooling", "configure", "cache", "read", "preflight", "claim"}
Label  == {"off", "fetch", "check"} \cup Script \cup Inside

Job   == [version: Version \cup {Nothing}, config: Config \cup {Nothing},
          own: Version \cup {Nothing}, deploys: Config \cup {Nothing}]
NoJob == [version |-> Nothing, config |-> Nothing, own |-> Nothing, deploys |-> Nothing]

Init ==
    /\ tooling = Nothing /\ config = Nothing /\ cache = Nothing
    /\ owner = Nobody /\ site = NoSite /\ up = {} /\ enabled = {}
    /\ pc = [s \in Session |-> "off"] /\ job = [s \in Session |-> NoJob]
    /\ count = [runs |-> 0, faults |-> 0]
    /\ overlapped = FALSE /\ inits = 0 /\ stuck = FALSE /\ rebooted = FALSE

At(s, here)    == pc[s] = here
Goto(s, there) == pc' = [pc EXCEPT ![s] = there]
Step(s, here, there) == At(s, here) /\ Goto(s, there)
Leave(s)       == Goto(s, "off") /\ job' = [job EXCEPT ![s] = NoJob]
Fault          == count.faults < MaxFaults /\ count' = [count EXCEPT !.faults = @ + 1]

-----------------------------------------------------------------------------
(* bootstrap.py and install-native.sh.                                       *)

\* A session goes on while another one is past the test for existing state.
Overlap == overlapped' = (overlapped \/ \E t \in Session : pc[t] \in Script \cup Inside)

\* check_host refuses existing state; cmnd-install may be called without it, and
\* cmndctl deploy-native without either (its --config stays /etc/cmnd/cmnd.toml).
Begin(s) ==
    /\ At(s, "off") /\ count.runs < MaxRuns /\ count' = [count EXCEPT !.runs = @ + 1]
    /\ \/ owner = Nobody /\ Goto(s, "fetch") /\ UNCHANGED overlapped
       \/ Goto(s, "check") /\ UNCHANGED overlapped
       \/ Goto(s, "read") /\ Overlap
    /\ \E v \in Version, c \in Config :
           job' = [job EXCEPT ![s] = [NoJob EXCEPT !.version = v, !.config = c]]
    /\ UNCHANGED <<host, owner, site, services, inits, stuck, rebooted>>

\* Download and verification in a private directory.
Fetch(s) ==
    /\ Step(s, "fetch", "check")
    /\ UNCHANGED <<host, owner, site, services, job, count, history>>

\* "Fresh installer refuses existing application state".
Check(s) ==
    /\ owner = Nobody
    /\ Step(s, "check", "tooling") /\ Overlap
    /\ UNCHANGED <<host, owner, site, services, job, count, inits, stuck, rebooted>>

\* The packaged cmnd.toml is a conffile: dpkg installs it where there is none.
Conffile == IF config = Nothing THEN Config ELSE {config}

\* dpkg --install.
Tooling(s) ==
    /\ Step(s, "tooling", "configure") /\ tooling' = job[s].version /\ config' \in Conffile
    /\ UNCHANGED <<cache, owner, site, services, job, count, history>>

Configure(s) ==
    /\ Step(s, "configure", "cache") /\ config' = job[s].config
    /\ UNCHANGED <<tooling, cache, owner, site, services, job, count, history>>

\* The retained installer; archives and images follow without changing more.
Cache(s) ==
    /\ Step(s, "cache", "read") /\ cache' = job[s].version
    /\ cache' = tooling
    /\ UNCHANGED <<tooling, config, owner, site, services, job, count, history>>

\* --prepare-only.
Prepared(s) ==
    /\ At(s, "read") /\ Leave(s)
    /\ UNCHANGED <<host, owner, site, services, count, history>>

\* deploy-native: what this process is and reads stays so until it ends.
Read(s) ==
    /\ tooling \in Version /\ config \in Config
    /\ Step(s, "read", "preflight")
    /\ job' = [job EXCEPT ![s].own = tooling, ![s].deploys = config]
    /\ UNCHANGED <<host, owner, site, services, count, history>>

\* The retained installer is that of this version, and nothing is there yet.
Preflight(s) ==
    /\ cache = job[s].own /\ owner = Nobody
    /\ Step(s, "preflight", "claim")
    /\ UNCHANGED <<host, owner, site, services, job, count, history>>

-----------------------------------------------------------------------------
(* deploy.                                                                   *)

\* Fault: mkdir(exist_ok=True).
ClaimExisting(s) ==
    /\ Step(s, "claim", "stage") /\ owner' = s
    /\ UNCHANGED <<host, site, services, job, count, history>>

\* STATE.mkdir.
Claim(s) ==
    /\ owner = Nobody
    /\ Step(s, "claim", "stage") /\ owner' = s
    /\ UNCHANGED <<host, site, services, job, count, history>>

\* Secrets, certificates, applications, configuration, truststore.
Stage(s) ==
    /\ Step(s, "stage", "units") /\ site' = [site EXCEPT !.tree = job[s].deploys]
    /\ UNCHANGED <<host, owner, services, job, count, history>>

Units(s) ==
    /\ Step(s, "units", "mysql")
    /\ up' = up \cup {"egress"} /\ enabled' = enabled \cup {"egress"}
    /\ UNCHANGED <<host, owner, site, job, count, history>>

Mysql(s) ==
    /\ Step(s, "mysql", "schemas") /\ up' = up \cup {"mysql"}
    /\ UNCHANGED <<host, owner, site, enabled, job, count, history>>

\* Fault: a schema that could not be imported is left out.
SchemasUnchecked(s) ==
    /\ Step(s, "schemas", "accounts") /\ inits' = inits + 1
    /\ \E d \in {Broken, Whole} : site' = [site EXCEPT !.database = d]
    /\ UNCHANGED <<host, owner, services, job, count, overlapped, stuck, rebooted>>

Schemas(s) ==
    /\ Step(s, "schemas", "accounts") /\ inits' = inits + 1
    /\ site' = [site EXCEPT !.database = Whole]
    /\ UNCHANGED <<host, owner, services, job, count, overlapped, stuck, rebooted>>

Accounts(s) ==
    /\ Step(s, "accounts", "validate") /\ site' = [site EXCEPT !.accounts = Whole]
    /\ UNCHANGED <<host, owner, services, job, count, history>>

\* validate_baseline against this process's own version, then the copy.
Validate(s) ==
    /\ cache = job[s].own
    /\ Step(s, "validate", "retain")
    /\ UNCHANGED <<host, owner, site, services, job, count, history>>

Retain(s) ==
    /\ Step(s, "retain", "php") /\ site' = [site EXCEPT !.current = cache]
    /\ UNCHANGED <<host, owner, services, job, count, history>>

Php(s) ==
    /\ Step(s, "php", "apps") /\ up' = up \cup {"php"}
    /\ UNCHANGED <<host, owner, site, enabled, job, count, history>>

StartApps(s) ==
    /\ Step(s, "apps", "ready") /\ up' = up \cup {"admin", "apache", "tomcat"}
    /\ UNCHANGED <<host, owner, site, enabled, job, count, history>>

\* wait_ready: every context answers and every migration is done in time.
WaitReady(s) ==
    /\ Step(s, "ready", "enable")
    /\ UNCHANGED <<host, owner, site, services, job, count, history>>

Enable(s) ==
    /\ Step(s, "enable", "watch") /\ enabled' = enabled \cup App \cup {"mysql"}
    /\ UNCHANGED <<host, owner, site, up, job, count, history>>

Watch(s) ==
    /\ Step(s, "watch", "marker")
    /\ up' = up \cup {"path"} /\ enabled' = enabled \cup {"path"}
    /\ UNCHANGED <<host, owner, site, job, count, history>>

Marker(s) ==
    /\ Step(s, "marker", "report") /\ site' = [site EXCEPT !.marker = Whole]
    /\ UNCHANGED <<host, owner, services, job, count, history>>

Report(s) ==
    /\ Step(s, "report", "summary") /\ site' = [site EXCEPT !.report = Whole]
    /\ UNCHANGED <<host, owner, services, job, count, history>>

\* What install-summary makes of the files, at any time and for any reader; the
\* report is only written with services started, enabled and readiness verified.
Pass == /\ site.marker = Whole /\ site.report = Whole /\ ~site.failed
        /\ site.accounts = Whole /\ config \in Config

Summary(s) ==
    /\ Pass
    /\ Step(s, "summary", "receipt")
    /\ UNCHANGED <<host, owner, site, services, job, count, history>>

Receipt(s) ==
    /\ Step(s, "receipt", "announce") /\ site' = [site EXCEPT !.receipt = "pass"]
    /\ UNCHANGED <<host, owner, services, job, count, history>>

\* The last line of the log, whose failure is one of the deployment like any other.
Announce(s) ==
    /\ At(s, "announce") /\ Leave(s)
    /\ UNCHANGED <<host, owner, site, services, count, history>>

-----------------------------------------------------------------------------
(* Failures.                                                                 *)

\* The file a step that does not reach its end may leave, and what is in it.
Partial(s) ==
    CASE At(s, "stage")     -> {[site EXCEPT !.tree = Broken]}
      [] At(s, "schemas")   -> {[site EXCEPT !.database = Broken]}
      [] At(s, "accounts")  -> {[site EXCEPT !.accounts = Broken]}
      [] At(s, "retain")    -> {[site EXCEPT !.current = Broken]}
      [] At(s, "marker")    -> {[site EXCEPT !.marker = Broken]}
      [] At(s, "report")    -> {[site EXCEPT !.report = Broken]}
      [] At(s, "undo-mark") -> {[site EXCEPT !.failed = TRUE]}
      [] At(s, "receipt") \/ (At(s, "undo-receipt") /\ site.receipt = Nothing) ->
             {[site EXCEPT !.receipt = Broken]}
      [] OTHER -> {}

Starts(s) ==
    CASE At(s, "units") -> {"egress"}
      [] At(s, "mysql") -> {"mysql"}
      [] At(s, "php")   -> {"php"}
      [] At(s, "apps")  -> {"admin", "apache", "tomcat"}
      [] At(s, "watch") -> {"path"}
      [] OTHER -> {}

Enables(s) ==
    CASE At(s, "units")  -> {"egress"}
      [] At(s, "enable") -> App \cup {"mysql"}
      [] At(s, "watch")  -> {"path"}
      [] OTHER -> {}

Stops == App \cup {"path"}

CutShort(s) ==
    /\ tooling' \in IF At(s, "tooling") THEN {tooling, Broken, job[s].version} ELSE {tooling}
    /\ config' \in CASE At(s, "tooling")   -> {config} \cup Conffile
                      [] At(s, "configure") -> {config, Broken}
                      [] OTHER -> {config}
    /\ cache' \in IF At(s, "cache") THEN {cache, Broken, job[s].version} ELSE {cache}
    /\ site' \in {site} \cup Partial(s)
    /\ \E S \in SUBSET Starts(s), T \in SUBSET (IF At(s, "undo-stop") THEN Stops ELSE {}) :
           up' = (up \cup S) \ T
    /\ \E S \in SUBSET Enables(s) : enabled' = enabled \cup S
    /\ inits' = IF At(s, "schemas") THEN inits + 1 ELSE inits
    /\ UNCHANGED <<owner, overlapped>>

\* Only what comes after STATE.mkdir has a handler; the handler has none.
Handler(s) ==
    IF pc[s] \in Trying THEN Goto(s, "undo-stop") /\ UNCHANGED job ELSE Leave(s)

Raise(s) ==
    /\ pc[s] # "off" /\ Fault /\ CutShort(s) /\ Handler(s)
    /\ UNCHANGED <<stuck, rebooted>>

\* A test of the code that fails.
Refuse(s) ==
    /\ \/ pc[s] \in {"check", "claim"} /\ owner # Nobody
       \/ At(s, "cache") /\ job[s].version # tooling
       \/ At(s, "read") /\ ~(tooling \in Version /\ config \in Config)
       \/ At(s, "preflight") /\ ~(cache = job[s].own /\ owner = Nobody)
       \/ At(s, "validate") /\ cache # job[s].own
       \/ At(s, "summary") /\ ~Pass
    /\ cache' = IF At(s, "cache") THEN job[s].version ELSE cache
    /\ Handler(s)
    /\ UNCHANGED <<tooling, config, owner, site, services, count, history>>

\* Fault: the watcher and the GUI are left running.
UndoStopApps(s) ==
    /\ Step(s, "undo-stop", "undo-mark") /\ up' = up \ {"tomcat", "apache", "php"}
    /\ UNCHANGED <<count, stuck>>
    /\ UNCHANGED <<host, owner, site, enabled, job, overlapped, inits, rebooted>>

\* systemctl stop, whose exit code nobody looks at.
UndoStop(s) ==
    /\ Step(s, "undo-stop", "undo-mark")
    /\ \/ up' = up \ Stops /\ UNCHANGED <<count, stuck>>
       \/ Fault /\ stuck' = TRUE /\ \E S \in SUBSET Stops : up' = up \ S
    /\ UNCHANGED <<host, owner, site, enabled, job, overlapped, inits, rebooted>>

UndoMark(s) ==
    /\ Step(s, "undo-mark", "undo-receipt") /\ site' = [site EXCEPT !.failed = TRUE]
    /\ UNCHANGED <<host, owner, services, job, count, history>>

UndoReceipt(s) ==
    /\ At(s, "undo-receipt") /\ Leave(s)
    /\ site' = [site EXCEPT !.receipt = IF @ = Nothing THEN "fail" ELSE @]
    /\ UNCHANGED <<host, owner, services, count, history>>

\* SIGKILL, or Ctrl-C, which is no Exception.
Kill(s) ==
    /\ pc[s] # "off" /\ Fault /\ CutShort(s) /\ Leave(s)
    /\ UNCHANGED <<stuck, rebooted>>

\* Requires= of the units.
Needs == [u \in Unit |->
    CASE u \in {"php", "tomcat"} -> {"mysql", "egress"}
      [] u = "apache" -> {"php", "mysql", "egress"}
      [] u = "mysql"  -> {"egress"}
      [] OTHER        -> {}]

\* Every process ends, and what is enabled starts with what it requires.
Reboot ==
    /\ Fault
    /\ pc' = [s \in Session |-> "off"] /\ job' = [s \in Session |-> NoJob]
    /\ up' = enabled \cup UNION {Needs[u] : u \in enabled} /\ rebooted' = TRUE
    /\ UNCHANGED <<host, owner, site, enabled, overlapped, inits, stuck>>

-----------------------------------------------------------------------------
Deploy(s) ==
    \/ Claim(s) \/ Stage(s) \/ Units(s) \/ Mysql(s) \/ Schemas(s) \/ Accounts(s)
    \/ Validate(s) \/ Retain(s) \/ Php(s) \/ StartApps(s) \/ WaitReady(s) \/ Enable(s)
    \/ Watch(s) \/ Marker(s) \/ Report(s) \/ Summary(s) \/ Receipt(s) \/ Announce(s)

Install(s) ==
    \/ Begin(s) \/ Fetch(s) \/ Check(s) \/ Tooling(s) \/ Configure(s) \/ Cache(s)
    \/ Prepared(s) \/ Read(s) \/ Preflight(s) \/ Deploy(s) \/ Raise(s) \/ Refuse(s)
    \/ UndoStop(s) \/ UndoMark(s) \/ UndoReceipt(s)

Next == Reboot \/ \E s \in Session : Install(s) \/ Kill(s)

Spec == Init /\ [][Next]_vars

-----------------------------------------------------------------------------
(* Properties.                                                               *)

\* The state is well typed.
TypeOK ==
    /\ tooling \in Version \cup {Nothing, Broken} /\ config \in Config \cup {Nothing, Broken}
    /\ cache \in Version \cup {Nothing, Broken}
    /\ owner \in Session \cup {Nobody} /\ site \in Site
    /\ up \subseteq Unit /\ enabled \subseteq Unit
    /\ pc \in [Session -> Label] /\ job \in [Session -> Job]
    /\ count \in [runs: Nat, faults: Nat] /\ inits \in Nat
    /\ overlapped \in BOOLEAN /\ stuck \in BOOLEAN /\ rebooted \in BOOLEAN

\* "FINAL STATUS: PASS" (install_summary.py 110), asked for by anybody at any
\* time, is said only of a deployment that has every part, every unit enabled and
\* a package to roll back to.  Unless two sessions overlapped, that package and the
\* configuration the summary prints are those the services run from, which is the
\* state a release update starts from.  A receipt that says PASS is written only after
\* enablement and the two files of the end (docs/INSTALLER-072.md 53-54), and stands
\* by what was there: not that nothing failed after it, for the last line of the log
\* may, which stops the services and writes FAILED beside it.  A receipt that says
\* FAIL stands beside no PASS.
PassIsTrue ==
    /\ Pass =>
        /\ site.tree \in Config /\ site.database = Whole /\ site.current # Nothing
        /\ enabled = Unit
        /\ ~overlapped => site.current = tooling /\ site.tree = config
    /\ site.receipt = "pass" =>
        /\ site.marker = Whole /\ site.report = Whole /\ site.accounts = Whole
        /\ site.database = Whole /\ enabled = Unit
    /\ site.receipt = "fail" => ~Pass

\* "No existing CMND data is adopted or overwritten" (native_deploy.py 3): whatever
\* is started at the same time or again, killed or cut short, the databases are
\* created once, and one session works on the deployment.
OneDeployment ==
    /\ inits <= 1
    /\ \A s \in Session : pc[s] \in Inside => owner = s

\* A session that is refused leaves the deployment of another one alone: only the
\* session that created the directory writes what is in it and stops units
\* (native_deploy.py 376-378, 539-548).
OwnerAlone ==
    [][site' # site \/ (~(up \subseteq up') /\ ~rebooted') =>
         \E s \in Session : owner = s /\ pc[s] \in Inside]_vars

\* "do not leave a failed partial application accepting requests"
\* (native_deploy.py 540): once the failure is recorded, no application, GUI or
\* watcher runs, unless the stop itself failed or the host was restarted.
FailedIsDown == site.failed /\ ~stuck /\ ~rebooted => up \cap Stops = {}

=============================================================================
