------------------------ MODULE InstallationProofs ------------------------
(***************************************************************************)
(* Theorems about Installation for any sessions, versions, configurations    *)
(* and any number of installations and faults.                               *)
(***************************************************************************)
EXTENDS Installation, TLAPS

\* Where the job of a session stands; what Preflight read is still so unless
\* another session is at work.
JobOf(s) ==
    /\ pc[s] # "off" => job[s].version \in Version
    /\ pc[s] \in {"claim"} \cup Trying => cache # Nothing
    /\ pc[s] \in {"preflight", "claim"} \cup Trying =>
           /\ job[s].own \in Version /\ job[s].deploys \in Config
           /\ ~overlapped => job[s].own = tooling /\ job[s].deploys = config

Jobs == \A s \in Session : JobOf(s)

\* One session works on the deployment, and before the deployment exists, none.
Held ==
    /\ \A s \in Session : pc[s] \in Inside => owner = s
    /\ owner = Nobody => site = NoSite /\ inits = 0

\* Without an overlap, one session is past the script's test, and none is in the
\* script once a deployment exists.
Alone == ~overlapped =>
    /\ \A s, t \in Session : pc[s] \in Script \cup Inside /\ pc[t] \in Script \cup Inside => s = t
    /\ owner # Nobody => \A s \in Session : pc[s] \notin {"tooling", "configure", "cache"}

\* What the steps before this one have created, and those after it have not.
ToSchemas == {"stage", "units", "mysql", "schemas"}
ToRetain  == ToSchemas \cup {"accounts", "validate", "retain"}
ToEnable  == ToRetain \cup {"php", "apps", "ready", "enable"}
ToMarker  == ToEnable \cup {"watch", "marker"}

BuiltBy(s) ==
    /\ pc[s] \in Trying \ {"stage"} => site.tree = job[s].deploys
    /\ pc[s] \in ToSchemas => inits = 0
    /\ pc[s] \in Trying \ ToSchemas => site.database = Whole
    /\ pc[s] \in Trying \ ToRetain =>
           site.current # Nothing /\ (~overlapped => site.current = job[s].own)
    /\ pc[s] = "retain" /\ ~overlapped => cache = job[s].own

Built == \A s \in Session : BuiltBy(s)

EnabledBy(s) ==
    /\ pc[s] \in Trying \ {"stage", "units"} => "egress" \in enabled
    /\ pc[s] \in Trying \ ToEnable => App \cup {"mysql"} \subseteq enabled
    /\ pc[s] \in Trying \ (ToEnable \cup {"watch"}) => "path" \in enabled

Enabled == \A s \in Session : EnabledBy(s)

\* The files that tell how it ended.
Reported == site.marker = Whole /\ site.report = Whole /\ site.accounts = Whole

EndedBy(s) ==
    /\ pc[s] \in ToMarker => site.marker = Nothing
    /\ pc[s] \in Trying \ {"announce"} => site.receipt = Nothing
    /\ pc[s] \in {"receipt", "announce"} => Reported
    /\ pc[s] = "announce" => site.receipt = "pass"
    /\ pc[s] \in Trying \cup {"undo-stop", "undo-mark"} => ~site.failed
    /\ pc[s] = "undo-receipt" => site.failed
    /\ pc[s] \in Undo => site.receipt \in {Nothing, Broken, "pass"}

Ended == \A s \in Session : EndedBy(s)

Complete ==
    /\ site.tree \in Config /\ site.database = Whole /\ site.current # Nothing
    /\ enabled = Unit
    /\ ~overlapped => site.current = tooling /\ site.tree = config

Kept ==
    /\ site.marker # Nothing => Complete
    /\ site.receipt = "pass" => Reported
    /\ site.receipt = "fail" => site.failed

Down ==
    (site.failed \/ \E s \in Session : pc[s] \in {"undo-mark", "undo-receipt"})
        /\ ~stuck /\ ~rebooted => up \cap Stops = {}

IInv == /\ TypeOK /\ inits <= 1 /\ Jobs /\ Held /\ Alone
        /\ Built /\ Enabled /\ Ended /\ Kept /\ Down

\* What begins and the script, which stay outside the deployment.
Outside(s) ==
    \/ Begin(s) \/ Fetch(s) \/ Check(s) \/ Tooling(s) \/ Configure(s) \/ Cache(s)
    \/ Prepared(s) \/ Read(s) \/ Preflight(s)

\* What goes wrong, and the failure path.
Failing(s) == Raise(s) \/ Refuse(s) \/ Kill(s)
Undoing(s) == UndoStop(s) \/ UndoMark(s) \/ UndoReceipt(s)

LEMMA InitIInv == Init => IInv
<1> SUFFICES ASSUME Init PROVE IInv
  OBVIOUS
<1>1. TypeOK /\ inits <= 1
  <2>1. NoSite \in Site /\ NoJob \in Job
    BY DEF NoSite, Site, NoJob, Job
  <2>2. pc \in [Session -> Label] /\ job \in [Session -> Job]
    BY <2>1 DEF Init, Label
  <2>3. count \in [runs: Nat, faults: Nat]
    BY DEF Init
  <2>4. up \subseteq Unit /\ enabled \subseteq Unit
    BY DEF Init
  <2>5. inits \in Nat /\ inits <= 1
    BY DEF Init
  <2>6. overlapped \in BOOLEAN /\ stuck \in BOOLEAN /\ rebooted \in BOOLEAN
    BY DEF Init
  <2> QED
    BY <2>1, <2>2, <2>3, <2>4, <2>5, <2>6 DEF Init, TypeOK
<1>2. Jobs /\ Held /\ Alone
  BY DEF Init, Jobs, JobOf, Held, Alone, Trying, Inside, Undo, Script
<1>3. Built /\ Enabled /\ Ended /\ Down
  BY DEF Init, Built, BuiltBy, Enabled, EnabledBy, Ended, EndedBy, Down, Trying, Undo, NoSite,
         Reported, ToSchemas, ToRetain, ToEnable, ToMarker
<1>4. Kept
  BY InstallAssumption DEF Init, Kept, NoSite
<1> QED
  BY <1>1, <1>2, <1>3, <1>4 DEF IInv

-----------------------------------------------------------------------------
(* What the steps leave alone.                                               *)

Others(s) == \A t \in Session \ {s} : pc'[t] = pc[t] /\ job'[t] = job[t]

\* The script leaves the deployment alone, and no session enters or leaves it.
LEMMA OutsideFrame ==
    ASSUME TypeOK, NEW s \in Session, Outside(s)
    PROVE  /\ UNCHANGED <<owner, site, up, enabled, inits, stuck, rebooted>> /\ Others(s)
           /\ pc[s] \notin Inside /\ pc'[s] \notin Inside
<1> USE DEF Others, Step, At, Goto, Leave, TypeOK, Inside, Trying, Undo, services, host,
     history
<1>1. CASE Begin(s)
  BY <1>1 DEF Begin
<1>2. CASE Fetch(s) \/ Check(s)
  BY <1>2 DEF Fetch, Check
<1>3. CASE Tooling(s) \/ Configure(s) \/ Cache(s)
  BY <1>3 DEF Tooling, Configure, Cache
<1>4. CASE Prepared(s)
  BY <1>4 DEF Prepared
<1>5. CASE Read(s)
  BY <1>5 DEF Read
<1>6. CASE Preflight(s)
  BY <1>6 DEF Preflight
<1> QED
  BY <1>1, <1>2, <1>3, <1>4, <1>5, <1>6 DEF Outside

\* A step of deploy leaves the host's package and configuration alone, stops and
\* disables nothing, and stays on the path.
LEMMA DeployFrame ==
    ASSUME TypeOK, NEW s \in Session, Deploy(s)
    PROVE  /\ UNCHANGED <<tooling, config, cache, count, overlapped, stuck, rebooted>>
           /\ Others(s) /\ up \subseteq up' /\ enabled \subseteq enabled'
           /\ pc[s] \in {"claim"} \cup Trying
           /\ \/ pc'[s] \in Trying /\ job' = job
              \/ pc[s] = "announce" /\ pc'[s] = "off"
           /\ pc[s] # "claim" => owner' = owner
<1> USE DEF Others, Trying, Step, At, Goto, Leave, TypeOK, host, services, history
<1>1. CASE Claim(s)
  BY <1>1 DEF Claim
<1>2. CASE Stage(s)
  BY <1>2 DEF Stage
<1>3. CASE Units(s) \/ Mysql(s)
  BY <1>3 DEF Units, Mysql
<1>4. CASE Schemas(s) \/ Accounts(s)
  BY <1>4 DEF Schemas, Accounts
<1>5. CASE Validate(s) \/ Retain(s)
  BY <1>5 DEF Validate, Retain
<1>6. CASE Php(s) \/ StartApps(s) \/ WaitReady(s)
  BY <1>6 DEF Php, StartApps, WaitReady
<1>7. CASE Enable(s) \/ Watch(s)
  BY <1>7 DEF Enable, Watch
<1>8. CASE Marker(s) \/ Report(s)
  BY <1>8 DEF Marker, Report
<1>9. CASE Summary(s)
  BY <1>9 DEF Summary
<1>10. CASE Receipt(s) \/ Announce(s)
  BY <1>10 DEF Receipt, Announce
<1> QED
  BY <1>1, <1>2, <1>3, <1>4, <1>5, <1>6, <1>7, <1>8, <1>9, <1>10 DEF Deploy

\* A session leaves or goes to the failure path.
LEMMA HandlerFrame ==
    ASSUME TypeOK, NEW s \in Session, Leave(s) \/ Handler(s)
    PROVE  /\ \A t \in Session \ {s} : pc'[t] = pc[t] /\ job'[t] = job[t]
           /\ \/ pc'[s] = "off"
              \/ pc[s] \in Trying /\ pc'[s] = "undo-stop" /\ job' = job
BY DEF Handler, Goto, Leave, TypeOK

LEMMA CutFrame ==
    ASSUME NEW s \in Session, CutShort(s)
    PROVE  /\ UNCHANGED <<owner, overlapped>>
           /\ site' \in {site} \cup Partial(s)
           /\ enabled \subseteq enabled' /\ up' \ up \subseteq Starts(s)
           /\ tooling' = tooling \/ pc[s] = "tooling"
           /\ config' = config \/ pc[s] \in {"tooling", "configure"}
           /\ cache' # cache => pc[s] = "cache" /\ cache' \in {Broken, job[s].version}
<1>1. up' \ up \subseteq Starts(s)
  <2>1. PICK S \in SUBSET Starts(s), T \in SUBSET (IF At(s, "undo-stop") THEN Stops ELSE {}) :
           up' = (up \cup S) \ T
    BY DEF CutShort
  <2> QED
    BY <2>1
<1>2. enabled \subseteq enabled' /\ site' \in {site} \cup Partial(s)
  BY DEF CutShort
<1>3. /\ tooling' = tooling \/ pc[s] = "tooling"
      /\ config' = config \/ pc[s] \in {"tooling", "configure"}
      /\ cache' # cache => pc[s] = "cache" /\ cache' \in {Broken, job[s].version}
  BY DEF CutShort, At
<1> QED
  BY <1>1, <1>2, <1>3 DEF CutShort

\* A step that does not reach its end leaves its own file, started and enabled its
\* own units, and the session leaves or goes to the failure path.
LEMMA FailFrame ==
    ASSUME TypeOK, NEW s \in Session, Failing(s)
    PROVE  /\ UNCHANGED <<owner, overlapped, stuck, rebooted>>
           /\ \A t \in Session \ {s} : pc'[t] = pc[t] /\ job'[t] = job[t]
           /\ \/ pc'[s] = "off"
              \/ pc[s] \in Trying /\ pc'[s] = "undo-stop" /\ job' = job
           /\ site' \in {site} \cup Partial(s)
           /\ enabled \subseteq enabled' /\ up' \ up \subseteq Starts(s)
           /\ tooling' = tooling \/ pc[s] = "tooling"
           /\ config' = config \/ pc[s] \in {"tooling", "configure"}
           /\ cache' # cache => pc[s] = "cache" /\ cache' \in {Broken, job[s].version}
<1>1. CASE Refuse(s)
  <2>1. Handler(s) /\ UNCHANGED <<tooling, config, owner, site, services, history>>
    BY <1>1 DEF Refuse
  <2>2. cache' # cache => pc[s] = "cache" /\ cache' \in {Broken, job[s].version}
    BY <1>1 DEF Refuse, At
  <2> QED
    BY <2>1, <2>2, HandlerFrame DEF services, history
<1>2. CASE Raise(s)
  BY <1>2, HandlerFrame, CutFrame DEF Raise
<1>3. CASE Kill(s)
  BY <1>3, HandlerFrame, CutFrame DEF Kill
<1> QED
  BY <1>1, <1>2, <1>3 DEF Failing

\* The failure path stops units and marks the deployment.
LEMMA UndoFrame ==
    ASSUME TypeOK, NEW s \in Session, Undoing(s)
    PROVE  /\ UNCHANGED <<tooling, config, cache, owner, enabled, overlapped, inits, rebooted>>
           /\ up' \subseteq up /\ Others(s) /\ pc[s] \in Undo
           /\ \/ pc'[s] \in Undo /\ job' = job
              \/ pc'[s] = "off"
           /\ site.marker = site'.marker
<1>1. CASE UndoStop(s)
  BY <1>1 DEF UndoStop, Step, At, Goto, Others, Undo, TypeOK, host
<1>2. CASE UndoMark(s)
  BY <1>2 DEF UndoMark, Step, At, Goto, Others, Undo, TypeOK, Site, host, services, history
<1>3. CASE UndoReceipt(s)
  BY <1>3 DEF UndoReceipt, At, Goto, Leave, Others, Undo, TypeOK, Site, host, services, history
<1> QED
  BY <1>1, <1>2, <1>3 DEF Undoing

-----------------------------------------------------------------------------
(* The state is well typed.                                                  *)

LEMMA BeginType ==
    ASSUME TypeOK, NEW s \in Session, Begin(s)
    PROVE  TypeOK'
<1>1. job' \in [Session -> Job]
  <2>1. PICK v \in Version, c \in Config :
            job' = [job EXCEPT ![s] = [NoJob EXCEPT !.version = v, !.config = c]]
    BY DEF Begin
  <2>2. [NoJob EXCEPT !.version = v, !.config = c] \in Job
    BY DEF NoJob, Job
  <2> QED
    BY <2>1, <2>2 DEF TypeOK
<1>2. pc' \in [Session -> Label]
  BY DEF TypeOK, Begin, At, Goto, Label, Script
<1>3. count' \in [runs: Nat, faults: Nat]
  BY DEF TypeOK, Begin
<1>4. overlapped' \in BOOLEAN
  BY DEF TypeOK, Begin, Overlap
<1> QED
  BY <1>1, <1>2, <1>3, <1>4 DEF TypeOK, Begin, host, services

LEMMA ReadType ==
    ASSUME TypeOK, NEW s \in Session, Read(s)
    PROVE  TypeOK'
<1>1. job' \in [Session -> Job]
  BY DEF TypeOK, Read, Job
<1>2. pc' \in [Session -> Label]
  BY DEF TypeOK, Read, Step, At, Goto, Label, Script
<1> QED
  BY <1>1, <1>2 DEF TypeOK, Read, host, services, history

LEMMA OutsideType ==
    ASSUME TypeOK, NEW s \in Session, Outside(s)
    PROVE  TypeOK'
<1> USE DEF TypeOK, Label, Script, Inside, Trying, Undo, Job, NoJob, Step, At, Goto,
     Leave, host, services, history, Overlap, Conffile
<1>1. CASE Begin(s)
  BY <1>1, BeginType
<1>2. CASE Fetch(s) \/ Check(s)
  BY <1>2 DEF Fetch, Check
<1>3. CASE Tooling(s) \/ Configure(s) \/ Cache(s)
  BY <1>3 DEF Tooling, Configure, Cache
<1>4. CASE Prepared(s)
  BY <1>4 DEF Prepared
<1>5. CASE Read(s)
  BY <1>5, ReadType
<1>6. CASE Preflight(s)
  BY <1>6 DEF Preflight
<1> QED
  BY <1>1, <1>2, <1>3, <1>4, <1>5, <1>6 DEF Outside

LEMMA DeployType ==
    ASSUME TypeOK, NEW s \in Session, Deploy(s)
    PROVE  TypeOK'
<1>a. up' \subseteq Unit /\ enabled' \subseteq Unit
  BY DEF TypeOK, Unit, App, Deploy, Claim, Stage, Units, Mysql, Schemas, Accounts, Validate, Retain,
         Php, StartApps, WaitReady, Enable, Watch, Marker, Report, Summary, Receipt, Announce, services
<1> USE DEF TypeOK, Label, Script, Inside, Trying, Undo, Job, NoJob, Step, At, Goto,
     Leave, host, services, history, Site
<1>1. CASE Claim(s)
  BY <1>1, <1>a DEF Claim
<1>2. CASE Stage(s)
  BY <1>2, <1>a DEF Stage
<1>3. CASE Units(s) \/ Mysql(s)
  BY <1>3, <1>a DEF Units, Mysql
<1>4. CASE Schemas(s) \/ Accounts(s)
  BY <1>4, <1>a DEF Schemas, Accounts
<1>5. CASE Validate(s) \/ Retain(s)
  BY <1>5, <1>a DEF Validate, Retain
<1>6. CASE Php(s) \/ StartApps(s) \/ WaitReady(s)
  BY <1>6, <1>a DEF Php, StartApps, WaitReady
<1>7. CASE Enable(s) \/ Watch(s)
  BY <1>7, <1>a DEF Enable, Watch
<1>8. CASE Marker(s) \/ Report(s)
  BY <1>8, <1>a DEF Marker, Report
<1>9. CASE Summary(s)
  BY <1>9, <1>a DEF Summary
<1>10. CASE Receipt(s) \/ Announce(s)
  BY <1>10, <1>a DEF Receipt, Announce
<1> QED
  BY <1>1, <1>2, <1>3, <1>4, <1>5, <1>6, <1>7, <1>8, <1>9, <1>10 DEF Deploy

LEMMA FailType ==
    ASSUME TypeOK, NEW s \in Session, Failing(s)
    PROVE  TypeOK'
<1>1. site' \in Site
  <2>1. /\ [site EXCEPT !.tree = Broken] \in Site /\ [site EXCEPT !.database = Broken] \in Site
        /\ [site EXCEPT !.accounts = Broken] \in Site /\ [site EXCEPT !.current = Broken] \in Site
        /\ [site EXCEPT !.marker = Broken] \in Site /\ [site EXCEPT !.report = Broken] \in Site
        /\ [site EXCEPT !.failed = TRUE] \in Site /\ [site EXCEPT !.receipt = Broken] \in Site
    BY DEF TypeOK, Site
  <2> QED
    BY <2>1, FailFrame DEF TypeOK, Partial
<1>2. pc' \in [Session -> Label] /\ job' \in [Session -> Job]
  <2>1. NoJob \in Job
    BY DEF NoJob, Job
  <2> QED
    BY <2>1 DEF TypeOK, Failing, Raise, Refuse, Kill, Handler, Goto, Leave, Label, Inside, Undo
<1>3. count' \in [runs: Nat, faults: Nat] /\ inits' \in Nat
  BY DEF TypeOK, Failing, Raise, Refuse, Kill, CutShort, Fault, history
<1>4. up' \subseteq Unit
  BY FailFrame DEF TypeOK, Starts, Unit, App
<1>5. enabled' \subseteq Unit
  BY DEF TypeOK, Failing, Raise, Refuse, Kill, CutShort, Enables, Unit, App, services
<1>6. /\ tooling' \in Version \cup {Nothing, Broken} /\ config' \in Config \cup {Nothing, Broken}
      /\ cache' \in Version \cup {Nothing, Broken}
  BY DEF TypeOK, Failing, Raise, Refuse, Kill, CutShort, Conffile, Job
<1> QED
  BY <1>1, <1>2, <1>3, <1>4, <1>5, <1>6, FailFrame DEF TypeOK

LEMMA UndoType ==
    ASSUME TypeOK, NEW s \in Session, Undoing(s)
    PROVE  TypeOK'
<1>1. site' \in Site
  BY DEF TypeOK, Undoing, UndoStop, UndoMark, UndoReceipt, Site
<1>2. pc' \in [Session -> Label] /\ job' \in [Session -> Job]
  <2>1. NoJob \in Job
    BY DEF NoJob, Job
  <2> QED
    BY <2>1 DEF TypeOK, Undoing, UndoStop, UndoMark, UndoReceipt, Step, Goto, Leave,
                Label, Inside, Undo
<1>3. count' \in [runs: Nat, faults: Nat] /\ stuck' \in BOOLEAN
  <2>1. CASE UndoStop(s)
    <3>1. CASE UNCHANGED <<count, stuck>>
      BY <3>1 DEF TypeOK
    <3>2. CASE Fault /\ stuck' = TRUE
      BY <3>2 DEF TypeOK, Fault
    <3> QED
      BY <2>1, <3>1, <3>2 DEF UndoStop
  <2>2. CASE UndoMark(s) \/ UndoReceipt(s)
    BY <2>2 DEF UndoMark, UndoReceipt, TypeOK, history
  <2> QED
    BY <2>1, <2>2 DEF Undoing
<1> QED
  BY <1>1, <1>2, <1>3, UndoFrame DEF TypeOK

LEMMA RebootType == TypeOK /\ Reboot => TypeOK'
<1> SUFFICES ASSUME TypeOK, Reboot PROVE TypeOK'
  OBVIOUS
<1>1. NoJob \in Job
  BY DEF NoJob, Job
<1>2. pc' \in [Session -> Label] /\ job' \in [Session -> Job]
  BY <1>1 DEF Reboot, Label
<1>3. up' \subseteq Unit
  <2>1. \A u \in Unit : Needs[u] \subseteq Unit
    BY DEF Needs, Unit, App
  <2> QED
    BY <2>1 DEF Reboot, TypeOK
<1>4. count' \in [runs: Nat, faults: Nat]
  BY DEF Reboot, Fault, TypeOK
<1> QED
  BY <1>2, <1>3, <1>4 DEF Reboot, TypeOK, host

-----------------------------------------------------------------------------
(* The jobs, who is at work and who else is.                                 *)

LEMMA OutsideAlone ==
    ASSUME IInv, NEW s \in Session, Outside(s)
    PROVE  Alone' /\ Held'
<1> USE DEF IInv
<1>1. Held'
  BY OutsideFrame DEF Held, Others
<1>2. ~overlapped' => ~overlapped
  BY DEF Outside, Begin, Fetch, Check, Tooling, Configure, Cache, Prepared, Read, Preflight, Overlap,
         history
<1>3. pc'[s] \in Script /\ pc[s] \notin Script /\ ~overlapped' =>
          \A t \in Session : pc[t] \notin Script \cup Inside
  BY DEF Outside, Begin, Fetch, Check, Tooling, Configure, Cache, Prepared, Read, Preflight, Overlap,
         Step, At, Goto, Leave, Script, TypeOK
<1>4. pc'[s] \in {"tooling", "configure", "cache"} =>
          owner = Nobody \/ pc[s] \in {"tooling", "configure", "cache"}
  BY DEF Outside, Begin, Fetch, Check, Tooling, Configure, Cache, Prepared, Read, Preflight, Step, At,
         Goto, Leave, TypeOK
<1>5. /\ \A t \in Session \ {s} : pc'[t] = pc[t]
      /\ owner' = owner /\ pc[s] \notin Inside /\ pc'[s] \notin Inside
  BY OutsideFrame DEF Others
<1>6. ASSUME ~overlapped', NEW t \in Session, NEW u \in Session,
             pc'[t] \in Script \cup Inside, pc'[u] \in Script \cup Inside
      PROVE  t = u
  BY <1>2, <1>3, <1>5, <1>6 DEF Alone
<1>7. ASSUME ~overlapped', owner' # Nobody, NEW t \in Session
      PROVE  pc'[t] \notin {"tooling", "configure", "cache"}
  BY <1>2, <1>4, <1>5, <1>7 DEF Alone
<1> QED
  BY <1>1, <1>6, <1>7 DEF Alone

\* Under Alone, what the script writes is read by no other session.
LEMMA OutsideJobs ==
    ASSUME IInv, NEW s \in Session, Outside(s)
    PROVE  Jobs'
<1> USE DEF IInv
<1> SUFFICES ASSUME NEW t \in Session PROVE JobOf(t)'
  BY DEF Jobs
<1>1. JobOf(t) /\ JobOf(s)
  BY DEF Jobs
<1>2. CASE t # s
  <2>1. pc'[t] = pc[t] /\ job'[t] = job[t]
    BY <1>2, OutsideFrame DEF Others
  <2>2. overlapped' = overlapped \/ overlapped'
    BY DEF Outside, Begin, Fetch, Check, Tooling, Configure, Cache, Prepared, Read, Preflight, Overlap,
           history, TypeOK
  <2>3. cache' # cache => cache' # Nothing
    BY InstallAssumption, <1>1 DEF Outside, Begin, Fetch, Check, Tooling, Configure, Cache, Prepared, Read,
           Preflight, Step, At, host, JobOf
  <2>4. ~overlapped /\ pc[t] \in {"preflight", "claim"} \cup Trying => UNCHANGED <<tooling, config>>
    BY <1>2 DEF Alone, Outside, Begin, Fetch, Check, Tooling, Configure, Cache, Prepared, Read,
           Preflight, Step, At, host, Script, Inside
  <2> QED
    BY <1>1, <2>1, <2>2, <2>3, <2>4 DEF JobOf
<1>3. CASE t = s
  <2>1. CASE Begin(s)
    BY <1>3, <2>1, OutsideFrame DEF Begin, Goto, JobOf, TypeOK, NoJob, Trying
  <2>2. CASE Read(s)
    <3>1. /\ pc'[s] = "preflight" /\ pc[s] = "read" /\ tooling' = tooling /\ config' = config
          /\ job'[s] = [job[s] EXCEPT !.own = tooling, !.deploys = config]
          /\ tooling \in Version /\ config \in Config
      BY <2>2 DEF Read, Step, At, Goto, TypeOK, host
    <3>2. /\ job'[s].own = tooling /\ job'[s].deploys = config
          /\ job'[s].version = job[s].version
      BY <3>1 DEF TypeOK, Job
    <3> QED
      BY <1>1, <1>3, <3>1, <3>2 DEF JobOf, Trying
  <2>5. CASE Preflight(s)
    BY <1>1, <1>3, <2>5, InstallAssumption DEF Preflight, Step, At, Goto, JobOf, TypeOK, host,
           history
  <2>3. CASE Prepared(s)
    BY <1>3, <2>3 DEF Prepared, Leave, Goto, JobOf, TypeOK, Trying
  <2>4. CASE Fetch(s) \/ Check(s) \/ Tooling(s) \/ Configure(s) \/ Cache(s)
    BY <1>1, <1>3, <2>4 DEF Fetch, Check, Tooling, Configure, Cache, Step, At, Goto, JobOf, TypeOK,
           Trying
  <2> QED
    BY <2>1, <2>2, <2>3, <2>4, <2>5 DEF Outside
<1> QED
  BY <1>2, <1>3

LEMMA DeployJobs ==
    ASSUME IInv, NEW s \in Session, Deploy(s)
    PROVE  Jobs' /\ Held' /\ Alone'
<1> USE DEF IInv
<1> SUFFICES ASSUME NEW t \in Session PROVE JobOf(t)' /\ Held' /\ Alone'
  BY DEF Jobs
<1>1. JobOf(t)'
  <2>1. JobOf(t) /\ JobOf(s)
    BY DEF Jobs
  <2> QED
    BY <2>1, DeployFrame DEF JobOf, Others, Trying
<1>2. CASE Claim(s)
  <2>1. pc'[s] = "stage" /\ owner = Nobody /\ owner' = s /\ site' = site /\ inits' = inits
    BY <1>2 DEF Claim, Step, Goto, TypeOK, host, history
  <2>2. \A u \in Session : pc[u] \notin Inside
    BY <2>1, InstallAssumption DEF Held
  <2>3. Held'
    BY <2>1, <2>2, DeployFrame, InstallAssumption DEF Held, Others
  <2>4. Alone'
    BY <2>1, DeployFrame, <1>2 DEF Alone, Others, Claim, Step, At, Script, Inside, Trying
  <2> QED
    BY <1>1, <2>3, <2>4
<1>3. CASE ~Claim(s)
  <2>1. pc[s] \in Trying /\ owner' = owner
    BY <1>3, DeployFrame DEF Deploy, Stage, Units, Mysql, Schemas, Accounts, Validate, Retain, Php,
           StartApps, WaitReady, Enable, Watch, Marker, Report, Summary, Receipt, Announce, Step, At, Trying
  <2>2. owner = s
    BY <2>1 DEF Held, Inside
  <2>3. Held'
    BY <2>1, <2>2, DeployFrame, InstallAssumption DEF Held, Others, Inside, Undo, Trying
  <2>4. Alone'
    BY <2>1, DeployFrame DEF Alone, Others, Script, Inside, Trying, Undo
  <2> QED
    BY <1>1, <2>3, <2>4
<1> QED
  BY <1>2, <1>3

LEMMA FailJobs ==
    ASSUME IInv, NEW s \in Session, Failing(s)
    PROVE  Jobs' /\ Held' /\ Alone'
<1> USE DEF IInv
<1>1. /\ \A t \in Session : pc'[t] \in Script \cup Inside => pc[t] \in Script \cup Inside
      /\ \A t \in Session : pc'[t] \in {"tooling", "configure", "cache"} => pc'[t] = pc[t]
      /\ \A t \in Session : pc'[t] \in Inside => pc[t] \in Inside
  <2>1. \A t \in Session \ {s} : pc'[t] = pc[t]
    BY FailFrame
  <2>2. pc'[s] = "off" \/ (pc[s] \in Inside /\ pc'[s] = "undo-stop")
    BY FailFrame DEF Inside
  <2> QED
    BY <2>1, <2>2 DEF Script, Inside, Trying, Undo
<1>a. Alone'
  <2>1. overlapped' = overlapped /\ owner' = owner
    BY FailFrame
  <2> QED
    BY <1>1, <2>1 DEF Alone
<1>2. Held'
  <2>1. owner = Nobody => pc[s] \notin Inside
    BY InstallAssumption DEF Held
  <2>2. owner = Nobody => site' = site /\ inits' = inits
    BY <2>1, FailFrame DEF Partial, At, Inside, Trying, Undo, Failing, Raise, Refuse, Kill, CutShort,
           history
  <2> QED
    BY <1>1, <2>2, FailFrame DEF Held
<1>3. Jobs'
  <2> SUFFICES ASSUME NEW t \in Session PROVE JobOf(t)'
    BY DEF Jobs
  <2>1. JobOf(t) /\ JobOf(s)
    BY DEF Jobs
  <2>2. CASE t = s
    BY <2>1, <2>2, FailFrame DEF JobOf, Trying
  <2>3. CASE t # s
    <3>1. pc'[t] = pc[t] /\ job'[t] = job[t] /\ overlapped' = overlapped
      BY <2>3, FailFrame
    <3>2. cache' # cache => cache' # Nothing
      BY <2>1, FailFrame, InstallAssumption DEF JobOf
    <3>3. ~overlapped /\ pc[t] \in {"preflight", "claim"} \cup Trying => UNCHANGED <<tooling, config>>
      BY <2>3, FailFrame DEF Alone, Script, Inside
    <3> QED
      BY <2>1, <3>1, <3>2, <3>3 DEF JobOf
  <2> QED
    BY <2>2, <2>3
<1> QED
  BY <1>a, <1>2, <1>3

LEMMA UndoJobs ==
    ASSUME IInv, NEW s \in Session, Undoing(s)
    PROVE  Jobs' /\ Held' /\ Alone'
<1> USE DEF IInv
<1>1. owner = s /\ pc[s] \in Inside
  BY UndoFrame DEF Held, Inside
<1>2. Held' /\ Alone'
  BY <1>1, UndoFrame, InstallAssumption DEF Held, Alone, Others, Inside, Undo, Script, Trying
<1>3. \A t \in Session : JobOf(t) => JobOf(t)'
  BY UndoFrame DEF JobOf, Others, Undo, Trying
<1> QED
  BY <1>2, <1>3 DEF Jobs

-----------------------------------------------------------------------------
(* What a step of one session leaves to the session at work.                 *)

LEMMA OneInside ==
    ASSUME IInv, NEW s \in Session, NEW t \in Session, pc[s] \in Inside, pc[t] \in Inside
    PROVE  s = t
BY DEF IInv, Held

LEMMA OutsideQuiet ==
    ASSUME IInv, NEW s \in Session, Outside(s)
    PROVE  /\ ~overlapped' => ~overlapped
           /\ \A t \in Session : pc'[t] \in Inside => pc'[t] = pc[t] /\ job'[t] = job[t]
           /\ ~overlapped /\ owner # Nobody => UNCHANGED host
<1>1. ~overlapped' => ~overlapped
  BY DEF Outside, Begin, Fetch, Check, Tooling, Configure, Cache, Prepared, Read, Preflight, Overlap,
         history
<1>2. \A t \in Session : pc'[t] \in Inside => pc'[t] = pc[t] /\ job'[t] = job[t]
  BY OutsideFrame DEF IInv, Others
<1>3. ~overlapped /\ owner # Nobody => UNCHANGED host
  BY DEF IInv, Alone, Outside, Begin, Fetch, Check, Tooling, Configure, Cache, Prepared, Read, Preflight,
         Step, At, host
<1> QED
  BY <1>1, <1>2, <1>3

\* A step that fails outside the deployment leaves it alone.
LEMMA FailQuiet ==
    ASSUME IInv, NEW s \in Session, Failing(s)
    PROVE  /\ pc[s] \notin Inside =>
                  /\ UNCHANGED <<site, up, inits>> /\ enabled' = enabled
                  /\ \A t \in Session : pc'[t] \in Inside => pc'[t] = pc[t] /\ job'[t] = job[t]
                  /\ ~overlapped /\ owner # Nobody => UNCHANGED host
           /\ pc[s] \in Inside =>
                  /\ UNCHANGED host
                  /\ \A t \in Session \ {s} : pc'[t] \notin Inside
<1>1. ASSUME pc[s] \notin Inside
      PROVE  UNCHANGED <<site, up, inits>> /\ enabled' = enabled
  <2>1. Partial(s) = {} /\ Starts(s) = {} /\ Enables(s) = {} /\ ~At(s, "schemas") /\ ~At(s, "undo-stop")
    BY <1>1 DEF Partial, Starts, Enables, At, Inside, Trying, Undo
  <2>2. CASE Refuse(s)
    BY <2>2 DEF Refuse, services, history
  <2>3. CASE CutShort(s)
    <3>1. PICK S \in SUBSET Starts(s), T \in SUBSET (IF At(s, "undo-stop") THEN Stops ELSE {}) :
             up' = (up \cup S) \ T
      BY <2>3 DEF CutShort
    <3>2. up' = up
      BY <2>1, <3>1
    <3>3. enabled' = enabled /\ site' = site /\ inits' = inits
      BY <2>1, <2>3 DEF CutShort
    <3> QED
      BY <3>2, <3>3
  <2> QED
    BY <2>2, <2>3 DEF Failing, Raise, Kill
<1>2. ASSUME pc[s] \notin Inside
      PROVE  \A t \in Session : pc'[t] \in Inside => pc'[t] = pc[t] /\ job'[t] = job[t]
  BY <1>2, FailFrame DEF IInv, Inside, Undo, Trying
<1>3. ~overlapped /\ owner # Nobody => UNCHANGED host
  BY FailFrame DEF IInv, Alone, host
<1>4. ASSUME pc[s] \in Inside
      PROVE  UNCHANGED host /\ \A t \in Session \ {s} : pc'[t] \notin Inside
  BY <1>4, OneInside, FailFrame DEF IInv, host, Inside, Trying, Undo
<1> QED
  BY <1>1, <1>2, <1>3, <1>4

\* The same of the session that works on it.
LEMMA DeployQuiet ==
    ASSUME IInv, NEW s \in Session, Deploy(s) \/ Undoing(s)
    PROVE  \A t \in Session \ {s} : pc'[t] = pc[t] /\ pc[t] \notin Inside
<1>1. CASE pc[s] \in Inside
  BY <1>1, OneInside, DeployFrame, UndoFrame DEF IInv, Others
<1>2. CASE Claim(s)
  BY <1>2, InstallAssumption, DeployFrame DEF IInv, Held, Claim, Others, Deploy
<1>3. Claim(s) \/ pc[s] \in Inside
  BY UndoFrame DEF Deploy, Stage, Units, Mysql, Schemas, Accounts, Validate, Retain, Php,
         StartApps, WaitReady, Enable, Watch, Marker, Report, Summary, Receipt, Announce, Step, At,
         Inside, Trying, IInv
<1> QED
  BY <1>1, <1>2, <1>3

-----------------------------------------------------------------------------
(* What has been created so far.                                             *)

LEMMA OtherBuilt ==
    ASSUME IInv, NEW s \in Session, Outside(s) \/ Failing(s) \/ Undoing(s)
    PROVE  Built' /\ Enabled'
<1> SUFFICES ASSUME NEW t \in Session PROVE BuiltBy(t)' /\ EnabledBy(t)'
  BY DEF Built, Enabled
<1>1. BuiltBy(t) /\ EnabledBy(t) /\ (pc[t] \in Inside => owner = t /\ owner # Nobody)
  BY InstallAssumption DEF IInv, Built, Enabled, Held
<1>2. pc'[t] \notin Trying => BuiltBy(t)' /\ EnabledBy(t)'
  BY DEF BuiltBy, EnabledBy, Trying, ToSchemas
<1>3. ASSUME pc'[t] \in Trying, Outside(s)
      PROVE  BuiltBy(t)' /\ EnabledBy(t)'
  BY <1>1, <1>3, OutsideQuiet, OutsideFrame DEF BuiltBy, EnabledBy, Inside, IInv, host
<1>4. ASSUME pc'[t] \in Trying, Failing(s)
      PROVE  BuiltBy(t)' /\ EnabledBy(t)'
  BY <1>1, <1>4, FailQuiet, FailFrame DEF BuiltBy, EnabledBy, Inside, IInv, host, Trying
<1>5. ASSUME pc'[t] \in Trying, Undoing(s)
      PROVE  FALSE
  BY <1>5, DeployQuiet, UndoFrame DEF IInv, Inside, Undo, Trying
<1> QED
  BY <1>2, <1>3, <1>4, <1>5

LEMMA DeployBuilt ==
    ASSUME IInv, NEW s \in Session, Deploy(s)
    PROVE  Built' /\ inits' <= 1
<1>1. BuiltBy(s) /\ JobOf(s) /\ inits <= 1 /\ site \in Site
  BY DEF IInv, Built, Jobs, TypeOK
<1>2. \A t \in Session \ {s} : pc'[t] \notin Trying /\ pc'[t] \notin ToSchemas
  BY DeployQuiet DEF Inside, Trying, ToSchemas
<1>3. BuiltBy(s)' /\ inits' <= 1
  <2> USE <1>1 DEF BuiltBy, JobOf, Step, At, Goto, Leave, TypeOK, IInv, host, history,
       Trying, ToSchemas, ToRetain
  <2>1. CASE Claim(s)
    BY <2>1, InstallAssumption DEF Claim, Held
  <2>2. CASE Stage(s)
    BY <2>2, InstallAssumption DEF Stage, Site
  <2>3. CASE Units(s) \/ Mysql(s)
    BY <2>3, InstallAssumption DEF Units, Mysql
  <2>4. CASE Schemas(s) \/ Accounts(s)
    BY <2>4, InstallAssumption DEF Schemas, Accounts, Site
  <2>5. CASE Validate(s) \/ Retain(s)
    BY <2>5, InstallAssumption DEF Validate, Retain, Site
  <2>6. CASE Php(s) \/ StartApps(s) \/ WaitReady(s)
    BY <2>6, InstallAssumption DEF Php, StartApps, WaitReady
  <2>7. CASE Enable(s) \/ Watch(s)
    BY <2>7, InstallAssumption DEF Enable, Watch
  <2>8. CASE Marker(s) \/ Report(s)
    BY <2>8, InstallAssumption DEF Marker, Report, Site
  <2>9. CASE Summary(s)
    BY <2>9, InstallAssumption DEF Summary, Pass
  <2>10. CASE Receipt(s) \/ Announce(s)
    BY <2>10, InstallAssumption DEF Receipt, Announce, Site
  <2> QED
    BY <2>1, <2>2, <2>3, <2>4, <2>5, <2>6, <2>7, <2>8, <2>9, <2>10 DEF Deploy
<1>4. \A t \in Session : BuiltBy(t)'
  BY <1>2, <1>3 DEF BuiltBy, ToSchemas, ToRetain, Trying
<1> QED
  BY <1>3, <1>4 DEF Built

LEMMA DeployEnabled ==
    ASSUME IInv, NEW s \in Session, Deploy(s)
    PROVE  Enabled'
<1>1. EnabledBy(s)
  BY DEF IInv, Enabled
<1>2. \A t \in Session \ {s} : pc'[t] \notin Trying
  BY DeployQuiet DEF Inside
<1>3. EnabledBy(s)'
  <2> USE <1>1 DEF EnabledBy, Step, At, Goto, Leave, TypeOK, IInv, services, host, Trying,
       ToSchemas, ToRetain, ToEnable
  <2>1. CASE Claim(s)
    BY <2>1 DEF Claim
  <2>2. CASE Stage(s)
    BY <2>2 DEF Stage
  <2>3. CASE Units(s) \/ Mysql(s)
    BY <2>3 DEF Units, Mysql
  <2>4. CASE Schemas(s) \/ Accounts(s)
    BY <2>4 DEF Schemas, Accounts
  <2>5. CASE Validate(s) \/ Retain(s)
    BY <2>5 DEF Validate, Retain
  <2>6. CASE Php(s) \/ StartApps(s) \/ WaitReady(s)
    BY <2>6 DEF Php, StartApps, WaitReady
  <2>7. CASE Enable(s) \/ Watch(s)
    BY <2>7 DEF Enable, Watch
  <2>8. CASE Marker(s) \/ Report(s)
    BY <2>8 DEF Marker, Report
  <2>9. CASE Summary(s)
    BY <2>9 DEF Summary
  <2>10. CASE Receipt(s) \/ Announce(s)
    BY <2>10 DEF Receipt, Announce
  <2> QED
    BY <2>1, <2>2, <2>3, <2>4, <2>5, <2>6, <2>7, <2>8, <2>9, <2>10 DEF Deploy
<1>4. \A t \in Session : EnabledBy(t)'
  BY <1>2, <1>3 DEF EnabledBy
<1> QED
  BY <1>4 DEF Enabled

-----------------------------------------------------------------------------
(* The files that tell how it ended.                                         *)

LEMMA OtherEnded ==
    ASSUME IInv, NEW s \in Session, Outside(s) \/ Failing(s) \/ Undoing(s)
    PROVE  Ended'
<1> SUFFICES ASSUME NEW t \in Session PROVE EndedBy(t)'
  BY DEF Ended
<1>1. EndedBy(t) /\ EndedBy(s) /\ TypeOK
  BY DEF IInv, Ended
<1>2. pc'[t] \notin Inside => EndedBy(t)'
  BY DEF EndedBy, Inside, Undo, Trying, ToMarker, ToEnable, ToRetain, ToSchemas
<1>3. ASSUME pc'[t] \in Inside, Outside(s)
      PROVE  EndedBy(t)'
  BY <1>1, <1>3, OutsideQuiet, OutsideFrame DEF EndedBy, Reported
<1>4. ASSUME pc'[t] \in Inside, Failing(s), pc[s] \notin Inside
      PROVE  EndedBy(t)'
  BY <1>1, <1>4, FailQuiet DEF EndedBy, Reported
<1>5. ASSUME pc'[t] \in Inside, Failing(s), pc[s] \in Inside
      PROVE  EndedBy(t)'
  <2>1. t = s
    BY <1>5, FailQuiet
  <2>2. pc[s] \in Trying /\ pc'[s] = "undo-stop"
    BY <1>1, <1>5, <2>1, FailFrame DEF Inside, Trying, Undo
  <2>3. site'.failed = site.failed /\ site'.receipt \in {Nothing, Broken, "pass"}
    BY <1>1, <1>5, <2>1, <2>2, FailFrame DEF EndedBy, Partial, At, Trying, TypeOK, Site
  <2> QED
    BY <1>1, <2>1, <2>2, <2>3 DEF EndedBy, Trying, Undo, ToMarker, ToEnable, ToRetain, ToSchemas
<1>6. ASSUME pc'[t] \in Inside, Undoing(s)
      PROVE  EndedBy(t)'
  <2>1. t = s
    BY <1>6, DeployQuiet
  <2>2. CASE UndoStop(s)
    BY <1>1, <2>1, <2>2 DEF UndoStop, Step, At, Goto, EndedBy, TypeOK, Trying, Undo, ToMarker,
           ToEnable, ToRetain, ToSchemas
  <2>3. CASE UndoMark(s)
    BY <1>1, <2>1, <2>3 DEF UndoMark, Step, At, Goto, EndedBy, TypeOK, Site, Trying, Undo, ToMarker,
           ToEnable, ToRetain, ToSchemas
  <2>4. CASE UndoReceipt(s)
    BY <1>1, <1>6, <2>1, <2>4 DEF UndoReceipt, Leave, Goto, TypeOK, Inside, Trying, Undo
  <2> QED
    BY <1>6, <2>2, <2>3, <2>4 DEF Undoing
<1> QED
  BY <1>2, <1>3, <1>4, <1>5, <1>6

LEMMA DeployEnded ==
    ASSUME IInv, NEW s \in Session, Deploy(s)
    PROVE  Ended'
<1>1. EndedBy(s)
  BY DEF IInv, Ended
<1>2. \A t \in Session \ {s} : pc'[t] \notin Inside
  BY DeployQuiet
<1>3. EndedBy(s)'
  <2> USE <1>1 DEF EndedBy, Reported, Step, At, Goto, Leave, TypeOK, IInv, host, Trying, Undo,
       ToSchemas, ToRetain, ToEnable, ToMarker
  <2>1. CASE Claim(s)
    BY <2>1, InstallAssumption DEF Claim, Held, NoSite
  <2>2. CASE Stage(s)
    BY <2>2, InstallAssumption DEF Stage, Site
  <2>3. CASE Units(s) \/ Mysql(s)
    BY <2>3, InstallAssumption DEF Units, Mysql
  <2>4. CASE Schemas(s) \/ Accounts(s)
    BY <2>4, InstallAssumption DEF Schemas, Accounts, Site
  <2>5. CASE Validate(s) \/ Retain(s)
    BY <2>5, InstallAssumption DEF Validate, Retain, Site
  <2>6. CASE Php(s) \/ StartApps(s) \/ WaitReady(s)
    BY <2>6, InstallAssumption DEF Php, StartApps, WaitReady
  <2>7. CASE Enable(s) \/ Watch(s)
    BY <2>7, InstallAssumption DEF Enable, Watch
  <2>8. CASE Marker(s) \/ Report(s)
    BY <2>8, InstallAssumption DEF Marker, Report, Site
  <2>9. CASE Summary(s)
    BY <2>9, InstallAssumption DEF Summary, Pass
  <2>10. CASE Receipt(s) \/ Announce(s)
    BY <2>10, InstallAssumption DEF Receipt, Announce, Site
  <2> QED
    BY <2>1, <2>2, <2>3, <2>4, <2>5, <2>6, <2>7, <2>8, <2>9, <2>10 DEF Deploy
<1>4. \A t \in Session : EndedBy(t)'
  BY <1>2, <1>3 DEF EndedBy, Inside, Trying, Undo, ToMarker, ToEnable, ToRetain, ToSchemas
<1> QED
  BY <1>4 DEF Ended

\* At the marker everything is there.
LEMMA AtMarker ==
    ASSUME IInv, NEW s \in Session, pc[s] = "marker"
    PROVE  Complete
<1>1. BuiltBy(s) /\ EnabledBy(s) /\ JobOf(s)
  BY DEF IInv, Built, Enabled, Jobs
<1>2. enabled = Unit
  <2>1. App \cup {"mysql"} \subseteq enabled /\ "path" \in enabled /\ "egress" \in enabled
    BY <1>1 DEF EnabledBy, Trying, ToEnable, ToRetain, ToSchemas
  <2> QED
    BY <2>1 DEF IInv, TypeOK, Unit
<1>3. /\ site.tree = job[s].deploys /\ site.database = Whole /\ site.current # Nothing
      /\ ~overlapped => site.current = job[s].own
  BY <1>1 DEF BuiltBy, Trying, ToRetain, ToSchemas
<1>4. job[s].deploys \in Config /\ (~overlapped => job[s].own = tooling /\ job[s].deploys = config)
  BY <1>1 DEF JobOf, Trying
<1> QED
  BY <1>2, <1>3, <1>4 DEF Complete

\* What is complete stays so while nothing of it is written.
LEMMA CompleteStays ==
    ASSUME Complete, TypeOK', enabled \subseteq enabled', ~overlapped' => ~overlapped,
           ~overlapped => tooling' = tooling /\ config' = config,
           site'.tree = site.tree, site'.database = site.database, site'.current = site.current
    PROVE  Complete'
BY DEF Complete, TypeOK

LEMMA OutsideKept ==
    ASSUME IInv, TypeOK', NEW s \in Session, Outside(s) \/ (Failing(s) /\ pc[s] \notin Inside)
    PROVE  Kept' /\ Down'
<1>1. /\ UNCHANGED <<site, up, enabled, stuck, rebooted>>
      /\ ~overlapped' => ~overlapped
      /\ ~overlapped /\ owner # Nobody => UNCHANGED host
      /\ \A t \in Session : pc'[t] \in Inside => pc'[t] = pc[t]
  BY OutsideFrame, OutsideQuiet, FailFrame, FailQuiet DEF IInv
<1>2. site.marker # Nothing => owner # Nobody
  BY DEF IInv, Held, NoSite
<1>3. site.marker # Nothing => Complete'
  BY <1>1, <1>2, CompleteStays DEF IInv, Kept, host
<1>4. Kept'
  BY <1>1, <1>3 DEF IInv, Kept, Reported
<1>5. Down'
  BY <1>1 DEF IInv, Down, Inside, Undo
<1> QED
  BY <1>4, <1>5

LEMMA FailKept ==
    ASSUME IInv, TypeOK', NEW s \in Session, Failing(s), pc[s] \in Inside
    PROVE  Kept' /\ Down'
<1>1. EndedBy(s) /\ TypeOK /\ Kept
  BY DEF IInv, Ended
<1>2. UNCHANGED <<tooling, config, overlapped, stuck, rebooted>> /\ enabled \subseteq enabled'
  BY <1>1, FailFrame, FailQuiet DEF host
<1>3. site'.receipt \in {site.receipt, Broken}
  BY <1>1, FailFrame DEF Partial, At, TypeOK, Site
<1>9. site.receipt = "pass" /\ site'.receipt = "pass" => Reported'
  <2>1. site.receipt = "pass" => pc[s] \in {"announce"} \cup Undo
    BY <1>1, InstallAssumption DEF EndedBy, Inside
  <2>2. pc[s] \in {"announce"} \cup Undo =>
            /\ site'.marker = site.marker /\ site'.report = site.report
            /\ site'.accounts = site.accounts
    BY <1>1, FailFrame DEF Partial, At, TypeOK, Site, Undo
  <2> QED
    BY <1>1, <2>1, <2>2 DEF Kept, Reported
<1>4. site'.failed = site.failed \/ site'.failed = TRUE
  BY <1>1, FailFrame DEF Partial, At, TypeOK, Site
<1>5. site'.marker # Nothing => Complete'
  <2>1. CASE pc[s] \in ToMarker \ {"marker"}
    BY <1>1, <2>1, FailFrame DEF EndedBy, Partial, At, TypeOK, Site, ToMarker, ToEnable, ToRetain,
           ToSchemas
  <2>2. CASE pc[s] \notin ToMarker \ {"marker"}
    <3>1. site'.tree = site.tree /\ site'.database = site.database /\ site'.current = site.current
      BY <1>1, <2>2, FailFrame DEF Partial, At, TypeOK, Site, ToMarker, ToEnable, ToRetain,
             ToSchemas
    <3>2. site'.marker # Nothing => Complete
      BY <1>1, <2>2, AtMarker, FailFrame DEF Kept, Partial, At, TypeOK, Site
    <3> QED
      BY <1>2, <3>1, <3>2, CompleteStays
  <2> QED
    BY <2>1, <2>2
<1>6. Kept'
  BY <1>1, <1>3, <1>4, <1>5, <1>9, InstallAssumption DEF Kept
<1>7. CASE pc[s] \in {"undo-mark", "undo-receipt"}
  <2>1. up' \subseteq up
    BY <1>7, <1>1, FailFrame DEF Starts, At
  <2> QED
    BY <1>2, <1>6, <1>7, <2>1 DEF IInv, Down
<1>8. CASE pc[s] \in Trying \cup {"undo-stop"}
  <2>1. ~site'.failed
    BY <1>1, <1>8, FailFrame DEF EndedBy, Partial, At, TypeOK, Site, Trying
  <2>2. \A t \in Session : pc'[t] \notin {"undo-mark", "undo-receipt"}
    BY <1>1, FailFrame, FailQuiet DEF Inside, Undo
  <2> QED
    BY <1>6, <2>1, <2>2 DEF Down
<1> QED
  BY <1>7, <1>8 DEF Inside, Undo

LEMMA UndoKept ==
    ASSUME IInv, TypeOK', NEW s \in Session, Undoing(s)
    PROVE  Kept' /\ Down'
<1>1. EndedBy(s) /\ TypeOK /\ Kept /\ Down /\ pc[s] \in Inside
  BY UndoFrame DEF IInv, Ended, Inside
<1>2. /\ UNCHANGED <<tooling, config, overlapped, rebooted, enabled>> /\ up' \subseteq up
      /\ site'.marker = site.marker
      /\ \A t \in Session \ {s} : pc'[t] = pc[t] /\ pc[t] \notin Inside
  BY <1>1, UndoFrame, DeployQuiet
<1>3. site'.tree = site.tree /\ site'.database = site.database /\ site'.current = site.current
  BY <1>1 DEF Undoing, UndoStop, UndoMark, UndoReceipt, TypeOK, Site, host
<1>4. site'.marker # Nothing => Complete'
  BY <1>1, <1>2, <1>3, CompleteStays DEF Kept
<1>5. site'.receipt = "pass" => Reported'
  <2>1. /\ site'.report = site.report /\ site'.accounts = site.accounts
        /\ site'.receipt \in {site.receipt, "fail"}
    BY <1>1 DEF Undoing, UndoStop, UndoMark, UndoReceipt, TypeOK, Site, host
  <2> QED
    BY <1>1, <1>2, <2>1 DEF Kept, Reported
<1>6. site'.receipt = "fail" => site'.failed
  BY <1>1 DEF Kept, EndedBy, Undoing, UndoStop, UndoMark, UndoReceipt, Step, At, TypeOK, Site, host
<1>7. Down'
  <2>1. CASE UndoStop(s)
    BY <1>1, <1>2, <2>1 DEF UndoStop, Down
  <2>2. CASE UndoMark(s) \/ UndoReceipt(s)
    <3>1. stuck' = stuck /\ pc[s] \in {"undo-mark", "undo-receipt"}
      BY <2>2 DEF UndoMark, UndoReceipt, Step, At, history
    <3> QED
      BY <1>1, <1>2, <3>1 DEF Down
  <2> QED
    BY <2>1, <2>2 DEF Undoing
<1> QED
  BY <1>4, <1>5, <1>6, <1>7 DEF Kept

LEMMA DeployKept ==
    ASSUME IInv, TypeOK', NEW s \in Session, Deploy(s)
    PROVE  Kept' /\ Down'
<1>1. EndedBy(s) /\ TypeOK /\ Kept /\ Held
  BY DEF IInv, Ended
<1>2. \A t \in Session \ {s} : pc'[t] \notin Inside
  BY DeployQuiet
<1>3. /\ UNCHANGED <<tooling, config, overlapped, stuck, rebooted>> /\ enabled \subseteq enabled'
      /\ pc'[s] \in Trying \cup {"off"}
  BY <1>1, DeployFrame
<1>4. /\ ~site.failed /\ site.receipt \in {Nothing, "pass"}
      /\ site.receipt = "pass" => pc[s] = "announce" /\ Reported
      /\ (pc[s] \in ToMarker \cup {"claim"} => site.marker = Nothing)
  <2>1. CASE Claim(s)
    BY <1>1, <2>1, InstallAssumption DEF Claim, Step, At, Held, NoSite
  <2>2. CASE pc[s] \in Trying
    BY <1>1, <2>2, InstallAssumption DEF EndedBy, Trying
  <2>3. pc[s] = "claim" => Claim(s)
    BY DEF Deploy, Stage, Units, Mysql, Schemas, Accounts, Validate, Retain, Php,
           StartApps, WaitReady, Enable, Watch, Marker, Report, Summary, Receipt, Announce, Step, At
  <2> QED
    BY <1>1, <2>1, <2>2, <2>3, DeployFrame
<1>5. /\ site'.failed = site.failed
      /\ site'.receipt = site.receipt \/ (site'.receipt = "pass" /\ pc[s] = "receipt")
      /\ pc[s] \in {"receipt", "announce"} => Reported' = Reported
      /\ site'.marker = site.marker \/ pc[s] = "marker"
      /\ pc[s] \notin ToMarker \ {"marker"} /\ pc[s] # "claim" =>
             UNCHANGED <<site.tree, site.database, site.current>>
  <2> USE <1>1 DEF Reported, Step, At, Goto, Leave, TypeOK, Site, host, ToSchemas, ToRetain,
       ToEnable, ToMarker
  <2>1. CASE Claim(s)
    BY <2>1 DEF Claim
  <2>2. CASE Stage(s)
    BY <2>2 DEF Stage
  <2>3. CASE Units(s) \/ Mysql(s)
    BY <2>3 DEF Units, Mysql
  <2>4. CASE Schemas(s) \/ Accounts(s)
    BY <2>4 DEF Schemas, Accounts
  <2>5. CASE Validate(s) \/ Retain(s)
    BY <2>5 DEF Validate, Retain
  <2>6. CASE Php(s) \/ StartApps(s) \/ WaitReady(s)
    BY <2>6 DEF Php, StartApps, WaitReady
  <2>7. CASE Enable(s) \/ Watch(s)
    BY <2>7 DEF Enable, Watch
  <2>8. CASE Marker(s) \/ Report(s)
    BY <2>8 DEF Marker, Report
  <2>9. CASE Summary(s)
    BY <2>9 DEF Summary
  <2>10. CASE Receipt(s) \/ Announce(s)
    BY <2>10 DEF Receipt, Announce
  <2> QED
    BY <2>1, <2>2, <2>3, <2>4, <2>5, <2>6, <2>7, <2>8, <2>9, <2>10 DEF Deploy
<1>6. site'.marker # Nothing => Complete'
  <2>1. CASE pc[s] \in (ToMarker \cup {"claim"}) \ {"marker"}
    BY <1>4, <1>5, <2>1
  <2>2. CASE pc[s] \notin (ToMarker \cup {"claim"}) \ {"marker"}
    <3>1. site'.marker # Nothing => Complete
      BY <1>1, <1>5, AtMarker DEF Kept
    <3> QED
      BY <1>3, <1>5, <2>2, <3>1, CompleteStays
  <2> QED
    BY <2>1, <2>2
<1>9. site'.receipt = "pass" => Reported'
  BY <1>1, <1>4, <1>5 DEF EndedBy
<1>7. Kept'
  BY <1>4, <1>5, <1>6, <1>9, InstallAssumption DEF Kept
<1>8. Down'
  BY <1>2, <1>3, <1>4, <1>5 DEF Down, Inside, Trying, Undo
<1> QED
  BY <1>7, <1>8

-----------------------------------------------------------------------------
(* The theorems.                                                             *)

LEMMA SessionStep ==
    ASSUME IInv, NEW s \in Session, Install(s) \/ Kill(s)
    PROVE  IInv'
<1>1. CASE Outside(s)
  BY <1>1, OutsideType, OutsideFrame, OutsideAlone, OutsideJobs, OtherBuilt, OtherEnded, OutsideKept
     DEF IInv
<1>2. CASE Deploy(s)
  BY <1>2, DeployType, DeployJobs, DeployBuilt, DeployEnabled, DeployEnded, DeployKept DEF IInv
<1>3. CASE Failing(s)
  <2>1. inits' <= 1
    <3>1. inits' = inits \/ (inits' = inits + 1 /\ pc[s] = "schemas")
      BY <1>3 DEF Failing, Raise, Refuse, Kill, CutShort, At, history
    <3>2. pc[s] = "schemas" => inits = 0
      BY DEF IInv, Built, BuiltBy, ToSchemas
    <3> QED
      BY <3>1, <3>2 DEF IInv
  <2> QED
    BY <1>3, <2>1, FailType, FailJobs, OtherBuilt, OtherEnded, FailKept, OutsideKept DEF IInv
<1>4. CASE Undoing(s)
  BY <1>4, UndoType, UndoFrame, UndoJobs, OtherBuilt, OtherEnded, UndoKept DEF IInv
<1> QED
  BY <1>1, <1>2, <1>3, <1>4 DEF Install, Outside, Failing, Undoing

LEMMA RebootStep == IInv /\ Reboot => IInv'
<1> SUFFICES ASSUME IInv, Reboot PROVE IInv'
  OBVIOUS
<1>1. TypeOK'
  BY RebootType DEF IInv
<1>2. /\ \A s \in Session : pc'[s] = "off"
      /\ UNCHANGED <<tooling, config, owner, site, enabled, overlapped, inits>> /\ rebooted' = TRUE
  BY DEF Reboot, host
<1>3. Jobs' /\ Held' /\ Alone'
  BY <1>2 DEF IInv, Jobs, JobOf, Held, Alone, Trying, Inside, Undo, Script
<1>4. Built' /\ Enabled' /\ Ended'
  BY <1>2 DEF Built, BuiltBy, Enabled, EnabledBy, Ended, EndedBy, Reported, Trying, Undo, ToMarker,
         ToEnable, ToRetain, ToSchemas
<1>5. Kept' /\ Down'
  BY <1>2 DEF IInv, Kept, Reported, Complete, Down, Trying, Inside, Undo
<1> QED
  BY <1>1, <1>2, <1>3, <1>4, <1>5 DEF IInv

LEMMA Stutters == IInv /\ UNCHANGED vars => IInv'
BY DEF vars, host, services, history, IInv, TypeOK, Jobs, JobOf, Held, Alone, Built, BuiltBy,
       Enabled, EnabledBy, Ended, EndedBy, Reported, Kept, Complete, Down

THEOREM Inductive == Spec => []IInv
<1>1. IInv /\ [Next]_vars => IInv'
  BY SessionStep, RebootStep, Stutters DEF Next
<1> QED
  BY InitIInv, <1>1, PTL DEF Spec

THEOREM Types == Spec => []TypeOK
<1>1. IInv => TypeOK
  BY DEF IInv
<1> QED
  BY <1>1, Inductive, PTL

THEOREM Truth == Spec => []PassIsTrue
<1>1. IInv => PassIsTrue
  BY InstallAssumption DEF IInv, Kept, Reported, Complete, PassIsTrue, Pass, Whole
<1> QED
  BY <1>1, Inductive, PTL

THEOREM Once == Spec => []OneDeployment
<1>1. IInv => OneDeployment
  BY DEF IInv, Held, OneDeployment
<1> QED
  BY <1>1, Inductive, PTL

THEOREM Stopped == Spec => []FailedIsDown
<1>1. IInv => FailedIsDown
  BY DEF IInv, Down, FailedIsDown
<1> QED
  BY <1>1, Inductive, PTL

THEOREM Owned == Spec => OwnerAlone
<1>1. IInv /\ [Next]_vars =>
          [site' # site \/ (~(up \subseteq up') /\ ~rebooted') =>
             \E s \in Session : owner = s /\ pc[s] \in Inside]_vars
  <2> SUFFICES ASSUME IInv, Next, site' # site \/ (~(up \subseteq up') /\ ~rebooted')
               PROVE  \E s \in Session : owner = s /\ pc[s] \in Inside
    BY DEF vars, services
  <2>1. PICK s \in Session : Install(s) \/ Kill(s)
    BY DEF Next, Reboot, host
  <2>2. ~Outside(s)
    BY OutsideFrame DEF IInv
  <2>3. CASE Deploy(s)
    BY <2>3, DeployFrame DEF IInv, Held, Inside, Claim, Step, At, Deploy, Stage, Units, Mysql,
           Schemas, Accounts, Validate, Retain, Php, StartApps, WaitReady, Enable, Watch, Marker,
           Report, Summary, Receipt, Announce, Trying, host
  <2>4. CASE Failing(s) \/ Undoing(s)
    BY <2>4, FailQuiet, UndoFrame DEF IInv, Held, Inside
  <2> QED
    BY <2>1, <2>2, <2>3, <2>4 DEF Install, Outside, Failing, Undoing
<1> QED
  BY <1>1, Inductive, PTL DEF Spec, OwnerAlone
=============================================================================
