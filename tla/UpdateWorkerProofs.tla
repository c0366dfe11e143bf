------------------------- MODULE UpdateWorkerProofs -------------------------
(***************************************************************************)
(* Theorems about UpdateWorker for every number of terminals, services,    *)
(* releases, faults and confirmations.                                     *)
(***************************************************************************)
EXTENDS UpdateWorker, FiniteSetTheorems, TLAPS

-----------------------------------------------------------------------------
(* The inductive invariant.  TypeOK is not inductive: that dpkg installs a    *)
(* version needs the job to be one at that point of the program.              *)

Replacing == {"dpkg", "services", "ready", "admin", "retain", "complete"}
Verified  == (Trying \ {"verifying", "verify"}) \cup Undo

\* What a worker's locals are at each point of install_pending.
Locals(w) ==
    /\ pc[w] = "off" => attempt[w] = NoAttempt
    /\ pc[w] # "off" => attempt[w].ver \in Version
    /\ pc[w] \in Held \ {"take", "discard", "reject"} => attempt[w].job \in Version
    /\ pc[w] \in {"discard", "reject"} => attempt[w].job = Nothing
    /\ pc[w] \in Verified => attempt[w].prev = attempt[w].ver /\ attempt[w].job > attempt[w].prev
    /\ attempt[w].stopped => attempt[w].prev = attempt[w].ver
    /\ pc[w] \in {"stop", "dump", "installing"} \cup Replacing \cup Undo => attempt[w].stopped
    /\ pc[w] \in {"start", "take", "discard", "reject", "attempt", "verifying", "verify", "backing-up"} => ~attempt[w].stopped
    /\ pc[w] \in Replacing \cup {"undo-dpkg", "undo-retain", "undo-admin"} => attempt[w].upgraded
    /\ pc[w] \in Label \ (Replacing \cup Undo \cup {"failed", "close"}) => ~attempt[w].upgraded
    /\ attempt[w].upgraded => attempt[w].stopped /\ attempt[w].dumped
    /\ attempt[w].recovered => pc[w] \in {"failed", "close"}
    /\ pc[w] \in Replacing \cup {"installing"} => attempt[w].dumped

\* What the package, the baseline, the services and status.json are while an
\* attempt is at each of its points.
Files(w) ==
    /\ pc[w] \in (Verified \ {"complete", "undo-dpkg", "undo-retain"}) => baseline = attempt[w].prev
    /\ pc[w] \in {"undo-dpkg", "undo-retain"} => baseline \in {attempt[w].prev, attempt[w].job}
    /\ pc[w] = "complete" => baseline = attempt[w].job
    /\ pc[w] \in Replacing \ {"dpkg"} => installed = attempt[w].job /\ orphans = {}
    /\ pc[w] \in {"undo-retain", "undo-admin"} => installed = attempt[w].prev /\ orphans = {}
    /\ pc[w] \in {"undo-services", "undo-ready"} /\ attempt[w].upgraded =>
          installed = attempt[w].prev /\ orphans = {}
    /\ pc[w] \in {"dump", "installing", "dpkg"} => up = {}
    /\ pc[w] \in (Trying \ {"verifying"}) \cup Undo => status.state \in Active
    /\ pc[w] = "failed" /\ attempt[w].recovered =>
          /\ up = Services
          /\ attempt[w].upgraded => /\ installed = attempt[w].prev /\ orphans = {}
                                    /\ baseline = attempt[w].prev

\* A dpkg that was left alone has its backup, and nothing was completed since.
LeftAlone == orphans # {} => /\ status.state # "complete"
                             /\ \A o \in orphans : BackedUp(o.of)
Reported  == CompleteIsTrue /\ LeftAlone

IInv == /\ TypeOK
        /\ OneAttempt
        /\ Reported
        /\ \A w \in Worker : Locals(w)
        /\ \A w \in Worker : Files(w)

\* The program points, written out.
LEMMA LabelFacts ==
    /\ Label = {"off", "start"} \cup Held
    /\ Held = {"take", "discard", "reject", "attempt", "failed", "close"} \cup Trying \cup Undo
    /\ Trying = {"verifying", "verify", "backing-up", "stop", "dump", "installing", "dpkg",
                 "services", "ready", "admin", "retain", "complete"}
    /\ Undo = {"undo-dpkg", "undo-retain", "undo-admin", "undo-services", "undo-ready"}
    /\ Writes = {"verifying", "backing-up", "installing", "complete"}
    /\ Active = {"verifying", "backing-up", "installing"}
BY DEF Label, Held, Entry, Writes, Trying, Undo, Active

LEMMA WorkerFacts == Svc \in Worker /\ Cli \subseteq Worker /\ Nothing \notin Worker
BY ConstantsAssumption DEF Worker

-----------------------------------------------------------------------------
(* Type correctness.                                                         *)

LEMMA LaunchedType ==
    \A v \in Version, j \in Version \cup {Nothing}, n \in Ticket : Launched(v, j, n) \in Attempt
BY DEF Launched, Attempt

LEMMA TicketFacts == 0 \in Ticket /\ \A n \in Ticket : n \in Nat /\ (n < MaxConfirm => n + 1 \in Ticket)
BY ConstantsAssumption DEF Ticket

LEMMA ExitType ==
    ASSUME TypeOK, NEW w \in Worker, Exit(w)
    PROVE  /\ pc' \in [Worker -> Label] /\ attempt' \in [Worker -> Attempt]
           /\ lock' \in Worker \cup {Nothing}
<1>1. NoAttempt \in Attempt BY TicketFacts DEF NoAttempt, Launched, Attempt
<1> QED BY <1>1, LabelFacts DEF Exit, TypeOK

LEMMA RestartedType == ASSUME installed \in Version PROVE Restarted \in GuiState
BY TicketFacts DEF Restarted, GuiState

-----------------------------------------------------------------------------
\* Only the process that moves, and only if it holds the lock or takes it, can
\* disturb the invariant: every other one is outside the locked part.
LEMMA HolderStep ==
    ASSUME IInv, NEW w \in Worker, lock \in {w, Nothing}, UNCHANGED lock \/ lock' \in {w, Nothing},
           \A v \in Worker \ {w} : pc'[v] = pc[v] /\ attempt'[v] = attempt[v],
           TypeOK', Reported', pc'[w] \in Held <=> lock' = w, Locals(w)', Files(w)'
    PROVE  IInv'
<1> USE LabelFacts, WorkerFacts
<1>1. OneAttempt'
  BY DEF IInv, OneAttempt, TypeOK
<1>2. ASSUME NEW v \in Worker, v # w PROVE Locals(v)' /\ Files(v)'
  <2>1. pc[v] \notin Held /\ pc'[v] = pc[v] /\ attempt'[v] = attempt[v]
    BY <1>2 DEF IInv, OneAttempt
  <2>2. Locals(v)' BY <1>2, <2>1 DEF IInv, Locals
  <2>3. Files(v)' BY <2>1 DEF Files, Verified, Replacing
  <2> QED BY <2>2, <2>3
<1> QED BY <1>1, <1>2 DEF IInv

LEMMA InitIInv == Init => IInv
<1> SUFFICES ASSUME Init PROVE IInv OBVIOUS
<1> USE LabelFacts, WorkerFacts, ConstantsAssumption
<1>1. TypeOK
  <2>1. 1 \in Version BY DEF Version
  <2>2. NoAttempt \in Attempt BY TicketFacts DEF NoAttempt, Launched, Attempt
  <2>3. status \in Status BY DEF Init, Progress, Status
  <2>4. /\ queue \in Version \cup {Nothing, Malformed} /\ ticket \in Ticket
        /\ gui \in GuiState /\ confirmed \in Ticket /\ begun \in [Ticket -> Nat]
    BY <2>1, TicketFacts DEF Init, GuiState
  <2>5. /\ installed \in Version \cup {Broken} /\ baseline \in Version \cup {Nothing}
        /\ up \subseteq Services /\ orphans \in SUBSET Orphan
    BY <2>1 DEF Init
  <2> QED BY <2>2, <2>3, <2>4, <2>5 DEF Init, TypeOK
<1>2. OneAttempt BY DEF Init, OneAttempt
<1>3. Reported BY DEF Init, Reported, CompleteIsTrue, LeftAlone, Progress
<1>4. ASSUME NEW w \in Worker PROVE Locals(w) /\ Files(w)
  BY DEF Init, Locals, Files, NoAttempt, Launched, Verified, Replacing
<1> QED BY <1>1, <1>2, <1>3, <1>4 DEF IInv
-----------------------------------------------------------------------------
(* The try block: every command that succeeds. *)

LEMMA TrySteps ==
    ASSUME IInv, NEW w \in Worker,
           \/ WriteVerifying(w) \/ Verify(w) \/ WriteBackingUp(w) \/ StopServices(w) \/ Dump(w) \/ WriteInstalling(w) \/ Dpkg(w) \/ StartServices(w) \/ WaitReady(w) \/ RestartAdmin(w) \/ Retain(w) \/ WriteComplete(w)
    PROVE  IInv'
<1> USE LabelFacts, WorkerFacts, ConstantsAssumption DEF packages, request, systemd, process, counters
<1>a. TypeOK /\ OneAttempt /\ Reported /\ Locals(w) /\ Files(w) BY DEF IInv
<1>b. attempt[w] \in Attempt /\ pc[w] \in Label BY <1>a DEF TypeOK
<1>1. CASE WriteVerifying(w)
  <2>1. pc' = [pc EXCEPT ![w] = "verify"] BY <1>1 DEF WriteVerifying, Write, Goto
  <2>2. pc'[w] = "verify" /\ lock = w BY <1>1, <2>1, <1>a DEF WriteVerifying, Write, At, TypeOK, OneAttempt
  <2>3. TypeOK' BY <1>1, <1>a, <1>b, <2>1 DEF WriteVerifying, Write, At, Attempt, TypeOK, Locals, Progress, Status
  <2>4. Reported' BY <1>1, <1>a DEF WriteVerifying, Write, At, Reported, CompleteIsTrue, LeftAlone, Files, Locals, Verified, Replacing, Progress, Active
  <2>5. Locals(w)' BY <1>1, <1>a, <1>b, <2>2 DEF WriteVerifying, Write, At, TypeOK, Attempt, Locals, Verified, Replacing
  <2>6. Files(w)' BY <1>1, <1>a, <1>b, <2>2 DEF WriteVerifying, Write, At, TypeOK, Attempt, Files, Locals, Verified, Replacing, Progress, Active
  <2> QED BY <1>1, <1>a, <2>1, <2>2, <2>3, <2>4, <2>5, <2>6, HolderStep DEF WriteVerifying, Write, TypeOK
<1>2. CASE Verify(w)
  <2>1. pc' = [pc EXCEPT ![w] = "backing-up"] BY <1>2 DEF Verify, Goto
  <2>2. pc'[w] = "backing-up" /\ lock = w BY <1>2, <2>1, <1>a DEF Verify, At, TypeOK, OneAttempt
  <2>3. TypeOK' BY <1>2, <1>a, <1>b, <2>1 DEF Verify, At, Attempt, TypeOK, Locals
  <2>4. Reported' BY <1>2, <1>a DEF Verify, At, Reported, CompleteIsTrue, LeftAlone, Files, Locals, Verified, Replacing
  <2>5. Locals(w)' BY <1>2, <1>a, <1>b, <2>2 DEF Verify, At, TypeOK, Attempt, Locals, Verified, Replacing
  <2>6. Files(w)' BY <1>2, <1>a, <1>b, <2>2 DEF Verify, At, TypeOK, Attempt, Files, Locals, Verified, Replacing
  <2> QED BY <1>2, <1>a, <2>1, <2>2, <2>3, <2>4, <2>5, <2>6, HolderStep DEF Verify, TypeOK
<1>3. CASE WriteBackingUp(w)
  <2>1. pc' = [pc EXCEPT ![w] = "stop"] BY <1>3 DEF WriteBackingUp, Write, Goto
  <2>2. pc'[w] = "stop" /\ lock = w BY <1>3, <2>1, <1>a DEF WriteBackingUp, Write, At, TypeOK, OneAttempt
  <2>3. TypeOK'
    <3>1. status' \in Status BY <1>3, <1>a, <1>b DEF WriteBackingUp, Write, At, Attempt, Locals, Progress, Status
    <3>2. attempt' \in [Worker -> Attempt] BY <1>3, <1>a, <1>b DEF WriteBackingUp, Attempt, TypeOK
    <3> QED BY <1>3, <1>a, <2>1, <3>1, <3>2 DEF WriteBackingUp, Write, TypeOK
  <2>4. Reported' BY <1>3, <1>a DEF WriteBackingUp, Write, At, Reported, CompleteIsTrue, LeftAlone, Files, Locals, Verified, Replacing, Progress, Active
  <2>5. Locals(w)' BY <1>3, <1>a, <1>b, <2>2 DEF WriteBackingUp, Write, At, TypeOK, Attempt, Locals, Verified, Replacing
  <2>6. Files(w)' BY <1>3, <1>a, <1>b, <2>2 DEF WriteBackingUp, Write, At, TypeOK, Attempt, Files, Locals, Verified, Replacing, Progress, Active
  <2> QED BY <1>3, <1>a, <2>1, <2>2, <2>3, <2>4, <2>5, <2>6, HolderStep DEF WriteBackingUp, Write, TypeOK
<1>4. CASE StopServices(w)
  <2>1. pc' = [pc EXCEPT ![w] = "dump"] BY <1>4 DEF StopServices, Goto
  <2>2. pc'[w] = "dump" /\ lock = w BY <1>4, <2>1, <1>a DEF StopServices, At, TypeOK, OneAttempt
  <2>3. TypeOK' BY <1>4, <1>a, <1>b, <2>1 DEF StopServices, At, Attempt, TypeOK, Locals
  <2>4. Reported' BY <1>4, <1>a DEF StopServices, At, Reported, CompleteIsTrue, LeftAlone, Files, Locals, Verified, Replacing
  <2>5. Locals(w)' BY <1>4, <1>a, <1>b, <2>2 DEF StopServices, At, TypeOK, Attempt, Locals, Verified, Replacing
  <2>6. Files(w)' BY <1>4, <1>a, <1>b, <2>2 DEF StopServices, At, TypeOK, Attempt, Files, Locals, Verified, Replacing
  <2> QED BY <1>4, <1>a, <2>1, <2>2, <2>3, <2>4, <2>5, <2>6, HolderStep DEF StopServices, TypeOK
<1>5. CASE Dump(w)
  <2>1. pc' = [pc EXCEPT ![w] = "installing"] BY <1>5 DEF Dump, Goto
  <2>2. pc'[w] = "installing" /\ lock = w BY <1>5, <2>1, <1>a DEF Dump, At, TypeOK, OneAttempt
  <2>3. TypeOK' BY <1>5, <1>a, <1>b, <2>1 DEF Dump, At, Attempt, TypeOK, Locals
  <2>4. Reported' BY <1>5, <1>a DEF Dump, At, Reported, CompleteIsTrue, LeftAlone, Files, Locals, Verified, Replacing
  <2>5. Locals(w)' BY <1>5, <1>a, <1>b, <2>2 DEF Dump, At, TypeOK, Attempt, Locals, Verified, Replacing
  <2>6. Files(w)' BY <1>5, <1>a, <1>b, <2>2 DEF Dump, At, TypeOK, Attempt, Files, Locals, Verified, Replacing
  <2> QED BY <1>5, <1>a, <2>1, <2>2, <2>3, <2>4, <2>5, <2>6, HolderStep DEF Dump, TypeOK
<1>6. CASE WriteInstalling(w)
  <2>1. pc' = [pc EXCEPT ![w] = "dpkg"] BY <1>6 DEF WriteInstalling, Write, Goto
  <2>2. pc'[w] = "dpkg" /\ lock = w BY <1>6, <2>1, <1>a DEF WriteInstalling, Write, At, TypeOK, OneAttempt
  <2>3. TypeOK'
    <3>1. status' \in Status BY <1>6, <1>a, <1>b DEF WriteInstalling, Write, At, Attempt, Locals, Progress, Status
    <3>2. attempt' \in [Worker -> Attempt] BY <1>6, <1>a, <1>b DEF WriteInstalling, Attempt, TypeOK
    <3> QED BY <1>6, <1>a, <2>1, <3>1, <3>2 DEF WriteInstalling, Write, TypeOK
  <2>4. Reported' BY <1>6, <1>a DEF WriteInstalling, Write, At, Reported, CompleteIsTrue, LeftAlone, Files, Locals, Verified, Replacing, Progress, Active
  <2>5. Locals(w)' BY <1>6, <1>a, <1>b, <2>2 DEF WriteInstalling, Write, At, TypeOK, Attempt, Locals, Verified, Replacing
  <2>6. Files(w)' BY <1>6, <1>a, <1>b, <2>2 DEF WriteInstalling, Write, At, TypeOK, Attempt, Files, Locals, Verified, Replacing, Progress, Active
  <2> QED BY <1>6, <1>a, <2>1, <2>2, <2>3, <2>4, <2>5, <2>6, HolderStep DEF WriteInstalling, Write, TypeOK
<1>7. CASE Dpkg(w)
  <2>1. pc' = [pc EXCEPT ![w] = "services"] BY <1>7 DEF Dpkg, Goto
  <2>2. pc'[w] = "services" /\ lock = w BY <1>7, <2>1, <1>a DEF Dpkg, At, TypeOK, OneAttempt
  <2>3. TypeOK' BY <1>7, <1>a, <1>b, <2>1 DEF Dpkg, At, Attempt, TypeOK, Locals
  <2>4. Reported' BY <1>7, <1>a DEF Dpkg, At, Reported, CompleteIsTrue, LeftAlone, Files, Locals, Verified, Replacing
  <2>5. Locals(w)' BY <1>7, <1>a, <1>b, <2>2 DEF Dpkg, At, TypeOK, Attempt, Locals, Verified, Replacing
  <2>6. Files(w)' BY <1>7, <1>a, <1>b, <2>2 DEF Dpkg, DpkgFree, At, TypeOK, Attempt, Files, Locals, Verified, Replacing
  <2> QED BY <1>7, <1>a, <2>1, <2>2, <2>3, <2>4, <2>5, <2>6, HolderStep DEF Dpkg, TypeOK
<1>8. CASE StartServices(w)
  <2>1. pc' = [pc EXCEPT ![w] = "ready"] BY <1>8 DEF StartServices, Goto
  <2>2. pc'[w] = "ready" /\ lock = w BY <1>8, <2>1, <1>a DEF StartServices, At, TypeOK, OneAttempt
  <2>3. TypeOK' BY <1>8, <1>a, <1>b, <2>1 DEF StartServices, At, Attempt, TypeOK, Locals
  <2>4. Reported' BY <1>8, <1>a DEF StartServices, At, Reported, CompleteIsTrue, LeftAlone, Files, Locals, Verified, Replacing
  <2>5. Locals(w)' BY <1>8, <1>a, <1>b, <2>2 DEF StartServices, At, TypeOK, Attempt, Locals, Verified, Replacing
  <2>6. Files(w)' BY <1>8, <1>a, <1>b, <2>2 DEF StartServices, At, TypeOK, Attempt, Files, Locals, Verified, Replacing
  <2> QED BY <1>8, <1>a, <2>1, <2>2, <2>3, <2>4, <2>5, <2>6, HolderStep DEF StartServices, TypeOK
<1>9. CASE WaitReady(w)
  <2>1. pc' = [pc EXCEPT ![w] = "admin"] BY <1>9 DEF WaitReady, Goto
  <2>2. pc'[w] = "admin" /\ lock = w BY <1>9, <2>1, <1>a DEF WaitReady, At, TypeOK, OneAttempt
  <2>3. TypeOK' BY <1>9, <1>a, <1>b, <2>1 DEF WaitReady, At, Attempt, TypeOK, Locals
  <2>4. Reported' BY <1>9, <1>a DEF WaitReady, At, Reported, CompleteIsTrue, LeftAlone, Files, Locals, Verified, Replacing
  <2>5. Locals(w)' BY <1>9, <1>a, <1>b, <2>2 DEF WaitReady, At, TypeOK, Attempt, Locals, Verified, Replacing
  <2>6. Files(w)' BY <1>9, <1>a, <1>b, <2>2 DEF WaitReady, At, TypeOK, Attempt, Files, Locals, Verified, Replacing
  <2> QED BY <1>9, <1>a, <2>1, <2>2, <2>3, <2>4, <2>5, <2>6, HolderStep DEF WaitReady, TypeOK
<1>10. CASE RestartAdmin(w)
  <2>1. pc' = [pc EXCEPT ![w] = "retain"] BY <1>10 DEF RestartAdmin, Goto
  <2>2. pc'[w] = "retain" /\ lock = w BY <1>10, <2>1, <1>a DEF RestartAdmin, At, TypeOK, OneAttempt
  <2>3. TypeOK'
    <3>1. installed \in Version BY <1>10, <1>a DEF RestartAdmin, At, Files, Locals, Replacing
    <3>2. Restarted \in GuiState BY <1>a, <3>1, RestartedType
    <3> QED BY <1>10, <1>a, <2>1, <3>2 DEF RestartAdmin, TypeOK, GuiState
  <2>4. Reported' BY <1>10, <1>a DEF RestartAdmin, At, Reported, CompleteIsTrue, LeftAlone, Files, Locals, Verified, Replacing
  <2>5. Locals(w)' BY <1>10, <1>a, <1>b, <2>2 DEF RestartAdmin, At, TypeOK, Attempt, Locals, Verified, Replacing
  <2>6. Files(w)' BY <1>10, <1>a, <1>b, <2>2 DEF RestartAdmin, At, TypeOK, Attempt, Files, Locals, Verified, Replacing
  <2> QED BY <1>10, <1>a, <2>1, <2>2, <2>3, <2>4, <2>5, <2>6, HolderStep DEF RestartAdmin, TypeOK
<1>11. CASE Retain(w)
  <2>1. pc' = [pc EXCEPT ![w] = "complete"] BY <1>11 DEF Retain, Goto
  <2>2. pc'[w] = "complete" /\ lock = w BY <1>11, <2>1, <1>a DEF Retain, At, TypeOK, OneAttempt
  <2>3. TypeOK' BY <1>11, <1>a, <1>b, <2>1 DEF Retain, At, Attempt, TypeOK, Locals
  <2>4. Reported' BY <1>11, <1>a DEF Retain, At, Reported, CompleteIsTrue, LeftAlone, Files, Locals, Verified, Replacing
  <2>5. Locals(w)' BY <1>11, <1>a, <1>b, <2>2 DEF Retain, At, TypeOK, Attempt, Locals, Verified, Replacing
  <2>6. Files(w)' BY <1>11, <1>a, <1>b, <2>2 DEF Retain, At, TypeOK, Attempt, Files, Locals, Verified, Replacing
  <2> QED BY <1>11, <1>a, <2>1, <2>2, <2>3, <2>4, <2>5, <2>6, HolderStep DEF Retain, TypeOK
<1>12. CASE WriteComplete(w)
  <2>1. pc' = [pc EXCEPT ![w] = "close"] BY <1>12 DEF WriteComplete, Write, Goto
  <2>2. pc'[w] = "close" /\ lock = w BY <1>12, <2>1, <1>a DEF WriteComplete, Write, At, TypeOK, OneAttempt
  <2>3. TypeOK' BY <1>12, <1>a, <1>b, <2>1 DEF WriteComplete, Write, At, Attempt, TypeOK, Locals, Complete, Status
  <2>4. Reported' BY <1>12, <1>a DEF WriteComplete, Write, At, Reported, CompleteIsTrue, LeftAlone, Files, Locals, Verified, Replacing, Complete
  <2>5. Locals(w)' BY <1>12, <1>a, <1>b, <2>2 DEF WriteComplete, Write, At, TypeOK, Attempt, Locals, Verified, Replacing
  <2>6. Files(w)' BY <1>12, <1>a, <1>b, <2>2 DEF WriteComplete, Write, At, TypeOK, Attempt, Files, Locals, Verified, Replacing, Complete
  <2> QED BY <1>12, <1>a, <2>1, <2>2, <2>3, <2>4, <2>5, <2>6, HolderStep DEF WriteComplete, Write, TypeOK
<1> QED BY <1>1, <1>2, <1>3, <1>4, <1>5, <1>6, <1>7, <1>8, <1>9, <1>10, <1>11, <1>12

-----------------------------------------------------------------------------
(* The rollback in the exception handler: every command that succeeds. *)

LEMMA UndoSteps ==
    ASSUME IInv, NEW w \in Worker,
           \/ UndoDpkg(w) \/ UndoRetain(w) \/ UndoAdmin(w) \/ UndoServices(w) \/ UndoReady(w) \/ WriteFailed(w)
    PROVE  IInv'
<1> USE LabelFacts, WorkerFacts, ConstantsAssumption DEF packages, request, systemd, process, counters
<1>a. TypeOK /\ OneAttempt /\ Reported /\ Locals(w) /\ Files(w) BY DEF IInv
<1>b. attempt[w] \in Attempt /\ pc[w] \in Label BY <1>a DEF TypeOK
<1>1. CASE UndoDpkg(w)
  <2>1. pc' = [pc EXCEPT ![w] = "undo-retain"] BY <1>1 DEF UndoDpkg, Goto
  <2>2. pc'[w] = "undo-retain" /\ lock = w BY <1>1, <2>1, <1>a DEF UndoDpkg, At, TypeOK, OneAttempt
  <2>3. TypeOK' BY <1>1, <1>a, <1>b, <2>1 DEF UndoDpkg, At, Attempt, TypeOK, Locals
  <2>4. Reported' BY <1>1, <1>a DEF UndoDpkg, At, Reported, CompleteIsTrue, LeftAlone, Files, Locals, Verified, Replacing
  <2>5. Locals(w)' BY <1>1, <1>a, <1>b, <2>2 DEF UndoDpkg, At, TypeOK, Attempt, Locals, Verified, Replacing
  <2>6. Files(w)' BY <1>1, <1>a, <1>b, <2>2 DEF UndoDpkg, DpkgFree, At, TypeOK, Attempt, Files, Locals, Verified, Replacing
  <2> QED BY <1>1, <1>a, <2>1, <2>2, <2>3, <2>4, <2>5, <2>6, HolderStep DEF UndoDpkg, TypeOK
<1>2. CASE UndoRetain(w)
  <2>1. pc' = [pc EXCEPT ![w] = "undo-admin"] BY <1>2 DEF UndoRetain, Goto
  <2>2. pc'[w] = "undo-admin" /\ lock = w BY <1>2, <2>1, <1>a DEF UndoRetain, At, TypeOK, OneAttempt
  <2>3. TypeOK' BY <1>2, <1>a, <1>b, <2>1 DEF UndoRetain, At, Attempt, TypeOK, Locals
  <2>4. Reported' BY <1>2, <1>a DEF UndoRetain, At, Reported, CompleteIsTrue, LeftAlone, Files, Locals, Verified, Replacing
  <2>5. Locals(w)' BY <1>2, <1>a, <1>b, <2>2 DEF UndoRetain, At, TypeOK, Attempt, Locals, Verified, Replacing
  <2>6. Files(w)' BY <1>2, <1>a, <1>b, <2>2 DEF UndoRetain, At, TypeOK, Attempt, Files, Locals, Verified, Replacing
  <2> QED BY <1>2, <1>a, <2>1, <2>2, <2>3, <2>4, <2>5, <2>6, HolderStep DEF UndoRetain, TypeOK
<1>3. CASE UndoAdmin(w)
  <2>1. pc' = [pc EXCEPT ![w] = "undo-services"] BY <1>3 DEF UndoAdmin, Goto
  <2>2. pc'[w] = "undo-services" /\ lock = w BY <1>3, <2>1, <1>a DEF UndoAdmin, At, TypeOK, OneAttempt
  <2>3. TypeOK'
    <3>1. installed \in Version BY <1>3, <1>a DEF UndoAdmin, At, Files, Locals, Verified
    <3>2. Restarted \in GuiState BY <1>a, <3>1, RestartedType
    <3> QED BY <1>3, <1>a, <2>1, <3>2 DEF UndoAdmin, TypeOK, GuiState
  <2>4. Reported' BY <1>3, <1>a DEF UndoAdmin, At, Reported, CompleteIsTrue, LeftAlone, Files, Locals, Verified, Replacing
  <2>5. Locals(w)' BY <1>3, <1>a, <1>b, <2>2 DEF UndoAdmin, At, TypeOK, Attempt, Locals, Verified, Replacing
  <2>6. Files(w)' BY <1>3, <1>a, <1>b, <2>2 DEF UndoAdmin, At, TypeOK, Attempt, Files, Locals, Verified, Replacing
  <2> QED BY <1>3, <1>a, <2>1, <2>2, <2>3, <2>4, <2>5, <2>6, HolderStep DEF UndoAdmin, TypeOK
<1>4. CASE UndoServices(w)
  <2>1. pc' = [pc EXCEPT ![w] = "undo-ready"] BY <1>4 DEF UndoServices, Goto
  <2>2. pc'[w] = "undo-ready" /\ lock = w BY <1>4, <2>1, <1>a DEF UndoServices, At, TypeOK, OneAttempt
  <2>3. TypeOK' BY <1>4, <1>a, <1>b, <2>1 DEF UndoServices, At, Attempt, TypeOK, Locals
  <2>4. Reported' BY <1>4, <1>a DEF UndoServices, At, Reported, CompleteIsTrue, LeftAlone, Files, Locals, Verified, Replacing
  <2>5. Locals(w)' BY <1>4, <1>a, <1>b, <2>2 DEF UndoServices, At, TypeOK, Attempt, Locals, Verified, Replacing
  <2>6. Files(w)' BY <1>4, <1>a, <1>b, <2>2 DEF UndoServices, At, TypeOK, Attempt, Files, Locals, Verified, Replacing
  <2> QED BY <1>4, <1>a, <2>1, <2>2, <2>3, <2>4, <2>5, <2>6, HolderStep DEF UndoServices, TypeOK
<1>5. CASE UndoReady(w)
  <2>1. pc' = [pc EXCEPT ![w] = "failed"] BY <1>5 DEF UndoReady, Goto
  <2>2. pc'[w] = "failed" /\ lock = w BY <1>5, <2>1, <1>a DEF UndoReady, At, TypeOK, OneAttempt
  <2>3. TypeOK'
    <3>1. Ready \in BOOLEAN BY DEF Ready
    <3>2. attempt' \in [Worker -> Attempt] BY <1>5, <1>a, <1>b, <3>1 DEF UndoReady, Attempt, TypeOK
    <3> QED BY <1>5, <1>a, <2>1, <3>2 DEF UndoReady, TypeOK
  <2>4. Reported' BY <1>5, <1>a DEF UndoReady, At, Reported, CompleteIsTrue, LeftAlone, Files, Locals, Verified, Replacing, Ready
  <2>5. Locals(w)' BY <1>5, <1>a, <1>b, <2>2 DEF UndoReady, At, TypeOK, Attempt, Locals, Verified, Replacing
  <2>6. Files(w)' BY <1>5, <1>a, <1>b, <2>2 DEF UndoReady, At, TypeOK, Attempt, Files, Locals, Verified, Replacing, Ready
  <2> QED BY <1>5, <1>a, <2>1, <2>2, <2>3, <2>4, <2>5, <2>6, HolderStep DEF UndoReady, TypeOK
<1>6. CASE WriteFailed(w)
  <2>1. pc' = [pc EXCEPT ![w] = "close"] BY <1>6 DEF WriteFailed, TryWrite, Goto
  <2>2. pc'[w] = "close" /\ lock = w BY <1>6, <2>1, <1>a DEF WriteFailed, TryWrite, At, TypeOK, OneAttempt
  <2>3. TypeOK' BY <1>6, <1>a, <1>b, <2>1 DEF WriteFailed, TryWrite, At, Attempt, TypeOK, Locals, Failed, Status
  <2>4. Reported' BY <1>6, <1>a DEF WriteFailed, TryWrite, At, Reported, CompleteIsTrue, LeftAlone, Files, Locals, Verified, Replacing, Failed
  <2>5. Locals(w)' BY <1>6, <1>a, <1>b, <2>2 DEF WriteFailed, TryWrite, At, TypeOK, Attempt, Locals, Verified, Replacing
  <2>6. Files(w)' BY <1>6, <1>a, <1>b, <2>2 DEF WriteFailed, TryWrite, At, TypeOK, Attempt, Files, Locals, Verified, Replacing, Failed
  <2> QED BY <1>6, <1>a, <2>1, <2>2, <2>3, <2>4, <2>5, <2>6, HolderStep DEF WriteFailed, TryWrite, TypeOK
<1> QED BY <1>1, <1>2, <1>3, <1>4, <1>5, <1>6

-----------------------------------------------------------------------------
(* Leaving the locked part, and entering it.                                 *)

LEMMA RaiseStep == ASSUME IInv, NEW w \in Worker, Raise(w) PROVE IInv'
<1> USE LabelFacts, WorkerFacts, ConstantsAssumption DEF packages, request, systemd, process, counters
<1>a. TypeOK /\ OneAttempt /\ Reported /\ Locals(w) /\ Files(w) BY DEF IInv
<1>b. attempt[w] \in Attempt /\ pc[w] \in Label BY <1>a DEF TypeOK
<1>1. lock = w BY <1>a DEF Raise, OneAttempt
<1>2. Handler(w) \in {"failed", "undo-dpkg", "undo-services"} BY DEF Handler
<1>3. pc' = [pc EXCEPT ![w] = Handler(w)] /\ pc'[w] = Handler(w)
  BY <1>a DEF Raise, Goto, TypeOK
<1>4. TypeOK'
  <2>1. up' \subseteq Services BY <1>a DEF Raise, CutShort, TypeOK
  <2>2. installed' \in Version \cup {Broken}
    BY <1>a, <1>b DEF Raise, CutShort, Packaging, Target, TypeOK, Locals, Verified, Attempt
  <2>3. gui' \in GuiState
    <3>1. CASE UNCHANGED gui BY <3>1, <1>a DEF TypeOK
    <3>2. CASE pc[w] \in {"admin", "undo-admin"} /\ gui' = Restarted
      <4>1. installed \in Version BY <3>2, <1>a DEF Files, Locals, Replacing, Verified
      <4> QED BY <3>2, <4>1, <1>a, RestartedType
    <3> QED BY <3>1, <3>2 DEF Raise, CutShort
  <2> QED BY <1>a, <1>2, <1>3, <2>1, <2>2, <2>3 DEF Raise, TypeOK
<1>5. Reported' BY <1>a DEF Raise, CutShort, Packaging, Reported, CompleteIsTrue, LeftAlone, Files
<1>6. Locals(w)' BY <1>a, <1>b, <1>3 DEF Raise, Handler, Locals, Verified, Replacing, Attempt
<1>7. Files(w)' BY <1>a, <1>b, <1>3 DEF Raise, Handler, CutShort, Files, Locals, Verified, Replacing, Attempt
<1> QED BY <1>a, <1>1, <1>2, <1>3, <1>4, <1>5, <1>6, <1>7, HolderStep DEF Raise, TypeOK

\* A process that exits, however it does, leaves the others as they were.
LEMMA ExitStep ==
    ASSUME IInv, NEW w \in Worker, Exit(w), TypeOK', Reported',
           lock = w \/ UNCHANGED <<packages, up, status>>
    PROVE  IInv'
<1> USE LabelFacts, WorkerFacts, ConstantsAssumption DEF packages, request, systemd, process, counters
<1>a. TypeOK /\ OneAttempt /\ Reported /\ Locals(w) /\ Files(w) BY DEF IInv
<1>b. attempt[w] \in Attempt /\ pc[w] \in Label BY <1>a DEF TypeOK
<1>1. pc'[w] = "off" /\ attempt'[w] = NoAttempt BY <1>a DEF Exit, TypeOK
<1>2. Locals(w)' BY <1>1 DEF Locals, NoAttempt, Launched, Verified, Replacing
<1>3. Files(w)' BY <1>1 DEF Files, Verified, Replacing
<1>4. ASSUME NEW v \in Worker, v # w PROVE pc'[v] = pc[v] /\ attempt'[v] = attempt[v]
  BY <1>4, <1>a DEF Exit, TypeOK
<1>5. CASE lock = w
  <2>1. lock' = Nothing BY <1>5 DEF Exit
  <2> QED BY <1>1, <1>2, <1>3, <1>4, <1>5, <2>1, HolderStep
<1>6. CASE lock # w /\ UNCHANGED <<packages, up, status>>
  <2>1. UNCHANGED lock BY <1>6 DEF Exit
  <2>2. OneAttempt' BY <1>a, <1>1, <1>4, <1>6, <2>1 DEF OneAttempt
  <2>3. ASSUME NEW v \in Worker, v # w PROVE Locals(v)' /\ Files(v)'
    <3>1. Locals(v) /\ Files(v) BY DEF IInv
    <3>2. pc'[v] = pc[v] /\ attempt'[v] = attempt[v] BY <1>4, <2>3
    <3>3. Locals(v)' BY <3>1, <3>2 DEF Locals
    <3>4. Files(v)' BY <1>6, <3>1, <3>2 DEF Files
    <3> QED BY <3>3, <3>4
  <2> QED BY <1>2, <1>3, <2>2, <2>3 DEF IInv
<1> QED BY <1>5, <1>6

LEMMA RefuseStep == ASSUME IInv, NEW w \in Worker, Refuse(w) PROVE IInv'
<1> USE LabelFacts, WorkerFacts, ConstantsAssumption DEF packages, request, systemd, process, counters
<1>a. TypeOK /\ OneAttempt /\ Reported /\ Locals(w) /\ Files(w) BY DEF IInv
<1>b. attempt[w] \in Attempt /\ pc[w] \in Label BY <1>a DEF TypeOK
<1>1. Exit(w) BY DEF Refuse
<1>2. TypeOK' BY <1>1, <1>a, ExitType DEF Refuse, TypeOK
<1>3. Reported' BY <1>a DEF Refuse, Reported, CompleteIsTrue, LeftAlone
<1> QED BY <1>1, <1>2, <1>3, ExitStep DEF Refuse

LEMMA CloseStep == ASSUME IInv, NEW w \in Worker, Close(w) PROVE IInv'
<1> USE LabelFacts, WorkerFacts, ConstantsAssumption DEF packages, request, systemd, process, counters
<1>a. TypeOK /\ OneAttempt /\ Reported /\ Locals(w) /\ Files(w) BY DEF IInv
<1>b. attempt[w] \in Attempt /\ pc[w] \in Label BY <1>a DEF TypeOK
<1>1. Exit(w) BY DEF Close
<1>2. TypeOK' BY <1>1, <1>a, ExitType DEF Close, TypeOK
<1>3. Reported' BY <1>a DEF Close, Reported, CompleteIsTrue, LeftAlone
<1> QED BY <1>1, <1>2, <1>3, ExitStep DEF Close

\* A kill or an interrupt at any point, with the partial effect of a command.
LEMMA DieStep == ASSUME IInv, NEW w \in Worker, Die(w), faults' \in Nat PROVE IInv'
<1> USE LabelFacts, WorkerFacts, ConstantsAssumption DEF packages, request, systemd, process, counters
<1>a. TypeOK /\ OneAttempt /\ Reported /\ Locals(w) /\ Files(w) BY DEF IInv
<1>b. attempt[w] \in Attempt /\ pc[w] \in Label BY <1>a DEF TypeOK
<1>1. Exit(w) /\ CutShort(w) BY DEF Die
<1>2. TypeOK'
  <2>1. up' \subseteq Services BY <1>1, <1>a DEF CutShort, TypeOK
  <2>2. installed' \in Version \cup {Broken}
    BY <1>1, <1>a, <1>b DEF CutShort, Packaging, Target, TypeOK, Locals, Verified, Attempt
  <2>3. gui' \in GuiState
    <3>1. CASE UNCHANGED gui BY <3>1, <1>a DEF TypeOK
    <3>2. CASE pc[w] \in {"admin", "undo-admin"} /\ gui' = Restarted
      <4>1. installed \in Version BY <3>2, <1>a DEF Files, Locals, Replacing, Verified
      <4> QED BY <3>2, <4>1, <1>a, RestartedType
    <3> QED BY <1>1, <3>1, <3>2 DEF CutShort
  <2> QED BY <1>1, <1>a, <2>1, <2>2, <2>3, ExitType DEF Die, TypeOK
<1>3. Reported' BY <1>1, <1>a DEF Die, CutShort, Packaging, Reported, CompleteIsTrue, LeftAlone, Files
<1>4. CASE pc[w] = "start"
  <2>1. UNCHANGED <<packages, up, status>> BY <1>4, <1>1 DEF CutShort, Packaging, Die
  <2> QED BY <1>1, <1>2, <1>3, <2>1, ExitStep
<1>5. CASE pc[w] # "start"
  <2>1. lock = w BY <1>5, <1>a, <1>b DEF Die, OneAttempt
  <2> QED BY <1>1, <1>2, <1>3, <2>1, ExitStep
<1> QED BY <1>4, <1>5

LEMMA RebootStep == ASSUME IInv, Reboot PROVE IInv'
<1> USE LabelFacts, WorkerFacts, ConstantsAssumption DEF packages, request, systemd, process, counters
<1>a. TypeOK /\ Reported /\ \A w \in Worker : Locals(w) /\ Files(w) BY DEF IInv
<1>1. NoAttempt \in Attempt BY TicketFacts DEF NoAttempt, Launched, Attempt
<1>2. installed' \in Version \cup {Broken}
  <2>1. CASE UNCHANGED installed BY <2>1, <1>a DEF TypeOK
  <2>2. ASSUME NEW w \in Worker, pc[w] \in Packaging, installed' \in {Broken, Target(w)}
        PROVE  installed' \in Version \cup {Broken}
    BY <2>2, <1>a DEF TypeOK, Locals, Verified, Attempt, Packaging, Target
  <2>3. ASSUME NEW o \in orphans, installed' \in {Broken, o.to}
        PROVE  installed' \in Version \cup {Broken}
    BY <2>3, <1>a DEF TypeOK, Orphan
  <2> QED BY <2>1, <2>2, <2>3 DEF Reboot
<1>3. gui' \in GuiState BY <1>2, TicketFacts DEF Reboot, GuiState
<1>4. faults' \in Nat BY <1>a DEF Reboot, Fault, TypeOK
<1>5. TypeOK' BY <1>a, <1>1, <1>2, <1>3, <1>4 DEF Reboot, TypeOK
<1>6. Reported'
  <2>1. CASE UNCHANGED installed BY <2>1, <1>a DEF Reboot, Reported, CompleteIsTrue, LeftAlone
  <2>2. ASSUME NEW w \in Worker, pc[w] \in {"dpkg", "undo-dpkg"} PROVE Reported'
    BY <2>2, <1>a DEF Reboot, Reported, CompleteIsTrue, LeftAlone, Files
  <2>3. CASE orphans # {} BY <2>3, <1>a DEF Reboot, Reported, CompleteIsTrue, LeftAlone
  <2> QED BY <2>1, <2>2, <2>3 DEF Reboot, Packaging
<1>7. OneAttempt' BY DEF Reboot, OneAttempt
<1>8. ASSUME NEW w \in Worker PROVE Locals(w)' /\ Files(w)'
  BY DEF Reboot, Locals, Files, NoAttempt, Launched, Verified, Replacing
<1> QED BY <1>5, <1>6, <1>7, <1>8 DEF IInv

\* A terminal killed at dpkg leaves it running: its backup is complete.
LEMMA KillTerminalStep == ASSUME IInv, NEW c \in Cli, KillTerminal(c) PROVE IInv'
<1> USE LabelFacts, WorkerFacts, ConstantsAssumption DEF packages, request, systemd, process, counters
<1>a. TypeOK /\ OneAttempt /\ Reported /\ Locals(c) /\ Files(c) BY DEF IInv
<1>b. attempt[c] \in Attempt /\ pc[c] \in Packaging BY <1>a DEF TypeOK, KillTerminal
<1>1. c \in Worker /\ Exit(c) /\ faults' \in Nat BY <1>a DEF KillTerminal, Fault, TypeOK
<1>2. lock = c BY <1>a, <1>b, <1>1 DEF OneAttempt, Packaging
<1>3. Target(c) \in Version /\ BackedUp(attempt[c]) /\ status.state \in Active
  BY <1>a, <1>b DEF Target, Packaging, BackedUp, Locals, Files, Verified, Replacing, Attempt
<1>4. orphans' \in SUBSET Orphan BY <1>b, <1>3 DEF KillTerminal, Orphan
<1>5. TypeOK' BY <1>a, <1>1, <1>4, ExitType DEF KillTerminal, TypeOK
<1>6. Reported' BY <1>3 DEF KillTerminal, Reported, CompleteIsTrue, LeftAlone
<1> QED BY <1>1, <1>2, <1>5, <1>6, ExitStep

\* A dpkg that ends changes the package of no attempt that relies on it.
LEMMA OrphanStep == ASSUME IInv, OrphanEnds PROVE IInv'
<1> USE DEF packages, request, systemd, process, counters
<1>a. TypeOK /\ OneAttempt /\ Reported BY DEF IInv
<1>1. orphans # {} /\ orphans' = {} /\ status.state # "complete"
  BY <1>a DEF OrphanEnds, Reported, LeftAlone
<1>2. TypeOK' BY <1>a DEF OrphanEnds, TypeOK, Orphan
<1>3. OneAttempt' /\ Reported'
  BY <1>a, <1>1 DEF OrphanEnds, OneAttempt, Reported, CompleteIsTrue, LeftAlone
<1>4. ASSUME NEW w \in Worker PROVE Locals(w)' /\ Files(w)'
  <2>1. Locals(w) /\ Files(w) BY DEF IInv
  <2>2. Locals(w)' BY <2>1 DEF OrphanEnds, Locals
  <2>3. Files(w)' BY <1>1, <2>1 DEF OrphanEnds, Files
  <2> QED BY <2>2, <2>3
<1> QED BY <1>2, <1>3, <1>4 DEF IInv

LEMMA TakeUpType == ASSUME TypeOK, NEW n \in Ticket, TakeUp(n) PROVE begun' \in [Ticket -> Nat]
BY DEF TypeOK, TakeUp

LEMMA EntrySteps ==
    ASSUME IInv, NEW w \in Worker,
           \/ Acquire(w) \/ TakeConfirmed(w) \/ TakeQueued(w) \/ FindNoJob(w) \/ Discard(w)
           \/ RejectJob(w) \/ MakeAttempt(w)
    PROVE  IInv'
<1> USE LabelFacts, WorkerFacts, ConstantsAssumption DEF packages, request, systemd, process, counters
<1>a. TypeOK /\ OneAttempt /\ Reported /\ Locals(w) /\ Files(w) BY DEF IInv
<1>b. attempt[w] \in Attempt /\ pc[w] \in Label BY <1>a DEF TypeOK
<1>c. attempt[w].ver \in Version \/ pc[w] = "off" BY <1>a DEF Locals
<1>1. CASE Acquire(w)
  <2>1. TypeOK' BY <1>1, <1>a DEF Acquire, Goto, TypeOK
  <2>2. Reported' BY <1>1, <1>a DEF Acquire, Reported, CompleteIsTrue, LeftAlone
  <2>3. pc'[w] = "take" BY <1>1, <1>a DEF Acquire, Goto, TypeOK
  <2>4. Locals(w)' BY <1>1, <1>a, <2>3 DEF Acquire, At, Locals, Verified, Replacing
  <2>5. Files(w)' BY <2>3 DEF Files, Verified, Replacing
  <2> QED BY <1>1, <1>a, <2>1, <2>2, <2>3, <2>4, <2>5, HolderStep DEF Acquire, Goto, TypeOK
<1>2. CASE TakeConfirmed(w)
  <2>1. lock = w BY <1>2, <1>a DEF TakeConfirmed, At, OneAttempt
  <2>2. Reported' BY <1>2, <1>a DEF TakeConfirmed, Reported, CompleteIsTrue, LeftAlone
  <2>3. begun' \in [Ticket -> Nat] BY <1>2, <1>a, <1>b, TakeUpType DEF TakeConfirmed, TypeOK, Attempt
  <2>4. CASE queue = Nothing
    <3>1. pc' = [pc EXCEPT ![w] = "attempt"] /\ UNCHANGED lock /\ attempt' = [attempt EXCEPT ![w].for = 0]
      BY <1>2, <2>4 DEF TakeConfirmed, Goto
    <3>2. pc'[w] = "attempt" /\ attempt'[w] = [attempt[w] EXCEPT !.for = 0] BY <3>1, <1>a DEF TypeOK
    <3>3. attempt' \in [Worker -> Attempt] BY <1>b, <3>1, <1>a, TicketFacts DEF TypeOK, Attempt
    <3>4. TypeOK' BY <1>2, <1>a, <2>3, <3>1, <3>3 DEF TakeConfirmed, TypeOK
    <3>5. Locals(w)' BY <1>2, <1>a, <1>b, <3>1, <3>2 DEF TakeConfirmed, At, Attempt, Locals, Verified, Replacing
    <3>6. Files(w)' BY <3>2 DEF Files, Verified, Replacing
    <3> QED BY <1>a, <2>1, <2>2, <3>1, <3>2, <3>4, <3>5, <3>6, HolderStep DEF TypeOK
  <2>5. CASE queue # Nothing
    <3>1. Exit(w) BY <1>2, <2>5 DEF TakeConfirmed
    <3>2. TypeOK' BY <1>2, <1>a, <2>3, <3>1, ExitType DEF TakeConfirmed, TypeOK
    <3> QED BY <2>1, <2>2, <3>1, <3>2, ExitStep
  <2> QED BY <2>4, <2>5
<1>3. CASE TakeQueued(w)
  <2> USE DEF TakeQueued, Read
  <2>1. lock = w BY <1>3, <1>a DEF At, OneAttempt
  <2>2. Reported' BY <1>3, <1>a DEF Reported, CompleteIsTrue, LeftAlone
  <2>3. begun' \in [Ticket -> Nat] BY <1>3, <1>a, TakeUpType DEF TakeQueued, Read, TypeOK
  <2>4. pc' = [pc EXCEPT ![w] = "attempt"] /\ attempt' = [attempt EXCEPT ![w].job = queue] /\ queue \in Version
    BY <1>3 DEF Goto
  <2>5. pc'[w] = "attempt" /\ attempt'[w] = [attempt[w] EXCEPT !.job = queue] BY <2>4, <1>a DEF TypeOK
  <2>6. attempt' \in [Worker -> Attempt] BY <1>b, <2>4, <1>a DEF TypeOK, Attempt
  <2>7. TypeOK' BY <1>3, <1>a, <2>3, <2>4, <2>6, TicketFacts DEF TypeOK
  <2>8. Locals(w)' BY <1>3, <1>a, <1>b, <2>4, <2>5 DEF At, Attempt, Locals, Verified, Replacing
  <2>9. Files(w)' BY <2>5 DEF Files, Verified, Replacing
  <2> QED BY <1>3, <1>a, <2>1, <2>2, <2>4, <2>5, <2>7, <2>8, <2>9, HolderStep DEF TypeOK
<1>6. CASE FindNoJob(w) \/ Discard(w)
  <2> USE DEF FindNoJob, Discard
  <2>1. lock = w BY <1>6, <1>a DEF At, OneAttempt
  <2>2. Reported' BY <1>6, <1>a DEF Reported, CompleteIsTrue, LeftAlone
  <2>3. PICK l \in {"discard", "reject"} : pc' = [pc EXCEPT ![w] = l] BY <1>6 DEF Goto
  <2>4. pc'[w] \in {"discard", "reject"} /\ UNCHANGED <<attempt, lock>> BY <1>6, <2>3, <1>a DEF TypeOK
  <2>5. TypeOK' BY <1>6, <1>a, <2>3, TicketFacts DEF TypeOK
  <2>6. Locals(w)' BY <1>6, <1>a, <1>b, <2>4 DEF At, Locals, Verified, Replacing
  <2>7. Files(w)' BY <2>4 DEF Files, Verified, Replacing
  <2> QED BY <1>a, <2>1, <2>2, <2>3, <2>4, <2>5, <2>6, <2>7, HolderStep DEF TypeOK
<1>4. CASE RejectJob(w)
  <2>1. lock = w /\ Exit(w) BY <1>4, <1>a DEF RejectJob, At, OneAttempt
  <2>2. status' \in Status
    <3>1. Failed(FALSE, FALSE) \in Status BY DEF Failed, Status
    <3>2. status' = Failed(FALSE, FALSE) \/ UNCHANGED status BY <1>4 DEF RejectJob, TryWrite
    <3> QED BY <3>1, <3>2, <1>a DEF TypeOK
  <2>3. TypeOK' BY <1>4, <1>a, <2>1, <2>2, ExitType DEF RejectJob, TypeOK
  <2>4. Reported' BY <1>4, <1>a DEF RejectJob, TryWrite, Failed, Reported, CompleteIsTrue, LeftAlone
  <2> QED BY <2>1, <2>3, <2>4, ExitStep
<1>5. CASE MakeAttempt(w)
  <2>1. lock = w BY <1>5, <1>a DEF MakeAttempt, At, OneAttempt
  <2>2. Reported' BY <1>5, <1>a DEF MakeAttempt, Reported, CompleteIsTrue, LeftAlone
  <2>3. CASE Exit(w)
    <3>1. TypeOK' BY <1>5, <2>3, <1>a, ExitType DEF MakeAttempt, TypeOK
    <3> QED BY <2>1, <2>2, <2>3, <3>1, ExitStep
  <2>4. CASE Goto(w, "verifying") /\ UNCHANGED <<lock, attempt>>
    <3>1. pc' = [pc EXCEPT ![w] = "verifying"] /\ pc'[w] = "verifying" BY <2>4, <1>a DEF Goto, TypeOK
    <3>2. TypeOK' BY <1>5, <2>4, <1>a, <3>1 DEF MakeAttempt, TypeOK
    <3>3. Locals(w)' BY <1>5, <1>a, <1>b, <2>4, <3>1 DEF MakeAttempt, At, Locals, Verified, Replacing
    <3>4. Files(w)' BY <3>1 DEF Files, Verified, Replacing
    <3> QED BY <1>a, <2>1, <2>2, <2>4, <3>1, <3>2, <3>3, <3>4, HolderStep DEF TypeOK
  <2> QED BY <1>5, <2>3, <2>4 DEF MakeAttempt
<1> QED BY <1>1, <1>2, <1>3, <1>4, <1>5, <1>6
-----------------------------------------------------------------------------
(* Steps of the GUI, the service manager and the operator.                   *)

\* A new process starts outside the locked part; nothing it relies on moves.
LEMMA LaunchStep ==
    ASSUME IInv, NEW w \in Worker, NEW j \in Version \cup {Nothing}, NEW n \in Ticket,
           Launch(w, j, n), TypeOK', UNCHANGED <<packages, up, status, lock>>
    PROVE  IInv'
<1> USE LabelFacts, WorkerFacts, ConstantsAssumption DEF packages, request, systemd, process, counters
<1>a. TypeOK /\ OneAttempt /\ Reported /\ Locals(w) /\ Files(w) BY DEF IInv
<1>b. attempt[w] \in Attempt /\ pc[w] \in Label BY <1>a DEF TypeOK
<1>1. pc'[w] = "start" /\ attempt'[w] = Launched(installed, j, n) BY <1>a DEF Launch, TypeOK
<1>2. ASSUME NEW v \in Worker, v # w PROVE pc'[v] = pc[v] /\ attempt'[v] = attempt[v]
  BY <1>2, <1>a DEF Launch, TypeOK
<1>3. Locals(w)' BY <1>1 DEF Launch, Launched, Locals, Verified, Replacing
<1>4. Files(w)' BY <1>1 DEF Files, Verified, Replacing
<1>5. OneAttempt' BY <1>a, <1>1, <1>2 DEF OneAttempt, Launch
<1>6. Reported' BY <1>a DEF Reported, CompleteIsTrue, LeftAlone
<1>7. ASSUME NEW v \in Worker, v # w PROVE Locals(v)' /\ Files(v)'
  <2>1. Locals(v) /\ Files(v) BY DEF IInv
  <2>2. Locals(v)' BY <1>2, <1>7, <2>1 DEF Locals
  <2>3. Files(v)' BY <1>2, <1>7, <2>1 DEF Files
  <2> QED BY <2>2, <2>3
<1> QED BY <1>3, <1>4, <1>5, <1>6, <1>7 DEF IInv

\* A step that leaves the workers, the package, the services and status.json.
LEMMA QuietStep ==
    ASSUME IInv, TypeOK', UNCHANGED <<packages, up, status, process>>
    PROVE  IInv'
<1> USE DEF packages, process
<1>1. OneAttempt' /\ Reported' BY DEF IInv, OneAttempt, Reported, CompleteIsTrue, LeftAlone
<1>2. ASSUME NEW w \in Worker PROVE Locals(w)' /\ Files(w)'
  <2>1. Locals(w) /\ Files(w) BY DEF IInv
  <2>2. Locals(w)' BY <2>1 DEF Locals
  <2>3. Files(w)' BY <2>1 DEF Files
  <2> QED BY <2>2, <2>3
<1> QED BY <1>1, <1>2 DEF IInv

LEMMA GuiStep == ASSUME IInv, Gui PROVE IInv'
<1> USE WorkerFacts, ConstantsAssumption, TicketFacts DEF packages, request, systemd, process, counters
<1>1. TypeOK BY DEF IInv
<1>2. TypeOK' BY <1>1 DEF Gui, GuiCheck, GuiConfirm, GuiPublish, TypeOK, GuiState
<1>3. UNCHANGED <<packages, up, status, process>>
  BY DEF Gui, GuiCheck, GuiConfirm, GuiPublish
<1> QED BY <1>2, <1>3, QuietStep

LEMMA WatcherStep == ASSUME IInv, Watcher \/ WindowEnds PROVE IInv'
<1> USE WorkerFacts, ConstantsAssumption, LabelFacts, TicketFacts DEF packages, request, systemd, process, counters
<1>1. TypeOK BY DEF IInv
<1>2. CASE StartLimitHit
  <2>1. TypeOK' BY <1>1, <1>2 DEF StartLimitHit, TypeOK
  <2> QED BY <1>2, <2>1, QuietStep DEF StartLimitHit
<1>3. CASE StartService
  <2>1. burst' \in 0..StartLimit BY <1>1, <1>3 DEF StartService, TypeOK
  <2>2. CASE installed \in Version
    <3>1. Launch(Svc, Nothing, 0) BY <1>3, <2>2 DEF StartService
    <3>2. pc' \in [Worker -> Label] /\ attempt' \in [Worker -> Attempt]
      BY <1>1, <3>1, LaunchedType DEF Launch, TypeOK
    <3>3. TypeOK' BY <1>1, <1>3, <2>1, <3>2 DEF StartService, TypeOK
    <3> QED BY <1>3, <3>1, <3>3, LaunchStep DEF StartService
  <2>3. CASE installed \notin Version
    <3>1. TypeOK' BY <1>1, <1>3, <2>1, <2>3 DEF StartService, TypeOK
    <3> QED BY <1>3, <2>3, <3>1, QuietStep DEF StartService
  <2> QED BY <2>2, <2>3
<1>4. CASE WindowEnds
  <2>1. TypeOK' BY <1>1, <1>4 DEF WindowEnds, TypeOK
  <2> QED BY <1>4, <2>1, QuietStep DEF WindowEnds
<1> QED BY <1>2, <1>3, <1>4 DEF Watcher

LEMMA OperatorStep == ASSUME IInv, NEW c \in Cli, CliConfirm(c) \/ CliApply(c) PROVE IInv'
<1> USE WorkerFacts, ConstantsAssumption, LabelFacts, TicketFacts DEF packages, request, systemd, process, counters
<1>1. TypeOK /\ c \in Worker BY DEF IInv
<1>2. PICK j \in Version \cup {Nothing}, n \in Ticket : Launch(c, j, n)
  BY <1>1 DEF CliConfirm, CliApply, TypeOK
<1>3. pc' \in [Worker -> Label] /\ attempt' \in [Worker -> Attempt]
  BY <1>1, <1>2, LaunchedType DEF Launch, TypeOK
<1>4. TypeOK' BY <1>1, <1>3 DEF CliConfirm, CliApply, TypeOK
<1> QED BY <1>1, <1>2, <1>4, LaunchStep DEF CliConfirm, CliApply

LEMMA NextIInv == IInv /\ [Next]_vars => IInv'
<1> SUFFICES ASSUME IInv, [Next]_vars PROVE IInv' OBVIOUS
<1>1. CASE Gui BY <1>1, GuiStep
<1>2. CASE Watcher \/ WindowEnds BY <1>2, WatcherStep
<1>3. CASE Reboot BY <1>3, RebootStep
<1>4. ASSUME NEW w \in Worker, Work(w) PROVE IInv'
  BY <1>4, EntrySteps, TrySteps, UndoSteps, RaiseStep, RefuseStep, CloseStep DEF Work
<1>5. CASE KillService
  <2>1. faults' \in Nat BY <1>5 DEF KillService, Fault, IInv, TypeOK
  <2> QED BY <1>5, <2>1, DieStep, WorkerFacts DEF KillService
<1>6. ASSUME NEW c \in Cli, Interrupt(c) PROVE IInv'
  <2>1. faults' \in Nat BY <1>6 DEF Interrupt, Fault, IInv, TypeOK
  <2> QED BY <1>6, <2>1, DieStep, WorkerFacts DEF Interrupt
<1>7. ASSUME NEW c \in Cli, CliConfirm(c) \/ CliApply(c) PROVE IInv'
  BY <1>7, OperatorStep
<1>8. CASE UNCHANGED vars
  <2>1. TypeOK' BY <1>8 DEF vars, packages, request, systemd, process, counters, IInv, TypeOK
  <2> QED BY <1>8, <2>1, QuietStep DEF vars
<1>9. CASE OrphanEnds \/ \E c \in Cli : KillTerminal(c) BY <1>9, OrphanStep, KillTerminalStep
<1> QED BY <1>1, <1>2, <1>3, <1>4, <1>5, <1>6, <1>7, <1>8, <1>9 DEF Next

LEMMA Invariance == Spec => []IInv
BY InitIInv, NextIInv, PTL DEF Spec
-----------------------------------------------------------------------------
(* What follows from the invariant.                                          *)

\* The state is always well typed: in particular the package dpkg is given, and
\* the one a rollback returns to, are releases (updates.py 230-287).
THEOREM TypeCorrect == Spec => []TypeOK
<1>1. IInv => TypeOK BY DEF IInv
<1> QED BY <1>1, Invariance, PTL

\* Two attempts never overlap, however processes start, fail, are refused,
\* killed or interrupted (updates.py 215-223, 342-343).
THEOREM AttemptsExclude == Spec => []OneAttempt
<1>1. IInv => OneAttempt BY DEF IInv
<1> QED BY <1>1, Invariance, PTL

\* status.json never says "complete" of a version that is not both installed
\* and retained (updates.py 314-324).
THEOREM CompletionIsTrue == Spec => []CompleteIsTrue
<1>1. IInv => CompleteIsTrue BY DEF IInv, Reported
<1> QED BY <1>1, Invariance, PTL

\* No application service runs while its databases are dumped or the package is
\* replaced (updates.py 292-316).
THEOREM BackupSeesNoWriter == Spec => []WritersStopped
<1>1. IInv => WritersStopped BY DEF IInv, Files, WritersStopped
<1> QED BY <1>1, Invariance, PTL
-----------------------------------------------------------------------------
(* Action properties.                                                        *)

\* Every step that is not one of a locked attempt leaves the package alone, and
\* is not the one that reports a recovery or empties the queue.
LEMMA OutsideSteps ==
    ASSUME TypeOK,
           \/ Gui \/ Watcher \/ WindowEnds \/ \E c \in Cli : CliConfirm(c) \/ CliApply(c)
           \/ UNCHANGED vars
    PROVE  UNCHANGED <<packages, status>> /\ (queue # Nothing => UNCHANGED queue)
BY DEF Gui, GuiCheck, GuiConfirm, GuiPublish, Watcher, StartService, StartLimitHit, WindowEnds,
       CliConfirm, CliApply, vars, packages, request, systemd, process, counters

\* Among the steps of an attempt, those that write status.json.
LEMMA StatusWrites ==
    ASSUME NEW w \in Worker, Work(w), status' # status
    PROVE  \/ RejectJob(w) \/ WriteVerifying(w) \/ WriteBackingUp(w) \/ WriteInstalling(w)
           \/ WriteComplete(w) \/ WriteFailed(w)
BY DEF Work, Acquire, Refuse, TakeConfirmed, TakeQueued, Read, FindNoJob, Discard, MakeAttempt, Verify,
       StopServices, Dump, Dpkg, StartServices, WaitReady, RestartAdmin, Retain, Raise,
       UndoDpkg, UndoRetain, UndoAdmin, UndoServices, UndoReady, Close

\* Among the steps of an attempt, those that change the installed package.
LEMMA PackageWrites ==
    ASSUME NEW w \in Worker, Work(w), installed' # installed
    PROVE  Dpkg(w) \/ UndoDpkg(w) \/ Raise(w)
BY DEF Work, Acquire, Refuse, TakeConfirmed, TakeQueued, Read, FindNoJob, Discard, RejectJob, MakeAttempt, Verify,
       Write, WriteVerifying, WriteBackingUp, WriteInstalling, WriteComplete, WriteFailed,
       StopServices, Dump, StartServices, WaitReady, RestartAdmin, Retain,
       UndoRetain, UndoAdmin, UndoServices, UndoReady, Close, packages

\* Among the steps of an attempt, the one that touches the queue.
LEMMA QueueWrites ==
    ASSUME NEW w \in Worker, Work(w), queue' # queue
    PROVE  TakeQueued(w) \/ Discard(w)
BY DEF Work, Acquire, Refuse, TakeConfirmed, FindNoJob, request, RejectJob, MakeAttempt, Verify,
       Write, WriteVerifying, WriteBackingUp, WriteInstalling, WriteComplete, WriteFailed,
       StopServices, Dump, Dpkg, StartServices, WaitReady, RestartAdmin, Retain, Raise,
       UndoDpkg, UndoRetain, UndoAdmin, UndoServices, UndoReady, Close

\* A worker at the point where the package changes holds the lock, a complete
\* database backup and the rollback package of the version it runs.
LEMMA PackagePoint ==
    ASSUME IInv, NEW w \in Worker, pc[w] \in Packaging
    PROVE  lock = w /\ BackedUp(attempt[w])
BY LabelFacts DEF IInv, OneAttempt, Locals, Verified, Replacing, Packaging, BackedUp

\* No step -- of the worker, its rollback, a kill or a power loss -- changes the
\* installed package without a complete database backup and a rollback package
\* of the running version (updates.py 287, 297-316).
THEOREM PackageChangesAreBackedUp == Spec => PackageChangeIsBackedUp
<1>1. IInv /\ [Next]_vars =>
        [installed' # installed => \/ \E w \in Worker : lock = w /\ BackedUp(attempt[w])
                                   \/ \E o \in orphans : BackedUp(o.of)]_vars
  <2> SUFFICES ASSUME IInv, [Next]_vars, installed' # installed, orphans = {}
               PROVE  \E w \in Worker : pc[w] \in Packaging
    BY PackagePoint DEF IInv, Reported, LeftAlone
  <2>1. TypeOK BY DEF IInv
  <2>2. ASSUME NEW w \in Worker, Work(w) PROVE pc[w] \in Packaging
    BY <2>2, PackageWrites DEF Dpkg, UndoDpkg, Raise, CutShort, At, Packaging
  <2>3. ASSUME NEW w \in Worker, Die(w) PROVE pc[w] \in Packaging
    BY <2>3 DEF Die, CutShort
  <2>4. CASE Reboot BY <2>4 DEF Reboot
  <2>5. ~OrphanEnds /\ \A c \in Cli : ~KillTerminal(c) BY DEF OrphanEnds, KillTerminal
  <2> QED BY <2>1, <2>2, <2>3, <2>4, <2>5, OutsideSteps, WorkerFacts DEF Next, KillService, Interrupt, packages
<1> QED BY <1>1, Invariance, PTL DEF Spec, PackageChangeIsBackedUp

\* A recovery is reported only with the services up and, if the package was
\* touched, with the old version installed and retained (updates.py 325-340).
THEOREM RecoveryReportsAreTrue == Spec => RecoveryIsTrue
<1>1. IInv /\ [Next]_vars =>
        [status' # status /\ status'.recovered =>
           \E w \in Worker : /\ lock = w /\ up = Services
                             /\ attempt[w].upgraded => /\ installed = attempt[w].prev
                                                       /\ baseline = attempt[w].prev]_vars
  <2> SUFFICES ASSUME IInv, [Next]_vars, status' # status, status'.recovered
               PROVE  \E w \in Worker : /\ lock = w /\ up = Services
                                        /\ attempt[w].upgraded => /\ installed = attempt[w].prev
                                                                  /\ baseline = attempt[w].prev
    OBVIOUS
  <2>1. TypeOK BY DEF IInv
  <2>2. PICK w \in Worker : Work(w)
    BY <2>1, OutsideSteps, WorkerFacts DEF Next, KillService, KillTerminal, OrphanEnds, Interrupt, Die, Reboot, request
  <2>3. WriteFailed(w) /\ status' = Failed(attempt[w].recovered, attempt[w].dumped)
    BY <2>2, StatusWrites DEF RejectJob, WriteVerifying, WriteBackingUp, WriteInstalling, WriteComplete,
       Write, TryWrite, WriteFailed, Progress, Complete, Failed
  <2>4. attempt[w].recovered /\ pc[w] = "failed" BY <2>3 DEF WriteFailed, At, Failed
  <2> QED BY <2>4, LabelFacts DEF IInv, OneAttempt, Files
<1> QED BY <1>1, Invariance, PTL DEF Spec, RecoveryIsTrue

\* A queued job only leaves the queue through a worker that was given none of
\* its own: a terminal never consumes or replaces it (docs/UPDATES.md 38).
THEOREM TerminalNeverTakesQueue == Spec => TerminalLeavesQueue
<1>1. IInv /\ [Next]_vars =>
        [queue # Nothing /\ queue' # queue =>
           \E w \in Worker : /\ lock = w /\ pc[w] \in {"take", "discard"}
                             /\ attempt[w].job = Nothing /\ queue' = Nothing]_vars
  <2> SUFFICES ASSUME IInv, [Next]_vars, queue # Nothing, queue' # queue
               PROVE  \E w \in Worker : /\ lock = w /\ pc[w] \in {"take", "discard"}
                                        /\ attempt[w].job = Nothing /\ queue' = Nothing
    OBVIOUS
  <2>1. TypeOK BY DEF IInv
  <2>2. PICK w \in Worker : Work(w)
    BY <2>1, OutsideSteps, WorkerFacts DEF Next, KillService, KillTerminal, OrphanEnds, Interrupt, Die, Reboot, request
  <2>3. TakeQueued(w) \/ Discard(w) BY <2>2, QueueWrites
  <2> QED BY <2>3, LabelFacts DEF TakeQueued, Read, Discard, At, IInv, OneAttempt, Locals
<1> QED BY <1>1, Invariance, PTL DEF Spec, TerminalLeavesQueue

-----------------------------------------------------------------------------
(* UpdateWorker implements UpgradeOutcome, for every value of the constants.*)

\* The package is busy exactly while the holder of the lock is at one of the
\* points between the first dpkg and the end of the upgrade or its rollback.
LEMMA BusyHolder ==
    ASSUME IInv
    PROVE  Busy <=> lock \in Worker /\ pc[lock] \in Changing
BY LabelFacts, WorkerFacts DEF IInv, OneAttempt, Busy, Changing

LEMMA ChangingFacts ==
    /\ Changing = Replacing \cup {"undo-dpkg", "undo-retain"}
    /\ Changing \subseteq Held /\ Changing \subseteq Verified
BY LabelFacts DEF Changing, Replacing, Verified

\* While the package changes, the rollback version and the new one are known,
\* and current.deb is one of the two.
LEMMA ChangingFiles ==
    ASSUME IInv, NEW w \in Worker, pc[w] \in Changing
    PROVE  /\ attempt[w].prev \in Version /\ attempt[w].job \in Version
           /\ attempt[w].job > attempt[w].prev
           /\ baseline \in {attempt[w].prev, attempt[w].job}
BY ChangingFacts, LabelFacts DEF IInv, Locals, Files, Verified, Replacing

-----------------------------------------------------------------------------
(* What each step does to the two sides of the mapping.                      *)

\* A step of one process leaves the locals of the others alone.
LEMMA OthersUnmoved ==
    ASSUME TypeOK, NEW w \in Worker, Work(w) \/ Die(w), NEW v \in Worker, v # w
    PROVE  pc'[v] = pc[v] /\ attempt'[v] = attempt[v]
BY DEF Work, Die, Acquire, Refuse, TakeConfirmed, TakeQueued, Read, FindNoJob, Discard, RejectJob, MakeAttempt,
       Write, WriteVerifying, Verify, WriteBackingUp, StopServices, Dump, WriteInstalling, Dpkg,
       StartServices, WaitReady, RestartAdmin, Retain, WriteComplete, Raise, UndoDpkg, UndoRetain,
       UndoAdmin, UndoServices, UndoReady, WriteFailed, Close, Exit, Goto, TypeOK, process

\* While the package changes, its rollback version stays, and current.deb can
\* only become the old or the new version.
LEMMA WorkInside ==
    ASSUME IInv, NEW w \in Worker, Work(w), pc[w] \in Changing
    PROVE  /\ attempt'[w].prev = attempt[w].prev
           /\ baseline' \in {attempt[w].prev, attempt[w].job}
<1>1. baseline \in {attempt[w].prev, attempt[w].job} BY ChangingFiles
<1>2. \/ Dpkg(w) \/ StartServices(w) \/ WaitReady(w) \/ RestartAdmin(w) \/ Retain(w) \/ WriteComplete(w)
      \/ Raise(w) \/ UndoDpkg(w) \/ UndoRetain(w)
  BY DEF Changing, Work, Acquire, Refuse, TakeConfirmed, TakeQueued, Read, FindNoJob, Discard, RejectJob, MakeAttempt,
         Write, WriteVerifying, Verify, WriteBackingUp, StopServices, Dump, WriteInstalling,
         UndoAdmin, UndoServices, UndoReady, WriteFailed, Close, At
<1>3. UNCHANGED attempt
  BY <1>2 DEF Dpkg, StartServices, WaitReady, RestartAdmin, Retain, WriteComplete, Write, Raise, UndoDpkg, UndoRetain
<1>4. baseline' \in {baseline, attempt[w].prev, attempt[w].job}
  BY <1>2 DEF Dpkg, StartServices, WaitReady, RestartAdmin, Retain, WriteComplete, Write, Raise, UndoDpkg,
              UndoRetain, packages
<1> QED BY <1>1, <1>3, <1>4

\* Before and after that, a worker does not touch the package, and the only way
\* in is the write of "installing".
LEMMA WorkOutside ==
    ASSUME IInv, NEW w \in Worker, Work(w), pc[w] \notin Changing
    PROVE  /\ UNCHANGED packages
           /\ pc'[w] \in Changing => WriteInstalling(w)
<1>1. TypeOK BY DEF IInv
<1>2. UNCHANGED packages
  BY DEF Changing, Work, Acquire, Refuse, TakeConfirmed, TakeQueued, Read, FindNoJob, Discard, RejectJob, MakeAttempt,
         Write, WriteVerifying, Verify, WriteBackingUp, StopServices, Dump, WriteInstalling, Dpkg,
         StartServices, WaitReady, RestartAdmin, Retain, WriteComplete, Raise, CutShort, Packaging, UndoDpkg, UndoRetain,
         UndoAdmin, UndoServices, UndoReady, WriteFailed, Close, At, packages
<1>3. ASSUME Raise(w) PROVE pc'[w] \notin Changing
  <2>1. ~attempt[w].upgraded \/ ~attempt[w].stopped \/ pc[w] \in Undo
    BY <1>3, ChangingFacts, LabelFacts DEF Raise, IInv, Locals, Replacing
  <2>2. Handler(w) \in {"failed", "undo-services"} BY <2>1 DEF Handler
  <2> QED BY <1>1, <1>3, <2>2 DEF Raise, Goto, TypeOK, Changing
<1>4. pc'[w] \in Changing => WriteInstalling(w)
  BY <1>1, <1>3 DEF Changing, Work, Acquire, Refuse, TakeConfirmed, TakeQueued, Read, FindNoJob, Discard, RejectJob,
         MakeAttempt, Write, WriteVerifying, Verify, WriteBackingUp, StopServices, Dump, Dpkg,
         StartServices, WaitReady, RestartAdmin, Retain, WriteComplete, UndoDpkg, UndoRetain,
         UndoAdmin, UndoServices, UndoReady, WriteFailed, Close, At, Goto, Exit, TypeOK
<1> QED BY <1>2, <1>4

LEMMA DieEffect ==
    ASSUME IInv, NEW w \in Worker, Die(w)
    PROVE  /\ pc'[w] = "off"
           /\ pc[w] \notin Changing => UNCHANGED packages
           /\ UNCHANGED baseline
<1>1. TypeOK BY DEF IInv
<1> QED BY <1>1 DEF Die, Exit, CutShort, Packaging, Changing, TypeOK, packages
-----------------------------------------------------------------------------
(* Every step, seen through the mapping.                                     *)

\* Both sides of the mapping are settled: only the package matters.
LEMMA BothIdle ==
    ASSUME ~Busy, ~Busy', UNCHANGED packages
    PROVE  UNCHANGED <<Phase, Settled>>
BY DEF Phase, Settled, Matching, packages

LEMMA BothBusy ==
    ASSUME Busy, Busy', lock' = lock, attempt'[lock].prev = attempt[lock].prev
    PROVE  UNCHANGED <<Phase, Settled>>
BY DEF Phase, Settled

\* An attempt that ends, in whatever way, restores, commits or is abandoned.
LEMMA Ending ==
    ASSUME IInv, NEW w \in Worker, lock = w, pc[w] \in Changing, ~Busy',
           baseline' \in {attempt[w].prev, attempt[w].job}
    PROVE  Outcome!Next
<1>1. Phase = "busy" /\ Settled = attempt[w].prev
  BY BusyHolder DEF Phase, Settled
<1>2. /\ attempt[w].prev \in Version /\ attempt[w].job \in Version /\ attempt[w].job > attempt[w].prev
  BY ChangingFiles
<1>3. CASE ~Matching'
  <2>1. Phase' = "review" /\ Settled' = Nothing BY <1>3 DEF Phase, Settled
  <2> QED BY <1>1, <2>1 DEF Outcome!Next, Outcome!Abandon
<1>4. CASE Matching' /\ baseline' = attempt[w].prev
  <2>1. Phase' = "settled" /\ Settled' = attempt[w].prev BY <1>4 DEF Phase, Settled
  <2> QED BY <1>1, <2>1 DEF Outcome!Next, Outcome!Restore
<1>5. CASE Matching' /\ baseline' = attempt[w].job
  <2>1. Phase' = "settled" /\ Settled' = attempt[w].job BY <1>5 DEF Phase, Settled
  <2> QED BY <1>1, <1>2, <2>1 DEF Outcome!Next, Outcome!Commit
<1> QED BY <1>3, <1>4, <1>5

\* What nobody works on may settle by itself, once no dpkg is left.
LEMMA Settling ==
    ASSUME IInv', orphans # {}, ~Busy, ~Busy', UNCHANGED baseline
    PROVE  Outcome!Next \/ UNCHANGED <<Phase, Settled>>
<1>1. Phase = "review" /\ Settled = Nothing BY DEF Phase, Settled, Matching
<1>2. CASE Matching'
  <2>1. Phase' = "settled" /\ Settled' = baseline' BY <1>2 DEF Phase, Settled
  <2>2. baseline' \in Version
    BY <1>2, ConstantsAssumption DEF Matching, IInv, TypeOK
  <2> QED BY <1>1, <2>1, <2>2 DEF Outcome!Next, Outcome!Settle
<1>3. CASE ~Matching'
  <2>1. Phase' = "review" /\ Settled' = Nothing BY <1>3 DEF Phase, Settled
  <2> QED BY <1>1, <2>1
<1> QED BY <1>2, <1>3

\* The write of "installing" opens the change, from the version current.deb has.
LEMMA Beginning ==
    ASSUME IInv, IInv', NEW w \in Worker, WriteInstalling(w), ~Busy
    PROVE  Outcome!Next
<1>1. lock = w /\ lock' = w /\ pc[w] = "installing" /\ baseline = attempt[w].prev /\ attempt[w].prev \in Version
  BY LabelFacts DEF WriteInstalling, Write, At, IInv, OneAttempt, Files, Locals, Verified
<1>2. pc'[w] = "dpkg" /\ attempt'[w].prev = attempt[w].prev
  BY DEF WriteInstalling, Write, Goto, IInv, TypeOK, Attempt
<1>3. Phase' = "busy" /\ Settled' = attempt[w].prev
  BY <1>1, <1>2 DEF Phase, Settled, Busy, Changing
<1>4. Phase # "busy" /\ (Phase = "settled" => Settled = baseline)
  BY DEF Phase, Settled, Matching
<1> QED BY <1>1, <1>3, <1>4 DEF Outcome!Next, Outcome!Begin

LEMMA WorkImplements ==
    ASSUME IInv, IInv', NEW w \in Worker, Work(w)
    PROVE  Outcome!Next \/ UNCHANGED <<Phase, Settled>>
<1> USE ChangingFacts, LabelFacts, WorkerFacts
<1>1. TypeOK BY DEF IInv
<1>2. CASE pc[w] \in Changing
  <2>1. lock = w /\ Busy BY <1>2 DEF IInv, OneAttempt, Busy
  <2>2. attempt'[w].prev = attempt[w].prev /\ baseline' \in {attempt[w].prev, attempt[w].job}
    BY <1>2, WorkInside
  <2>3. CASE Busy'
    <3>1. lock' \in Worker /\ pc'[lock'] \in Changing BY <2>3, BusyHolder DEF IInv, OneAttempt, Busy
    <3>2. lock' = w
      <4>1. ASSUME lock' # w PROVE FALSE
        <5>1. pc[lock'] = pc'[lock'] BY <1>1, <3>1, <4>1, OthersUnmoved
        <5> QED BY <2>1, <3>1, <4>1, <5>1 DEF IInv, OneAttempt
      <4> QED BY <4>1
    <3> QED BY <2>1, <2>2, <2>3, <3>2, BothBusy
  <2> QED BY <1>2, <2>1, <2>2, <2>3, Ending
<1>3. CASE pc[w] \notin Changing
  <2>1. UNCHANGED packages /\ (pc'[w] \in Changing => WriteInstalling(w)) BY <1>3, WorkOutside
  <2>2. CASE Busy
    <3>1. lock \in Worker /\ pc[lock] \in Changing /\ lock # w BY <1>3, <2>2, BusyHolder
    <3>2. pc'[lock] = pc[lock] /\ attempt'[lock] = attempt[lock] BY <1>1, <3>1, OthersUnmoved
    <3>3. lock' = lock /\ Busy' BY <3>1, <3>2 DEF IInv, OneAttempt, Busy
    <3> QED BY <2>2, <3>2, <3>3, BothBusy
  <2>3. CASE ~Busy /\ Busy'
    <3>1. PICK v \in Worker : pc'[v] \in Changing BY <2>3 DEF Busy
    <3>2. v = w BY <1>1, <2>3, <3>1, OthersUnmoved DEF Busy
    <3> QED BY <2>1, <2>3, <3>1, <3>2, Beginning
  <2> QED BY <2>1, <2>2, <2>3, BothIdle
<1> QED BY <1>2, <1>3

LEMMA DieImplements ==
    ASSUME IInv, IInv', NEW w \in Worker, Die(w)
    PROVE  Outcome!Next \/ UNCHANGED <<Phase, Settled>>
<1> USE ChangingFacts, LabelFacts, WorkerFacts
<1>1. TypeOK BY DEF IInv
<1>2. pc'[w] \notin Changing /\ UNCHANGED baseline BY DieEffect DEF Changing
<1>3. CASE pc[w] \in Changing
  <2>1. lock = w BY <1>3 DEF IInv, OneAttempt
  <2>2. ~Busy'
    <3>1. ASSUME NEW v \in Worker, v # w PROVE pc'[v] \notin Changing
      <4>1. pc'[v] = pc[v] BY <1>1, <3>1, OthersUnmoved
      <4>2. pc[v] \notin Held BY <2>1, <3>1 DEF IInv, OneAttempt
      <4> QED BY <4>1, <4>2
    <3> QED BY <1>2, <3>1 DEF Busy
  <2>3. baseline' \in {attempt[w].prev, attempt[w].job} BY <1>2, <1>3, ChangingFiles
  <2> QED BY <1>3, <2>1, <2>2, <2>3, Ending
<1>4. CASE pc[w] \notin Changing
  <2>1. UNCHANGED packages BY <1>4, DieEffect
  <2>2. CASE Busy
    <3>1. lock \in Worker /\ pc[lock] \in Changing /\ lock # w BY <1>4, <2>2, BusyHolder
    <3>2. pc'[lock] = pc[lock] /\ attempt'[lock] = attempt[lock] BY <1>1, <3>1, OthersUnmoved
    <3>3. lock' = lock /\ Busy' BY <3>1, <3>2 DEF IInv, OneAttempt, Busy
    <3> QED BY <2>2, <3>2, <3>3, BothBusy
  <2>3. ~Busy => ~Busy' BY <1>1, <1>2, OthersUnmoved DEF Busy
  <2> QED BY <2>1, <2>2, <2>3, BothIdle
<1> QED BY <1>3, <1>4

LEMMA KillTerminalImplements ==
    ASSUME IInv, NEW c \in Cli, KillTerminal(c)
    PROVE  Outcome!Next
<1> USE ChangingFacts, LabelFacts, WorkerFacts
<1>1. TypeOK /\ c \in Worker /\ pc[c] \in Changing BY DEF IInv, KillTerminal, Packaging, Changing
<1>2. lock = c BY <1>1 DEF IInv, OneAttempt
<1>3. ~Busy'
  <2>1. ASSUME NEW v \in Worker PROVE pc'[v] \notin Changing
    <3>1. CASE v = c BY <1>1, <3>1 DEF KillTerminal, Exit, TypeOK, Changing
    <3>2. CASE v # c
      <4>1. pc'[v] = pc[v] BY <1>1, <3>2 DEF KillTerminal, Exit, TypeOK
      <4>2. pc[v] \notin Held BY <1>2, <3>2 DEF IInv, OneAttempt
      <4> QED BY <4>1, <4>2
    <3> QED BY <3>1, <3>2
  <2> QED BY <2>1 DEF Busy
<1>4. baseline' \in {attempt[c].prev, attempt[c].job} BY <1>1, ChangingFiles DEF KillTerminal
<1> QED BY <1>1, <1>2, <1>3, <1>4, Ending

LEMMA OrphanImplements ==
    ASSUME IInv, IInv', OrphanEnds
    PROVE  Outcome!Next \/ UNCHANGED <<Phase, Settled>>
<1>1. UNCHANGED <<pc, attempt, lock, baseline>> /\ orphans # {} BY DEF OrphanEnds, process
<1>2. CASE Busy
  <2>1. Busy' BY <1>1, <1>2 DEF Busy
  <2> QED BY <1>1, <1>2, <2>1, BothBusy
<1>3. CASE ~Busy
  <2>1. ~Busy' BY <1>1, <1>3 DEF Busy
  <2> QED BY <1>1, <1>3, <2>1, Settling
<1> QED BY <1>2, <1>3

LEMMA RebootImplements ==
    ASSUME IInv, IInv', Reboot
    PROVE  Outcome!Next \/ UNCHANGED <<Phase, Settled>>
<1> USE ChangingFacts, LabelFacts, WorkerFacts
<1>1. ~Busy' /\ UNCHANGED baseline BY DEF Reboot, Busy, Changing
<1>2. CASE Busy
  <2>1. lock \in Worker /\ pc[lock] \in Changing BY <1>2, BusyHolder
  <2>2. baseline' \in {attempt[lock].prev, attempt[lock].job} BY <1>1, <2>1, ChangingFiles
  <2> QED BY <1>1, <2>1, <2>2, Ending
<1>3. CASE ~Busy /\ orphans = {}
  <2>1. UNCHANGED <<installed, orphans>> BY <1>3 DEF Reboot, Busy, Changing, Packaging
  <2> QED BY <1>1, <1>3, <2>1, BothIdle DEF packages
<1>4. CASE ~Busy /\ orphans # {} BY <1>1, <1>4, Settling
<1> QED BY <1>2, <1>3, <1>4

\* Steps of the GUI, the service manager and the operator.
LEMMA QuietImplements ==
    ASSUME IInv, IInv',
           \/ Gui \/ Watcher \/ WindowEnds \/ \E c \in Cli : CliConfirm(c) \/ CliApply(c)
           \/ UNCHANGED vars
    PROVE  UNCHANGED <<Phase, Settled>>
<1> USE ChangingFacts, LabelFacts, WorkerFacts
<1>1. TypeOK BY DEF IInv
<1>2. UNCHANGED packages BY <1>1, OutsideSteps
<1>3. UNCHANGED lock
  BY DEF Gui, GuiCheck, GuiConfirm, GuiPublish, Watcher, StartService, StartLimitHit, WindowEnds,
         CliConfirm, CliApply, vars, process
<1>4. ASSUME NEW v \in Worker
      PROVE  pc[v] # "off" /\ pc[v] # "start" => pc'[v] = pc[v] /\ attempt'[v] = attempt[v]
  BY <1>1 DEF Gui, GuiCheck, GuiConfirm, GuiPublish, Watcher, StartService, StartLimitHit, WindowEnds,
         CliConfirm, CliApply, Launch, vars, process, TypeOK
<1>5. CASE Busy
  <2>1. lock \in Worker /\ pc[lock] \in Changing BY <1>5, BusyHolder
  <2>2. pc'[lock] = pc[lock] /\ attempt'[lock] = attempt[lock] BY <1>4, <2>1
  <2>3. Busy' BY <2>1, <2>2 DEF Busy
  <2> QED BY <1>3, <1>5, <2>2, <2>3, BothBusy
<1>6. CASE ~Busy
  <2>1. ASSUME Busy' PROVE FALSE
    <3>1. PICK v \in Worker : pc'[v] \in Changing BY <2>1 DEF Busy
    <3>2. lock' = v BY <3>1 DEF IInv, OneAttempt
    <3>3. pc[v] \in Held BY <1>3, <3>1, <3>2 DEF IInv, OneAttempt
    <3> QED BY <1>4, <1>6, <3>1, <3>3 DEF Busy
  <2> QED BY <1>2, <1>6, <2>1, BothIdle
<1> QED BY <1>5, <1>6

LEMMA InitImplements == Init => Outcome!Init
<1> SUFFICES ASSUME Init PROVE Outcome!Init OBVIOUS
<1>1. ~Busy BY DEF Init, Busy, Changing
<1>2. 1 \in Version BY ConstantsAssumption DEF Version
<1> QED BY <1>1, <1>2 DEF Init, Outcome!Init, Phase, Settled, Matching

\* The updater implements the abstract outcome: a settled version is only ever
\* followed by itself or a newer one, and is lost only by an attempt that failed
\* and could not be rolled back -- under every interleaving with the GUI and
\* terminals, and every failure, kill and power loss (updates.py 203-343).
THEOREM ImplementsOutcome == Spec => OutcomeSpec
<1>1. IInv /\ IInv' /\ [Next]_vars => [Outcome!Next]_<<Phase, Settled>>
  <2> SUFFICES ASSUME IInv, IInv', [Next]_vars
               PROVE  Outcome!Next \/ UNCHANGED <<Phase, Settled>>
    OBVIOUS
  <2> QED BY WorkImplements, DieImplements, KillTerminalImplements, OrphanImplements, RebootImplements,
             QuietImplements, WorkerFacts
          DEF Next, KillService, Interrupt
<1> QED BY <1>1, InitImplements, Invariance, PTL DEF Spec, OutcomeSpec, Outcome!Spec, Outcome!outcome

-----------------------------------------------------------------------------
(* No confirmation leads to two attempts.                                    *)

Fresh(n) == n \in 1..confirmed /\ begun[n] = 0

\* A confirmation is in one place at a time -- the GUI, the queue or a process in
\* a terminal -- until it is taken up, and a job is in none of them without one.
Spent ==
    /\ \A n \in Ticket : begun[n] \in {0, 1} /\ (n = 0 \/ n > confirmed => begun[n] = 0)
    /\ gui.for # 0 => Fresh(gui.for) /\ gui.for # ticket
    /\ ticket # 0 => Fresh(ticket)
    /\ \A w \in Worker : attempt[w].for # 0 =>
          /\ Fresh(attempt[w].for) /\ attempt[w].for \notin {gui.for, ticket}
          /\ \A v \in Worker \ {w} : attempt[v].for # attempt[w].for
    /\ gui.sending # Nothing => gui.for # 0
    /\ queue \in Version => ticket # 0
    /\ \A w \in Worker : pc[w] \in {"start", "take"} /\ attempt[w].job # Nothing => attempt[w].for # 0

\* What a step may do that takes up no confirmation and gives none: drop some.
Drops(w) == /\ attempt'[w].for \in {attempt[w].for, 0}
            /\ pc'[w] \in {"start", "take"} /\ attempt'[w].job # Nothing =>
                  /\ pc[w] \in {"start", "take"}
                  /\ attempt'[w].job = attempt[w].job /\ attempt'[w].for = attempt[w].for

LEMMA DroppingSpends ==
    ASSUME Spent, UNCHANGED <<begun, confirmed>>, \A w \in Worker : Drops(w),
           UNCHANGED request \/ (queue' = Nothing /\ ticket' = 0),
           (gui'.sending = gui.sending /\ gui'.for = gui.for) \/ (gui'.sending = Nothing /\ gui'.for = 0)
    PROVE  Spent'
<1>1. Nothing \notin Version BY ConstantsAssumption
<1>2. ticket' \in {ticket, 0} /\ (queue' \in Version => ticket' # 0)
  BY <1>1 DEF Spent, request
<1>3. \A n : Fresh(n) => Fresh(n)' BY DEF Fresh
<1>4. gui'.for \in {gui.for, 0} /\ (gui'.sending # Nothing => gui'.for # 0) BY DEF Spent
<1>5. ASSUME NEW w \in Worker, attempt'[w].for # 0
      PROVE  /\ Fresh(attempt[w].for)' /\ attempt'[w].for \notin {gui'.for, ticket'}
             /\ \A v \in Worker \ {w} : attempt'[v].for # attempt'[w].for
  <2>1. attempt'[w].for = attempt[w].for BY <1>5 DEF Drops
  <2> QED BY <1>2, <1>3, <1>4, <1>5, <2>1 DEF Spent, Drops
<1>6. \A w \in Worker : pc'[w] \in {"start", "take"} /\ attempt'[w].job # Nothing => attempt'[w].for # 0
  BY DEF Spent, Drops
<1>7. gui'.for # 0 => Fresh(gui.for)' /\ gui'.for # ticket' BY <1>2, <1>3, <1>4 DEF Spent
<1>8. ticket' # 0 => Fresh(ticket)' BY <1>2, <1>3 DEF Spent
<1>9. \A n \in Ticket : begun'[n] \in {0, 1} /\ (n = 0 \/ n > confirmed' => begun'[n] = 0) BY DEF Spent
<1> QED BY <1>2, <1>4, <1>5, <1>6, <1>7, <1>8, <1>9 DEF Spent

\* A worker that takes up the confirmation n, which then is nowhere else.
LEMMA TakingSpends ==
    ASSUME TypeOK, Spent, NEW n \in Ticket \ {0}, Fresh(n), TakeUp(n), UNCHANGED confirmed,
           \A w \in Worker : Drops(w) /\ attempt'[w].for # n,
           \/ ticket # n /\ UNCHANGED request
           \/ queue' = Nothing /\ ticket' = 0,
           gui.for # n /\ UNCHANGED gui
    PROVE  Spent'
<1>1. Nothing \notin Version BY ConstantsAssumption
<1>2. begun' = [begun EXCEPT ![n] = 1] /\ begun[n] = 0 /\ confirmed' = confirmed /\ n <= confirmed
  BY DEF TypeOK, TakeUp, Fresh, Ticket
<1>3. \A m \in Ticket : begun'[m] = IF m = n THEN 1 ELSE begun[m] BY <1>2 DEF TypeOK
<1>4. \A m : m # n /\ Fresh(m) => Fresh(m)'
  BY <1>2, <1>3, ConstantsAssumption DEF Fresh, TypeOK, Ticket
<1>5. \A m \in Ticket : begun'[m] \in {0, 1} /\ (m = 0 \/ m > confirmed' => begun'[m] = 0)
  BY <1>2, <1>3, ConstantsAssumption DEF Spent, TypeOK, Ticket
<1>6. ticket' \in {ticket, 0} /\ ticket' # n /\ (queue' \in Version => ticket' # 0)
  BY <1>1 DEF Spent, request
<1>7. ASSUME NEW w \in Worker, attempt'[w].for # 0
      PROVE  /\ Fresh(attempt[w].for)' /\ attempt'[w].for \notin {gui'.for, ticket'}
             /\ \A v \in Worker \ {w} : attempt'[v].for # attempt'[w].for
  <2>1. attempt'[w].for = attempt[w].for /\ attempt'[w].for # n BY <1>7 DEF Drops
  <2>2. Fresh(attempt[w].for) BY <1>7, <2>1 DEF Spent
  <2>3. Fresh(attempt[w].for)' BY <1>4, <2>1, <2>2
  <2> QED BY <1>6, <1>7, <2>1, <2>3 DEF Spent, Drops
<1>8. \A w \in Worker : pc'[w] \in {"start", "take"} /\ attempt'[w].job # Nothing => attempt'[w].for # 0
  BY DEF Spent, Drops
<1>9. gui'.for # 0 => Fresh(gui.for)' /\ gui'.for # ticket' BY <1>4, <1>6 DEF Spent
<1>10. ticket' # 0 => Fresh(ticket)' BY <1>4, <1>6 DEF Spent
<1>11. gui'.sending # Nothing => gui'.for # 0 BY DEF Spent
<1> QED BY <1>5, <1>6, <1>7, <1>8, <1>9, <1>10, <1>11 DEF Spent

\* A worker that neither takes up a job nor is new only ever drops what it has.
LEMMA WorkDrops ==
    ASSUME IInv, IInv', NEW w \in Worker, Work(w)
    PROVE  \A v \in Worker : Drops(v)
<1>1. TypeOK /\ TypeOK' BY DEF IInv
<1>2. \A v \in Worker \ {w} : pc'[v] = pc[v] /\ attempt'[v] = attempt[v] BY <1>1, OthersUnmoved
<1>3. CASE Acquire(w)
  <2>1. pc[w] = "start" /\ UNCHANGED attempt BY <1>3 DEF Acquire, At
  <2> QED BY <1>2, <2>1 DEF Drops
<1>4. CASE ~Acquire(w)
  <2>1. pc'[w] \notin {"start", "take"}
    BY <1>1, <1>4
    DEF Work, Refuse, TakeConfirmed, TakeQueued, Read, FindNoJob, Discard, RejectJob, MakeAttempt,
        Write, WriteVerifying, Verify, WriteBackingUp, StopServices, Dump, WriteInstalling, Dpkg,
        StartServices, WaitReady, RestartAdmin, Retain, WriteComplete, Raise, Handler, UndoDpkg, UndoRetain,
        UndoAdmin, UndoServices, UndoReady, WriteFailed, Close, At, Goto, Exit, TypeOK
  <2>2. attempt'[w].for \in {attempt[w].for, 0}
    <3>1. NoAttempt.for = 0 BY DEF NoAttempt, Launched
    <3>2. attempt[w] \in Attempt BY <1>1 DEF TypeOK
    <3>3. CASE Refuse(w) \/ RejectJob(w) \/ Close(w)
      BY <1>1, <3>1, <3>3 DEF Refuse, RejectJob, Close, Exit, TypeOK
    <3>4. CASE MakeAttempt(w) BY <1>1, <3>1, <3>4 DEF MakeAttempt, Exit, TypeOK
    <3>5. CASE TakeConfirmed(w) BY <1>1, <3>1, <3>2, <3>5 DEF TakeConfirmed, Exit, TypeOK, Attempt
    <3>6. CASE TakeQueued(w) \/ Verify(w) \/ WriteBackingUp(w) \/ Dump(w) \/ WriteInstalling(w)
               \/ UndoReady(w)
      BY <1>1, <3>2, <3>6 DEF TakeQueued, Read, Verify, WriteBackingUp, Dump, WriteInstalling, UndoReady,
         TypeOK, Attempt
    <3>7. CASE UNCHANGED attempt BY <3>7
    <3> QED BY <1>4, <3>3, <3>4, <3>5, <3>6, <3>7
      DEF Work, FindNoJob, Discard, Write, WriteVerifying, StopServices, Dpkg, StartServices, WaitReady,
        RestartAdmin, Retain, WriteComplete, Raise, UndoDpkg, UndoRetain, UndoAdmin, UndoServices,
        WriteFailed, process
  <2> QED BY <1>2, <2>1, <2>2 DEF Drops
<1> QED BY <1>3, <1>4

LEMMA TakeConfirmedSpends ==
    ASSUME IInv, IInv', Spent, NEW w \in Worker, TakeConfirmed(w)
    PROVE  Spent'
<1>1. TypeOK /\ \A v \in Worker : Drops(v) BY WorkDrops DEF IInv, Work
<1>2. attempt[w] \in Attempt /\ attempt[w].for # 0 BY <1>1 DEF TypeOK, TakeConfirmed, At, Spent
<1>3. CASE queue = Nothing
  <2> DEFINE n == attempt[w].for
  <2>1. n \in Ticket \ {0} /\ Fresh(n) /\ n \notin {gui.for, ticket} BY <1>2 DEF Spent, Attempt
  <2>2. TakeUp(n) /\ UNCHANGED <<request, gui, confirmed>> /\ attempt' = [attempt EXCEPT ![w].for = 0]
    BY <1>3 DEF TakeConfirmed
  <2>3. \A v \in Worker : attempt'[v].for # n
    <3>1. attempt'[w].for = 0 BY <1>1, <1>2, <2>2 DEF TypeOK, Attempt
    <3>2. \A v \in Worker \ {w} : attempt'[v].for # n BY <1>1, <1>2, <2>2 DEF TypeOK, Spent
    <3> QED BY <2>1, <3>1, <3>2
  <2> HIDE DEF n
  <2> QED BY <1>1, <2>1, <2>2, <2>3, TakingSpends
<1>4. CASE queue # Nothing BY <1>1, <1>4, DroppingSpends DEF TakeConfirmed
<1> QED BY <1>3, <1>4

LEMMA TakeQueuedSpends ==
    ASSUME IInv, IInv', Spent, NEW w \in Worker, TakeQueued(w)
    PROVE  Spent'
<1>1. TypeOK /\ \A v \in Worker : Drops(v) BY WorkDrops DEF IInv, Work
<1>2. ticket \in Ticket \ {0} /\ Fresh(ticket) /\ gui.for # ticket
  BY <1>1 DEF TakeQueued, Read, Spent, TypeOK
<1>3. TakeUp(ticket) /\ UNCHANGED <<gui, confirmed>> /\ queue' = Nothing /\ ticket' = 0
  BY DEF TakeQueued, Read
<1>4. \A v \in Worker : attempt'[v].for # ticket BY <1>1, <1>2 DEF Spent, Drops
<1> QED BY <1>1, <1>2, <1>3, <1>4, TakingSpends

LEMMA WorkSpends ==
    ASSUME IInv, IInv', Spent, NEW w \in Worker, Work(w)
    PROVE  Spent'
<1>1. CASE TakeConfirmed(w) BY <1>1, TakeConfirmedSpends
<1>2. CASE TakeQueued(w) BY <1>2, TakeQueuedSpends
<1>3. CASE ~TakeConfirmed(w) /\ ~TakeQueued(w)
  <2>1. UNCHANGED <<begun, confirmed>> /\ (UNCHANGED request \/ (queue' = Nothing /\ ticket' = 0))
    BY <1>3 DEF Work, Acquire, Refuse, FindNoJob, Discard, RejectJob, MakeAttempt,
        Write, WriteVerifying, Verify, WriteBackingUp, StopServices, Dump, WriteInstalling, Dpkg,
        StartServices, WaitReady, RestartAdmin, Retain, WriteComplete, Raise, UndoDpkg, UndoRetain,
        UndoAdmin, UndoServices, UndoReady, WriteFailed, Close, counters, request
  <2>2. gui' \in {gui, Restarted}
    BY <1>3 DEF Work, Acquire, Refuse, FindNoJob, Discard, RejectJob, MakeAttempt,
        Write, WriteVerifying, Verify, WriteBackingUp, StopServices, Dump, WriteInstalling, Dpkg,
        StartServices, WaitReady, RestartAdmin, Retain, WriteComplete, Raise, CutShort, UndoDpkg,
        UndoRetain, UndoAdmin, UndoServices, UndoReady, WriteFailed, Close
  <2> QED BY <2>1, <2>2, WorkDrops, DroppingSpends DEF Restarted
<1> QED BY <1>1, <1>2, <1>3

\* A process that ends takes what it holds with it.
LEMMA EndSpends ==
    ASSUME TypeOK, Spent, NEW w \in Worker, Exit(w), UNCHANGED <<begun, confirmed, request>>,
           gui' \in {gui, Restarted}
    PROVE  Spent'
<1>1. NoAttempt.for = 0 /\ NoAttempt.job = Nothing BY DEF NoAttempt, Launched
<1>2. \A v \in Worker : Drops(v) BY <1>1 DEF Exit, TypeOK, Drops
<1> QED BY <1>2, DroppingSpends DEF Restarted

LEMMA RebootSpends == ASSUME TypeOK, Spent, Reboot PROVE Spent'
<1>1. NoAttempt.for = 0 /\ NoAttempt.job = Nothing BY DEF NoAttempt, Launched
<1>2. \A v \in Worker : Drops(v) BY <1>1 DEF Reboot, Drops
<1>3. UNCHANGED <<begun, confirmed, request>> /\ gui'.sending = Nothing /\ gui'.for = 0
  BY DEF Reboot
<1> QED BY <1>2, <1>3, DroppingSpends

\* A new process brings no job, or one it has a confirmation for.
LEMMA LaunchDrops ==
    ASSUME TypeOK, NEW w \in Worker, Launch(w, Nothing, 0)
    PROVE  \A v \in Worker : Drops(v)
<1>1. attempt'[w].for = 0 /\ attempt'[w].job = Nothing BY DEF Launch, Launched, TypeOK
<1>2. \A v \in Worker \ {w} : pc'[v] = pc[v] /\ attempt'[v] = attempt[v] BY DEF Launch, TypeOK
<1> QED BY <1>1, <1>2 DEF Drops

\* A new confirmation has a number no other one has.
LEMMA NewNumber ==
    ASSUME TypeOK, Spent, confirmed < MaxConfirm, confirmed' = confirmed + 1, UNCHANGED begun
    PROVE  /\ confirmed + 1 \in (Ticket \ {0}) \cap (1..confirmed') /\ begun'[confirmed + 1] = 0
           /\ \A m : Fresh(m) => Fresh(m)' /\ m # confirmed + 1
           /\ \A m \in Ticket : begun'[m] \in {0, 1} /\ (m = 0 \/ m > confirmed' => begun'[m] = 0)
<1>1. confirmed \in Nat /\ MaxConfirm \in Nat BY ConstantsAssumption DEF TypeOK, Ticket
<1>2. confirmed + 1 \in Ticket \ {0} BY <1>1 DEF Ticket
<1>3. begun[confirmed + 1] = 0
  <2>1. confirmed + 1 > confirmed BY <1>1
  <2> QED BY <1>2, <2>1 DEF Spent
<1>4. \A m : Fresh(m) => Fresh(m)' /\ m # confirmed + 1 BY <1>1 DEF Fresh
<1>5. \A m \in Ticket : begun'[m] \in {0, 1} /\ (m = 0 \/ m > confirmed' => begun'[m] = 0)
  BY <1>1 DEF Spent, Ticket
<1>6. confirmed + 1 \in 1..confirmed' BY <1>1
<1> QED BY <1>2, <1>3, <1>4, <1>5, <1>6

LEMMA GuiConfirmSpends == ASSUME TypeOK, Spent, GuiConfirm PROVE Spent'
<1> DEFINE n == confirmed + 1
<1>1. /\ confirmed < MaxConfirm /\ confirmed' = confirmed + 1 /\ gui.sending = Nothing
      /\ UNCHANGED <<begun, request, pc, attempt>> /\ gui'.for = n
  BY DEF GuiConfirm, process, TypeOK, GuiState
<1>2. /\ n # 0 /\ n \in 1..confirmed' /\ begun'[n] = 0 /\ \A m : Fresh(m) => Fresh(m)' /\ m # n
      /\ \A m \in Ticket : begun'[m] \in {0, 1} /\ (m = 0 \/ m > confirmed' => begun'[m] = 0)
  BY <1>1, NewNumber
<1> HIDE DEF n
<1>3. UNCHANGED <<queue, ticket>> BY <1>1 DEF request
<1>4. ticket # n BY <1>2 DEF Spent
<1>5. \A w \in Worker : attempt[w].for # n BY <1>2 DEF Spent
<1>6. ticket # 0 => Fresh(ticket)' BY <1>2, <1>3 DEF Spent, Fresh
<1>7. ASSUME NEW w \in Worker, attempt[w].for # 0
      PROVE  /\ Fresh(attempt[w].for)' /\ attempt[w].for \notin {gui'.for, ticket}
             /\ \A v \in Worker \ {w} : attempt[v].for # attempt[w].for
  <2>1. Fresh(attempt[w].for) /\ attempt[w].for # ticket BY <1>7 DEF Spent
  <2>2. Fresh(attempt[w].for)' BY <1>1, <1>2, <2>1 DEF Fresh
  <2> QED BY <1>1, <1>5, <1>7, <2>1, <2>2 DEF Spent
<1>8. gui'.for # 0 /\ Fresh(gui.for)' /\ gui'.for # ticket
  <2>1. gui'.for = n BY <1>1
  <2>2. Fresh(gui.for)' BY <1>2, <2>1 DEF Fresh
  <2> QED BY <1>2, <1>4, <2>1, <2>2
<1> QED BY <1>1, <1>2, <1>3, <1>6, <1>7, <1>8 DEF Spent

LEMMA GuiPublishSpends == ASSUME TypeOK, Spent, GuiPublish PROVE Spent'
<1>1. /\ gui.sending # Nothing /\ gui'.sending = Nothing /\ gui'.for = 0
      /\ UNCHANGED <<begun, confirmed, pc, attempt>>
  BY DEF GuiPublish, process, counters, TypeOK, GuiState
<1>2. CASE queue # Nothing
  <2>1. UNCHANGED request /\ \A w \in Worker : Drops(w) BY <1>1, <1>2 DEF GuiPublish, Drops
  <2> QED BY <1>1, <2>1, DroppingSpends
<1>3. CASE queue = Nothing
  <2>1. ticket' = gui.for BY <1>3 DEF GuiPublish
  <2>2. \A m : Fresh(m) => Fresh(m)' BY <1>1 DEF Fresh
  <2> QED BY <1>1, <2>1, <2>2 DEF Spent
<1> QED BY <1>2, <1>3

LEMMA CliConfirmSpends == ASSUME TypeOK, Spent, NEW c \in Cli, CliConfirm(c) PROVE Spent'
<1> DEFINE n == confirmed + 1
<1>0. c \in Worker BY WorkerFacts
<1>1. PICK j \in Version : Launch(c, j, n) BY DEF CliConfirm
<1>2. /\ confirmed < MaxConfirm /\ confirmed' = confirmed + 1 /\ UNCHANGED <<begun, queue, ticket, gui>>
  BY DEF CliConfirm, request
<1>3. /\ n # 0 /\ n \in 1..confirmed' /\ begun'[n] = 0 /\ \A m : Fresh(m) => Fresh(m)' /\ m # n
      /\ \A m \in Ticket : begun'[m] \in {0, 1} /\ (m = 0 \/ m > confirmed' => begun'[m] = 0)
  BY <1>2, NewNumber
<1>4. attempt'[c].for = n BY <1>0, <1>1 DEF Launch, Launched, TypeOK
<1>5. \A v \in Worker \ {c} : pc'[v] = pc[v] /\ attempt'[v] = attempt[v]
  BY <1>0, <1>1 DEF Launch, TypeOK
<1> HIDE DEF n
<1>6. /\ gui.for # 0 => gui.for # n /\ Fresh(gui.for)'
      /\ ticket # 0 => ticket # n /\ Fresh(ticket)'
      /\ \A w \in Worker : attempt[w].for # 0 =>
            attempt[w].for # n /\ attempt[w].for \in 1..confirmed' /\ begun'[attempt[w].for] = 0
  <2>1. /\ gui.for # 0 => Fresh(gui.for)
        /\ ticket # 0 => Fresh(ticket)
        /\ \A w \in Worker : attempt[w].for # 0 => Fresh(attempt[w].for)
    BY DEF Spent
  <2>2. \A m : Fresh(m) => m # n /\ m \in 1..confirmed' /\ begun'[m] = 0 BY <1>3 DEF Fresh
  <2>3. gui.for # 0 => gui.for # n /\ Fresh(gui.for)'
    <3>1. gui' = gui BY <1>2
    <3> QED BY <2>1, <2>2, <3>1 DEF Fresh
  <2>4. ticket # 0 => ticket # n /\ Fresh(ticket)'
    <3>1. ticket' = ticket BY <1>2
    <3> QED BY <2>1, <2>2, <3>1 DEF Fresh
  <2>5. ASSUME NEW w \in Worker, attempt[w].for # 0
        PROVE  attempt[w].for # n /\ attempt[w].for \in 1..confirmed' /\ begun'[attempt[w].for] = 0
    BY <2>1, <2>2, <2>5
  <2> QED BY <2>3, <2>4, <2>5
<1>7. ASSUME NEW w \in Worker, attempt'[w].for # 0
      PROVE  /\ Fresh(attempt[w].for)' /\ attempt'[w].for \notin {gui'.for, ticket'}
             /\ \A v \in Worker \ {w} : attempt'[v].for # attempt'[w].for
  <2>1. CASE w = c
    <3>1. attempt'[w].for = n BY <1>4, <2>1
    <3>2. Fresh(attempt[w].for)' BY <1>3, <3>1 DEF Fresh
    <3>3. n \notin {gui'.for, ticket'} BY <1>2, <1>3, <1>6
    <3>4. \A v \in Worker \ {w} : attempt'[v].for # n BY <1>3, <1>5, <1>6, <2>1
    <3> QED BY <3>1, <3>2, <3>3, <3>4
  <2>2. CASE w # c
    <3>1. attempt'[w].for = attempt[w].for BY <1>5, <2>2
    <3> QED BY <1>2, <1>4, <1>5, <1>6, <1>7, <2>2, <3>1 DEF Spent, Fresh
  <2> QED BY <2>1, <2>2
<1>8. \A w \in Worker : pc'[w] \in {"start", "take"} /\ attempt'[w].job # Nothing => attempt'[w].for # 0
  BY <1>3, <1>4, <1>5 DEF Spent
<1>9. gui'.for # 0 => Fresh(gui.for)' /\ gui'.for # ticket' BY <1>2, <1>6 DEF Spent, Fresh
<1>10. ticket' # 0 => Fresh(ticket)' BY <1>2, <1>6 DEF Fresh
<1> QED BY <1>2, <1>3, <1>7, <1>8, <1>9, <1>10 DEF Spent

LEMMA OutsideSpends ==
    ASSUME IInv, Spent,
           \/ Gui \/ Watcher \/ WindowEnds \/ OrphanEnds \/ \E c \in Cli : CliConfirm(c) \/ CliApply(c)
           \/ UNCHANGED vars
    PROVE  Spent'
<1>1. TypeOK BY DEF IInv
<1>2. CASE GuiConfirm BY <1>1, <1>2, GuiConfirmSpends
<1>3. CASE GuiPublish BY <1>1, <1>3, GuiPublishSpends
<1>4. CASE \E c \in Cli : CliConfirm(c) BY <1>1, <1>4, CliConfirmSpends
<1>5. CASE \/ GuiCheck \/ Watcher \/ WindowEnds \/ OrphanEnds \/ (\E c \in Cli : CliApply(c))
           \/ UNCHANGED vars
  <2>1. UNCHANGED <<begun, confirmed, request>> /\ gui'.sending = gui.sending /\ gui'.for = gui.for
    BY <1>1, <1>5 DEF GuiCheck, Watcher, StartService, StartLimitHit, WindowEnds, OrphanEnds, CliApply,
       vars, counters, TypeOK, GuiState
  <2>2. \A w \in Worker : Drops(w)
    <3>1. CASE \E c \in Cli : CliApply(c) BY <1>1, <3>1, LaunchDrops, WorkerFacts DEF CliApply
    <3>2. CASE StartService
      <4>1. CASE Launch(Svc, Nothing, 0) BY <1>1, <4>1, LaunchDrops, WorkerFacts
      <4>2. CASE UNCHANGED <<pc, attempt>> BY <4>2 DEF Drops
      <4> QED BY <3>2, <4>1, <4>2 DEF StartService
    <3>3. CASE GuiCheck \/ StartLimitHit \/ WindowEnds \/ OrphanEnds \/ UNCHANGED vars
      BY <3>3 DEF GuiCheck, StartLimitHit, WindowEnds, OrphanEnds, vars, process, Drops
    <3> QED BY <1>5, <3>1, <3>2, <3>3 DEF Watcher
  <2> QED BY <2>1, <2>2, DroppingSpends
<1> QED BY <1>2, <1>3, <1>4, <1>5 DEF Gui

LEMMA NextSpent == IInv /\ IInv' /\ Spent /\ [Next]_vars => Spent'
<1> SUFFICES ASSUME IInv, IInv', Spent, [Next]_vars PROVE Spent' OBVIOUS
<1>1. TypeOK BY DEF IInv
<1>2. ASSUME NEW w \in Worker, Die(w) PROVE Spent'
  BY <1>1, <1>2, EndSpends DEF Die, CutShort
<1>3. ASSUME NEW c \in Cli, KillTerminal(c) PROVE Spent'
  BY <1>1, <1>3, EndSpends, WorkerFacts DEF KillTerminal
<1> QED BY <1>1, <1>2, <1>3, WorkSpends, RebootSpends, OutsideSpends, WorkerFacts
    DEF Next, KillService, Interrupt

\* No attempt is made without a confirmation and no confirmation leads to two
\* attempts, whichever way they reach a worker, whichever of them are refused or
\* lost, and whatever dies on the way (updates.py 224-236).
THEOREM ConfirmationsAreSpentOnce == Spec => []ConfirmationsSpentOnce
<1>1. Init => Spent
  <2> SUFFICES ASSUME Init PROVE Spent OBVIOUS
  <2>1. NoAttempt.for = 0 /\ NoAttempt.job = Nothing BY DEF NoAttempt, Launched
  <2> QED BY <2>1, ConstantsAssumption DEF Init, Spent
<1>2. Spec => []Spent BY <1>1, NextSpent, Invariance, PTL DEF Spec
<1>3. Spent => ConfirmationsSpentOnce
  <2> SUFFICES ASSUME Spent, NEW n \in Ticket PROVE begun[n] <= IF n = 0 THEN 0 ELSE 1
    BY DEF ConfirmationsSpentOnce
  <2> QED BY DEF Spent
<1> QED BY <1>2, <1>3, PTL

-----------------------------------------------------------------------------
(* Without faults and with a disk that takes the writes, an attempt that ends *)
(* has written an end to status.json.                                        *)

\* Points at which a worker has written nothing yet, or its last word.
Quiet == {"take", "discard", "reject", "attempt", "verifying", "close"}

Unstuck ==
    faults = 0 => /\ lock = Nothing => status.state \notin Active
                  /\ \A w \in Worker : pc[w] \in Quiet => status.state \notin Active

\* While one worker holds the lock, the others are not at such a point.
LEMMA HolderUnstuck ==
    ASSUME IInv, Unstuck, NEW w \in Worker, pc[w] \in Held, faults' = faults,
           \A v \in Worker \ {w} : pc'[v] = pc[v],
           \/ lock' = lock /\ pc'[w] \notin Quiet
           \/ lock' = lock /\ UNCHANGED status /\ pc[w] \in Quiet
           \/ status'.state \notin Active
    PROVE  Unstuck'
<1>1. lock = w /\ w # Nothing BY WorkerFacts DEF IInv, OneAttempt
<1>2. \A v \in Worker \ {w} : pc'[v] \notin Quiet
  BY <1>1, LabelFacts DEF IInv, OneAttempt, Quiet
<1> QED BY <1>1, <1>2 DEF Unstuck

LEMMA OutsideUnstuck ==
    ASSUME Unstuck, UNCHANGED <<lock, status, faults>>,
           \A v \in Worker : pc'[v] = pc[v] \/ pc'[v] \notin Quiet
    PROVE  Unstuck'
BY DEF Unstuck

LEMMA WorkUnstuck == ASSUME ~WriteFails, IInv, Unstuck, NEW w \in Worker, Work(w) PROVE Unstuck'
<1> USE LabelFacts
<1>1. TypeOK /\ (pc[w] \in Held <=> lock = w) /\ w # Nothing BY WorkerFacts DEF IInv, OneAttempt
<1>2. \A v \in Worker \ {w} : pc'[v] = pc[v] BY <1>1, OthersUnmoved
<1>3. faults' = faults
  BY DEF Work, Acquire, Refuse, TakeConfirmed, TakeQueued, Read, FindNoJob, Discard, RejectJob, MakeAttempt, Write,
         WriteVerifying, Verify, WriteBackingUp, StopServices, Dump, WriteInstalling, Dpkg,
         StartServices, WaitReady, RestartAdmin, Retain, WriteComplete, Raise, UndoDpkg, UndoRetain,
         UndoAdmin, UndoServices, UndoReady, WriteFailed, Close, counters
<1>4. CASE Acquire(w)
  <2>1. lock = Nothing /\ UNCHANGED status /\ pc[w] = "start" BY <1>4 DEF Acquire, At
  <2>2. ASSUME faults = 0 PROVE status'.state \notin Active BY <2>1, <2>2 DEF Unstuck
  <2> QED BY <1>3, <2>2 DEF Unstuck
<1>5. CASE Refuse(w)
  <2>1. UNCHANGED <<lock, status>> /\ pc'[w] = "off" BY <1>1, <1>5 DEF Refuse, Exit, At, TypeOK
  <2> QED BY <1>2, <1>3, <2>1, OutsideUnstuck DEF Quiet
<1>6. CASE \/ TakeConfirmed(w) \/ TakeQueued(w) \/ FindNoJob(w) \/ Discard(w) \/ MakeAttempt(w)
           \/ Close(w)
  <2>1. pc[w] \in Quiet /\ pc[w] \in Held /\ UNCHANGED status
    BY <1>6 DEF TakeConfirmed, TakeQueued, Read, FindNoJob, Discard, MakeAttempt, Close, At, Quiet
  <2>2. CASE faults = 0
    <3>1. status'.state \notin Active BY <2>1, <2>2 DEF Unstuck
    <3> QED BY <1>2, <1>3, <2>1, <3>1, HolderUnstuck
  <2>3. CASE faults # 0 BY <1>3, <2>3 DEF Unstuck
  <2> QED BY <2>2, <2>3
<1>7. CASE RejectJob(w) \/ WriteComplete(w) \/ WriteFailed(w)
  <2>1. pc[w] \in Held BY <1>7 DEF RejectJob, WriteComplete, WriteFailed, Write, At
  <2>2. status'.state \notin Active
    BY <1>7 DEF RejectJob, WriteComplete, WriteFailed, Write, TryWrite, Failed, Complete
  <2> QED BY <1>2, <1>3, <2>1, <2>2, HolderUnstuck
<1>8. CASE Raise(w)
  <2>1. pc[w] \in Held /\ UNCHANGED lock BY <1>8 DEF Raise, process
  <2>2. Handler(w) \in {"failed", "undo-dpkg", "undo-services"} BY DEF Handler
  <2>3. pc'[w] \notin Quiet BY <1>1, <1>8, <2>2 DEF Raise, Goto, TypeOK, Quiet
  <2> QED BY <1>2, <1>3, <2>1, <2>3, HolderUnstuck
<1>9. CASE \/ WriteVerifying(w) \/ Verify(w) \/ WriteBackingUp(w) \/ StopServices(w) \/ Dump(w)
           \/ WriteInstalling(w) \/ Dpkg(w) \/ StartServices(w) \/ WaitReady(w) \/ RestartAdmin(w)
           \/ Retain(w) \/ UndoDpkg(w) \/ UndoRetain(w) \/ UndoAdmin(w) \/ UndoServices(w)
           \/ UndoReady(w)
  <2>1. pc[w] \in Held /\ UNCHANGED lock /\ pc'[w] \notin Quiet
    BY <1>1, <1>9 DEF WriteVerifying, Verify, WriteBackingUp, Write, StopServices, Dump, WriteInstalling,
       Dpkg, StartServices, WaitReady, RestartAdmin, Retain, UndoDpkg, UndoRetain, UndoAdmin,
       UndoServices, UndoReady, At, Goto, TypeOK, Quiet, process
  <2> QED BY <1>2, <1>3, <2>1, HolderUnstuck
<1> QED BY <1>4, <1>5, <1>6, <1>7, <1>8, <1>9 DEF Work

LEMMA NextUnstuck == ASSUME ~WriteFails PROVE IInv /\ Unstuck /\ [Next]_vars => Unstuck'
<1> SUFFICES ASSUME IInv, Unstuck, [Next]_vars PROVE Unstuck' OBVIOUS
<1>1. TypeOK BY DEF IInv
<1>2. ASSUME NEW w \in Worker, Work(w) PROVE Unstuck' BY <1>2, WorkUnstuck
<1>3. ASSUME Fault PROVE Unstuck'
  <2>1. faults' # 0 BY <1>1, <1>3 DEF Fault, TypeOK
  <2> QED BY <2>1 DEF Unstuck
<1>4. CASE \/ Gui \/ Watcher \/ WindowEnds \/ OrphanEnds \/ \E c \in Cli : CliConfirm(c) \/ CliApply(c)
           \/ UNCHANGED vars
  <2>1. UNCHANGED <<lock, status, faults>>
    BY <1>4 DEF Gui, GuiCheck, GuiConfirm, GuiPublish, Watcher, StartService, StartLimitHit, WindowEnds,
       OrphanEnds, CliConfirm, CliApply, vars, process, counters
  <2>2. \A v \in Worker : pc'[v] = pc[v] \/ pc'[v] = "start"
    BY <1>1, <1>4, WorkerFacts DEF Gui, GuiCheck, GuiConfirm, GuiPublish, Watcher, StartService,
       StartLimitHit, WindowEnds, OrphanEnds, CliConfirm, CliApply, Launch, vars, process, TypeOK
  <2> QED BY <2>1, <2>2, OutsideUnstuck DEF Quiet
<1> QED BY <1>2, <1>3, <1>4 DEF Next, Reboot, KillService, KillTerminal, Interrupt

\* As long as no fault has occurred and status.json can be written, no worker that has ended
\* leaves a state there in which the GUI refuses every confirmation (update_gui.py 202-203).
THEOREM StatusNeverSticks ==
    ASSUME ~WriteFails PROVE Spec => [](faults = 0 => NoStuckStatus)
<1>1. Init => Unstuck BY DEF Init, Unstuck, Progress, Active, Quiet
<1>2. Spec => []Unstuck BY <1>1, NextUnstuck, Invariance, PTL DEF Spec
<1>3. Unstuck => (faults = 0 => NoStuckStatus) BY DEF Unstuck, NoStuckStatus
<1> QED BY <1>2, <1>3, PTL
=============================================================================
