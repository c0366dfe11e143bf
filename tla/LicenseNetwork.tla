---------------------------- MODULE LicenseNetwork ----------------------------
(***************************************************************************)
(* The egress chains of the service accounts and the two programs that write  *)
(* them: egress.py, which every service runs before it starts (apply_policy), *)
(* and cmndctl license-network --execute (license_network.enable), which lets *)
(* the vendor's license service through.  Both work on the chain of IPv4 and  *)
(* then on that of IPv6; only enable takes the lock.                          *)
(***************************************************************************)
EXTENDS Naturals

CONSTANTS
    Unit,       \* services that apply the policy before they start
    Admin,      \* processes an operator may run
    Nobody,     \* no process
    Uid,        \* service accounts
    Site,       \* hosts of the deployment's own endpoints
    Vendor,     \* addresses the vendor's hostname may have
    MaxOps,     \* bound: starts of units and of enable
    MaxFaults   \* bound: failing steps, kills and reboots

ASSUME NetworkAssumption ==
    /\ Unit \cap Admin = {} /\ Nobody \notin Unit \cup Admin
    /\ Site \cap Vendor = {}
    /\ MaxOps \in Nat /\ MaxFaults \in Nat

Process  == Unit \cup Admin
Family   == {4, 6}
Endpoint == Family \X (Site \cup Vendor)
Home     == Family \X Site              \* what the deployment writes to the policy
Answer   == SUBSET (Family \X Vendor)   \* what DNS may say
Chain    == [owner: {"none", "other", "cmnd"}, allow: SUBSET Endpoint]
Job      == [allow: SUBSET Endpoint, prior: SUBSET Endpoint, vendor: Answer,
             family: Family, fallback: BOOLEAN]
NoChain  == [owner |-> "none", allow |-> {}]
NoJob    == [allow |-> {}, prior |-> {}, vendor |-> {}, family |-> 4, fallback |-> FALSE]

VARIABLES
    chain,      \* the named chain of each family
    attached,   \* accounts whose traffic is sent through it
    file,       \* /etc/cmnd/egress.json: all endpoints, those of the vendor
    lock,       \* holder of the flock on license-network.lock
    up,         \* units that run
    pc, job,    \* each process: its next step, its local variables
    count,      \* starts and faults so far
    disturbed   \* since the last boot a process was killed, a fallback failed, or
                \* a unit started during an enable (history variable)

vars == <<chain, attached, file, lock, up, pc, job, count, disturbed>>

Apply == {"probe", "restore", "attach", "verify"}
Label == {"off", "lock", "read", "replace"} \cup Apply

Init ==
    /\ chain \in [Family -> {NoChain, [owner |-> "other", allow |-> {}]}]
    /\ attached = [f \in Family |-> {}]
    /\ file = [allow |-> Home, vendor |-> {}]
    /\ lock = Nobody /\ up = {}
    /\ pc = [p \in Process |-> "off"] /\ job = [p \in Process |-> NoJob]
    /\ count = [ops |-> 0, faults |-> 0] /\ disturbed = FALSE

At(p, here)    == pc[p] = here
Goto(p, there) == pc' = [pc EXCEPT ![p] = there]
Begin == count.ops < MaxOps /\ count' = [count EXCEPT !.ops = @ + 1]
Fault == count.faults < MaxFaults /\ count' = [count EXCEPT !.faults = @ + 1]

\* The rules of render_rules that a policy's endpoints make for one family.
Rules(f, allow) == {e \in allow : e[1] = f}

Exit(p) == /\ Goto(p, "off") /\ job' = [job EXCEPT ![p] = NoJob]
           /\ lock' = IF lock = p THEN Nobody ELSE lock

-----------------------------------------------------------------------------
(* ExecStartPre of the units: the policy is read without the lock.            *)

Start(u) ==
    /\ At(u, "off") /\ u \notin up /\ Begin
    /\ Goto(u, "probe")
    /\ job' = [job EXCEPT ![u].allow = file.allow]
    /\ disturbed' = (disturbed \/ lock # Nobody)
    /\ UNCHANGED <<chain, attached, file, lock, up>>

Stop(u) ==
    /\ u \in up /\ up' = up \ {u}
    /\ UNCHANGED <<chain, attached, file, lock, pc, job, count, disturbed>>

-----------------------------------------------------------------------------
(* license_network.enable                                                     *)

Enable(a) ==
    /\ At(a, "off") /\ Begin /\ Goto(a, "lock")
    /\ UNCHANGED <<chain, attached, file, lock, up, job, disturbed>>

Lock(a) ==
    /\ At(a, "lock") /\ lock = Nobody /\ lock' = a /\ Goto(a, "read")
    /\ disturbed' = (disturbed \/ \E u \in Unit : pc[u] # "off")
    /\ UNCHANGED <<chain, attached, file, up, job, count>>

\* Fault: what an earlier answer added stays.
ReadKeepingOld(a) ==
    /\ At(a, "read") /\ Goto(a, "probe")
    /\ \E vendor \in Answer \ {{}} :
           job' = [job EXCEPT ![a] = [NoJob EXCEPT !.allow = file.allow \cup vendor,
                                                   !.prior = file.allow, !.vendor = vendor]]
    /\ UNCHANGED <<chain, attached, file, lock, up, count, disturbed>>

\* The new addresses replace those of the last answer; all others stay.  The
\* backup and the pending file are written.
Read(a) ==
    /\ At(a, "read") /\ Goto(a, "probe")
    /\ \E vendor \in Answer \ {{}} :
           job' = [job EXCEPT ![a] = [NoJob EXCEPT !.allow = (file.allow \ file.vendor) \cup vendor,
                                                   !.prior = file.allow, !.vendor = vendor]]
    /\ UNCHANGED <<chain, attached, file, lock, up, count, disturbed>>

Replace(a) ==
    /\ At(a, "replace") /\ Exit(a)
    /\ file' = [allow |-> job[a].allow, vendor |-> job[a].vendor]
    /\ UNCHANGED <<chain, attached, up, count, disturbed>>

-----------------------------------------------------------------------------
(* apply_policy                                                               *)

Managed(f) == chain[f].owner = "cmnd"

\* Both families are inspected before either is changed.
Probe(p) ==
    /\ At(p, "probe") /\ \A f \in Family : chain[f].owner # "other"
    /\ Goto(p, "restore")
    /\ UNCHANGED <<chain, attached, file, lock, up, job, count, disturbed>>

\* iptables-restore replaces the chain at once.
Restore(p) ==
    /\ At(p, "restore") /\ Goto(p, "attach")
    /\ chain' = [chain EXCEPT ![job[p].family] =
                     [owner |-> "cmnd", allow |-> Rules(job[p].family, job[p].allow)]]
    /\ UNCHANGED <<attached, file, lock, up, job, count, disturbed>>

Attach(p) ==
    /\ At(p, "attach") /\ Goto(p, "verify")
    /\ attached' = [attached EXCEPT ![job[p].family] = Uid]
    /\ UNCHANGED <<chain, file, lock, up, job, count, disturbed>>

\* The caller goes on: the unit starts, enable replaces the file, or it raises
\* the exception that made it apply the old policy again.
Applied(p) ==
    \/ p \in Unit /\ up' = up \cup {p} /\ Exit(p)
    \/ p \in Admin /\ job[p].fallback /\ Exit(p) /\ UNCHANGED up
    \/ p \in Admin /\ ~job[p].fallback /\ Goto(p, "replace") /\ UNCHANGED <<lock, up, job>>

\* Fault: the loop ends after the first family.
VerifyFirst(p) ==
    /\ At(p, "verify") /\ Managed(job[p].family) /\ Uid \subseteq attached[job[p].family]
    /\ Applied(p)
    /\ UNCHANGED <<chain, attached, file, count, disturbed>>

Verify(p) ==
    /\ At(p, "verify") /\ Managed(job[p].family) /\ Uid \subseteq attached[job[p].family]
    /\ \/ /\ job[p].family = 4 /\ Goto(p, "restore")
          /\ job' = [job EXCEPT ![p].family = 6] /\ UNCHANGED <<lock, up>>
       \/ job[p].family = 6 /\ Applied(p)
    /\ UNCHANGED <<chain, attached, file, count, disturbed>>

-----------------------------------------------------------------------------
(* Steps that fail, and ends without a handler.                               *)

CutShort(p) ==
    \/ UNCHANGED attached
    \/ /\ At(p, "attach")
       /\ \E S \in SUBSET Uid : attached' = [attached EXCEPT ![job[p].family] = @ \cup S]

\* Fault: enable raises without applying the old policy again.
HandlerSilent(p) == Exit(p) /\ UNCHANGED disturbed

\* except Exception of enable; a unit that fails before does not start.
Handler(p) ==
    IF p \in Admin /\ pc[p] \in Apply \cup {"replace"} /\ ~job[p].fallback
    THEN /\ job' = [job EXCEPT ![p] = [NoJob EXCEPT !.allow = job[p].prior, !.fallback = TRUE]]
         /\ Goto(p, "probe") /\ UNCHANGED <<lock, disturbed>>
    ELSE Exit(p) /\ disturbed' = (disturbed \/ job[p].fallback)

Raise(p) ==
    /\ pc[p] # "off"
    /\ \/ At(p, "probe") /\ (\E f \in Family : chain[f].owner = "other") /\ UNCHANGED count
       \/ Fault
    /\ CutShort(p) /\ Handler(p)
    /\ UNCHANGED <<chain, file, up>>

Kill(p) ==
    /\ pc[p] # "off" /\ Fault /\ CutShort(p) /\ Exit(p)
    /\ disturbed' = TRUE
    /\ UNCHANGED <<chain, file, up>>

\* The chains are gone; cmnd-egress and the other units start again.
Reboot ==
    /\ Fault
    /\ chain' = [f \in Family |-> IF chain[f].owner = "cmnd" THEN NoChain ELSE chain[f]]
    /\ attached' = [f \in Family |-> {}]
    /\ lock' = Nobody /\ up' = {}
    /\ pc' = [p \in Process |-> "off"] /\ job' = [p \in Process |-> NoJob]
    /\ disturbed' = FALSE
    /\ UNCHANGED file

-----------------------------------------------------------------------------
ApplyPolicy(p) == Probe(p) \/ Restore(p) \/ Attach(p) \/ Verify(p)

Next ==
    \/ \E u \in Unit : Start(u) \/ Stop(u)
    \/ \E a \in Admin : Enable(a) \/ Lock(a) \/ Read(a) \/ Replace(a)
    \/ \E p \in Process : ApplyPolicy(p) \/ Raise(p) \/ Kill(p)
    \/ Reboot

Spec == Init /\ [][Next]_vars

-----------------------------------------------------------------------------
(* Properties.                                                               *)

\* The state is well typed, and only the holder of the flock is past it.
TypeOK ==
    /\ chain \in [Family -> Chain] /\ attached \in [Family -> SUBSET Uid]
    /\ file \in [allow: SUBSET Endpoint, vendor: Answer]
    /\ lock \in Admin \cup {Nobody} /\ up \subseteq Unit
    /\ pc \in [Process -> Label] /\ job \in [Process -> Job]
    /\ \A a \in Admin : pc[a] \notin {"off", "lock"} <=> lock = a
    /\ \A u \in Unit : pc[u] \in {"off"} \cup Apply
    /\ count \in [ops: Nat, faults: Nat] /\ disturbed \in BOOLEAN

\* "application startup must remain blocked" (egress.py 76, 83): a service runs
\* only while the chains of both families are in place and every account is sent
\* through them, whatever an enable in progress has done to one of them.
FailClosed ==
    up # {} => \A f \in Family : Managed(f) /\ Uid \subseteq attached[f]

\* "Inspect both families before mutation. Never adopt/flush an unknown chain"
\* (egress.py 64): while a chain of somebody else has the name in one family,
\* neither family changes, and no service runs.
UnknownChainKept ==
    [][(\E f \in Family : chain[f].owner = "other") => chain' = chain /\ up' = {}]_vars

\* "It preserves other endpoints" (docs/LICENSING.md 54): however often enable is
\* repeated, the policy is the deployment's endpoints and the last answer.
FileIsSiteAndAnswer == file.allow = Home \cup file.vendor

\* While nobody holds the lock, the chains in place are those of the file: an
\* enable that failed has put the old rules back (license_network.py 69-71), as
\* long as nothing of what "disturbed" names has happened since the last boot.
RulesMatchFile ==
    lock = Nobody /\ ~disturbed =>
        \A f \in Family : Managed(f) => chain[f].allow = Rules(f, file.allow)

=============================================================================
