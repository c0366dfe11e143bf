------------------------ MODULE LicenseNetworkProofs ------------------------
(***************************************************************************)
(* Theorems about LicenseNetwork for any number of services, operators,      *)
(* accounts, addresses, starts and faults.                                   *)
(***************************************************************************)
EXTENDS LicenseNetwork, TLAPS

Covered(f) == Managed(f) /\ Uid \subseteq attached[f]
Match(f, allow) == chain[f].allow = Rules(f, allow)

\* Past the first family, or past both.
Second(p) == pc[p] \in {"restore", "attach", "verify"} /\ job[p].family = 6
Past(p)   == Second(p) \/ pc[p] = "replace"

\* Local variables are fresh when a process starts to apply a policy, which it
\* does to no chain of somebody else.
Probed ==
    /\ \A p \in Process :
        /\ pc[p] \in {"off", "lock", "read"} => job[p] = NoJob
        /\ pc[p] = "probe" => job[p].family = 4
        /\ pc[p] \in {"restore", "attach", "verify", "replace"} =>
               \A f \in Family : chain[f].owner # "other"
    /\ \A f, g \in Family : chain[f].owner = "other" => ~Managed(g)

\* What was verified stays in place until the power is lost.
Progress ==
    /\ FailClosed
    /\ \A p \in Process : Past(p) => Covered(4)

\* The holder of the lock knows the file, which nobody else writes.
FileKnown ==
    /\ FileIsSiteAndAnswer
    /\ \A a \in Admin : pc[a] \in Apply \cup {"replace"} =>
           IF job[a].fallback THEN job[a].allow = file.allow /\ pc[a] # "replace"
           ELSE job[a].allow = Home \cup job[a].vendor /\ job[a].prior = file.allow

\* What everyone knows of the chains while nothing has disturbed them.
CalmUnit(u) == pc[u] # "off" => lock = Nobody /\ job[u].allow = file.allow
CalmAdmin(a) ==
    /\ pc[a] = "read" => \A f \in Family : Managed(f) => Match(f, file.allow)
    /\ pc[a] \in {"attach", "verify"} => Match(job[a].family, job[a].allow)
    /\ Past(a) => Match(4, job[a].allow)
    /\ pc[a] = "replace" => Match(6, job[a].allow)
Calm ==
    ~disturbed =>
        /\ lock = Nobody => \A f \in Family : Managed(f) => Match(f, file.allow)
        /\ \A u \in Unit : CalmUnit(u)
        /\ \A a \in Admin : CalmAdmin(a)

IInv == TypeOK /\ Probed /\ Progress /\ FileKnown /\ Calm

LEMMA Sets ==
    /\ Process = Unit \cup Admin /\ Family = {4, 6}
    /\ Apply = {"probe", "restore", "attach", "verify"}
    /\ Label = {"off", "lock", "read", "replace"} \cup Apply
    /\ Home \subseteq Endpoint
    /\ \A a \in Answer : a \subseteq Endpoint /\ a \cap Home = {}
BY NetworkAssumption DEF Process, Family, Apply, Label, Home, Endpoint, Answer

LEMMA NoJobFacts ==
    /\ NoJob \in Job /\ NoJob.family = 4 /\ NoJob.fallback = FALSE
    /\ NoJob.allow = {} /\ NoJob.prior = {} /\ NoJob.vendor = {}
BY DEF NoJob, Job, Family, Answer

\* The local variables of one process change, those of the others stay.
LEMMA JobChanges ==
    ASSUME NEW j \in [Process -> Job], NEW p \in Process, NEW r \in Job
    PROVE  /\ [j EXCEPT ![p] = r] \in [Process -> Job]
           /\ [j EXCEPT ![p] = r][p] = r
           /\ \A q \in Process : q # p => [j EXCEPT ![p] = r][q] = j[q]
OBVIOUS

LEMMA JobAllow ==
    ASSUME NEW j \in Job, NEW a \in SUBSET Endpoint
    PROVE  LET k == [j EXCEPT !.allow = a] IN
           /\ k \in Job /\ k.allow = a /\ k.prior = j.prior /\ k.vendor = j.vendor
           /\ k.family = j.family /\ k.fallback = j.fallback
BY DEF Job

LEMMA JobFamily ==
    ASSUME NEW j \in Job
    PROVE  LET k == [j EXCEPT !.family = 6] IN
           /\ k \in Job /\ k.allow = j.allow /\ k.prior = j.prior /\ k.vendor = j.vendor
           /\ k.family = 6 /\ k.fallback = j.fallback
BY DEF Job, Family

LEMMA JobFallback ==
    ASSUME NEW a \in SUBSET Endpoint
    PROVE  \E k \in Job : /\ k = [NoJob EXCEPT !.allow = a, !.fallback = TRUE]
                         /\ k.allow = a /\ k.family = 4 /\ k.fallback = TRUE
<1> DEFINE k == [NoJob EXCEPT !.allow = a, !.fallback = TRUE]
<1>1. k \in Job BY DEF NoJob, Job, Family, Answer
<1>2. k.allow = a /\ k.family = 4 /\ k.fallback = TRUE BY DEF NoJob
<1> QED BY <1>1, <1>2

LEMMA JobTyped ==
    ASSUME NEW j \in Job
    PROVE  /\ j.allow \in SUBSET Endpoint /\ j.prior \in SUBSET Endpoint /\ j.vendor \in Answer
           /\ j.family \in Family /\ j.fallback \in BOOLEAN
BY DEF Job

LEMMA OneHolder ==
    ASSUME TypeOK, NEW a \in Admin, pc[a] \notin {"off", "lock"}, NEW b \in Admin, b # a
    PROVE  pc[b] \in {"off", "lock"} /\ lock = a
BY DEF TypeOK

LEMMA InitIInv == Init => IInv
<1> SUFFICES ASSUME Init PROVE IInv OBVIOUS
<1> USE Sets, NoJobFacts, NetworkAssumption DEF Init
<1>1. TypeOK
  <2>1. chain \in [Family -> Chain] BY DEF NoChain, Chain
  <2>2. {} \in Answer BY DEF Answer
  <2> QED BY <2>1, <2>2 DEF TypeOK
<1>2. Probed BY DEF Probed, Managed, NoChain
<1>3. Progress BY DEF Progress, FailClosed, Past, Second
<1>4. FileKnown BY DEF FileKnown, FileIsSiteAndAnswer
<1>5. Calm BY DEF Calm, CalmUnit, CalmAdmin, Managed, NoChain, Past, Second
<1> QED BY <1>1, <1>2, <1>3, <1>4, <1>5 DEF IInv

LEMMA StartStep == ASSUME IInv, NEW u \in Unit, Start(u) PROVE IInv'
<1> USE Sets, NoJobFacts, NetworkAssumption DEF Start, At, Goto, Begin
<1>t. TypeOK /\ job \in [Process -> Job] /\ pc \in [Process -> Label] BY DEF IInv, TypeOK
<1>a. PICK r \in Job : /\ job' = [job EXCEPT ![u] = r] /\ r.allow = file.allow
                         /\ r.family = 4 /\ r.fallback = FALSE
  <2>1. file.allow \in SUBSET Endpoint /\ job[u] = NoJob BY DEF IInv, TypeOK, Probed
  <2>2. job[u] \in Job BY <1>t
  <2>3. PICK r \in Job : r = [job[u] EXCEPT !.allow = file.allow] BY <2>1, <2>2, JobAllow
  <2>4. r.allow = file.allow /\ r.family = 4 /\ r.fallback = FALSE BY <2>1, <2>2, <2>3, JobAllow
  <2>5. job' = [job EXCEPT ![u] = r] BY <2>3
  <2> QED BY <2>4, <2>5
<1>b. job' \in [Process -> Job] /\ job'[u] = r /\ \A q \in Process : q # u => job'[q] = job[q]
  BY ONLY <1>a, <1>t, u \in Unit, Sets, JobChanges
<1>1. TypeOK' BY <1>a, <1>b, <1>t DEF TypeOK
<1>2. Probed' BY <1>a, <1>b, <1>t DEF IInv, Probed, Managed
<1>3. Progress' BY <1>a, <1>b, <1>t DEF IInv, Probed, Progress, FailClosed, Past, Second, Covered, Managed
<1>4. FileKnown'
  <2>1. \A a \in Admin : job'[a] = job[a] /\ pc'[a] = pc[a] BY <1>b, <1>t
  <2> QED BY <2>1, <1>t DEF IInv, FileKnown, FileIsSiteAndAnswer
<1>5. Calm'
  <2>1. \A a \in Admin : job'[a] = job[a] /\ pc'[a] = pc[a] BY <1>b, <1>t
  <2>2. ~disturbed' => ~disturbed /\ lock = Nobody BY DEF IInv, TypeOK
  <2>3. \A v \in Unit : CalmUnit(v) /\ lock = Nobody => CalmUnit(v)'
    BY <1>a, <1>b, <1>t DEF CalmUnit
  <2>4. \A a \in Admin : CalmAdmin(a) => CalmAdmin(a)'
    BY <2>1 DEF CalmAdmin, Managed, Match, Rules, Past, Second
  <2> QED BY <2>2, <2>3, <2>4 DEF IInv, Calm, Managed, Match, Rules
<1> QED BY <1>1, <1>2, <1>3, <1>4, <1>5 DEF IInv

LEMMA StopStep == ASSUME IInv, NEW u \in Unit, Stop(u) PROVE IInv'
<1> USE Sets, NoJobFacts, NetworkAssumption DEF Stop
<1>t. TypeOK /\ job \in [Process -> Job] /\ pc \in [Process -> Label] BY DEF IInv, TypeOK
<1>1. TypeOK' BY <1>t DEF TypeOK
<1>2. Probed' BY <1>t DEF IInv, Probed, Managed
<1>3. Progress' BY <1>t DEF IInv, Probed, Progress, FailClosed, Past, Second, Covered, Managed
<1>4. FileKnown' BY <1>t, OneHolder DEF IInv, Probed, FileKnown, FileIsSiteAndAnswer
<1>5. Calm' BY <1>t, OneHolder DEF IInv, TypeOK, Probed, FileKnown, Calm, CalmUnit, CalmAdmin, Managed, Match, Rules, Past, Second
<1> QED BY <1>1, <1>2, <1>3, <1>4, <1>5 DEF IInv

LEMMA EnableStep == ASSUME IInv, NEW p \in Admin, Enable(p) PROVE IInv'
<1> USE Sets, NoJobFacts, NetworkAssumption DEF Enable, At, Goto, Begin
<1>t. TypeOK /\ job \in [Process -> Job] /\ pc \in [Process -> Label] BY DEF IInv, TypeOK
<1>1. TypeOK' BY <1>t DEF TypeOK
<1>2. Probed' BY <1>t DEF IInv, Probed, Managed
<1>3. Progress' BY <1>t DEF IInv, Probed, Progress, FailClosed, Past, Second, Covered, Managed
<1>4. FileKnown' BY <1>t, OneHolder DEF IInv, Probed, FileKnown, FileIsSiteAndAnswer
<1>5. Calm' BY <1>t, OneHolder DEF IInv, TypeOK, Probed, FileKnown, Calm, CalmUnit, CalmAdmin, Managed, Match, Rules, Past, Second
<1> QED BY <1>1, <1>2, <1>3, <1>4, <1>5 DEF IInv

LEMMA LockStep == ASSUME IInv, NEW p \in Admin, Lock(p) PROVE IInv'
<1> USE Sets, NoJobFacts, NetworkAssumption DEF Lock, At, Goto
<1>t. TypeOK /\ job \in [Process -> Job] /\ pc \in [Process -> Label] BY DEF IInv, TypeOK
<1>1. TypeOK' BY <1>t DEF TypeOK
<1>2. Probed' BY <1>t DEF IInv, Probed, Managed
<1>3. Progress' BY <1>t DEF IInv, Probed, Progress, FailClosed, Past, Second, Covered, Managed
<1>4. FileKnown' BY <1>t, OneHolder DEF IInv, Probed, FileKnown, FileIsSiteAndAnswer
<1>5. Calm' BY <1>t, OneHolder DEF IInv, TypeOK, Probed, FileKnown, Calm, CalmUnit, CalmAdmin, Managed, Match, Rules, Past, Second
<1> QED BY <1>1, <1>2, <1>3, <1>4, <1>5 DEF IInv

LEMMA ReadStep == ASSUME IInv, NEW p \in Admin, Read(p) PROVE IInv'
<1> USE Sets, NoJobFacts, NetworkAssumption DEF Read, At, Goto
<1>t. TypeOK /\ job \in [Process -> Job] /\ pc \in [Process -> Label] BY DEF IInv, TypeOK
<1>a. PICK r \in Job : /\ job' = [job EXCEPT ![p] = r] /\ r.family = 4 /\ r.fallback = FALSE
                         /\ r.prior = file.allow /\ r.allow = Home \cup r.vendor
  <2>1. PICK v \in Answer : job' = [job EXCEPT ![p] = [NoJob EXCEPT
                   !.allow = (file.allow \ file.vendor) \cup v, !.prior = file.allow, !.vendor = v]]
    OBVIOUS
  <2>2. file.allow = Home \cup file.vendor /\ file.vendor \in Answer
    BY DEF IInv, TypeOK, FileKnown, FileIsSiteAndAnswer
  <2>3. (file.allow \ file.vendor) \cup v = Home \cup v BY <2>2
  <2>4. Home \cup v \in SUBSET Endpoint /\ file.allow \in SUBSET Endpoint BY <2>2
  <2> DEFINE k == [NoJob EXCEPT !.allow = Home \cup v, !.prior = file.allow, !.vendor = v]
  <2>5. k \in Job BY <2>4 DEF NoJob, Job, Family
  <2>6. /\ k.allow = Home \cup v /\ k.prior = file.allow /\ k.vendor = v
        /\ k.family = 4 /\ k.fallback = FALSE
    BY DEF NoJob
  <2>7. job' = [job EXCEPT ![p] = k] BY <2>1, <2>3
  <2> HIDE DEF k
  <2> QED BY <2>5, <2>6, <2>7
<1>b. job' \in [Process -> Job] /\ job'[p] = r /\ \A q \in Process : q # p => job'[q] = job[q]
  BY ONLY <1>a, <1>t, p \in Admin, Sets, JobChanges
<1>1. TypeOK' BY <1>a, <1>b, <1>t DEF TypeOK
<1>2. Probed' BY <1>a, <1>b, <1>t DEF IInv, Probed, Managed
<1>3. Progress' BY <1>a, <1>b, <1>t DEF IInv, Probed, Progress, FailClosed, Past, Second, Covered, Managed
<1>4. FileKnown' BY <1>a, <1>b, <1>t, OneHolder DEF IInv, Probed, FileKnown, FileIsSiteAndAnswer
<1>5. Calm' BY <1>a, <1>b, <1>t, OneHolder DEF IInv, TypeOK, Probed, FileKnown, Calm, CalmUnit, CalmAdmin, Managed, Match, Rules, Past, Second
<1> QED BY <1>1, <1>2, <1>3, <1>4, <1>5 DEF IInv

LEMMA ReplaceStep == ASSUME IInv, NEW p \in Admin, Replace(p) PROVE IInv'
<1> USE Sets, NoJobFacts, NetworkAssumption DEF Replace, At, Goto, Exit
<1>t. TypeOK /\ job \in [Process -> Job] /\ pc \in [Process -> Label] BY DEF IInv, TypeOK
<1>a. PICK r \in Job : job' = [job EXCEPT ![p] = r] /\ r = NoJob
  OBVIOUS
<1>b. job' \in [Process -> Job] /\ job'[p] = r /\ \A q \in Process : q # p => job'[q] = job[q]
  BY ONLY <1>a, <1>t, p \in Admin, Sets, JobChanges
<1>1. TypeOK'
  <2>1. job[p] \in Job /\ job[p].allow \in SUBSET Endpoint /\ job[p].vendor \in Answer
    BY <1>t, JobTyped
  <2>2. file' \in [allow: SUBSET Endpoint, vendor: Answer] BY <2>1
  <2> QED BY <2>2, <1>a, <1>b, <1>t DEF TypeOK
<1>2. Probed' BY <1>a, <1>b, <1>t DEF IInv, Probed, Managed
<1>3. Progress' BY <1>a, <1>b, <1>t DEF IInv, Probed, Progress, FailClosed, Past, Second, Covered, Managed
<1>4. FileKnown' BY <1>a, <1>b, <1>t, OneHolder DEF IInv, Probed, FileKnown, FileIsSiteAndAnswer
<1>5. Calm' BY <1>a, <1>b, <1>t, OneHolder DEF IInv, TypeOK, Probed, FileKnown, Calm, CalmUnit, CalmAdmin, Managed, Match, Rules, Past, Second
<1> QED BY <1>1, <1>2, <1>3, <1>4, <1>5 DEF IInv

LEMMA ProbeStep == ASSUME IInv, NEW p \in Process, Probe(p) PROVE IInv'
<1> USE Sets, NoJobFacts, NetworkAssumption DEF Probe, At, Goto
<1>t. TypeOK /\ job \in [Process -> Job] /\ pc \in [Process -> Label] BY DEF IInv, TypeOK
<1>1. TypeOK' BY <1>t DEF TypeOK
<1>2. Probed' BY <1>t DEF IInv, Probed, Managed
<1>3. Progress' BY <1>t DEF IInv, Probed, Progress, FailClosed, Past, Second, Covered, Managed
<1>4. FileKnown' BY <1>t, OneHolder DEF IInv, Probed, FileKnown, FileIsSiteAndAnswer
<1>5. Calm' BY <1>t, OneHolder DEF IInv, TypeOK, Probed, FileKnown, Calm, CalmUnit, CalmAdmin, Managed, Match, Rules, Past, Second
<1> QED BY <1>1, <1>2, <1>3, <1>4, <1>5 DEF IInv

LEMMA RestoreStep == ASSUME IInv, NEW p \in Process, Restore(p) PROVE IInv'
<1> USE Sets, NoJobFacts, NetworkAssumption DEF Restore, At, Goto
<1>t. TypeOK /\ job \in [Process -> Job] /\ pc \in [Process -> Label] BY DEF IInv, TypeOK
<1>1. TypeOK'
  <2>1. /\ job[p] \in Job /\ job[p].family \in Family
        /\ Rules(job[p].family, job[p].allow) \in SUBSET Endpoint
    BY <1>t, JobTyped DEF Rules
  <2>2. [owner |-> "cmnd", allow |-> Rules(job[p].family, job[p].allow)] \in Chain
    BY <2>1 DEF Chain
  <2>3. chain' \in [Family -> Chain] BY <2>1, <2>2, <1>t DEF TypeOK
  <2> QED BY <2>3, <1>t DEF TypeOK
<1>2. Probed' BY <1>t DEF IInv, Probed, Managed
<1>3. Progress' BY <1>t DEF IInv, Probed, Progress, FailClosed, Past, Second, Covered, Managed
<1>4. FileKnown' BY <1>t, OneHolder DEF IInv, Probed, FileKnown, FileIsSiteAndAnswer
<1>5. Calm'
  <2> DEFINE f == job[p].family
  <2>1. f \in Family /\ job[p] \in Job BY <1>t, JobTyped
  <2>2. /\ chain'[f].allow = Rules(f, job[p].allow)
        /\ \A g \in Family : g # f => chain'[g] = chain[g]
    BY <2>1, <1>t DEF TypeOK
  <2> HIDE DEF f
  <2> SUFFICES ASSUME ~disturbed PROVE Calm' BY DEF Calm
  <2>3. CASE p \in Unit
    <3>1. lock = Nobody /\ job[p].allow = file.allow BY <2>3 DEF IInv, Calm, CalmUnit
    <3>2. \A g \in Family : Managed(g)' => Match(g, file.allow)'
      BY <2>1, <2>2, <3>1 DEF IInv, Calm, Managed, Match, Rules
    <3>3. \A v \in Unit : CalmUnit(v)' BY <3>1, <1>t DEF IInv, Calm, CalmUnit
    <3>4. \A a \in Admin : pc'[a] \in {"off", "lock"} BY <3>1, <2>3, <1>t DEF TypeOK
    <3>5. \A a \in Admin : CalmAdmin(a)' BY <3>4 DEF CalmAdmin, Past, Second
    <3> QED BY <3>2, <3>3, <3>5 DEF Calm
  <2>4. CASE p \in Admin
    <3>1. lock = p BY <2>4, <1>t DEF TypeOK
    <3>2. p # Nobody BY <2>4
    <3>3. \A v \in Unit : CalmUnit(v)' BY <2>4, <3>1, <3>2, <1>t DEF IInv, Calm, CalmUnit
    <3>4. \A a \in Admin : a # p => pc'[a] \in {"off", "lock"} BY <2>4, <1>t, OneHolder
    <3>5. \A a \in Admin : a # p => CalmAdmin(a)' BY <3>4 DEF CalmAdmin, Past, Second
    <3>6. CalmAdmin(p)'
      <4>1. pc'[p] = "attach" /\ job'[p] = job[p] BY <1>t
      <4>2. CalmAdmin(p) BY <2>4 DEF IInv, Calm
      <4>3. f = 4 \/ (f = 6 /\ Match(4, job[p].allow))
        <5>1. f = 6 => Past(p) BY DEF Past, Second, f
        <5> QED BY <2>1, <4>2, <5>1 DEF CalmAdmin
      <4> QED BY <4>1, <4>3, <2>2, <2>1 DEF CalmAdmin, Match, Rules, Past, Second, f
    <3> QED BY <3>1, <3>2, <3>3, <3>5, <3>6 DEF Calm
  <2> QED BY <2>3, <2>4
<1> QED BY <1>1, <1>2, <1>3, <1>4, <1>5 DEF IInv

LEMMA AttachStep == ASSUME IInv, NEW p \in Process, Attach(p) PROVE IInv'
<1> USE Sets, NoJobFacts, NetworkAssumption DEF Attach, At, Goto
<1>t. TypeOK /\ job \in [Process -> Job] /\ pc \in [Process -> Label] BY DEF IInv, TypeOK
<1>1. TypeOK' BY <1>t DEF TypeOK
<1>2. Probed' BY <1>t DEF IInv, Probed, Managed
<1>3. Progress' BY <1>t DEF IInv, Probed, Progress, FailClosed, Past, Second, Covered, Managed
<1>4. FileKnown' BY <1>t, OneHolder DEF IInv, Probed, FileKnown, FileIsSiteAndAnswer
<1>5. Calm' BY <1>t, OneHolder DEF IInv, TypeOK, Probed, FileKnown, Calm, CalmUnit, CalmAdmin, Managed, Match, Rules, Past, Second
<1> QED BY <1>1, <1>2, <1>3, <1>4, <1>5 DEF IInv

\* The first family is done: the loop goes on with the second.
LEMMA VerifyFirstStep ==
    ASSUME IInv, NEW p \in Process, Verify(p), job[p].family = 4 PROVE IInv'
<1> USE Sets, NoJobFacts, NetworkAssumption DEF Verify, At, Goto
<1>t. TypeOK /\ job \in [Process -> Job] /\ pc \in [Process -> Label] BY DEF IInv, TypeOK
<1>a. PICK r \in Job :
          /\ job' = [job EXCEPT ![p] = r] /\ r.allow = job[p].allow /\ r.prior = job[p].prior
          /\ r.vendor = job[p].vendor /\ r.family = 6 /\ r.fallback = job[p].fallback
  <2>1. job[p] \in Job BY <1>t
  <2>2. PICK r \in Job : r = [job[p] EXCEPT !.family = 6] BY <2>1, JobFamily
  <2>3. /\ r.allow = job[p].allow /\ r.prior = job[p].prior /\ r.vendor = job[p].vendor
        /\ r.family = 6 /\ r.fallback = job[p].fallback
    BY <2>1, <2>2, JobFamily
  <2>4. job' = [job EXCEPT ![p] = r] BY <2>2
  <2> QED BY <2>3, <2>4
<1>b. job' \in [Process -> Job] /\ job'[p] = r /\ \A q \in Process : q # p => job'[q] = job[q]
  BY ONLY <1>a, <1>t, p \in Process, JobChanges
<1>c. /\ pc' = [pc EXCEPT ![p] = "restore"] /\ At(p, "verify") /\ Covered(4)
      /\ UNCHANGED <<chain, attached, file, lock, up, count, disturbed>>
  BY DEF Covered
<1>1. TypeOK' BY <1>a, <1>b, <1>c, <1>t DEF TypeOK
<1>2. Probed' BY <1>a, <1>b, <1>c, <1>t DEF IInv, Probed, Managed
<1>3. Progress'
  BY <1>a, <1>b, <1>c, <1>t DEF IInv, Progress, FailClosed, Past, Second, Covered, Managed
<1>4. FileKnown'
  <2>1. /\ p \in Admin => pc[p] \in Apply /\ pc'[p] \in Apply
        /\ \A q \in Process : q # p => pc'[q] = pc[q] /\ job'[q] = job[q]
    BY <1>b, <1>c, <1>t
  <2>2. ASSUME p \in Admin
        PROVE  IF r.fallback THEN r.allow = file.allow /\ pc'[p] # "replace"
               ELSE r.allow = Home \cup r.vendor /\ r.prior = file.allow
    <3>1. CASE job[p].fallback BY <2>1, <2>2, <3>1, <1>a DEF IInv, FileKnown
    <3>2. CASE ~job[p].fallback BY <2>1, <2>2, <3>2, <1>a DEF IInv, FileKnown
    <3> QED BY <3>1, <3>2
  <2>3. ASSUME NEW a \in Admin, pc'[a] \in Apply \cup {"replace"}
        PROVE  IF job'[a].fallback THEN job'[a].allow = file.allow /\ pc'[a] # "replace"
               ELSE job'[a].allow = Home \cup job'[a].vendor /\ job'[a].prior = file.allow
    <3>1. CASE a = p BY <3>1, <2>2, <1>b
    <3>2. CASE a # p
      <4>1. a \in Process /\ pc'[a] = pc[a] /\ job'[a] = job[a] BY <3>2, <2>1
      <4> QED BY <4>1, <2>3 DEF IInv, FileKnown
    <3> QED BY <3>1, <3>2
  <2> QED BY <2>3, <1>c DEF IInv, FileKnown, FileIsSiteAndAnswer
<1>5. Calm'
  <2> SUFFICES ASSUME ~disturbed PROVE Calm' BY <1>c DEF Calm
  <2>1. \A u \in Unit : CalmUnit(u)' BY <1>a, <1>b, <1>c, <1>t DEF IInv, Calm, CalmUnit
  <2>2. \A a \in Admin : a # p => CalmAdmin(a)'
    BY <1>b, <1>c, <1>t DEF IInv, Calm, CalmAdmin, Managed, Match, Rules, Past, Second
  <2>3. ASSUME p \in Admin PROVE CalmAdmin(p)'
    <3>1. CalmAdmin(p) BY <2>3 DEF IInv, Calm
    <3> QED BY <3>1, <1>a, <1>b, <1>c, <1>t DEF CalmAdmin, Match, Rules, Past, Second
  <2> QED BY <2>1, <2>2, <2>3, <1>c DEF IInv, Calm, Managed, Match, Rules
<1> QED BY <1>1, <1>2, <1>3, <1>4, <1>5 DEF IInv

\* Both are done: the caller goes on.
LEMMA VerifySecondStep ==
    ASSUME IInv, NEW p \in Process, Verify(p), job[p].family # 4 PROVE IInv'
<1> USE Sets, NoJobFacts, NetworkAssumption DEF Verify, At, Goto
<1>t. TypeOK /\ job \in [Process -> Job] /\ pc \in [Process -> Label] BY DEF IInv, TypeOK
<1>a. job[p] \in Job /\ job[p].family = 6 /\ job[p].fallback \in BOOLEAN BY <1>t, JobTyped
<1>b. Applied(p) /\ At(p, "verify") /\ UNCHANGED <<chain, attached, file, count, disturbed>>
  BY <1>a
<1>c. Covered(4) /\ Covered(6)
  BY <1>a, <1>b DEF IInv, Progress, Past, Second, Covered
<1>d. /\ up' = up \/ (up' = up \cup {p} /\ p \in Unit)
      /\ Exit(p) \/ (Goto(p, "replace") /\ UNCHANGED <<lock, job>> /\ p \in Admin /\ ~job[p].fallback)
  BY ONLY <1>b DEF Applied
<1>e. Exit(p) => /\ job' \in [Process -> Job] /\ job'[p] = NoJob
                 /\ \A q \in Process : q # p => job'[q] = job[q]
  BY <1>t, JobChanges DEF Exit
<1>1. TypeOK'
  <2>1. CASE Exit(p) BY <2>1, <1>b, <1>d, <1>e, <1>t DEF TypeOK, Exit
  <2>2. CASE ~Exit(p) BY <2>2, <1>b, <1>d, <1>t DEF TypeOK
  <2> QED BY <2>1, <2>2
<1>2. Probed'
  <2>1. CASE Exit(p) BY <2>1, <1>b, <1>e, <1>t DEF IInv, Probed, Managed, Exit
  <2>2. CASE ~Exit(p) BY <2>2, <1>b, <1>d, <1>t DEF IInv, Probed, Managed
  <2> QED BY <2>1, <2>2
<1>3. Progress' BY <1>b, <1>c DEF Progress, FailClosed, Covered, Managed
<1>4. FileKnown'
  <2>1. CASE Exit(p) BY <2>1, <1>b, <1>e, <1>t DEF IInv, FileKnown, FileIsSiteAndAnswer, Exit
  <2>2. CASE ~Exit(p) BY <2>2, <1>b, <1>d, <1>t DEF IInv, FileKnown, FileIsSiteAndAnswer
  <2> QED BY <2>1, <2>2
<1>5. Calm'
  <2> SUFFICES ASSUME ~disturbed PROVE Calm' BY <1>b DEF Calm
  <2>1. CASE p \in Unit
    <3>1. Exit(p) /\ lock' = lock /\ lock = Nobody
      BY <2>1, <1>b, <1>d DEF IInv, Calm, CalmUnit, Exit
    <3>2. \A u \in Unit : CalmUnit(u)' BY <3>1, <1>b, <1>e, <1>t DEF IInv, Calm, CalmUnit, Exit
    <3>3. \A a \in Admin : pc'[a] \in {"off", "lock"}
      BY <2>1, <3>1, <1>t DEF TypeOK, Exit
    <3>4. \A a \in Admin : CalmAdmin(a)' BY <3>3 DEF CalmAdmin, Past, Second
    <3> QED BY <3>1, <3>2, <3>4, <1>b DEF IInv, Calm, Managed, Match, Rules
  <2>2. CASE p \in Admin
    <3>1. lock = p /\ p # Nobody BY <2>2, <1>b, <1>t DEF TypeOK
    <3>2. \A u \in Unit : pc[u] = "off" BY <3>1 DEF IInv, Calm, CalmUnit
    <3>3. \A u \in Unit : pc'[u] = "off" BY <2>2, <3>2, <1>d, <1>t DEF Exit
    <3>4. \A a \in Admin : a # p => pc'[a] \in {"off", "lock"}
      BY <2>2, <1>b, <1>d, <1>t, OneHolder DEF Exit
    <3>5. Match(4, job[p].allow) /\ Match(6, job[p].allow)
      BY <2>2, <1>a, <1>b DEF IInv, Calm, CalmAdmin, Past, Second
    <3>6. CASE Exit(p)
      <4>1. job[p].fallback \/ (~job[p].fallback /\ Goto(p, "replace")) BY ONLY <2>2, <1>b, NetworkAssumption DEF Applied
      <4>2. pc'[p] = "off" BY <3>6, <1>t DEF Exit
      <4>3. job[p].fallback BY <4>1, <4>2, <1>t
      <4>4. job[p].allow = file.allow BY <2>2, <4>3, <1>b DEF IInv, FileKnown
      <4>5. \A f \in Family : Match(f, file.allow)' BY <3>5, <4>4, <1>b DEF Match, Rules
      <4>6. \A a \in Admin : pc'[a] \in {"off", "lock"} BY <3>4, <4>2
      <4> QED BY <3>3, <4>5, <4>6 DEF Calm, CalmUnit, CalmAdmin, Past, Second
    <3>7. CASE ~Exit(p)
      <4>1. pc'[p] = "replace" /\ job' = job /\ lock' = p BY <3>1, <3>7, <1>d, <1>t
      <4>2. CalmAdmin(p)' BY <3>5, <4>1, <1>b DEF CalmAdmin, Match, Rules
      <4>3. \A a \in Admin : a # p => CalmAdmin(a)' BY <3>4 DEF CalmAdmin, Past, Second
      <4> QED BY <3>1, <3>3, <4>1, <4>2, <4>3 DEF Calm, CalmUnit
    <3> QED BY <3>6, <3>7
  <2> QED BY <2>1, <2>2
<1> QED BY <1>1, <1>2, <1>3, <1>4, <1>5 DEF IInv

LEMMA VerifyStep == ASSUME IInv, NEW p \in Process, Verify(p) PROVE IInv'
BY VerifyFirstStep, VerifySecondStep

\* enable applies the old policy again.
LEMMA FallbackStep ==
    ASSUME IInv, NEW p \in Admin, Raise(p), pc[p] \in Apply \cup {"replace"}, ~job[p].fallback
    PROVE  IInv'
<1> USE Sets, NoJobFacts, NetworkAssumption DEF Raise, At, Goto
<1>t. TypeOK /\ job \in [Process -> Job] /\ pc \in [Process -> Label] BY DEF IInv, TypeOK
<1>g. /\ \A f \in Family : Covered(f) => Covered(f)'
      /\ attached' \in [Family -> SUBSET Uid]
      /\ count' \in [ops: Nat, faults: Nat]
  BY <1>t DEF TypeOK, Covered, Managed, CutShort, Fault
<1>a. PICK r \in Job : /\ job' = [job EXCEPT ![p] = r] /\ r.allow = file.allow
                         /\ r.family = 4 /\ r.fallback = TRUE
  <2>1. job[p].prior = file.allow /\ file.allow \in SUBSET Endpoint
    BY DEF IInv, FileKnown, TypeOK
  <2>2. PICK r \in Job : /\ r = [NoJob EXCEPT !.allow = file.allow, !.fallback = TRUE]
                         /\ r.allow = file.allow /\ r.family = 4 /\ r.fallback = TRUE
    BY <2>1, JobFallback
  <2>3. job' = [job EXCEPT ![p] = r] BY <2>1, <2>2 DEF Handler
  <2> QED BY <2>2, <2>3
<1>b. job' \in [Process -> Job] /\ job'[p] = r /\ \A q \in Process : q # p => job'[q] = job[q]
  BY ONLY <1>a, <1>t, p \in Admin, Sets, JobChanges
<1>c. /\ pc' = [pc EXCEPT ![p] = "probe"] /\ lock = p /\ p # Nobody
      /\ UNCHANGED <<chain, file, lock, up, disturbed>>
  BY <1>t DEF Handler, TypeOK
<1>1. TypeOK' BY <1>a, <1>b, <1>c, <1>g, <1>t DEF TypeOK
<1>2. Probed' BY <1>a, <1>b, <1>c, <1>t DEF IInv, Probed, Managed
<1>3. Progress'
  <2>1. \A q \in Process : Past(q)' => Past(q) BY <1>a, <1>b, <1>c, <1>t DEF Past, Second
  <2> QED BY <2>1, <1>g, <1>c DEF IInv, Progress, FailClosed, Covered
<1>4. FileKnown' BY <1>a, <1>b, <1>c, <1>t DEF IInv, FileKnown, FileIsSiteAndAnswer
<1>5. Calm'
  <2> SUFFICES ASSUME ~disturbed PROVE Calm' BY <1>c DEF Calm
  <2>1. \A u \in Unit : CalmUnit(u)' BY <1>b, <1>c, <1>t DEF IInv, Calm, CalmUnit
  <2>2. \A a \in Admin : pc'[a] \in {"off", "lock", "probe"} BY <1>c, <1>t, OneHolder
  <2>3. \A a \in Admin : CalmAdmin(a)' BY <2>2 DEF CalmAdmin, Past, Second
  <2> QED BY <2>1, <2>3, <1>c DEF Calm
<1> QED BY <1>1, <1>2, <1>3, <1>4, <1>5 DEF IInv

\* Everyone else ends; a fallback that failed is a disturbance.
LEMMA FailedStep ==
    ASSUME IInv, NEW p \in Process, Raise(p),
           ~(p \in Admin /\ pc[p] \in Apply \cup {"replace"} /\ ~job[p].fallback)
    PROVE  IInv'
<1> USE Sets, NoJobFacts, NetworkAssumption DEF Raise, At, Goto
<1>t. TypeOK /\ job \in [Process -> Job] /\ pc \in [Process -> Label] BY DEF IInv, TypeOK
<1>g. /\ \A f \in Family : Covered(f) => Covered(f)'
      /\ attached' \in [Family -> SUBSET Uid]
      /\ count' \in [ops: Nat, faults: Nat]
  BY <1>t DEF TypeOK, Covered, Managed, CutShort, Fault
<1>a. /\ Exit(p) /\ disturbed' = (disturbed \/ job[p].fallback)
      /\ UNCHANGED <<chain, file, up>>
  BY DEF Handler
<1>b. /\ job' \in [Process -> Job] /\ job'[p] = NoJob
      /\ \A q \in Process : q # p => job'[q] = job[q]
  BY <1>a, <1>t, JobChanges DEF Exit
<1>c. \A q \in Process : pc'[q] # "off" => q # p /\ pc'[q] = pc[q] /\ job'[q] = job[q]
  BY <1>a, <1>b, <1>t DEF Exit
<1>d. /\ pc'[p] = "off" /\ \A q \in Process : q # p => pc'[q] = pc[q]
      /\ lock' = (IF lock = p THEN Nobody ELSE lock) 
  BY <1>a, <1>t DEF Exit
<1>e. job[p] \in Job /\ job[p].fallback \in BOOLEAN BY <1>t, JobTyped
<1>1. TypeOK'
  <2>1. \A q \in Admin : pc'[q] \notin {"off", "lock"} <=> lock' = q
    BY <1>c, <1>d, <1>t DEF TypeOK
  <2>2. pc' \in [Process -> Label] BY <1>a, <1>t DEF Exit
  <2>3. disturbed' \in BOOLEAN BY <1>a, <1>e, <1>t DEF TypeOK
  <2>4. lock' \in Admin \cup {Nobody} BY <1>d, <1>t DEF TypeOK
  <2>5. \A u \in Unit : pc'[u] \in {"off"} \cup Apply BY <1>c, <1>t DEF TypeOK
  <2>6. /\ chain' \in [Family -> Chain] /\ up' \subseteq Unit
        /\ file' \in [allow: SUBSET Endpoint, vendor: Answer]
    BY <1>a, <1>t DEF TypeOK
  <2> QED BY <1>b, <1>g, <2>1, <2>2, <2>3, <2>4, <2>5, <2>6 DEF TypeOK
<1>2. Probed' BY <1>a, <1>b, <1>d, <1>t DEF IInv, Probed, Managed
<1>3. Progress'
  <2>1. \A q \in Process : Past(q)' => Past(q) BY <1>c DEF Past, Second
  <2> QED BY <2>1, <1>g, <1>a DEF IInv, Progress, FailClosed, Covered
<1>4. FileKnown'
  <2>1. \A a \in Admin : pc'[a] # "off" => pc'[a] = pc[a] /\ job'[a] = job[a]
    BY ONLY <1>c, Sets
  <2>2. file' = file /\ FileKnown BY ONLY <1>a, IInv DEF IInv
  <2> QED BY ONLY <2>1, <2>2, Sets DEF FileKnown, FileIsSiteAndAnswer
<1>5. Calm'
  <2> SUFFICES ASSUME ~disturbed, ~job[p].fallback PROVE Calm' BY <1>a, <1>e DEF Calm, IInv, TypeOK
  <2>1. \A u \in Unit : CalmUnit(u)' BY <1>a, <1>c, <1>d, <1>t DEF IInv, Calm, CalmUnit
  <2>2. \A a \in Admin : CalmAdmin(a)'
    BY <1>a, <1>c DEF IInv, Calm, CalmAdmin, Managed, Match, Rules, Past, Second
  <2>3. lock' = Nobody => \A f \in Family : Managed(f)' => Match(f, file.allow)'
    <3>1. CASE lock = p
      <4>1. p \in Admin /\ pc[p] \notin {"off", "lock"} BY <3>1, <1>t DEF TypeOK
      <4>2. pc[p] = "read" BY <4>1, <1>t
      <4> QED BY <4>1, <4>2, <1>a DEF IInv, Calm, CalmAdmin, Managed, Match, Rules
    <3>2. CASE lock # p BY <3>2, <1>a, <1>d DEF IInv, Calm, Managed, Match, Rules
    <3> QED BY <3>1, <3>2
  <2> QED BY <2>1, <2>2, <2>3 DEF Calm
<1> QED BY <1>1, <1>2, <1>3, <1>4, <1>5 DEF IInv

LEMMA RaiseStep == ASSUME IInv, NEW p \in Process, Raise(p) PROVE IInv'
BY FallbackStep, FailedStep

LEMMA KillStep == ASSUME IInv, NEW p \in Process, Kill(p) PROVE IInv'
<1> USE Sets, NoJobFacts, NetworkAssumption DEF Kill, CutShort, Fault, At, Goto, Exit
<1>t. TypeOK /\ job \in [Process -> Job] /\ pc \in [Process -> Label] BY DEF IInv, TypeOK
<1>a. PICK r \in Job : job' = [job EXCEPT ![p] = r] /\ r = NoJob
  OBVIOUS
<1>b. job' \in [Process -> Job] /\ job'[p] = r /\ \A q \in Process : q # p => job'[q] = job[q]
  BY ONLY <1>a, <1>t, p \in Process, Sets, JobChanges
<1>1. TypeOK' BY <1>a, <1>b, <1>t DEF TypeOK
<1>2. Probed' BY <1>a, <1>b, <1>t DEF IInv, Probed, Managed
<1>3. Progress'
  <2>1. \A f \in Family : Covered(f) => Covered(f)' BY <1>t DEF TypeOK, Covered, Managed
  <2>2. \A q \in Process : Past(q)' => Past(q) BY <1>a, <1>b, <1>t DEF Past, Second
  <2> QED BY <2>1, <2>2 DEF IInv, Progress, FailClosed, Covered
<1>4. FileKnown'
  <2>1. \A a \in Admin : pc'[a] # "off" => pc'[a] = pc[a] /\ job'[a] = job[a]
    BY <1>a, <1>b, <1>t
  <2> QED BY <2>1, <1>t DEF IInv, FileKnown, FileIsSiteAndAnswer
<1>5. Calm' BY <1>a, <1>b, <1>t, OneHolder DEF IInv, TypeOK, Probed, FileKnown, Calm, CalmUnit, CalmAdmin, Managed, Match, Rules, Past, Second
<1> QED BY <1>1, <1>2, <1>3, <1>4, <1>5 DEF IInv

LEMMA RebootStep == ASSUME IInv, Reboot PROVE IInv'
<1> USE Sets, NoJobFacts, NetworkAssumption DEF Reboot, Fault
<1>t. TypeOK /\ job \in [Process -> Job] /\ pc \in [Process -> Label] BY DEF IInv, TypeOK
<1>1. TypeOK'
  <2>1. chain' \in [Family -> Chain] BY <1>t DEF TypeOK, NoChain, Chain
  <2>2. job' \in [Process -> Job] /\ pc' \in [Process -> Label] /\ lock' = Nobody OBVIOUS
  <2>3. \A a \in Admin : pc'[a] = "off" /\ a # Nobody BY Sets
  <2>4. \A u \in Unit : pc'[u] = "off" BY Sets
  <2>5. attached' \in [Family -> SUBSET Uid] OBVIOUS
  <2>6. count' \in [ops: Nat, faults: Nat] BY <1>t DEF TypeOK
  <2>7. file' \in [allow: SUBSET Endpoint, vendor: Answer] BY <1>t DEF TypeOK
  <2> QED BY <2>1, <2>2, <2>3, <2>4, <2>5, <2>6, <2>7 DEF TypeOK
<1>2. Probed'
  <2>1. \A f \in Family : ~Managed(f)' BY <1>t DEF TypeOK, NoChain, Managed
  <2> QED BY <2>1, <1>t DEF Probed
<1>3. Progress' BY <1>t DEF IInv, Probed, Progress, FailClosed, Past, Second, Covered, Managed
<1>4. FileKnown' BY <1>t, OneHolder DEF IInv, Probed, FileKnown, FileIsSiteAndAnswer
<1>5. Calm'
  <2>1. \A f \in Family : ~Managed(f)' BY <1>t DEF TypeOK, NoChain, Managed
  <2> QED BY <2>1, <1>t DEF Calm, CalmUnit, CalmAdmin, Past, Second
<1> QED BY <1>1, <1>2, <1>3, <1>4, <1>5 DEF IInv

LEMMA Stutter == ASSUME IInv, UNCHANGED vars PROVE IInv'
BY DEF IInv, TypeOK, Probed, Progress, FailClosed, FileKnown, FileIsSiteAndAnswer, Calm, CalmUnit,
   CalmAdmin, Managed, Match, Rules, Past, Second, Covered, vars

LEMMA NextIInv == IInv /\ [Next]_vars => IInv'
<1> SUFFICES ASSUME IInv, [Next]_vars PROVE IInv' OBVIOUS
<1>1. ASSUME NEW u \in Unit, Start(u) \/ Stop(u) PROVE IInv'
  BY <1>1, StartStep, StopStep
<1>2. ASSUME NEW a \in Admin, Enable(a) \/ Lock(a) \/ Read(a) \/ Replace(a) PROVE IInv'
  BY <1>2, EnableStep, LockStep, ReadStep, ReplaceStep
<1>3. ASSUME NEW p \in Process, ApplyPolicy(p) \/ Raise(p) \/ Kill(p) PROVE IInv'
  BY <1>3, ProbeStep, RestoreStep, AttachStep, VerifyStep, RaiseStep, KillStep DEF ApplyPolicy
<1> QED BY <1>1, <1>2, <1>3, RebootStep, Stutter DEF Next

LEMMA Invariant == Spec => []IInv
BY InitIInv, NextIInv, PTL DEF Spec

\* The state is well typed, and only the holder of the flock is past it.
THEOREM NetworkTypeCorrect == Spec => []TypeOK
<1>1. IInv => TypeOK BY DEF IInv
<1> QED BY <1>1, Invariant, PTL

\* No service runs unless both chains are in place for every account.
THEOREM ServicesFailClosed == Spec => []FailClosed
<1>1. IInv => FailClosed BY DEF IInv, Progress
<1> QED BY <1>1, Invariant, PTL

\* The policy file is the deployment's endpoints and the vendor's last answer.
THEOREM FileIsExact == Spec => []FileIsSiteAndAnswer
<1>1. IInv => FileIsSiteAndAnswer BY DEF IInv, FileKnown
<1> QED BY <1>1, Invariant, PTL

\* Undisturbed and with the lock free, the rules are those of the file.
THEOREM RulesAreTheFile == Spec => []RulesMatchFile
<1>1. IInv => RulesMatchFile BY DEF IInv, Calm, RulesMatchFile, Match
<1> QED BY <1>1, Invariant, PTL

\* A chain of somebody else keeps everything as it is.
LEMMA StepKeepsUnknown ==
    ASSUME IInv, IInv', [Next]_vars, NEW g \in Family, chain[g].owner = "other"
    PROVE  chain' = chain /\ up' = {}
<1> USE Sets
<1>1. up = {} BY DEF IInv, Progress, FailClosed, Managed
<1>2. \A p \in Process : pc[p] \notin {"restore", "attach", "verify", "replace"}
  BY DEF IInv, Probed, Managed
<1>3. ASSUME NEW u \in Unit, Start(u) \/ Stop(u) PROVE chain' = chain /\ up' = {}
  BY <1>1, <1>3 DEF Start, Stop
<1>4. ASSUME NEW a \in Admin, Enable(a) \/ Lock(a) \/ Read(a) \/ Replace(a) PROVE chain' = chain /\ up' = {}
  BY <1>1, <1>4 DEF Enable, Lock, Read, Replace
<1>5. ASSUME NEW p \in Process, ApplyPolicy(p) \/ Raise(p) \/ Kill(p) PROVE chain' = chain /\ up' = {}
  BY <1>1, <1>2, <1>5 DEF ApplyPolicy, Probe, Restore, Attach, Verify, Raise, Kill, At
<1>6. CASE Reboot
  <2>1. \A f \in Family : ~Managed(f) BY DEF IInv, Probed
  <2>2. chain \in [Family -> Chain] BY DEF IInv, TypeOK
  <2> QED BY <1>6, <2>1, <2>2 DEF Reboot, Managed
<1> QED BY <1>1, <1>3, <1>4, <1>5, <1>6 DEF Next, vars

THEOREM UnknownChainIsKept == Spec => UnknownChainKept
<1>1. IInv /\ IInv' /\ [Next]_vars =>
          [(\E f \in Family : chain[f].owner = "other") => chain' = chain /\ up' = {}]_vars
  BY StepKeepsUnknown
<1> QED BY <1>1, Invariant, PTL DEF Spec, UnknownChainKept
=============================================================================
