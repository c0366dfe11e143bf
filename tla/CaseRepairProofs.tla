-------------------------- MODULE CaseRepairProofs --------------------------
(***************************************************************************)
(* Theorems about CaseRepair for any number of processes, repairs, updates  *)
(* and faults.                                                              *)
(***************************************************************************)
EXTENDS CaseRepair, TLAPS

\* The failure path once MySQL is to be started again.
Late == {"undo-start", "undo-wait", "raise"}

\* What the holder of the lock knows of the option file, which no one else writes.
Known(p) ==
    /\ job[p].changed => pc[p] \in Change \cup Undo \cup {"raise", "restart", "wait"}
    /\ pc[p] \in Change \cup {"undo-stop", "undo-configure", "restart", "wait"} => job[p].changed
    /\ pc[p] \in {"query", "configure"} \cup (Trying \ Change) => option = "none"
    /\ pc[p] \in {"start-mysql", "verify", "restart"} => option = "case"
    /\ pc[p] \in {"undo-stop", "undo-configure"} => option # "disabled"
    /\ pc[p] \in Late => option = (IF job[p].changed THEN "disabled" ELSE "none")

\* Points at which the applications are down.
Down(p) == \/ pc[p] \in {"check", "restart"} \cup Backup \cup Change
           \/ job[p].changed /\ pc[p] \in Undo \cup {"raise"}

\* What it knows of the services as long as no update is active.
Calm(p) ==
    pc[p] \in Held /\ ~disturbed =>
    /\ update = Idle
    /\ Down(p) => \A u \in App : unit[u] = "down"
    /\ pc[p] \in Backup \cup {"configure", "start-mysql"} => mysql = "down"
    /\ pc[p] \in {"verify", "restart"} => mysql = "1"
    /\ pc[p] = "restart" => rows = job[p].before
    /\ ~job[p].changed /\ pc[p] # "audit" => mysql # "1"
    /\ job[p].changed /\ ~outlived /\ pc[p] \in {"undo-configure", "undo-start"} => mysql = "down"
    /\ job[p].changed /\ ~outlived /\ pc[p] \in {"undo-wait", "raise"} => mysql = "0"
    /\ pc[p] = "raise" => mysql # "down"

IInv == TypeOK /\ \A p \in Proc : Known(p) /\ Calm(p)

LEMMA Sets ==
    /\ App = {"tomcat", "apache", "php"}
    /\ Unit = App \cup {"admin", "path"}
    /\ Backup = {"tar", "record"}
    /\ Change = {"configure", "start-mysql", "verify"}
    /\ Undo = {"undo-stop", "undo-configure", "undo-start", "undo-wait"}
    /\ Trying = {"stop", "count", "stop-mysql", "check"} \cup Backup \cup Change
    /\ Held = {"audit", "query"} \cup Trying \cup Undo \cup {"raise", "restart", "wait"}
    /\ Label = {"off", "lock"} \cup Held
    /\ Late = {"undo-start", "undo-wait", "raise"}
BY DEF App, Unit, Backup, Change, Undo, Trying, Held, Label, Late

\* Changes of a process's variables; applied as one fact about job.
LEMMA JobChanges ==
    ASSUME NEW j \in [Proc -> Job], NEW p \in Proc
    PROVE  /\ NoJob \in Job /\ ~NoJob.changed
           /\ [j EXCEPT ![p] = NoJob] \in [Proc -> Job]
           /\ [j EXCEPT ![p].changed = TRUE] \in [Proc -> Job]
           /\ \A a \in SUBSET Unit : [j EXCEPT ![p].active = a] \in [Proc -> Job]
           /\ \A n \in Nat : [j EXCEPT ![p].before = n] \in [Proc -> Job]
BY DEF NoJob, Job

LEMMA InitIInv == Init => IInv
<1> SUFFICES ASSUME Init PROVE IInv OBVIOUS
<1> USE Sets, RepairAssumption DEF Init
<1>1. NoJob \in Job /\ ~NoJob.changed BY DEF NoJob, Job
<1>2. TypeOK BY <1>1 DEF TypeOK
<1>3. \A p \in Proc : Known(p) /\ Calm(p) BY <1>1 DEF Known, Calm
<1> QED BY <1>2, <1>3 DEF IInv

\* What is known of one process says everything about the others.
LEMMA OneHolder ==
    ASSUME IInv, NEW p \in Proc, pc[p] \in Held, NEW q \in Proc, q # p
    PROVE  pc[q] \notin Held /\ job[q] = NoJob
BY DEF IInv, TypeOK

LEMMA StartStep == ASSUME IInv, NEW p \in Proc, Start(p) PROVE IInv'
<1> USE Sets, RepairAssumption DEF Start, At, Goto, Exit, Keep, services
<1>1. NoJob \in Job /\ ~NoJob.changed BY DEF NoJob, Job
<1>2. \A q \in Proc : job[q] \in Job => job[q].changed \in BOOLEAN BY DEF Job
<1>3. TypeOK'
  <2>1. job' \in [Proc -> Job] BY JobChanges DEF IInv, TypeOK
  <2>2. \A q \in Proc : /\ pc'[q] \in Held <=> lock' = q
                        /\ pc'[q] \notin Held => job'[q] = NoJob
    BY DEF IInv, TypeOK
  <2> QED BY <2>1, <2>2 DEF IInv, TypeOK
<1>4. \A q \in Proc : Known(q)' BY OneHolder, <1>1, <1>2 DEF IInv, TypeOK, Known
<1>5. \A q \in Proc : Calm(q)' BY OneHolder, <1>1, <1>2 DEF IInv, TypeOK, Known, Calm, Down
<1> QED BY <1>3, <1>4, <1>5 DEF IInv

LEMMA LockStep == ASSUME IInv, NEW p \in Proc, Lock(p) PROVE IInv'
<1> USE Sets, RepairAssumption DEF Lock, At, Goto, Exit, Keep, services
<1>1. NoJob \in Job /\ ~NoJob.changed BY DEF NoJob, Job
<1>2. \A q \in Proc : job[q] \in Job => job[q].changed \in BOOLEAN BY DEF Job
<1>3. TypeOK'
  <2>1. job' \in [Proc -> Job] BY JobChanges DEF IInv, TypeOK
  <2>2. \A q \in Proc : /\ pc'[q] \in Held <=> lock' = q
                       /\ pc'[q] \notin Held => job'[q] = NoJob
    BY DEF IInv, TypeOK
  <2>3. disturbed' \in BOOLEAN BY DEF IInv, TypeOK
  <2> QED BY <2>1, <2>2, <2>3 DEF IInv, TypeOK
<1>4. \A q \in Proc : Known(q)' BY OneHolder, <1>1, <1>2 DEF IInv, TypeOK, Known
<1>5. \A q \in Proc : Calm(q)'
  <2>1. CASE lock = Nothing
    <3>1. ~disturbed' => update' = Idle BY <2>1
    <3>2. \A q \in Proc : pc'[q] \in Held => pc'[q] = "audit" BY <2>1 DEF IInv, TypeOK
    <3>3. \A q \in Proc : pc'[q] = "audit" => ~job'[q].changed
      BY <2>1, <1>1 DEF IInv, TypeOK
    <3> QED BY <3>1, <3>2, <3>3 DEF Calm, Down
  <2>2. CASE lock # Nothing
    BY <2>2, <1>1, OneHolder DEF IInv, TypeOK, Calm, Down
  <2> QED BY <2>1, <2>2
<1> QED BY <1>3, <1>4, <1>5 DEF IInv

LEMMA AuditStep == ASSUME IInv, NEW p \in Proc, Audit(p) PROVE IInv'
<1> USE Sets, RepairAssumption DEF Audit, At, Goto, Exit, Keep, services
<1>1. NoJob \in Job /\ ~NoJob.changed BY DEF NoJob, Job
<1>2. \A q \in Proc : job[q] \in Job => job[q].changed \in BOOLEAN BY DEF Job
<1>3. TypeOK'
  <2>1. job' \in [Proc -> Job] 
    <3>1. job' = job \/ job' = [job EXCEPT ![p] = NoJob] OBVIOUS
    <3>2. job \in [Proc -> Job] BY DEF IInv, TypeOK
    <3> QED BY ONLY <3>1, <3>2, p \in Proc, JobChanges
  <2>2. \A q \in Proc : /\ pc'[q] \in Held <=> lock' = q
                        /\ pc'[q] \notin Held => job'[q] = NoJob
    BY DEF IInv, TypeOK
  <2> QED BY <2>1, <2>2 DEF IInv, TypeOK
<1>4. \A q \in Proc : Known(q)' BY OneHolder, <1>1, <1>2 DEF IInv, TypeOK, Known
<1>5. \A q \in Proc : Calm(q)' BY OneHolder, <1>1, <1>2 DEF IInv, TypeOK, Known, Calm, Down
<1> QED BY <1>3, <1>4, <1>5 DEF IInv

LEMMA QueryStep == ASSUME IInv, NEW p \in Proc, Query(p) PROVE IInv'
<1> USE Sets, RepairAssumption DEF Query, At, Goto, Exit, Keep, services
<1>1. NoJob \in Job /\ ~NoJob.changed BY DEF NoJob, Job
<1>2. \A q \in Proc : job[q] \in Job => job[q].changed \in BOOLEAN BY DEF Job
<1>3. TypeOK'
  <2>1. job' \in [Proc -> Job] BY JobChanges DEF IInv, TypeOK
  <2>2. \A q \in Proc : /\ pc'[q] \in Held <=> lock' = q
                       /\ pc'[q] \notin Held => job'[q] = NoJob
    BY DEF IInv, TypeOK
  <2> QED BY <2>1, <2>2 DEF IInv, TypeOK
<1>4. \A q \in Proc : Known(q)' BY OneHolder, <1>1, <1>2 DEF IInv, TypeOK, Known
<1>5. \A q \in Proc : Calm(q)' BY OneHolder, <1>1, <1>2 DEF IInv, TypeOK, Known, Calm, Down
<1> QED BY <1>3, <1>4, <1>5 DEF IInv

LEMMA StopStep == ASSUME IInv, NEW p \in Proc, Stop(p) PROVE IInv'
<1> USE Sets, RepairAssumption DEF Stop, Stopped, WithDependent, At, Goto, Exit, Keep, services
<1>1. NoJob \in Job /\ ~NoJob.changed BY DEF NoJob, Job
<1>2. \A q \in Proc : job[q] \in Job => job[q].changed \in BOOLEAN BY DEF Job
<1>3. TypeOK'
  <2>1. job' \in [Proc -> Job] BY JobChanges DEF IInv, TypeOK
  <2>2. \A q \in Proc : /\ pc'[q] \in Held <=> lock' = q
                       /\ pc'[q] \notin Held => job'[q] = NoJob
    BY DEF IInv, TypeOK
  <2> QED BY <2>1, <2>2 DEF IInv, TypeOK
<1>4. \A q \in Proc : Known(q)' BY OneHolder, <1>1, <1>2 DEF IInv, TypeOK, Known
<1>5. \A q \in Proc : Calm(q)' BY OneHolder, <1>1, <1>2 DEF IInv, TypeOK, Known, Calm, Down
<1> QED BY <1>3, <1>4, <1>5 DEF IInv

LEMMA CountStep == ASSUME IInv, NEW p \in Proc, Count(p) PROVE IInv'
<1> USE Sets, RepairAssumption DEF Count, At, Goto, Exit, Keep, services
<1>1. NoJob \in Job /\ ~NoJob.changed BY DEF NoJob, Job
<1>2. \A q \in Proc : job[q] \in Job => job[q].changed \in BOOLEAN BY DEF Job
<1>3. TypeOK'
  <2>1. job' \in [Proc -> Job] BY JobChanges DEF IInv, TypeOK
  <2>2. \A q \in Proc : /\ pc'[q] \in Held <=> lock' = q
                       /\ pc'[q] \notin Held => job'[q] = NoJob
    BY DEF IInv, TypeOK
  <2> QED BY <2>1, <2>2 DEF IInv, TypeOK
<1>4. \A q \in Proc : Known(q)' BY OneHolder, <1>1, <1>2 DEF IInv, TypeOK, Known
<1>5. \A q \in Proc : Calm(q)' BY OneHolder, <1>1, <1>2 DEF IInv, TypeOK, Known, Calm, Down
<1> QED BY <1>3, <1>4, <1>5 DEF IInv

LEMMA StopMysqlStep == ASSUME IInv, NEW p \in Proc, StopMysql(p) PROVE IInv'
<1> USE Sets, RepairAssumption DEF StopMysql, StopServer, Stopped, WithDependent, At, Goto, Exit, Keep, services
<1>1. NoJob \in Job /\ ~NoJob.changed BY DEF NoJob, Job
<1>2. \A q \in Proc : job[q] \in Job => job[q].changed \in BOOLEAN BY DEF Job
<1>3. TypeOK'
  <2>1. job' \in [Proc -> Job] BY JobChanges DEF IInv, TypeOK
  <2>2. \A q \in Proc : /\ pc'[q] \in Held <=> lock' = q
                       /\ pc'[q] \notin Held => job'[q] = NoJob
    BY DEF IInv, TypeOK
  <2>3. update' = Idle \/ update' = update OBVIOUS
  <2>4. unit' \in [Unit -> {"down", "starting", "up"}] BY DEF IInv, TypeOK
  <2>5. mysql' \in {"down", "0", "1"} /\ outlived' \in BOOLEAN BY DEF IInv, TypeOK
  <2> QED BY <2>1, <2>2, <2>3, <2>4, <2>5 DEF IInv, TypeOK
<1>4. \A q \in Proc : Known(q)' BY OneHolder, <1>1, <1>2 DEF IInv, TypeOK, Known
<1>5. \A q \in Proc : Calm(q)' BY OneHolder, <1>1, <1>2 DEF IInv, TypeOK, Known, Calm, Down
<1> QED BY <1>3, <1>4, <1>5 DEF IInv

LEMMA CheckStep == ASSUME IInv, NEW p \in Proc, Check(p) PROVE IInv'
<1> USE Sets, RepairAssumption DEF Check, At, Goto, Exit, Keep, services
<1>1. NoJob \in Job /\ ~NoJob.changed BY DEF NoJob, Job
<1>2. \A q \in Proc : job[q] \in Job => job[q].changed \in BOOLEAN BY DEF Job
<1>3. TypeOK'
  <2>1. job' \in [Proc -> Job] BY JobChanges DEF IInv, TypeOK
  <2>2. \A q \in Proc : /\ pc'[q] \in Held <=> lock' = q
                        /\ pc'[q] \notin Held => job'[q] = NoJob
    BY DEF IInv, TypeOK
  <2> QED BY <2>1, <2>2 DEF IInv, TypeOK
<1>4. \A q \in Proc : Known(q)' BY OneHolder, <1>1, <1>2 DEF IInv, TypeOK, Known
<1>5. \A q \in Proc : Calm(q)' BY OneHolder, <1>1, <1>2 DEF IInv, TypeOK, Known, Calm, Down
<1> QED BY <1>3, <1>4, <1>5 DEF IInv

LEMMA TarStep == ASSUME IInv, NEW p \in Proc, Tar(p) PROVE IInv'
<1> USE Sets, RepairAssumption DEF Tar, At, Goto, Exit, Keep, services
<1>1. NoJob \in Job /\ ~NoJob.changed BY DEF NoJob, Job
<1>2. \A q \in Proc : job[q] \in Job => job[q].changed \in BOOLEAN BY DEF Job
<1>3. TypeOK'
  <2>1. job' \in [Proc -> Job] BY JobChanges DEF IInv, TypeOK
  <2>2. \A q \in Proc : /\ pc'[q] \in Held <=> lock' = q
                       /\ pc'[q] \notin Held => job'[q] = NoJob
    BY DEF IInv, TypeOK
  <2> QED BY <2>1, <2>2 DEF IInv, TypeOK
<1>4. \A q \in Proc : Known(q)' BY OneHolder, <1>1, <1>2 DEF IInv, TypeOK, Known
<1>5. \A q \in Proc : Calm(q)' BY OneHolder, <1>1, <1>2 DEF IInv, TypeOK, Known, Calm, Down
<1> QED BY <1>3, <1>4, <1>5 DEF IInv

LEMMA RecordStep == ASSUME IInv, NEW p \in Proc, Record(p) PROVE IInv'
<1> USE Sets, RepairAssumption DEF Record, At, Goto, Exit, Keep, services
<1>1. NoJob \in Job /\ ~NoJob.changed BY DEF NoJob, Job
<1>2. \A q \in Proc : job[q] \in Job => job[q].changed \in BOOLEAN BY DEF Job
<1>3. TypeOK'
  <2>1. job' \in [Proc -> Job] BY JobChanges DEF IInv, TypeOK
  <2>2. \A q \in Proc : /\ pc'[q] \in Held <=> lock' = q
                       /\ pc'[q] \notin Held => job'[q] = NoJob
    BY DEF IInv, TypeOK
  <2> QED BY <2>1, <2>2 DEF IInv, TypeOK
<1>4. \A q \in Proc : Known(q)' BY OneHolder, <1>1, <1>2 DEF IInv, TypeOK, Known
<1>5. \A q \in Proc : Calm(q)' BY OneHolder, <1>1, <1>2 DEF IInv, TypeOK, Known, Calm, Down
<1> QED BY <1>3, <1>4, <1>5 DEF IInv

LEMMA ConfigureStep == ASSUME IInv, NEW p \in Proc, Configure(p) PROVE IInv'
<1> USE Sets, RepairAssumption DEF Configure, At, Goto, Exit, Keep, services
<1>1. NoJob \in Job /\ ~NoJob.changed BY DEF NoJob, Job
<1>2. \A q \in Proc : job[q] \in Job => job[q].changed \in BOOLEAN BY DEF Job
<1>3. TypeOK'
  <2>1. job' \in [Proc -> Job] BY JobChanges DEF IInv, TypeOK
  <2>2. \A q \in Proc : /\ pc'[q] \in Held <=> lock' = q
                       /\ pc'[q] \notin Held => job'[q] = NoJob
    BY DEF IInv, TypeOK
  <2> QED BY <2>1, <2>2 DEF IInv, TypeOK
<1>4. \A q \in Proc : Known(q)' BY OneHolder, <1>1, <1>2 DEF IInv, TypeOK, Known
<1>5. \A q \in Proc : Calm(q)' BY OneHolder, <1>1, <1>2 DEF IInv, TypeOK, Known, Calm, Down
<1> QED BY <1>3, <1>4, <1>5 DEF IInv

LEMMA StartMysqlStep == ASSUME IInv, NEW p \in Proc, StartMysql(p) PROVE IInv'
<1> USE Sets, RepairAssumption DEF StartMysql, StartServer, Mode, At, Goto, Exit, Keep, services
<1>1. NoJob \in Job /\ ~NoJob.changed BY DEF NoJob, Job
<1>2. \A q \in Proc : job[q] \in Job => job[q].changed \in BOOLEAN BY DEF Job
<1>3. TypeOK'
  <2>1. job' \in [Proc -> Job] BY JobChanges DEF IInv, TypeOK
  <2>2. \A q \in Proc : /\ pc'[q] \in Held <=> lock' = q
                       /\ pc'[q] \notin Held => job'[q] = NoJob
    BY DEF IInv, TypeOK
  <2> QED BY <2>1, <2>2 DEF IInv, TypeOK
<1>4. \A q \in Proc : Known(q)' BY OneHolder, <1>1, <1>2 DEF IInv, TypeOK, Known
<1>5. \A q \in Proc : Calm(q)' BY OneHolder, <1>1, <1>2 DEF IInv, TypeOK, Known, Calm, Down
<1> QED BY <1>3, <1>4, <1>5 DEF IInv

LEMMA VerifyStep == ASSUME IInv, NEW p \in Proc, Verify(p) PROVE IInv'
<1> USE Sets, RepairAssumption DEF Verify, At, Goto, Exit, Keep, services
<1>1. NoJob \in Job /\ ~NoJob.changed BY DEF NoJob, Job
<1>2. \A q \in Proc : job[q] \in Job => job[q].changed \in BOOLEAN BY DEF Job
<1>3. TypeOK'
  <2>1. job' \in [Proc -> Job] BY JobChanges DEF IInv, TypeOK
  <2>2. \A q \in Proc : /\ pc'[q] \in Held <=> lock' = q
                       /\ pc'[q] \notin Held => job'[q] = NoJob
    BY DEF IInv, TypeOK
  <2> QED BY <2>1, <2>2 DEF IInv, TypeOK
<1>4. \A q \in Proc : Known(q)' BY OneHolder, <1>1, <1>2 DEF IInv, TypeOK, Known
<1>5. \A q \in Proc : Calm(q)' BY OneHolder, <1>1, <1>2 DEF IInv, TypeOK, Known, Calm, Down
<1> QED BY <1>3, <1>4, <1>5 DEF IInv

LEMMA RestartStep == ASSUME IInv, NEW p \in Proc, Restart(p) PROVE IInv'
<1> USE Sets, RepairAssumption DEF Restart, StartUnits, WithNeeded, Mode, At, Goto, Exit, Keep, services
<1>1. NoJob \in Job /\ ~NoJob.changed BY DEF NoJob, Job
<1>2. \A q \in Proc : job[q] \in Job => job[q].changed \in BOOLEAN BY DEF Job
<1>3. TypeOK'
  <2>1. job' \in [Proc -> Job] BY JobChanges DEF IInv, TypeOK
  <2>2. \A q \in Proc : /\ pc'[q] \in Held <=> lock' = q
                       /\ pc'[q] \notin Held => job'[q] = NoJob
    BY DEF IInv, TypeOK
  <2> QED BY <2>1, <2>2 DEF IInv, TypeOK
<1>4. \A q \in Proc : Known(q)' BY OneHolder, <1>1, <1>2 DEF IInv, TypeOK, Known
<1>5. \A q \in Proc : Calm(q)' BY OneHolder, <1>1, <1>2 DEF IInv, TypeOK, Known, Calm, Down
<1> QED BY <1>3, <1>4, <1>5 DEF IInv

LEMMA DoneStep == ASSUME IInv, NEW p \in Proc, Done(p) PROVE IInv'
<1> USE Sets, RepairAssumption DEF Done, At, Goto, Exit, Keep, services
<1>1. NoJob \in Job /\ ~NoJob.changed BY DEF NoJob, Job
<1>2. \A q \in Proc : job[q] \in Job => job[q].changed \in BOOLEAN BY DEF Job
<1>3. TypeOK'
  <2>1. job' \in [Proc -> Job] BY JobChanges DEF IInv, TypeOK
  <2>2. \A q \in Proc : /\ pc'[q] \in Held <=> lock' = q
                       /\ pc'[q] \notin Held => job'[q] = NoJob
    BY DEF IInv, TypeOK
  <2> QED BY <2>1, <2>2 DEF IInv, TypeOK
<1>4. \A q \in Proc : Known(q)' BY OneHolder, <1>1, <1>2 DEF IInv, TypeOK, Known
<1>5. \A q \in Proc : Calm(q)' BY OneHolder, <1>1, <1>2 DEF IInv, TypeOK, Known, Calm, Down
<1> QED BY <1>3, <1>4, <1>5 DEF IInv

LEMMA UndoStopStep == ASSUME IInv, NEW p \in Proc, UndoStop(p) PROVE IInv'
<1> USE Sets, RepairAssumption DEF UndoStop, StopServer, Stopped, WithDependent, At, Goto, Exit, Keep, services
<1>1. NoJob \in Job /\ ~NoJob.changed BY DEF NoJob, Job
<1>2. \A q \in Proc : job[q] \in Job => job[q].changed \in BOOLEAN BY DEF Job
<1>3. TypeOK'
  <2>1. job' \in [Proc -> Job] BY JobChanges DEF IInv, TypeOK
  <2>2. \A q \in Proc : /\ pc'[q] \in Held <=> lock' = q
                       /\ pc'[q] \notin Held => job'[q] = NoJob
    BY DEF IInv, TypeOK
  <2>3. update' = Idle \/ update' = update OBVIOUS
  <2>4. unit' \in [Unit -> {"down", "starting", "up"}] BY DEF IInv, TypeOK
  <2>5. mysql' \in {"down", "0", "1"} /\ outlived' \in BOOLEAN BY DEF IInv, TypeOK
  <2> QED BY <2>1, <2>2, <2>3, <2>4, <2>5 DEF IInv, TypeOK
<1>4. \A q \in Proc : Known(q)' BY OneHolder, <1>1, <1>2 DEF IInv, TypeOK, Known
<1>5. \A q \in Proc : Calm(q)' BY OneHolder, <1>1, <1>2 DEF IInv, TypeOK, Known, Calm, Down
<1> QED BY <1>3, <1>4, <1>5 DEF IInv

LEMMA UndoConfigureStep == ASSUME IInv, NEW p \in Proc, UndoConfigure(p) PROVE IInv'
<1> USE Sets, RepairAssumption DEF UndoConfigure, At, Goto, Exit, Keep, services
<1>1. NoJob \in Job /\ ~NoJob.changed BY DEF NoJob, Job
<1>2. \A q \in Proc : job[q] \in Job => job[q].changed \in BOOLEAN BY DEF Job
<1>3. TypeOK'
  <2>1. job' \in [Proc -> Job] BY JobChanges DEF IInv, TypeOK
  <2>2. \A q \in Proc : /\ pc'[q] \in Held <=> lock' = q
                        /\ pc'[q] \notin Held => job'[q] = NoJob
    BY DEF IInv, TypeOK
  <2> QED BY <2>1, <2>2 DEF IInv, TypeOK
<1>4. \A q \in Proc : Known(q)' BY OneHolder, <1>1, <1>2 DEF IInv, TypeOK, Known
<1>5. \A q \in Proc : Calm(q)' BY OneHolder, <1>1, <1>2 DEF IInv, TypeOK, Known, Calm, Down
<1> QED BY <1>3, <1>4, <1>5 DEF IInv

LEMMA UndoStartStep == ASSUME IInv, NEW p \in Proc, UndoStart(p) PROVE IInv'
<1> USE Sets, RepairAssumption DEF UndoStart, StartServer, Mode, At, Goto, Exit, Keep, services
<1>1. NoJob \in Job /\ ~NoJob.changed BY DEF NoJob, Job
<1>2. \A q \in Proc : job[q] \in Job => job[q].changed \in BOOLEAN BY DEF Job
<1>3. TypeOK'
  <2>1. job' \in [Proc -> Job] BY JobChanges DEF IInv, TypeOK
  <2>2. \A q \in Proc : /\ pc'[q] \in Held <=> lock' = q
                       /\ pc'[q] \notin Held => job'[q] = NoJob
    BY DEF IInv, TypeOK
  <2> QED BY <2>1, <2>2 DEF IInv, TypeOK
<1>4. \A q \in Proc : Known(q)' BY OneHolder, <1>1, <1>2 DEF IInv, TypeOK, Known
<1>5. \A q \in Proc : Calm(q)' BY OneHolder, <1>1, <1>2 DEF IInv, TypeOK, Known, Calm, Down
<1> QED BY <1>3, <1>4, <1>5 DEF IInv

LEMMA UndoWaitStep == ASSUME IInv, NEW p \in Proc, UndoWait(p) PROVE IInv'
<1> USE Sets, RepairAssumption DEF UndoWait, At, Goto, Exit, Keep, services
<1>1. NoJob \in Job /\ ~NoJob.changed BY DEF NoJob, Job
<1>2. \A q \in Proc : job[q] \in Job => job[q].changed \in BOOLEAN BY DEF Job
<1>3. TypeOK'
  <2>1. job' \in [Proc -> Job] BY JobChanges DEF IInv, TypeOK
  <2>2. \A q \in Proc : /\ pc'[q] \in Held <=> lock' = q
                       /\ pc'[q] \notin Held => job'[q] = NoJob
    BY DEF IInv, TypeOK
  <2> QED BY <2>1, <2>2 DEF IInv, TypeOK
<1>4. \A q \in Proc : Known(q)' BY OneHolder, <1>1, <1>2 DEF IInv, TypeOK, Known
<1>5. \A q \in Proc : Calm(q)' BY OneHolder, <1>1, <1>2 DEF IInv, TypeOK, Known, Calm, Down
<1> QED BY <1>3, <1>4, <1>5 DEF IInv

LEMMA ReraiseStep == ASSUME IInv, NEW p \in Proc, Reraise(p) PROVE IInv'
<1> USE Sets, RepairAssumption DEF Reraise, At, Goto, Exit, Keep, services
<1>1. NoJob \in Job /\ ~NoJob.changed BY DEF NoJob, Job
<1>2. \A q \in Proc : job[q] \in Job => job[q].changed \in BOOLEAN BY DEF Job
<1>3. TypeOK'
  <2>1. job' \in [Proc -> Job] BY JobChanges DEF IInv, TypeOK
  <2>2. \A q \in Proc : /\ pc'[q] \in Held <=> lock' = q
                       /\ pc'[q] \notin Held => job'[q] = NoJob
    BY DEF IInv, TypeOK
  <2> QED BY <2>1, <2>2 DEF IInv, TypeOK
<1>4. \A q \in Proc : Known(q)' BY OneHolder, <1>1, <1>2 DEF IInv, TypeOK, Known
<1>5. \A q \in Proc : Calm(q)' BY OneHolder, <1>1, <1>2 DEF IInv, TypeOK, Known, Calm, Down
<1> QED BY <1>3, <1>4, <1>5 DEF IInv

-----------------------------------------------------------------------------
(* Steps that fail, kills and reboots.                                       *)

\* When nobody holds the lock there is nothing to know.
LEMMA Ended ==
    ASSUME TypeOK', \A q \in Proc : pc'[q] \notin Held
    PROVE  IInv'
<1>1. ~NoJob.changed BY DEF NoJob
<1>2. \A q \in Proc : job'[q] = NoJob BY DEF TypeOK
<1>3. \A q \in Proc : Known(q)' BY <1>1, <1>2, Sets DEF Known
<1>4. \A q \in Proc : Calm(q)' BY DEF Calm
<1> QED BY <1>3, <1>4 DEF IInv

\* The effect of a command that is cut short, on everything but the processes.
LEMMA CutShortTyped ==
    ASSUME IInv, NEW p \in Proc, CutShort(p)
    PROVE  /\ unit' \in [Unit -> {"down", "starting", "up"}]
           /\ mysql' \in {"down", "0", "1"} /\ option' \in {"none", "case", "disabled"}
           /\ update' = Idle \/ update' = update
           /\ outlived' \in BOOLEAN
<1> USE Sets DEF IInv, TypeOK, services
<1>1. ASSUME NEW S, unit' = Stopped(S) PROVE unit' \in [Unit -> {"down", "starting", "up"}]
  BY <1>1 DEF Stopped
<1>2. ASSUME NEW S, StartUnits(S)
      PROVE unit' \in [Unit -> {"down", "starting", "up"}] /\ mysql' \in {"down", "0", "1"}
  BY <1>2 DEF StartUnits, Mode
<1>3. ASSUME StopServer
      PROVE /\ unit' \in [Unit -> {"down", "starting", "up"}] /\ mysql' \in {"down", "0", "1"}
            /\ update' = Idle \/ update' = update
            /\ outlived' \in BOOLEAN
  BY <1>1, <1>3 DEF StopServer
<1>4. ASSUME StartServer PROVE mysql' \in {"down", "0", "1"} BY <1>4 DEF StartServer, Mode
<1> QED BY <1>1, <1>2, <1>3, <1>4 DEF CutShort

LEMMA EndStep ==
    ASSUME IInv, NEW p \in Proc, pc[p] # "off", CutShort(p), Exit(p), UNCHANGED <<rows, disturbed>>,
           count' = count \/ Fault
    PROVE  IInv'
<1> USE Sets, RepairAssumption, CutShortTyped DEF Exit, Goto
<1>1. NoJob \in Job BY DEF NoJob, Job
<1>2. job' \in [Proc -> Job] BY <1>1 DEF IInv, TypeOK
<1>3. count' \in [runs: Nat, updates: Nat, faults: Nat] BY DEF Fault, IInv, TypeOK
<1>4. CASE pc[p] \in Held
  <2>1. \A q \in Proc : pc'[q] \notin Held /\ lock' # q /\ job'[q] = NoJob
    BY <1>4, OneHolder DEF IInv, TypeOK
  <2>2. TypeOK' BY <2>1, <1>2, <1>3 DEF IInv, TypeOK
  <2> QED BY <2>1, <2>2, Ended
<1>5. CASE pc[p] = "lock"
  <2>1. UNCHANGED <<services, option, update, outlived, rows, disturbed>> BY <1>5 DEF CutShort, At
  <2>2. lock' = lock /\ job' = job BY <1>5 DEF IInv, TypeOK
  <2>3. \A q \in Proc : pc'[q] = pc[q] \/ pc'[q] = "off" BY DEF IInv, TypeOK
  <2>4. \A q \in Proc : pc'[q] \in Held <=> pc[q] \in Held BY <1>5 DEF IInv, TypeOK
  <2>5. TypeOK' BY <1>3, <2>1, <2>2, <2>4 DEF IInv, TypeOK, services
  <2>6. \A q \in Proc : Known(q)' BY <1>5, <2>1, <2>2, <2>3, <2>4 DEF IInv, TypeOK, Known
  <2>7. \A q \in Proc : Calm(q)' BY <2>1, <2>2, <2>3, <2>4 DEF IInv, Calm, Down, services
  <2> QED BY <2>5, <2>6, <2>7 DEF IInv
<1> QED BY <1>4, <1>5 DEF IInv, TypeOK

LEMMA KillStep == ASSUME IInv, NEW p \in Proc, Kill(p) PROVE IInv'
BY EndStep DEF Kill

LEMMA RaiseStep == ASSUME IInv, NEW p \in Proc, Raise(p) PROVE IInv'
<1>1. CASE pc[p] \notin Trying
  <2>1. pc[p] # "off" BY Sets DEF Raise
  <2> QED BY <1>1, <2>1, EndStep DEF Raise
<1>2. CASE pc[p] \in Trying
  <2> USE Sets, RepairAssumption, CutShortTyped, <1>2 DEF Raise, Goto
  <2>1. count' \in [runs: Nat, updates: Nat, faults: Nat] BY DEF Fault, IInv, TypeOK
  <2>2. /\ pc' = [pc EXCEPT ![p] = IF job[p].changed THEN "undo-stop" ELSE "undo-start"]
        /\ UNCHANGED <<lock, job, rows, disturbed>>
    OBVIOUS
  <2>3. pc' \in [Proc -> Label] BY <2>2 DEF IInv, TypeOK
  <2>4. \A q \in Proc : /\ pc'[q] \in Held <=> lock' = q
                        /\ pc'[q] \notin Held => job'[q] = NoJob
    BY <2>2 DEF IInv, TypeOK
  <2>5. TypeOK' BY <2>1, <2>2, <2>3, <2>4 DEF IInv, TypeOK
  <2>6. /\ job[p].changed => pc[p] \in Change
        /\ job[p].changed => option' \in {"none", "case"}
        /\ ~job[p].changed => option' = "none"
    BY DEF CutShort, IInv, TypeOK, Known, At, services
  <2>7. \A q \in Proc : Known(q)' BY <2>2, <2>6, OneHolder DEF IInv, TypeOK, Known
  <2>8. ASSUME ~disturbed, job[p].changed PROVE \A u \in App : unit'[u] = "down"
    BY <2>6, <2>8 DEF CutShort, IInv, TypeOK, Calm, Down, At, services
  <2>9. ASSUME ~disturbed PROVE update' = Idle /\ (~job[p].changed => mysql' # "1")
    BY <2>6, <2>9 DEF CutShort, StopServer, IInv, TypeOK, Calm, Known, At, services
  <2>10. \A q \in Proc : Calm(q)'
    BY <2>2, <2>6, <2>8, <2>9, OneHolder DEF IInv, TypeOK, Calm, Down
  <2> QED BY <2>5, <2>7, <2>10 DEF IInv
<1> QED BY <1>1, <1>2

LEMMA RebootStep == ASSUME IInv, Reboot PROVE IInv'
<1> USE Sets, RepairAssumption DEF Reboot
<1>1. NoJob \in Job BY DEF NoJob, Job
<1>2. count' \in [runs: Nat, updates: Nat, faults: Nat] BY DEF Fault, IInv, TypeOK
<1>3. option' \in {"none", "case", "disabled"} BY DEF At, IInv, TypeOK
<1>4. unit' \in [Unit -> {"down", "starting", "up"}] OBVIOUS
<1>5. \A q \in Proc : pc'[q] \notin Held /\ lock' # q /\ job'[q] = NoJob OBVIOUS
<1>6. TypeOK' BY <1>1, <1>2, <1>3, <1>4, <1>5 DEF IInv, TypeOK
<1> QED BY <1>5, <1>6, Ended

-----------------------------------------------------------------------------
(* The others.  The holder's knowledge of the option file is not touched.     *)

LEMMA UnitUpStep == ASSUME IInv, NEW u \in Unit, UnitUp(u) PROVE IInv'
<1> USE Sets, RepairAssumption DEF UnitUp
<1>1. TypeOK' BY DEF IInv, TypeOK
<1>2. \A q \in Proc : Known(q)' BY DEF IInv, Known
<1>3. \A q \in Proc : Calm(q)' BY DEF IInv, TypeOK, Calm, Down
<1> QED BY <1>1, <1>2, <1>3 DEF IInv

LEMMA UnitRestartsStep == ASSUME IInv, NEW u \in Unit, UnitRestarts(u) PROVE IInv'
<1> USE Sets, RepairAssumption DEF UnitRestarts
<1>1. count' \in [runs: Nat, updates: Nat, faults: Nat] BY DEF Fault, IInv, TypeOK
<1>2. TypeOK' BY <1>1 DEF IInv, TypeOK
<1>3. \A q \in Proc : Known(q)' BY DEF IInv, Known
<1>4. \A q \in Proc : Calm(q)' BY DEF IInv, TypeOK, Calm, Down
<1> QED BY <1>2, <1>3, <1>4 DEF IInv

LEMMA WriteRowsStep == ASSUME IInv, WriteRows PROVE IInv'
<1> USE Sets, RepairAssumption DEF WriteRows, services
<1>1. TypeOK' BY DEF IInv, TypeOK
<1>2. \A q \in Proc : Known(q)' BY DEF IInv, Known
<1>3. \A q \in Proc : Calm(q)' BY DEF IInv, TypeOK, Calm, Down
<1> QED BY <1>1, <1>2, <1>3 DEF IInv

LEMMA UpdateStepTyped ==
    ASSUME IInv, Update
    PROVE  /\ unit' \in [Unit -> {"down", "starting", "up"}]
           /\ mysql' \in {"down", "0", "1"}
           /\ update' = Idle \/ update' \in [by: {"service", "terminal"}, at: {"stop", "dump", "start", "ready"}]
           /\ count' \in [runs: Nat, updates: Nat, faults: Nat]
           /\ disturbed' \in BOOLEAN
           /\ UNCHANGED <<option, rows, lock, pc, job, outlived>>
<1> USE Sets DEF Update
<1>1. CASE UpdateBegin
  <2>1. mysql' \in {"down", "0", "1"} BY <1>1 DEF UpdateBegin, StartServer, Mode, IInv, TypeOK
  <2>2. \E by \in {"service", "terminal"} : Beginning(by) BY <1>1 DEF UpdateBegin
  <2>3. count' \in [runs: Nat, updates: Nat, faults: Nat] BY <2>2 DEF Beginning, IInv, TypeOK
  <2>4. update' \in [by: {"service", "terminal"}, at: {"stop", "dump", "start", "ready"}]
    BY <2>2 DEF Beginning
  <2>5. disturbed' \in BOOLEAN BY <2>2 DEF Beginning
  <2>6. UNCHANGED <<unit, option, rows, lock, pc, job, outlived>> BY <1>1 DEF UpdateBegin
  <2> QED BY <2>1, <2>3, <2>4, <2>5, <2>6 DEF IInv, TypeOK
<1>2. CASE UpdateStop
  BY <1>2 DEF UpdateStop, UpdateStep, Others, Stopped, WithDependent, IInv, TypeOK, Idle
<1>3. CASE UpdateDump BY <1>3 DEF UpdateDump, UpdateStep, Others, services, IInv, TypeOK, Idle
<1>4. CASE UpdateStart
  BY <1>4 DEF UpdateStart, UpdateStep, Others, StartUnits, WithNeeded, Mode, IInv, TypeOK, Idle
<1>5. CASE UpdateEnd BY <1>5 DEF UpdateEnd, Others, services, IInv, TypeOK
<1> QED BY <1>1, <1>2, <1>3, <1>4, <1>5

\* While an update is active, or begins, the holder is disturbed.
LEMMA UpdateStepDisturbs ==
    ASSUME IInv, Update, NEW p \in Proc, pc[p] \in Held
    PROVE  disturbed'
<1>1. lock = p BY DEF IInv, TypeOK
<1>2. CASE update # Idle
  <2>1. disturbed BY <1>2 DEF IInv, Calm
  <2> QED BY <2>1, <1>2 DEF Update, UpdateBegin, Beginning, UpdateStop, UpdateDump, UpdateStart, UpdateEnd, Others
<1>3. CASE update = Idle
  <2>1. UpdateBegin
    BY <1>3 DEF Update, UpdateStop, UpdateDump, UpdateStart, UpdateEnd, UpdateStep, Idle
  <2> QED BY <2>1, <1>1, RepairAssumption DEF UpdateBegin, Beginning
<1> QED BY <1>2, <1>3

LEMMA UpdateSteps == ASSUME IInv, Update PROVE IInv'
<1>1. TypeOK' BY UpdateStepTyped DEF IInv, TypeOK
<1>2. \A q \in Proc : Known(q)' BY UpdateStepTyped DEF IInv, Known
<1>3. \A q \in Proc : Calm(q)' BY UpdateStepTyped, UpdateStepDisturbs DEF Calm
<1> QED BY <1>1, <1>2, <1>3 DEF IInv

-----------------------------------------------------------------------------
LEMMA NextIInv == IInv /\ [Next]_vars => IInv'
<1> SUFFICES ASSUME IInv, [Next]_vars PROVE IInv' OBVIOUS
<1>1. CASE WriteRows BY <1>1, WriteRowsStep
<1>2. CASE Systemd BY <1>2, RebootStep, UnitUpStep, UnitRestartsStep DEF Systemd
<1>3. CASE Update BY <1>3, UpdateSteps
<1>4. ASSUME NEW p \in Proc, Start(p) \/ Work(p) \/ Kill(p) PROVE IInv'
  <2>1. CASE Start(p) \/ Kill(p) \/ Raise(p) BY <2>1, StartStep, KillStep, RaiseStep
  <2>2. CASE Lock(p) \/ Audit(p) \/ Query(p) \/ Stop(p) \/ Count(p) \/ StopMysql(p) \/ Check(p)
    BY <2>2, LockStep, AuditStep, QueryStep, StopStep, CountStep, StopMysqlStep, CheckStep
  <2>3. CASE Tar(p) \/ Record(p) \/ Configure(p) \/ StartMysql(p) \/ Verify(p) \/ Restart(p) \/ Done(p)
    BY <2>3, TarStep, RecordStep, ConfigureStep, StartMysqlStep, VerifyStep, RestartStep, DoneStep
  <2>4. CASE UndoStop(p) \/ UndoConfigure(p) \/ UndoStart(p) \/ UndoWait(p) \/ Reraise(p)
    BY <2>4, UndoStopStep, UndoConfigureStep, UndoStartStep, UndoWaitStep, ReraiseStep
  <2> QED BY <1>4, <2>1, <2>2, <2>3, <2>4 DEF Work
<1>5. CASE UNCHANGED vars
  BY <1>5 DEF vars, services, IInv, TypeOK, Known, Calm, Down
<1> QED BY <1>1, <1>2, <1>3, <1>4, <1>5 DEF Next

THEOREM Invariance == Spec => []IInv
BY InitIInv, NextIInv, PTL DEF Spec

\* The repair's state is well typed, and only the holder of the flock is past it.
THEOREM RepairTypeCorrect == Spec => []TypeOK
<1>1. IInv => TypeOK BY DEF IInv
<1> QED BY <1>1, Invariance, PTL

\* Unless an update is active, MySQL and its applications are down while the data
\* directory is archived (database_case.py 77-81).
THEOREM ColdBackup == Spec => []BackupIsCold
<1>1. IInv => BackupIsCold BY Sets DEF IInv, BackupIsCold, Calm, Down
<1> QED BY <1>1, Invariance, PTL

\* Unless an update is active, the applications stay down until the change is
\* verified or taken back (database_case.py 86-106).
THEOREM WritersStopped == Spec => []WritersStayDown
<1>1. IInv => WritersStayDown
  BY Sets DEF IInv, WritersStayDown, Known, Calm, Down
<1> QED BY <1>1, Invariance, PTL

\* When the applications are started again, the lookup is on, for good, and no
\* row was added or lost (database_case.py 90-106).
THEOREM VerifiedBeforeRestart == Spec => []SuccessIsTrue
<1>1. IInv => SuccessIsTrue BY Sets DEF IInv, SuccessIsTrue, Known, Calm, At
<1> QED BY <1>1, Invariance, PTL

\* A complete failure path leaves MySQL running with the lookup it had
\* (database_case.py 97-104).
THEOREM FailureTakenBack == Spec => []FailureRestores
<1>1. IInv => FailureRestores
  BY Sets DEF IInv, TypeOK, FailureRestores, Known, Calm, At
<1> QED BY <1>1, Invariance, PTL

LEMMA OptionStep ==
    ASSUME IInv, [Next]_vars, option' # option
    PROVE  \/ option = "none"
           \/ option = "case" /\ option' = "disabled" /\ \E p \in Proc : lock = p /\ job[p].changed
<1> USE Sets DEF At
<1>1. \E p \in Proc : \/ At(p, "configure") /\ option' = "case"
                      \/ At(p, "undo-configure") /\ option' = "disabled"
  <2>1. CASE Reboot
    <3>1. \/ UNCHANGED option
          \/ \E p \in Proc : \/ At(p, "configure") /\ option' = "case"
                             \/ At(p, "undo-configure") /\ option' = "disabled"
      BY ONLY <2>1 DEF Reboot
    <3> QED BY <3>1
  <2>2. ASSUME NEW p \in Proc, CutShort(p)
        PROVE \/ At(p, "configure") /\ option' = "case"
              \/ At(p, "undo-configure") /\ option' = "disabled"
    BY <2>2 DEF CutShort
  <2>3. ASSUME NEW p \in Proc, Raise(p) \/ Kill(p) PROVE CutShort(p) BY <2>3 DEF Raise, Kill
  <2>4. ASSUME NEW p \in Proc, Configure(p) \/ UndoConfigure(p)
        PROVE \/ At(p, "configure") /\ option' = "case"
              \/ At(p, "undo-configure") /\ option' = "disabled"
    BY <2>4 DEF Configure, UndoConfigure
  <2>5. ASSUME NEW p \in Proc, Start(p) \/ Work(p)
        PROVE  Raise(p) \/ Configure(p) \/ UndoConfigure(p)
    BY <2>5 DEF Work, Start, Lock, Audit, Query, Stop, Count, StopMysql, Check, Tar, Record, StartMysql,
                Verify, Restart, Done, UndoStop, UndoStart, UndoWait, Reraise
  <2>6. CASE WriteRows BY <2>6 DEF WriteRows
  <2>7. CASE Update BY <2>7, UpdateStepTyped
  <2>8. CASE \E u \in Unit : UnitUp(u) \/ UnitRestarts(u) BY <2>8 DEF UnitUp, UnitRestarts
  <2>9. CASE UNCHANGED vars BY <2>9 DEF vars
  <2>10. CASE \E p \in Proc : Start(p) \/ Work(p) \/ Kill(p) BY <2>10, <2>2, <2>3, <2>4, <2>5
  <2> QED BY <2>1, <2>6, <2>7, <2>8, <2>9, <2>10 DEF Next, Systemd
<1>2. PICK p \in Proc : \/ At(p, "configure") /\ option' = "case"
                        \/ At(p, "undo-configure") /\ option' = "disabled"
  BY <1>1
<1>3. CASE At(p, "configure") BY <1>3 DEF IInv, Known
<1>4. CASE At(p, "undo-configure") /\ option' = "disabled"
  <2>1. lock = p /\ job[p].changed BY <1>4 DEF IInv, TypeOK, Known
  <2>2. option \in {"none", "case"} BY <1>4 DEF IInv, TypeOK, Known
  <2> QED BY <1>4, <2>1, <2>2
<1> QED BY <1>2, <1>3, <1>4

\* The option file of an earlier attempt is never overwritten, and taken back only
\* by the attempt that wrote it (database_case.py 58-60, 86-100).
THEOREM OptionNeverOverwritten == Spec => NeverOverwritten
<1>1. IInv /\ [Next]_vars =>
        (option' # option =>
           \/ option = "none"
           \/ option = "case" /\ option' = "disabled" /\ \E p \in Proc : lock = p /\ job[p].changed)
  BY OptionStep
<1>2. Spec => [][option' # option =>
           \/ option = "none"
           \/ option = "case" /\ option' = "disabled" /\ \E p \in Proc : lock = p /\ job[p].changed]_vars
  BY <1>1, Invariance, PTL DEF Spec
<1> QED BY <1>2 DEF NeverOverwritten
=============================================================================
