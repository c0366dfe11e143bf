----------------------------- MODULE WixpProofs -----------------------------
(***************************************************************************)
(* Theorems about the components that speak WIXP: CloneExport and Discovery,*)
(* which ask TVs, and Simulator, which is one.  They share no state; each is *)
(* proved for every value of its constants.                                  *)
(***************************************************************************)
EXTENDS CloneExport, Discovery, Simulator, FiniteSetTheorems, FunctionTheorems, TLAPS

-----------------------------------------------------------------------------
(* CloneExport.                                                              *)

\* Where the receiver stands at each step of the main thread.
Stage ==
    /\ upload # Nothing => server \in {"serving", "stopping"}
    /\ pc \in {"report", "done"} => server = "closed"
    /\ report # Nothing => pc = "done"

\* The second identity check makes the command, and nothing changes it.
SentFrom ==
    /\ pc \in {"identify", "capabilities", "listen", "revalidate"} => sent = Nothing
    /\ pc = "send" => sent = first

\* The bytes a connection may still write: the rest of its body and all of it once
\* more, then the part of it that is not extracted yet.
Owed == IF upload.at = "body" THEN upload.left + upload.length ELSE upload.left

\* What is written, and what is still to come, was charged.
Charged ==
    /\ total <= MaxBytes /\ stored <= 2 * total
    /\ upload # Nothing => stored + Owed <= 2 * total

\* Every item that was asked for is in a file of the set whose members were checked.
Whole(set) == \A i \in Wanted : \E f \in set : f.crc = "valid" /\ i \in f.items

\* The completion that was observed, and the report that was made of it.
Observation ==
    /\ completed => Whole(files)
    /\ report # Nothing => /\ report.files = files /\ report.failed = failed
                           /\ report.completed => Whole(files) /\ ~failed

IInv == /\ TypeOK /\ Stage /\ SentFrom /\ SentToVerified /\ Charged /\ Observation

LEMMA InitIInv == Init => IInv
<1> SUFFICES ASSUME Init PROVE IInv
  OBVIOUS
<1>1. TypeOK
  BY DEF Init, TypeOK, Label
<1>2. Stage /\ SentFrom /\ SentToVerified
  BY DEF Init, Stage, SentFrom, SentToVerified
<1>3. Charged
  BY ExportAssumption DEF Init, Charged
<1>4. Observation
  BY DEF Init, Observation
<1> QED
  BY <1>1, <1>2, <1>3, <1>4 DEF IInv

\* A fault or a connection that is counted leaves a count.
LEMMA Counted ==
    ASSUME TypeOK,
           \/ Fault \/ UNCHANGED count
           \/ count' = [count EXCEPT !.uploads = @ + 1]
    PROVE  count' \in [uploads: Nat, faults: Nat]
BY DEF TypeOK, Fault

-----------------------------------------------------------------------------
(* The state is well typed.                                                  *)

LEMMA MainType == TypeOK /\ Main => TypeOK'
<1> SUFFICES ASSUME TypeOK, Main PROVE TypeOK'
  OBVIOUS
<1>1. count' \in [uploads: Nat, faults: Nat]
  BY Counted DEF Main, Identify, Capabilities, Listen, Revalidate, Send, Record, Poll,
                 Shutdown, Report
<1>2. CASE Identify
  BY <1>1, <1>2 DEF Identify, Step, TypeOK, Label, receiver
<1>3. CASE Capabilities
  BY <1>1, <1>3 DEF Capabilities, Step, TypeOK, Label, receiver
<1>4. CASE Listen
  BY <1>1, <1>4 DEF Listen, Step, TypeOK, Label, receiver
<1>5. CASE Revalidate
  BY <1>1, <1>5 DEF Revalidate, Step, TypeOK, Label, receiver
<1>6. CASE Send
  BY <1>1, <1>6 DEF Send, Step, TypeOK, Label, receiver
<1>7. CASE Record
  BY <1>1, <1>7 DEF Record, Step, TypeOK, Label, receiver
<1>8. CASE Poll
  BY <1>1, <1>8 DEF Poll, Step, TypeOK, Label, receiver
<1>9. CASE Shutdown
  BY <1>1, <1>9 DEF Shutdown, TypeOK, Label, receiver
<1>10. CASE Report
  <2>1. completed' \in BOOLEAN /\ failed \in BOOLEAN /\ files \in SUBSET File
    BY <1>10 DEF Report, TypeOK
  <2>2. report' \in [completed: BOOLEAN, files: SUBSET File, failed: BOOLEAN]
    BY <1>10, <2>1 DEF Report
  <2>3. pc' \in Label
    BY <1>10 DEF Report, Step, Label, Ended
  <2> QED
    BY <1>1, <1>10, <2>1, <2>2, <2>3 DEF Report, TypeOK, receiver
<1> QED
  BY <1>2, <1>3, <1>4, <1>5, <1>6, <1>7, <1>8, <1>9, <1>10 DEF Main

\* What a step of the connection makes of it.
LEMMA UploadType == TypeOK /\ (Serve \/ Accept) => upload' \in Upload \cup {Nothing}
<1> SUFFICES ASSUME TypeOK, Serve \/ Accept PROVE upload' \in Upload \cup {Nothing}
  OBVIOUS
<1>1. CASE Accept
  BY <1>1, ExportAssumption DEF Accept, Upload
<1>2. CASE Turn \/ Reject \/ Answer
  BY <1>2 DEF Turn, Reject, Answer
<1>3. CASE Charge
  BY <1>3, ExportAssumption DEF Charge, Upload
<1>4. CASE Chunk
  <2>1. upload \in Upload
    BY <1>4 DEF Chunk, TypeOK
  <2>2. PICK n \in 1 .. upload.left :
            upload' = IF n = upload.left THEN [upload EXCEPT !.at = "parse", !.left = upload.length]
                      ELSE [upload EXCEPT !.left = @ - n]
    BY <1>4 DEF Chunk
  <2>3. upload.left - n \in 0 .. MaxLength
    BY <2>1, <2>2, ExportAssumption DEF Upload
  <2> QED
    BY <2>1, <2>2, <2>3 DEF Upload
<1>5. CASE Parse
  BY <1>5 DEF Parse, TypeOK, Upload
<1>6. CASE Extract
  <2>1. upload \in Upload
    BY <1>6 DEF Extract, TypeOK
  <2>2. PICK n \in 1 .. upload.left, f \in File :
            upload' = [upload EXCEPT !.left = @ - n, !.parts = @ \cup {f}]
    BY <1>6 DEF Extract
  <2>3. upload.left - n \in 0 .. MaxLength
    BY <2>1, <2>2, ExportAssumption DEF Upload
  <2> QED
    BY <2>1, <2>2, <2>3 DEF Upload
<1> QED
  BY <1>1, <1>2, <1>3, <1>4, <1>5, <1>6 DEF Serve

LEMMA ServeType == TypeOK /\ (Serve \/ Accept) => TypeOK'
<1> SUFFICES ASSUME TypeOK, Serve \/ Accept PROVE TypeOK'
  OBVIOUS
<1>1. count' \in [uploads: Nat, faults: Nat]
  BY Counted DEF Serve, Accept, Turn, Charge, Chunk, Extract, Parse, Answer, Reject
<1>2. upload' \in Upload \cup {Nothing}
  BY UploadType
<1>3. total' \in Nat /\ stored' \in Nat
  <2>1. CASE Charge
    BY <2>1 DEF Charge, TypeOK
  <2>2. CASE Chunk
    BY <2>2 DEF Chunk, TypeOK, Upload
  <2>3. CASE Extract
    BY <2>3 DEF Extract, TypeOK, Upload
  <2> QED
    BY <2>1, <2>2, <2>3 DEF Serve, Accept, Turn, Parse, Answer, Reject, TypeOK
<1>4. files' \in SUBSET File /\ failed' \in BOOLEAN
  BY DEF Upload, Serve, Accept, Turn, Charge, Chunk, Extract, Parse, Answer, Reject, TypeOK
<1>5. UNCHANGED <<tv, main, expired>>
  BY DEF Serve, Accept, Turn, Charge, Chunk, Extract, Parse, Answer, Reject
<1> QED
  BY <1>1, <1>2, <1>3, <1>4, <1>5 DEF TypeOK, main

LEMMA StepType == TypeOK /\ [Next]_vars => TypeOK'
<1> SUFFICES ASSUME TypeOK, [Next]_vars PROVE TypeOK'
  OBVIOUS
<1>1. CASE Raise
  <2>1. count' \in [uploads: Nat, faults: Nat]
    BY <1>1, Counted DEF Raise
  <2> QED
    BY <1>1, <2>1 DEF Raise, TypeOK, Label, Ended, receiver
<1>2. CASE Readdress
  <2>1. count' \in [uploads: Nat, faults: Nat]
    BY <1>2, Counted DEF Readdress
  <2> QED
    BY <1>2, <2>1 DEF Readdress, TypeOK, main, receiver
<1>3. CASE Expire
  BY <1>3 DEF Expire, TypeOK, main, receiver
<1>4. CASE UNCHANGED vars
  BY <1>4 DEF vars, TypeOK
<1> QED
  BY <1>1, <1>2, <1>3, <1>4, MainType, ServeType DEF Next

\* The state is well typed in every reachable state.
THEOREM TypeCorrect == Spec => []TypeOK
<1>1. Init => TypeOK
  BY InitIInv DEF IInv
<1> QED
  BY <1>1, StepType, PTL DEF Spec

-----------------------------------------------------------------------------
(* The inductive invariant.                                                  *)

\* What is whole stays whole: files are only added.
LEMMA WholeGrows ==
    ASSUME NEW a, NEW b, a \subseteq b, Whole(a)
    PROVE  Whole(b)
BY DEF Whole

LEMMA MainKeeps == IInv /\ Main => IInv'
<1> SUFFICES ASSUME IInv, Main PROVE IInv'
  OBVIOUS
<1> USE DEF IInv
<1>1. TypeOK'
  BY MainType
<1>2. Charged'
  BY DEF Main, Identify, Capabilities, Listen, Revalidate, Send, Record, Poll, Shutdown,
         Report, receiver, Charged, Owed
<1>3. Stage'
  <2>1. CASE Listen
    BY <2>1 DEF Listen, receiver, Stage, Step
  <2>2. CASE Shutdown
    BY <2>2 DEF Shutdown, receiver, Stage
  <2>3. CASE Report
    BY <2>3 DEF Report, receiver, Stage, Step
  <2>4. CASE Poll
    BY <2>4 DEF Poll, receiver, Stage, Step
  <2>5. CASE Identify \/ Capabilities \/ Revalidate \/ Send \/ Record
    BY <2>5 DEF Identify, Capabilities, Revalidate, Send, Record, receiver, Stage, Step
  <2> QED
    BY <2>1, <2>2, <2>3, <2>4, <2>5 DEF Main
<1>4. SentFrom' /\ SentToVerified'
  <2>1. CASE Identify
    BY <2>1 DEF Identify, SentFrom, SentToVerified, Step
  <2>2. CASE Revalidate
    BY <2>2 DEF Revalidate, SentFrom, SentToVerified, Step
  <2>3. CASE Capabilities \/ Listen \/ Send \/ Record
    BY <2>3 DEF Capabilities, Listen, Send, Record, SentFrom, SentToVerified, Step
  <2>4. CASE Poll \/ Shutdown \/ Report
    <3>1. UNCHANGED <<first, sent>> /\ pc' \in {"shutdown", "report", "done"}
      BY <2>4 DEF Poll, Shutdown, Report, Step
    <3> QED
      BY <3>1, <2>4 DEF SentFrom, SentToVerified, Poll, Shutdown, Report, Step
  <2> QED
    BY <2>1, <2>2, <2>3, <2>4 DEF Main
<1>5. Observation'
  <2>1. CASE Poll
    <3>1. report = Nothing
      BY <2>1 DEF Poll, Step, Stage
    <3>2. completed' => Whole(files)
      <4>1. CASE completed' = TRUE /\ Wanted \subseteq Observed /\ Valid
        BY <4>1 DEF Whole, Observed, Valid
      <4>2. CASE UNCHANGED completed
        BY <4>2 DEF Observation
      <4> QED
        BY <2>1, <4>1, <4>2 DEF Poll
    <3>3. files' = files /\ report' = report
      BY <2>1 DEF Poll, receiver
    <3> QED
      BY <3>1, <3>2, <3>3 DEF Observation, Whole
  <2>2. CASE Report
    <3>1. /\ completed' = (completed /\ ~failed)
          /\ report' = [completed |-> completed', files |-> files, failed |-> failed]
          /\ UNCHANGED <<files, failed>>
      BY <2>2 DEF Report, receiver
    <3>2. report'.files = files /\ report'.failed = failed
      BY <3>1
    <3>3. report'.completed = completed'
      BY <3>1
    <3> QED
      BY <3>1, <3>2, <3>3 DEF Observation, Whole
  <2>3. CASE UNCHANGED <<files, failed, completed, report>>
    BY <2>3 DEF Observation, Whole
  <2> QED
    BY <2>1, <2>2, <2>3
       DEF Main, Identify, Capabilities, Listen, Revalidate, Send, Record, Shutdown, receiver
<1> QED
  BY <1>1, <1>2, <1>3, <1>4, <1>5

LEMMA ServeKeeps == IInv /\ (Serve \/ Accept) => IInv'
<1> SUFFICES ASSUME IInv, Serve \/ Accept PROVE IInv'
  OBVIOUS
<1> USE DEF IInv
<1>1. TypeOK'
  BY ServeType
<1>2. UNCHANGED <<pc, first, sent, server, completed, report>>
  BY DEF Serve, Accept, Turn, Charge, Chunk, Extract, Parse, Answer, Reject, main
<1>3. server \in {"serving", "stopping"}
  BY DEF Serve, Accept, Turn, Charge, Chunk, Extract, Parse, Answer, Reject, Stage
<1>4. Stage' /\ SentFrom' /\ SentToVerified'
  BY <1>2, <1>3 DEF Stage, SentFrom, SentToVerified
<1>5. report = Nothing
  BY <1>3 DEF Stage
<1>6. files \subseteq files'
  BY DEF Serve, Accept, Turn, Charge, Chunk, Extract, Parse, Answer, Reject
<1>7. Observation'
  BY <1>2, <1>5, <1>6, WholeGrows DEF Observation, Whole
<1>8. Charged'
  <2>1. total \in Nat /\ stored \in Nat /\ MaxBytes \in Nat /\ MaxLength \in Nat
    BY ExportAssumption DEF TypeOK
  <2>2. upload # Nothing => upload \in Upload /\ upload.left \in Nat /\ upload.length \in Nat
    BY <2>1 DEF TypeOK, Upload
  <2>3. CASE Accept
    <3>1. upload'.at = "headers" /\ upload'.left = 0 /\ UNCHANGED <<total, stored>>
      BY <2>3 DEF Accept
    <3> QED
      BY <2>1, <3>1 DEF Charged, Owed
  <2>4. CASE Turn \/ Reject
    BY <2>4 DEF Turn, Reject, Charged
  <2>5. CASE Answer
    BY <2>5 DEF Answer, Charged
  <2>6. CASE Charge
    <3>1. PICK length \in 1 .. MaxLength :
              /\ total + length <= MaxBytes /\ total' = total + length
              /\ upload' = [at |-> "body", length |-> length, left |-> length, parts |-> {}]
      BY <2>6 DEF Charge
    <3>2. upload'.at = "body" /\ upload'.left = length /\ upload'.length = length /\ stored' = stored
      BY <2>6, <3>1 DEF Charge
    <3> QED
      BY <2>1, <3>1, <3>2 DEF Charged, Owed
  <2>7. CASE Chunk
    <3>1. PICK n \in 1 .. upload.left :
              /\ stored' = stored + n
              /\ upload' = IF n = upload.left
                           THEN [upload EXCEPT !.at = "parse", !.left = upload.length]
                           ELSE [upload EXCEPT !.left = @ - n]
      BY <2>7 DEF Chunk
    <3>2. upload # Nothing /\ upload.at = "body" /\ total' = total
      BY <2>7 DEF Chunk
    <3>3. stored + upload.left + upload.length <= 2 * total
      BY <2>1, <2>2, <3>2 DEF Charged, Owed
    <3>4. CASE n = upload.left
      <4>1. upload'.at = "parse" /\ upload'.left = upload.length
        BY <2>2, <3>1, <3>2, <3>4 DEF Upload
      <4> QED
        BY <2>1, <2>2, <3>1, <3>2, <3>3, <3>4, <4>1 DEF Charged, Owed
    <3>5. CASE n # upload.left
      <4>1. upload'.at = "body" /\ upload'.left = upload.left - n /\ upload'.length = upload.length
        BY <2>2, <3>1, <3>2, <3>5 DEF Upload
      <4> QED
        BY <2>1, <2>2, <3>1, <3>2, <3>3, <4>1 DEF Charged, Owed
    <3> QED
      BY <3>4, <3>5
  <2>8. CASE Extract
    <3>1. PICK n \in 1 .. upload.left, f \in File :
              /\ stored' = stored + n
              /\ upload' = [upload EXCEPT !.left = @ - n, !.parts = @ \cup {f}]
      BY <2>8 DEF Extract
    <3>2. upload # Nothing /\ upload.at = "parse" /\ total' = total
      BY <2>8 DEF Extract
    <3>3. upload'.at = "parse" /\ upload'.left = upload.left - n
      BY <2>2, <3>1, <3>2 DEF Upload
    <3>4. stored + upload.left <= 2 * total
      BY <3>2 DEF Charged, Owed
    <3> QED
      BY <2>1, <2>2, <3>1, <3>2, <3>3, <3>4 DEF Charged, Owed
  <2>9. CASE Parse
    <3>1. upload # Nothing /\ upload.at = "parse" /\ UNCHANGED <<total, stored>>
      BY <2>9 DEF Parse
    <3>2. upload'.at = "answer" /\ upload'.left = upload.left
      BY <2>2, <2>9, <3>1 DEF Parse, Upload
    <3> QED
      BY <3>1, <3>2 DEF Charged, Owed
  <2> QED
    BY <2>3, <2>4, <2>5, <2>6, <2>7, <2>8, <2>9 DEF Serve
<1> QED
  BY <1>1, <1>4, <1>7, <1>8

LEMMA StepIInv == IInv /\ [Next]_vars => IInv'
<1> SUFFICES ASSUME IInv, [Next]_vars PROVE IInv'
  OBVIOUS
<1>1. TypeOK'
  BY StepType DEF IInv
<1>2. CASE Raise
  <2>1. Stage' /\ SentFrom' /\ SentToVerified'
    BY <1>2 DEF Raise, IInv, Stage, SentFrom, SentToVerified, receiver
  <2>2. Charged' /\ Observation'
    BY <1>2 DEF Raise, IInv, Charged, Owed, Observation, Whole, receiver
  <2> QED
    BY <1>1, <2>1, <2>2 DEF IInv
<1>3. CASE Readdress \/ Expire \/ UNCHANGED vars
  <2>1. UNCHANGED <<main, receiver>>
    BY <1>3 DEF Readdress, Expire, vars, main, receiver
  <2>2. Stage' /\ SentFrom' /\ SentToVerified'
    BY <2>1 DEF IInv, Stage, SentFrom, SentToVerified, main, receiver
  <2>3. Charged' /\ Observation'
    BY <2>1 DEF IInv, Charged, Owed, Observation, Whole, main, receiver
  <2> QED
    BY <1>1, <2>2, <2>3 DEF IInv
<1> QED
  BY <1>2, <1>3, MainKeeps, ServeKeeps DEF Next

LEMMA AlwaysIInv == Spec => []IInv
BY InitIInv, StepIInv, PTL DEF Spec

-----------------------------------------------------------------------------
(* What the invariant says of the session.                                   *)

\* A report that says completed has every requested item in a checked file and
\* no rejected upload, however late the upload came (clone_export.py 276-285).
THEOREM CompletionSound == Spec => []CompletedIsWhole
<1>1. IInv => CompletedIsWhole
  BY DEF IInv, Observation, Whole, CompletedIsWhole
<1> QED
  BY <1>1, AlwaysIInv, PTL

\* Nothing is received or rejected after the report (clone_export.py 281-287).
THEOREM ReportFinal == Spec => []ReportIsFinal
<1>1. IInv => ReportIsFinal
  BY DEF IInv, Stage, Observation, ReportIsFinal
<1> QED
  BY <1>1, AlwaysIInv, PTL

\* The command names the TV of both identity checks (clone_export.py 263-268).
THEOREM SentVerified == Spec => []SentToVerified
<1>1. IInv => SentToVerified
  BY DEF IInv
<1> QED
  BY <1>1, AlwaysIInv, PTL

\* The byte budget bounds what is charged, and twice the budget what is written:
\* the room asked for before the session is enough (clone_export.py 194-207, 252).
THEOREM BudgetHolds == Spec => []BudgetKept
<1>1. IInv => BudgetKept
  <2> SUFFICES ASSUME IInv PROVE BudgetKept
    OBVIOUS
  <2>1. total \in Nat /\ stored \in Nat /\ MaxBytes \in Nat
    BY ExportAssumption DEF IInv, TypeOK
  <2> QED
    BY <2>1 DEF IInv, Charged, BudgetKept, Reserved
<1> QED
  BY <1>1, AlwaysIInv, PTL
-----------------------------------------------------------------------------
(* Discovery: the inventory and the commands.                                *)

Identities == TV \cup {Nobody}
ProcPoints == {"idle", "verify", "send", "select", "insert"}
Doing      == Operation \cup {"add"}
Procs      == [at: ProcPoints, does: Doing, target: Address \cup {Nobody}, expected: Identities,
               found: Identities, moved: BOOLEAN]

ProcType ==
    /\ present \in [Address -> Identities] /\ seen \subseteq TV \X Address
    /\ proc \in [Process -> Procs]

Approved(a, d, does) == <<a, d, does>> \in Allowed

\* What a command knows of its target.
Known(p) ==
    /\ p.at # "idle" => p.target \in Address
    /\ p.at \in {"select", "insert"} => p.found \in TV /\ <<p.found, p.target>> \in seen
    /\ p.at \in {"verify", "send"} /\ p.does # "add" => Approved(p.target, p.expected, p.does)
    /\ p.at = "send" =>
           /\ p.does # "add" /\ <<p.expected, p.target>> \in seen
           /\ ~p.moved => present[p.target] \in {p.expected, Nobody}

ProcInv == ProcType /\ InventoryIsTrue /\ CommandReachesAllowed /\ \A p \in Process : Known(proc[p])

LEMMA InitProcInv == ScanInit => ProcInv
BY DEF ScanInit, ProcInv, ProcType, Procs, Doing, Identities, ProcPoints, Rest, Known,
       InventoryIsTrue, CommandReachesAllowed

\* What was seen stays seen, and what a command knows as long as nobody moves.
LEMMA KnownStays ==
    ASSUME ProcInv, UNCHANGED <<present, inventory>>, CommandReachesAllowed', seen \subseteq seen',
           seen' \subseteq TV \X Address, NEW p \in Process, NEW q \in Procs,
           proc' = [proc EXCEPT ![p] = q], Known(q)'
    PROVE  ProcInv'
<1>1. ProcType' BY DEF ProcInv, ProcType
<1>2. InventoryIsTrue' BY DEF ProcInv, InventoryIsTrue
<1>4. \A r \in Process : Known(proc[r])'
  <2> SUFFICES ASSUME NEW r \in Process PROVE Known(proc[r])' OBVIOUS
  <2>1. CASE r = p
    <3>1. proc'[r] = q BY <2>1 DEF ProcInv, ProcType
    <3> QED BY <3>1 DEF Known
  <2>2. CASE r # p
    <3>1. proc'[r] = proc[r] BY <2>2
    <3> QED BY <3>1 DEF ProcInv, Known
  <2> QED BY <2>1, <2>2
<1> QED BY <1>1, <1>2, <1>4 DEF ProcInv

\* What was obeyed was approved, and stays so.
LEMMA StillAllowed ==
    ASSUME ProcInv, obeyed' = obeyed, seen \subseteq seen'
    PROVE  CommandReachesAllowed'
BY DEF ProcInv, CommandReachesAllowed

LEMMA BeginStep ==
    ASSUME ProcInv, NEW p \in Process, NEW a \in Address, NEW d \in TV,
           NEW does \in Operation \cup {"add"}, Begin(p, a, d, does)
    PROVE  ProcInv'
<1>1. PICK q : q = [Rest EXCEPT !.at = "verify", !.does = does, !.target = a, !.expected = d]
  OBVIOUS
<1>2. q = [at |-> "verify", does |-> does, target |-> a, expected |-> d, found |-> Nobody,
           moved |-> FALSE]
  BY <1>1 DEF Rest
<1>3. Known(q)' BY <1>2 DEF Known, Begin, Approved
<1>4. /\ proc' = [proc EXCEPT ![p] = q] /\ UNCHANGED <<present, inventory, obeyed, seen>>
  BY <1>1 DEF Begin, Checked, Others
<1>5. q \in Procs BY <1>2 DEF Procs, Doing, ProcPoints, Identities
<1>6. seen \subseteq seen' /\ seen' \subseteq TV \X Address BY <1>4 DEF ProcInv, ProcType
<1> QED BY <1>3, <1>4, <1>5, <1>6, KnownStays, StillAllowed

\* The only identity that a request to an address gives is that of the TV there.
LEMMA IdentifiedThere ==
    ASSUME ProcInv, NEW a \in Address, NEW response \in Answers(a), Identified(a, response) # Nobody
    PROVE  Identified(a, response) = present[a] /\ present[a] \in TV
BY DEF Identified, Answers, ProcInv, ProcType, Identities

LEMMA VerifyStep == ASSUME ProcInv, NEW p \in Process, Verify(p) PROVE ProcInv'
<1>1. /\ proc[p].at = "verify" /\ proc[p].target \in Address /\ proc[p] \in Procs
      /\ Known(proc[p]) /\ seen \subseteq TV \X Address
  BY DEF Verify, ProcInv, Known, ProcType
<1>2. PICK t \in Address : t = proc[p].target BY <1>1
<1>3. PICK response \in Answers(t) :
        Answered(p, Identified(t, response), Identified(t, response) # Nobody
                                               /\ Identified(t, response) = proc[p].expected)
  BY <1>2 DEF Verify
<1>4. UNCHANGED <<present, inventory, obeyed>> BY <1>3 DEF Answered, Others
<1>5. PICK who : who = Identified(t, response) OBVIOUS
<1>6. who # Nobody => who = present[t] /\ who \in TV BY <1>5, IdentifiedThere
<1>a. /\ seen' = IF who = Nobody THEN seen ELSE seen \cup {<<who, t>>}
      /\ proc' = [proc EXCEPT ![p] =
            IF who # Nobody /\ who = proc[p].expected
            THEN [proc[p] EXCEPT !.at = IF proc[p].does = "add" THEN "select" ELSE "send",
                                 !.found = who, !.moved = FALSE]
            ELSE Rest]
  BY <1>2, <1>3, <1>5 DEF Answered
<1>7. /\ seen \subseteq seen' /\ seen' \subseteq TV \X Address
      /\ who # Nobody => <<who, t>> \in seen'
  BY <1>1, <1>6, <1>a
<1>8. CASE who # Nobody /\ who = proc[p].expected
  <2>1. PICK q : q = [proc[p] EXCEPT !.at = IF proc[p].does = "add" THEN "select" ELSE "send",
                                     !.found = who, !.moved = FALSE]
    OBVIOUS
  <2>2. proc' = [proc EXCEPT ![p] = q] BY <1>8, <2>1, <1>a
  <2>3. /\ q \in Procs /\ q.target = t /\ q.found = who /\ q.expected = who
        /\ q.does = proc[p].does /\ q.at = IF q.does = "add" THEN "select" ELSE "send"
    BY <1>1, <1>2, <1>6, <1>8, <2>1 DEF Procs, ProcPoints, Identities
  <2>a. q.does # "add" => Approved(t, who, q.does) BY <1>1, <1>2, <1>8, <2>3 DEF Known
  <2>4. Known(q)' BY <1>4, <1>6, <1>7, <1>8, <2>3, <2>a DEF Known, Approved
  <2> QED BY <1>4, <1>7, <2>2, <2>3, <2>4, KnownStays, StillAllowed
<1>9. CASE ~(who # Nobody /\ who = proc[p].expected)
  <2>1. PICK q : q = Rest OBVIOUS
  <2>2. proc' = [proc EXCEPT ![p] = q] BY <1>a, <1>9, <2>1
  <2>3. q \in Procs /\ Known(q)' BY <2>1 DEF Rest, Procs, Doing, ProcPoints, Identities, Known
  <2> QED BY <1>4, <1>7, <2>2, <2>3, KnownStays, StillAllowed
<1> QED BY <1>8, <1>9

\* Whoever obeys has taken the address over, or is the one that was verified.
LEMMA SendStep == ASSUME ProcInv, NEW p \in Process, SendCommand(p) PROVE ProcInv'
<1>1. PICK q : q = Rest OBVIOUS
<1>2. proc' = [proc EXCEPT ![p] = q] /\ UNCHANGED <<present, inventory, seen>>
  BY <1>1 DEF SendCommand, Others
<1>3. CommandReachesAllowed'
  <2>1. /\ proc[p].at = "send" /\ Known(proc[p]) /\ proc[p] \in Procs /\ CommandReachesAllowed
        /\ seen \subseteq TV \X Address
    BY DEF ProcInv, ProcType, SendCommand
  <2>2. PICK a, e, does, there :
            /\ a = proc[p].target /\ e = proc[p].expected /\ does = proc[p].does
            /\ there = present[proc[p].target]
    OBVIOUS
  <2>3. /\ <<a, e, does>> \in Allowed /\ <<e, a>> \in seen /\ e \in TV
        /\ ~proc[p].moved => there \in {e, Nobody}
    BY <2>1, <2>2 DEF Known, Approved
  <2>4. CASE there = Nobody
    <3>1. obeyed' = obeyed BY <2>2, <2>4 DEF SendCommand
    <3> QED BY <1>2, <3>1, StillAllowed
  <2>5. CASE there # Nobody
    <3>1. PICK new : new = [device |-> there, ip |-> a, does |-> does, moved |-> proc[p].moved]
      OBVIOUS
    <3>2. obeyed' = obeyed \cup {new} BY <2>2, <2>5, <3>1 DEF SendCommand
    <3>3. /\ \E d \in TV : <<new.ip, d, new.does>> \in Allowed /\ <<d, new.ip>> \in seen
          /\ new.moved \/ <<new.ip, new.device, new.does>> \in Allowed
      BY <2>3, <2>5, <3>1
    <3> QED BY <1>2, <2>1, <3>2, <3>3 DEF CommandReachesAllowed
  <2> QED BY <2>4, <2>5
<1>4. Known(q)' /\ q \in Procs
  BY <1>1 DEF Rest, Procs, Doing, ProcPoints, Identities, Known
<1>5. seen \subseteq seen' /\ seen' \subseteq TV \X Address BY <1>2 DEF ProcInv, ProcType
<1> QED BY <1>2, <1>3, <1>4, <1>5, KnownStays

LEMMA SelectStep == ASSUME ProcInv, NEW p \in Process, Select(p) PROVE ProcInv'
<1>1. /\ proc[p].at = "select" /\ Known(proc[p]) /\ proc[p] \in Procs
      /\ UNCHANGED <<present, inventory, obeyed, seen>> /\ seen \subseteq TV \X Address
  BY DEF Select, Others, ProcInv, ProcType
<1>2. PICK q \in {Rest, [proc[p] EXCEPT !.at = "insert"]} : proc' = [proc EXCEPT ![p] = q]
  BY DEF Select, To
<1>3. Known(q)' /\ q \in Procs
  <2>1. CASE q = Rest BY <2>1 DEF Rest, Procs, Doing, ProcPoints, Identities, Known
  <2>2. CASE q = [proc[p] EXCEPT !.at = "insert"]
    <3>1. /\ q \in Procs /\ q.at = "insert"
          /\ q.target = proc[p].target /\ q.found = proc[p].found
      BY <1>1, <2>2 DEF Procs, ProcPoints
    <3> QED BY <1>1, <3>1 DEF Known
  <2> QED BY <1>2, <2>1, <2>2
<1> QED BY <1>1, <1>2, <1>3, KnownStays, StillAllowed

LEMMA InsertStep == ASSUME ProcInv, NEW p \in Process, Insert(p) PROVE ProcInv'
<1>1. /\ proc[p].found \in TV /\ <<proc[p].found, proc[p].target>> \in seen
      /\ UNCHANGED <<present, obeyed, seen>> /\ proc \in [Process -> Procs]
  BY DEF Insert, Others, ProcInv, ProcType, Known
<1>2. PICK q : q = Rest OBVIOUS
<1>3. proc' = [proc EXCEPT ![p] = q] /\ q \in Procs
  BY <1>2 DEF Insert, Rest, Procs, Doing, ProcPoints, Identities
<1>4. ProcType' BY <1>1, <1>3 DEF ProcInv, ProcType
<1>5. \A r \in Process : Known(proc[r])'
  <2> SUFFICES ASSUME NEW r \in Process PROVE Known(proc[r])' OBVIOUS
  <2>1. CASE r = p
    <3>1. proc'[r].at = "idle" BY <1>1, <1>2, <1>3, <2>1 DEF Rest
    <3> QED BY <3>1 DEF Known
  <2>2. CASE r # p
    <3>1. proc'[r] = proc[r] BY <1>3, <2>2
    <3> QED BY <1>1, <3>1 DEF ProcInv, Known
  <2> QED BY <2>1, <2>2
<1>6. InventoryIsTrue'
  <2> DEFINE others == {row \in inventory : row.device # proc[p].found}
             new    == [device |-> proc[p].found, ip |-> proc[p].target]
  <2>1. CASE inventory' = inventory BY <1>1, <2>1 DEF ProcInv, InventoryIsTrue
  <2>2. CASE /\ inventory' = others \cup {new}
             /\ \A row \in others : row.ip # proc[p].target
    <3>1. \A row \in inventory' :
              \/ row = new
              \/ row \in inventory /\ row.device # new.device /\ row.ip # new.ip
      BY <2>2
    <3>2. \A r, s \in inventory : r.device = s.device <=> r.ip = s.ip
      BY DEF ProcInv, InventoryIsTrue
    <3>3. \A r, s \in inventory' : r.device = s.device <=> r.ip = s.ip
      <4> HIDE DEF new
      <4> QED BY <3>1, <3>2
    <3>4. ASSUME NEW r \in inventory' PROVE <<r.device, r.ip>> \in seen
      <4>1. CASE r \in inventory BY <4>1 DEF ProcInv, InventoryIsTrue
      <4>2. CASE r = new BY <1>1, <4>2
      <4> QED BY <3>1, <4>1, <4>2
    <3> QED BY <1>1, <3>3, <3>4 DEF InventoryIsTrue
  <2> QED BY <2>1, <2>2 DEF Insert
<1>7. CommandReachesAllowed' BY <1>1 DEF ProcInv, CommandReachesAllowed
<1> QED BY <1>4, <1>5, <1>6, <1>7 DEF ProcInv

\* A TV that goes somewhere else leaves its address to nobody; whoever takes over the target
\* of a command is known to have moved there.
LEMMA MoveStep == ASSUME ProcInv, Move PROVE ProcInv'
<1>1. PICK a \in Address, d \in Identities :
        /\ present' = [b \in Address |-> IF b = a THEN d
                                         ELSE IF present[b] = d THEN Nobody ELSE present[b]]
        /\ proc' = [p \in Process |-> [proc[p] EXCEPT !.moved = @ \/ proc[p].target = a]]
  BY DEF Move, Identities
<1>2. UNCHANGED <<seen, inventory, obeyed>> BY DEF Move
<1>3. ProcType'
  <2>1. proc' \in [Process -> Procs] BY <1>1 DEF ProcInv, ProcType, Procs
  <2> QED BY <1>1, <1>2, <2>1 DEF ProcInv, ProcType, Identities
<1>4. InventoryIsTrue' /\ CommandReachesAllowed'
  BY <1>2 DEF ProcInv, InventoryIsTrue, CommandReachesAllowed
<1>5. \A p \in Process : Known(proc[p])'
  <2> SUFFICES ASSUME NEW p \in Process PROVE Known(proc[p])' OBVIOUS
  <2>1. /\ proc'[p].at = proc[p].at /\ proc'[p].target = proc[p].target
        /\ proc'[p].found = proc[p].found /\ proc'[p].expected = proc[p].expected
        /\ proc'[p].does = proc[p].does
        /\ ~proc'[p].moved => ~proc[p].moved /\ proc[p].target # a
    BY <1>1 DEF ProcInv, ProcType, Procs
  <2>2. Known(proc[p]) BY DEF ProcInv
  <2>3. proc[p].target \in Address /\ proc[p].target # a =>
            present'[proc[p].target] \in {present[proc[p].target], Nobody}
    BY <1>1
  <2>4. proc[p].at = "send" /\ ~proc'[p].moved =>
            present'[proc[p].target] \in {proc[p].expected, Nobody}
    BY <2>1, <2>2, <2>3 DEF Known
  <2> QED BY <1>2, <2>1, <2>2, <2>4 DEF Known, Approved
<1> QED BY <1>3, <1>4, <1>5 DEF ProcInv

\* A scan only adds to what was seen.
LEMMA ScanKeepsProcs ==
    ASSUME ProcInv, UNCHANGED <<present, proc, inventory, obeyed>>, seen \subseteq seen',
           seen' \subseteq TV \X Address
    PROVE  ProcInv'
<1>1. ProcType' BY DEF ProcInv, ProcType
<1>2. InventoryIsTrue' BY DEF ProcInv, InventoryIsTrue
<1>3. CommandReachesAllowed' BY StillAllowed
<1>4. \A r \in Process : Known(proc[r])' BY DEF ProcInv, Known, Approved
<1> QED BY <1>1, <1>2, <1>3, <1>4 DEF ProcInv

LEMMA ProcInvStep == ProcInv /\ [ScanNext]_scanVars => ProcInv'
<1> SUFFICES ASSUME ProcInv, [ScanNext]_scanVars PROVE ProcInv'
  OBVIOUS
<1>1. ASSUME UNCHANGED <<present, proc, inventory, obeyed, seen>> PROVE ProcInv'
  BY <1>1, ScanKeepsProcs DEF ProcInv, ProcType
<1>2. ASSUME NEW a \in Address, Probe(a) PROVE ProcInv'
  <2>1. PICK response \in Answers(a) :
           seen' = IF Identified(a, response) = Nobody THEN seen
                   ELSE seen \cup {<<Identified(a, response), a>>}
    BY <1>2 DEF Probe
  <2>2. seen' \subseteq TV \X Address BY <2>1, IdentifiedThere DEF ProcInv, ProcType
  <2> QED BY <1>2, <2>1, <2>2, ScanKeepsProcs DEF Probe
<1> QED BY <1>1, <1>2, MoveStep, BeginStep, VerifyStep, SendStep, SelectStep, InsertStep
        DEF ScanNext, Scan, Top, Submit, Filled, Collect, Cancel, BeginScan, ScanOnly, Control, scanVars

\* However additions, moves and answers interleave, the inventory keeps one address for a TV
\* and one TV for an address, each pair one that a command saw.
THEOREM InventoryTrue == ScanSpec => []InventoryIsTrue
<1>1. ProcInv => InventoryIsTrue BY DEF ProcInv
<1> QED BY <1>1, InitProcInv, ProcInvStep, PTL DEF ScanSpec

\* A TV obeys an operation only where the allowlist approves it for a device that was seen
\* there, and only that device does, unless another one has taken the address over since.
THEOREM CommandReaches == ScanSpec => []CommandReachesAllowed
<1>1. ProcInv => CommandReachesAllowed BY DEF ProcInv
<1> QED BY <1>1, InitProcInv, ProcInvStep, PTL DEF ScanSpec

-----------------------------------------------------------------------------
(* Discovery: the scan.  Every target is in exactly one place, and what was   *)
(* submitted stays pending until it is reported.                              *)

Results == [target: Address, who: Identities]
Targets(rs) == {r.target : r \in rs}
Single(rs)  == \A r, s \in rs : r.target = s.target => r = s

Scanners ==
    [at: {"idle", "top", "fill", "wait", "ended"}, requested: SUBSET Address, left: Seq(Address),
     exhausted: BOOLEAN, submitted: SUBSET Address, pending: SUBSET Address,
     done: SUBSET Results, devices: SUBSET Results, failures: SUBSET Address]

ScanType ==
    /\ scanner \in Scanners /\ cancel \in BOOLEAN

Apart ==
    LET reported == Targets(scanner.devices) IN
    /\ Single(scanner.done) /\ Single(scanner.devices)
    /\ Targets(scanner.done) \subseteq scanner.pending
    /\ scanner.pending \cap reported = {} /\ scanner.pending \cap scanner.failures = {}
    /\ reported \cap scanner.failures = {}
    /\ \A i \in 1 .. Len(scanner.left) :
           /\ scanner.left[i] \notin scanner.pending \cup reported \cup scanner.failures
           /\ \A j \in 1 .. Len(scanner.left) : scanner.left[i] = scanner.left[j] => i = j

ToCome == {scanner.left[i] : i \in 1 .. Len(scanner.left)}

Accounted ==
    /\ scanner.submitted = scanner.pending \cup Targets(scanner.devices) \cup scanner.failures
    /\ ~cancel => scanner.requested = ToCome \cup scanner.submitted
    /\ ~cancel /\ scanner.exhausted => scanner.left = <<>>
    /\ scanner.at = "ended" => scanner.pending = {} /\ scanner.exhausted

Witnessed ==
    /\ \A r \in scanner.done : r.who # Nobody => <<r.who, r.target>> \in seen
    /\ \A r \in scanner.devices : <<r.who, r.target>> \in seen

ScanInv == ScanType /\ Apart /\ Accounted /\ Witnessed

LEMMA InitScanInv == ScanInit => ScanInv
<1> SUFFICES ASSUME ScanInit PROVE ScanInv
  OBVIOUS
<1>1. /\ scanner = [at |-> "idle", requested |-> {}, left |-> <<>>, exhausted |-> FALSE,
                    submitted |-> {}, pending |-> {}, done |-> {}, devices |-> {}, failures |-> {}]
      /\ cancel = FALSE
  BY DEF ScanInit, NoScan
<1>2. ScanType
  <2>1. <<>> \in Seq(Address) OBVIOUS
  <2> QED BY <1>1, <2>1 DEF ScanType, Scanners
<1>3. Apart BY <1>1 DEF Apart, Single, Targets
<1>4. Accounted BY <1>1 DEF Accounted, ToCome, Targets
<1>5. Witnessed BY <1>1 DEF Witnessed
<1> QED BY <1>2, <1>3, <1>4, <1>5 DEF ScanInv

\* A scan is begun with each target once.
LEMMA BeginScanStep ==
    ASSUME ScanInv, NEW n \in 1 .. Cardinality(Address), NEW order \in [1 .. n -> Address],
           \A i, j \in DOMAIN order : i # j => order[i] # order[j], BeginScan(order)
    PROVE  ScanInv'
<1>1. Cardinality(Address) \in Nat BY DiscoveryAssumption, FS_CardinalityType
<1>2. n \in Nat /\ order \in Seq(Address) /\ Len(order) = n /\ DOMAIN order = 1 .. n BY <1>1
<1>3. scanner' = [at |-> "top", requested |-> {order[i] : i \in DOMAIN order}, left |-> order,
                  exhausted |-> FALSE, submitted |-> {},
                  pending |-> {}, done |-> {}, devices |-> {}, failures |-> {}]
      /\ cancel' = FALSE /\ seen' = seen
  BY <1>2 DEF BeginScan, NoScan
<1>4. ScanType' BY <1>2, <1>3 DEF ScanType, Scanners
<1>5. Apart' BY <1>2, <1>3 DEF Apart, Single, Targets
<1>6. Accounted' BY <1>2, <1>3 DEF Accounted, ToCome, Targets
<1>7. Witnessed' BY <1>3 DEF Witnessed
<1> QED BY <1>4, <1>5, <1>6, <1>7 DEF ScanInv

\* The targets stay where they are.
LEMMA LoopStep ==
    ASSUME ScanInv, cancel' \in BOOLEAN, cancel => cancel', seen \subseteq seen',
           NEW here \in {"idle", "top", "fill", "wait", "ended"}, NEW x \in BOOLEAN,
           scanner' = [scanner EXCEPT !.at = here, !.exhausted = x],
           ~cancel' /\ x => scanner.left = <<>>,
           here = "ended" => scanner.pending = {} /\ x
    PROVE  ScanInv'
<1>1. /\ scanner'.at = here /\ scanner'.exhausted = x /\ scanner'.requested = scanner.requested
      /\ scanner'.left = scanner.left /\ scanner'.pending = scanner.pending
      /\ scanner'.submitted = scanner.submitted
      /\ scanner'.done = scanner.done /\ scanner'.devices = scanner.devices
      /\ scanner'.failures = scanner.failures /\ scanner' \in Scanners
  BY DEF ScanInv, ScanType, Scanners
<1>2. ScanType' BY <1>1 DEF ScanInv, ScanType
<1>3. Apart' BY <1>1 DEF ScanInv, Apart
<1>5. Accounted' BY <1>1 DEF ScanInv, Accounted, ToCome
<1>6. Witnessed' BY <1>1 DEF ScanInv, Witnessed
<1> QED BY <1>2, <1>3, <1>5, <1>6 DEF ScanInv

\* The next target is dropped when the scan was cancelled, or goes to the pool.
LEMMA SubmitStep == ASSUME ScanInv, Submit PROVE ScanInv'
<1>1. /\ scanner.at = "fill" /\ ~scanner.exhausted /\ UNCHANGED <<cancel, seen>>
      /\ cancel \in BOOLEAN /\ scanner.left \in Seq(Address)
  BY DEF Submit, ScanOnly, ScanInv, ScanType, Scanners
<1>2. CASE scanner.left = <<>>
  <2>1. scanner' = [scanner EXCEPT !.at = "fill", !.exhausted = TRUE]
    <3>1. scanner' = [scanner EXCEPT !.exhausted = TRUE] BY <1>2 DEF Submit
    <3> QED BY <1>1, <3>1 DEF ScanInv, ScanType, Scanners
  <2> QED BY <1>1, <1>2, <2>1, LoopStep
<1>3. CASE scanner.left # <<>>
  <2>1. /\ Head(scanner.left) \in Address /\ Head(scanner.left) = scanner.left[1]
        /\ Tail(scanner.left) \in Seq(Address) /\ Len(Tail(scanner.left)) = Len(scanner.left) - 1
        /\ \A i \in 1 .. Len(Tail(scanner.left)) : Tail(scanner.left)[i] = scanner.left[i + 1]
        /\ Len(scanner.left) \in Nat \ {0}
    BY <1>1, <1>3
  <2>2. PICK more \in SUBSET {scanner.left[1]}, x \in BOOLEAN :
           /\ scanner' = [scanner EXCEPT !.left = Tail(scanner.left), !.exhausted = x,
                                         !.submitted = scanner.submitted \cup more,
                                         !.pending = scanner.pending \cup more]
           /\ ~cancel => ~x /\ more = {scanner.left[1]}
    <3>1. CASE cancel
      <4>1. scanner' = [scanner EXCEPT !.left = Tail(scanner.left), !.exhausted = TRUE]
        BY <1>3, <3>1 DEF Submit
      <4>2. scanner' = [scanner EXCEPT !.left = Tail(scanner.left), !.exhausted = TRUE,
                                       !.submitted = scanner.submitted \cup {},
                                       !.pending = scanner.pending \cup {}]
        BY <4>1 DEF ScanInv, ScanType, Scanners
      <4> QED BY <3>1, <4>2
    <3>2. CASE ~cancel
      <4>1. scanner' = [scanner EXCEPT !.left = Tail(scanner.left),
                                       !.pending = scanner.pending \cup {Head(scanner.left)},
                                       !.submitted = scanner.submitted \cup {Head(scanner.left)}]
        BY <1>3, <3>2 DEF Submit
      <4>2. scanner' = [scanner EXCEPT !.left = Tail(scanner.left), !.exhausted = FALSE,
                                       !.submitted = scanner.submitted \cup {scanner.left[1]},
                                       !.pending = scanner.pending \cup {scanner.left[1]}]
        BY <1>1, <2>1, <4>1 DEF ScanInv, ScanType, Scanners
      <4> QED BY <3>2, <4>2
    <3> QED BY <3>1, <3>2
  <2>3. /\ scanner'.at = "fill" /\ scanner'.exhausted = x /\ scanner'.requested = scanner.requested
        /\ scanner'.left = Tail(scanner.left) /\ scanner'.pending = scanner.pending \cup more
        /\ scanner'.submitted = scanner.submitted \cup more
        /\ scanner'.done = scanner.done /\ scanner'.devices = scanner.devices
        /\ scanner'.failures = scanner.failures /\ scanner' \in Scanners
    BY <1>1, <2>1, <2>2 DEF ScanInv, ScanType, Scanners
  <2>4. scanner.left[1] \notin scanner.pending \cup Targets(scanner.devices) \cup scanner.failures
    BY <2>1 DEF ScanInv, Apart
  <2>6. ScanType' BY <1>1, <2>3 DEF ScanInv, ScanType
  <2>7. Apart'
    <3> USE DEF Apart, ScanInv
    <3>1. /\ Single(scanner'.done) /\ Single(scanner'.devices)
          /\ Targets(scanner'.done) \subseteq scanner'.pending
          /\ Targets(scanner'.devices) \cap scanner'.failures = {}
      BY <2>3
    <3>2. /\ scanner'.pending \cap Targets(scanner'.devices) = {}
          /\ scanner'.pending \cap scanner'.failures = {}
      BY <2>3, <2>4
    <3>3. ASSUME NEW i \in 1 .. Len(scanner'.left)
          PROVE  /\ scanner'.left[i] \notin scanner'.pending \cup Targets(scanner'.devices) \cup scanner'.failures
                 /\ \A j \in 1 .. Len(scanner'.left) : scanner'.left[i] = scanner'.left[j] => i = j
      <4>1. /\ i + 1 \in 1 .. Len(scanner.left) /\ i + 1 # 1 /\ scanner'.left[i] = scanner.left[i + 1]
            /\ 1 \in 1 .. Len(scanner.left)
            /\ \A j \in 1 .. Len(scanner'.left) : j + 1 \in 1 .. Len(scanner.left)
                                                  /\ scanner'.left[j] = scanner.left[j + 1]
        BY <2>1, <2>3
      <4>2. scanner.left[i + 1] # scanner.left[1] BY <4>1
      <4>3. \A j \in 1 .. Len(scanner'.left) : scanner'.left[i] = scanner'.left[j] => i + 1 = j + 1
        BY <4>1
      <4>4. \A j \in 1 .. Len(scanner'.left) : i + 1 = j + 1 => i = j OBVIOUS
      <4> QED BY <2>2, <2>3, <4>1, <4>2, <4>3, <4>4
    <3> QED BY <3>1, <3>2, <3>3
  <2>8. Accounted'
    <3>1. ToCome \subseteq ToCome' \cup {scanner.left[1]} /\ ToCome' \subseteq ToCome
      <4>1. ASSUME NEW i \in 1 .. Len(scanner.left), i # 1
            PROVE  scanner.left[i] \in ToCome'
        <5>1. i - 1 \in 1 .. Len(scanner'.left) /\ scanner'.left[i - 1] = scanner.left[i]
          BY <2>1, <2>3, <4>1
        <5> QED BY <5>1 DEF ToCome
      <4>2. ASSUME NEW i \in 1 .. Len(scanner'.left) PROVE scanner'.left[i] \in ToCome
        <5>1. i + 1 \in 1 .. Len(scanner.left) /\ scanner'.left[i] = scanner.left[i + 1]
          BY <2>1, <2>3
        <5> QED BY <5>1 DEF ToCome
      <4> QED BY <4>1, <4>2 DEF ToCome
    <3>2. scanner.left[1] \in ToCome BY <2>1 DEF ToCome
    <3>3. scanner'.submitted = scanner'.pending \cup Targets(scanner'.devices) \cup scanner'.failures
      BY <2>3 DEF ScanInv, Accounted
    <3>4. ~cancel' => scanner'.requested = ToCome' \cup scanner'.submitted
      BY <1>1, <2>2, <2>3, <3>1, <3>2 DEF ScanInv, Accounted
    <3> QED BY <1>1, <2>2, <2>3, <3>3, <3>4 DEF Accounted
  <2>9. Witnessed' BY <1>1, <2>3 DEF ScanInv, Witnessed
  <2> QED BY <2>6, <2>7, <2>8, <2>9 DEF ScanInv
<1> QED BY <1>2, <1>3

LEMMA ProbeStep == ASSUME ScanInv, ProcInv, NEW a \in Address, Probe(a) PROVE ScanInv'
<1>1. PICK response \in Answers(a) :
        /\ scanner' = [scanner EXCEPT !.done = @ \cup {[target |-> a, who |-> Identified(a, response)]}]
        /\ seen' = IF Identified(a, response) = Nobody THEN seen
                   ELSE seen \cup {<<Identified(a, response), a>>}
  BY DEF Probe
<1>2. PICK who \in Identities : who = Identified(a, response)
  BY IdentifiedThere DEF Identities
<1>3. PICK new \in Results : new = [target |-> a, who |-> who] BY DEF Results
<1>4. a \in scanner.pending /\ a \notin Targets(scanner.done) /\ UNCHANGED cancel
  BY DEF Probe, Targets
<1>5. /\ scanner'.at = scanner.at /\ scanner'.exhausted = scanner.exhausted
      /\ scanner'.requested = scanner.requested /\ scanner'.submitted = scanner.submitted
      /\ scanner'.left = scanner.left /\ scanner'.pending = scanner.pending
      /\ scanner'.done = scanner.done \cup {new} /\ scanner'.devices = scanner.devices
      /\ scanner'.failures = scanner.failures /\ scanner' \in Scanners
  BY <1>1, <1>2, <1>3 DEF ScanInv, ScanType, Scanners
<1>7. ScanType' BY <1>4, <1>5 DEF ScanInv, ScanType
<1>8. Apart'
  <2>1. new.target = a BY <1>3
  <2>2. Single(scanner'.done) BY <1>4, <1>5, <2>1 DEF Single, Targets, ScanInv, Apart
  <2>3. Targets(scanner'.done) \subseteq scanner'.pending
    BY <1>4, <1>5, <2>1 DEF Targets, ScanInv, Apart
  <2> QED BY <1>5, <2>2, <2>3 DEF ScanInv, Apart
<1>10. Accounted' BY <1>4, <1>5 DEF ScanInv, Accounted, ToCome
<1>11. Witnessed'
  <2>1. new.who # Nobody => <<new.who, new.target>> \in seen' BY <1>1, <1>2, <1>3
  <2>2. seen \subseteq seen' BY <1>1
  <2> QED BY <1>5, <2>1, <2>2 DEF ScanInv, Witnessed
<1> QED BY <1>7, <1>8, <1>10, <1>11 DEF ScanInv

\* What is done becomes a device or a failure, one for one.
LEMMA CollectStep == ASSUME ScanInv, Collect PROVE ScanInv'
<1> DEFINE T == Targets(scanner.done)
           good == {r \in scanner.done : r.who # Nobody}
           bad == scanner.done \ good
           there == IF scanner.exhausted /\ scanner.pending = T THEN "ended" ELSE "top"
<1>1. UNCHANGED <<cancel, seen>> /\ scanner.done \subseteq Results
  BY DEF Collect, ScanOnly, ScanInv, ScanType, Scanners
<1>2. scanner' = [scanner EXCEPT
            !.pending = scanner.pending \ T, !.done = {},
            !.devices = scanner.devices \cup good, !.failures = scanner.failures \cup Targets(bad),
            !.at = there]
  BY DEF Collect, Targets
<1>3. Targets(bad) \subseteq Address /\ there \in {"top", "ended"} BY <1>1 DEF Targets, Results
<1>4. /\ scanner'.at = there /\ scanner'.exhausted = scanner.exhausted
      /\ scanner'.requested = scanner.requested /\ scanner'.submitted = scanner.submitted
      /\ scanner'.left = scanner.left /\ scanner'.pending = scanner.pending \ T
      /\ scanner'.done = {} /\ scanner'.devices = scanner.devices \cup good
      /\ scanner'.failures = scanner.failures \cup Targets(bad) /\ scanner' \in Scanners
  <2> HIDE DEF there, T
  <2> QED BY <1>1, <1>2, <1>3 DEF ScanInv, ScanType, Scanners
<1>5. /\ good \subseteq scanner.done /\ bad \subseteq scanner.done /\ good \cap bad = {}
      /\ good \cup bad = scanner.done
  OBVIOUS
<1>6. T = Targets(good) \cup Targets(bad) BY <1>5 DEF Targets
<1>7. Targets(good) \cap Targets(bad) = {} BY <1>5 DEF Targets, Single, ScanInv, Apart
<1>8. Single(good) BY <1>5 DEF Single, ScanInv, Apart
<1> HIDE DEF good, bad, T, there
<1>12. T \subseteq scanner.pending BY DEF T, ScanInv, Apart
<1>16. ScanType' BY <1>1, <1>4 DEF ScanInv, ScanType
<1>18. Targets(scanner'.devices) = Targets(scanner.devices) \cup Targets(good)
  BY <1>4 DEF Targets
<1>19. Apart'
  <2>1. /\ Single(scanner'.done) /\ Targets(scanner'.done) \subseteq scanner'.pending
    BY <1>4 DEF Single, Targets
  <2>2. Single(scanner'.devices)
    <3>1. \A r \in scanner.devices, q \in good : r.target # q.target
      BY <1>6, <1>12 DEF Targets, ScanInv, Apart
    <3>2. Single(scanner.devices) BY DEF ScanInv, Apart
    <3> QED BY <1>4, <1>8, <3>1, <3>2 DEF Single
  <2>3. /\ scanner'.pending \cap Targets(scanner'.devices) = {}
        /\ scanner'.pending \cap scanner'.failures = {}
        /\ Targets(scanner'.devices) \cap scanner'.failures = {}
    BY <1>4, <1>6, <1>7, <1>12, <1>18 DEF ScanInv, Apart
  <2>4. scanner'.pending \cup Targets(scanner'.devices) \cup scanner'.failures
          \subseteq scanner.pending \cup Targets(scanner.devices) \cup scanner.failures
    BY <1>4, <1>6, <1>12, <1>18
  <2> QED BY <1>4, <2>1, <2>2, <2>3, <2>4 DEF ScanInv, Apart
<1>20. Accounted'
  <2>1. scanner'.submitted = scanner'.pending \cup Targets(scanner'.devices) \cup scanner'.failures
    BY <1>4, <1>6, <1>12, <1>18 DEF ScanInv, Accounted
  <2>2. ToCome' = ToCome BY <1>4 DEF ToCome
  <2> QED BY <1>1, <1>4, <2>1, <2>2 DEF ScanInv, Accounted, there
<1>21. Witnessed' BY <1>1, <1>4 DEF ScanInv, Witnessed, good
<1> QED BY <1>16, <1>19, <1>20, <1>21 DEF ScanInv

LEMMA ScanInvStep == ScanInv /\ ProcInv /\ [ScanNext]_scanVars => ScanInv'
<1> SUFFICES ASSUME ScanInv, ProcInv, [ScanNext]_scanVars PROVE ScanInv'
  OBVIOUS
<1>1. ASSUME NEW n \in 1 .. Cardinality(Address), NEW order \in [1 .. n -> Address],
             \A i, j \in DOMAIN order : i # j => order[i] # order[j], BeginScan(order)
      PROVE  ScanInv'
  BY <1>1, BeginScanStep
<1>2. ASSUME Top PROVE ScanInv'
  <2>1. PICK x \in BOOLEAN : x = (scanner.exhausted \/ cancel) BY DEF ScanInv, ScanType, Scanners
  <2>2. scanner' = [scanner EXCEPT !.at = "fill", !.exhausted = x] /\ UNCHANGED <<cancel, seen>>
    BY <1>2, <2>1 DEF Top, ScanOnly, ScanInv, ScanType, Scanners
  <2> QED BY <2>1, <2>2, LoopStep DEF ScanInv, ScanType, Accounted
<1>3. ASSUME Filled PROVE ScanInv'
  <2>1. PICK x \in BOOLEAN, here \in {"ended", "wait"} :
           x = scanner.exhausted /\ here = IF scanner.pending = {} THEN "ended" ELSE "wait"
    BY DEF ScanInv, ScanType, Scanners
  <2>2. scanner' = [scanner EXCEPT !.at = here, !.exhausted = x] /\ UNCHANGED <<cancel, seen>>
    BY <1>3, <2>1 DEF Filled, ScanOnly, ScanInv, ScanType, Scanners
  <2>3. scanner.pending = {} => x
    <3>1. Cardinality({}) = 0 BY FS_EmptySet
    <3>2. scanner.pending = {} => ~(Cardinality(scanner.pending) >= Concurrency)
      BY <3>1, DiscoveryAssumption
    <3> QED BY <1>3, <2>1, <3>2 DEF Filled
  <2> QED BY <2>1, <2>2, <2>3, LoopStep DEF ScanInv, ScanType, Accounted
<1>4. ASSUME Cancel PROVE ScanInv'
  <2>1. scanner' = scanner /\ cancel' = TRUE /\ seen' = seen BY <1>4 DEF Cancel
  <2> QED BY <2>1 DEF ScanInv, ScanType, Apart, Accounted, ToCome, Witnessed
<1>5. ASSUME UNCHANGED <<scanner, cancel>>, seen \subseteq seen' PROVE ScanInv'
  BY <1>5 DEF ScanInv, ScanType, Apart, Accounted, ToCome, Witnessed
<1>6. ASSUME NEW p \in Process, Control(p) PROVE UNCHANGED <<scanner, cancel>> /\ seen \subseteq seen'
  BY <1>6 DEF Control, Begin, Checked, Verify, Answered, SendCommand, Select, Insert, Others
<1> QED BY <1>1, <1>2, <1>3, <1>4, <1>5, <1>6, SubmitStep, ProbeStep, CollectStep
        DEF ScanNext, Scan, Move, scanVars

\* A scan that ended has reported every probe it submitted, once and as what was seen,
\* whatever the order of the answers and whether it was cancelled or not, and it submitted
\* every target unless it was cancelled.
THEOREM ScanIsAccounted == ScanSpec => []ScanAccounts
<1>1. ScanInv => ScanAccounts
  <2> SUFFICES ASSUME ScanInv, scanner.at = "ended"
               PROVE  /\ scanner.submitted = Targets(scanner.devices) \cup scanner.failures
                      /\ Targets(scanner.devices) \cap scanner.failures = {}
                      /\ Single(scanner.devices)
                      /\ \A r \in scanner.devices : <<r.who, r.target>> \in seen
                      /\ cancel \/ scanner.submitted = scanner.requested
    BY DEF ScanAccounts, Targets, Single
  <2>1. scanner.submitted = Targets(scanner.devices) \cup scanner.failures
    BY DEF ScanInv, Accounted
  <2>2. ~cancel => ToCome = {} BY DEF ScanInv, Accounted, ToCome
  <2> QED BY <2>1, <2>2 DEF ScanInv, Apart, Accounted, Witnessed
<1>2. ScanInit => ScanInv /\ ProcInv BY InitScanInv, InitProcInv
<1>3. ScanInv /\ ProcInv /\ [ScanNext]_scanVars => (ScanInv /\ ProcInv)'
  BY ScanInvStep, ProcInvStep
<1> QED BY <1>1, <1>2, <1>3, PTL DEF ScanSpec

-----------------------------------------------------------------------------
(* Simulator: the clone sessions.                                            *)

SessionPoints == {"ready", "fetch", "room", "record", "lost", "callback", "over"}
CommandPoints ==
    {"TVDiscoveryService", "PowerService", "EnablerService", "ApplicationControl",
     "IPCloneService", "start", "current", "reply"}
Rooms == Nat \cup {NoRoom}
SessionRec == [at: SessionPoints, items: Seq(CloneItem), turn: Nat, got: Rooms, well: BOOLEAN, by: Nat]
TvRec == [power: {"On", "Standby"}, reboots: Nat, room: Rooms, on: SUBSET Service, active: App]
Details == [status: {"none", "InProgress", "Successful", "Failed"}, room: Rooms]

SimType ==
    /\ tvState \in TvRec /\ clone \in [CloneItem -> Details] /\ session \in Seq(SessionRec)
    /\ handling \in Seq(CommandPoints) /\ overlap \in BOOLEAN

\* The turn of a session, and what it is about to do.
InTurn(s) ==
    /\ s.turn \in 1 .. Len(s.items) + 1
    /\ s.at \in {"callback", "over"} <=> s.turn = Len(s.items) + 1
    /\ s.at = "room" => s.items[s.turn] = RoomItem

\* Session k still has item i to settle, and runs.
Holds(k, i) == session[k].at \notin {"lost", "over"} /\ i \in Left(session[k])

\* An item in progress is in the hands of a session.
Settling ==
    \A i \in CloneItem : clone[i].status = "InProgress" =>
        \E k \in DOMAIN session : i \in Left(session[k])

\* Without an overlap, one session at a time has the room: until it starts the item is in
\* progress, and what it is about to record is the room of the TV.
OneRoom ==
    ~overlap =>
        /\ \A j, k \in DOMAIN session : Holds(j, RoomItem) /\ Holds(k, RoomItem) => j = k
        /\ \A k \in DOMAIN session :
               /\ Holds(k, RoomItem) /\ session[k].at = "ready" => clone[RoomItem].status = "InProgress"
               /\ session[k].at = "record" /\ Current(k) = RoomItem /\ session[k].got # NoRoom
                      => tvState.room = session[k].got
        /\ clone[RoomItem].status = "Successful" /\ (\A k \in DOMAIN session : ~Holds(k, RoomItem))
               => tvState.room = clone[RoomItem].room

SimInv == SimType /\ (\A k \in DOMAIN session : InTurn(session[k])) /\ Settling /\ OneRoom

LEMMA SessionFacts ==
    ASSUME SimInv, NEW k \in DOMAIN session
    PROVE  /\ session[k] \in SessionRec /\ InTurn(session[k])
           /\ session[k].items \in Seq(CloneItem) /\ Len(session[k].items) \in Nat
           /\ session[k].turn \in Nat
           /\ k \in Nat /\ DOMAIN session = 1 .. Len(session) /\ Len(session) \in Nat
<1>1. session \in Seq(SessionRec) BY DEF SimInv, SimType
<1>2. session[k] \in SessionRec /\ k \in Nat BY <1>1
<1>3. session[k].items \in Seq(CloneItem) /\ session[k].turn \in Nat BY <1>2 DEF SessionRec
<1>4. Len(session[k].items) \in Nat BY <1>3
<1>5. DOMAIN session = 1 .. Len(session) /\ Len(session) \in Nat BY <1>1
<1> QED BY <1>2, <1>3, <1>4, <1>5 DEF SimInv

\* An item that a session has still to settle has a turn.
LEMMA LeftIs ==
    ASSUME NEW s \in SessionRec, NEW i
    PROVE  i \in Left(s) <=> \E k \in s.turn .. Len(s.items) : s.items[k] = i
BY DEF Left

LEMMA CurrentLeft ==
    ASSUME SimInv, NEW k \in DOMAIN session, session[k].at \notin {"callback", "over"}
    PROVE  /\ Current(k) \in Left(session[k]) /\ Current(k) \in CloneItem
           /\ session[k].turn \in 1 .. Len(session[k].items)
<1>1. session[k].turn \in 1 .. Len(session[k].items) BY SessionFacts DEF InTurn
<1>2. session[k].items[session[k].turn] \in CloneItem BY <1>1, SessionFacts
<1>3. session[k].turn \in session[k].turn .. Len(session[k].items) BY <1>1, SessionFacts
<1> QED BY <1>1, <1>2, <1>3, SessionFacts, LeftIs DEF Current

\* When a session has gone on to its next turn, all that it has left is what it had, but
\* for the item whose turn it was.
LEMMA NextTurn ==
    ASSUME NEW s \in SessionRec, NEW q \in SessionRec, s.turn \in 1 .. Len(s.items),
           q.items = s.items, q.turn = s.turn + 1
    PROVE  /\ Left(q) \subseteq Left(s)
           /\ \A i \in Left(s) : i # s.items[s.turn] => i \in Left(q)
<1>1. s.items \in Seq(CloneItem) /\ Len(s.items) \in Nat /\ s.turn \in Nat BY DEF SessionRec
<1>2. \A k \in q.turn .. Len(q.items) : k \in s.turn .. Len(s.items) BY <1>1
<1>3. \A k \in s.turn .. Len(s.items) : k = s.turn \/ k \in q.turn .. Len(q.items) BY <1>1
<1>4. \A i : i \in Left(s) <=> \E k \in s.turn .. Len(s.items) : s.items[k] = i BY LeftIs
<1>5. \A i : i \in Left(q) <=> \E k \in q.turn .. Len(q.items) : s.items[k] = i BY LeftIs
<1> QED BY <1>2, <1>3, <1>4, <1>5

LEMMA SameTurn ==
    ASSUME NEW s, NEW q, q.items = s.items, q.turn = s.turn
    PROVE  Left(q) = Left(s)
BY DEF Left

\* A step of one session leaves the others alone.
LEMMA OneMoves ==
    ASSUME SimInv, NEW k \in DOMAIN session, NEW q \in SessionRec, session' = [session EXCEPT ![k] = q],
           InTurn(q)
    PROVE  /\ session' \in Seq(SessionRec) /\ DOMAIN session' = DOMAIN session /\ session'[k] = q
           /\ \A j \in DOMAIN session : j # k => session'[j] = session[j]
           /\ \A j \in DOMAIN session : InTurn(session'[j])
<1>1. session \in Seq(SessionRec) BY DEF SimInv, SimType
<1>2. session' \in Seq(SessionRec) /\ DOMAIN session' = DOMAIN session BY <1>1
<1>3. session'[k] = q /\ \A j \in DOMAIN session : j # k => session'[j] = session[j] BY <1>1
<1> QED BY <1>2, <1>3 DEF SimInv

\* A step that changes nothing of a session, the items or the room.
LEMMA SimQuiet ==
    ASSUME SimInv, UNCHANGED <<clone, session, overlap>>, tvState' \in TvRec,
           tvState'.room = tvState.room, handling' \in Seq(CommandPoints)
    PROVE  SimInv'
<1>1. SimType' BY DEF SimInv, SimType
<1>2. (\A k \in DOMAIN session : InTurn(session[k]))' BY DEF SimInv
<1>3. Settling' BY DEF SimInv, Settling
<1>4. OneRoom' BY DEF SimInv, OneRoom, Holds, Current
<1> QED BY <1>1, <1>2, <1>3, <1>4 DEF SimInv

LEMMA GoesType ==
    ASSUME SimInv, NEW n \in DOMAIN handling, NEW there \in CommandPoints, NEW here, Goes(n, here, there)
    PROVE  handling' \in Seq(CommandPoints)
BY DEF Goes, SimInv, SimType

\* What a session carries with it as long as its turn stays.
LEMMA SameTurnStep ==
    ASSUME SimInv, UNCHANGED <<clone, overlap, handling>>, tvState' \in TvRec,
           NEW k \in DOMAIN session, NEW q \in SessionRec, session' = [session EXCEPT ![k] = q],
           q.items = session[k].items, q.turn = session[k].turn, InTurn(q),
           q.at \notin {"ready", "lost"}, session[k].at \notin {"ready", "lost"},
           tvState'.room # tvState.room => session[k].at = "room",
           q.at = "record" /\ q.items[q.turn] = RoomItem /\ q.got # NoRoom => tvState'.room = q.got
    PROVE  SimInv'
<1>1. /\ session' \in Seq(SessionRec) /\ DOMAIN session' = DOMAIN session /\ session'[k] = q
      /\ \A j \in DOMAIN session : j # k => session'[j] = session[j]
      /\ \A j \in DOMAIN session : InTurn(session'[j])
  BY OneMoves
<1>2. Left(q) = Left(session[k]) BY SameTurn
<1>3. \A j \in DOMAIN session : Left(session'[j]) = Left(session[j]) BY <1>1, <1>2
<1>4. q.at = "over" => Left(q) = {}
  <2> SUFFICES ASSUME q.at = "over", NEW i \in Left(q) PROVE FALSE OBVIOUS
  <2>1. q.turn = Len(q.items) + 1 /\ Len(q.items) \in Nat BY DEF InTurn, SessionRec
  <2>2. PICK j \in q.turn .. Len(q.items) : q.items[j] = i BY LeftIs
  <2> QED BY <2>1, <2>2
<1>5. session[k].at = "over" => Left(session[k]) = {}
  <2> SUFFICES ASSUME session[k].at = "over", NEW i \in Left(session[k]) PROVE FALSE OBVIOUS
  <2>1. session[k].turn = Len(session[k].items) + 1 BY SessionFacts DEF InTurn
  <2>2. PICK j \in session[k].turn .. Len(session[k].items) : session[k].items[j] = i
    BY SessionFacts, LeftIs
  <2> QED BY <2>1, <2>2, SessionFacts
<1>6. \A j \in DOMAIN session : Holds(j, RoomItem)' <=> Holds(j, RoomItem)
  BY <1>1, <1>3, <1>4, <1>5 DEF Holds
<1>7. SimType' BY <1>1 DEF SimInv, SimType
<1>8. (\A j \in DOMAIN session : InTurn(session[j]))' BY <1>1 DEF InTurn
<1>9. Settling' BY <1>1, <1>3 DEF SimInv, Settling
<1>10. OneRoom'
  <2> SUFFICES ASSUME ~overlap PROVE OneRoom' BY DEF OneRoom
  <2>1. tvState'.room # tvState.room =>
           Holds(k, RoomItem) /\ q.items[q.turn] = RoomItem
    <3>1. session[k].at = "room" => session[k].items[session[k].turn] = RoomItem
      BY SessionFacts DEF InTurn
    <3>2. session[k].at = "room" => RoomItem \in Left(session[k])
      BY <3>1, CurrentLeft DEF Current
    <3> QED BY <3>1, <3>2 DEF Holds
  <2>2. \A i, j \in DOMAIN session : Holds(i, RoomItem) /\ Holds(j, RoomItem) => i = j
    BY DEF SimInv, OneRoom
  <2>3. ASSUME NEW j \in DOMAIN session,
               session'[j].at = "record", Current(j)' = RoomItem, session'[j].got # NoRoom
        PROVE  tvState'.room = session'[j].got
    <3>1. CASE j = k BY <1>1, <2>3, <3>1 DEF Current
    <3>2. CASE j # k
      <4>1. session'[j] = session[j] BY <1>1, <3>2
      <4>2. Current(j) = RoomItem BY <2>3, <4>1 DEF Current
      <4>3. Holds(j, RoomItem) BY <2>3, <4>1, <4>2, CurrentLeft DEF Holds
      <4>4. tvState.room = session[j].got BY <2>3, <4>1, <4>2 DEF SimInv, OneRoom
      <4> QED BY <2>1, <2>2, <3>2, <4>1, <4>3, <4>4
    <3> QED BY <3>1, <3>2
  <2>4. ASSUME NEW j \in DOMAIN session, Holds(j, RoomItem)', session'[j].at = "ready"
        PROVE  clone'[RoomItem].status = "InProgress"
    <3>1. j # k /\ session'[j] = session[j] BY <1>1, <2>4
    <3> QED BY <1>6, <2>4, <3>1 DEF SimInv, OneRoom
  <2>5. ASSUME clone'[RoomItem].status = "Successful", \A j \in DOMAIN session : ~Holds(j, RoomItem)'
        PROVE  tvState'.room = clone'[RoomItem].room
    BY <1>6, <2>1, <2>5 DEF SimInv, OneRoom
  <2>6. DOMAIN session' = DOMAIN session BY <1>1
  <2>7. \A i, j \in DOMAIN session : Holds(i, RoomItem)' /\ Holds(j, RoomItem)' => i = j
    BY <1>6, <2>2
  <2> QED BY <2>3, <2>4, <2>5, <2>6, <2>7 DEF OneRoom
<1> QED BY <1>7, <1>8, <1>9, <1>10 DEF SimInv

LEMMA InitSimInv == SimInit => SimInv
<1> SUFFICES ASSUME SimInit PROVE SimInv OBVIOUS
<1>1. (CHOOSE a \in App : TRUE) \in App BY SimulatorAssumption
<1>2. tvState \in TvRec BY <1>1 DEF SimInit, TvRec, Rooms
<1>3. clone \in [CloneItem -> Details] BY DEF SimInit, Untouched, Details, Rooms
<1>4. DOMAIN session = {} /\ session \in Seq(SessionRec) /\ handling \in Seq(CommandPoints) BY DEF SimInit
<1>5. \A i \in CloneItem : clone[i].status = "none" BY DEF SimInit, Untouched
<1>6. RoomItem \in CloneItem BY SimulatorAssumption
<1>7. OneRoom BY <1>4, <1>5, <1>6 DEF OneRoom
<1>8. Settling BY <1>5 DEF Settling
<1> QED BY <1>2, <1>3, <1>4, <1>7, <1>8 DEF SimInv, SimType, SimInit

LEMMA FetchStep == ASSUME SimInv, NEW k \in DOMAIN session, Fetch(k) PROVE SimInv'
<1>1. /\ session[k] \in SessionRec /\ InTurn(session[k]) /\ session[k].at = "fetch"
      /\ UNCHANGED <<tvState, clone, handling, overlap>> /\ tvState \in TvRec
  BY SessionFacts DEF Fetch, SimInv, SimType
<1>2. CASE \E p \in Package : Accepts(Current(k), p) /\
              session' = [session EXCEPT ![k].at = IF Current(k) = RoomItem THEN "room" ELSE "record",
                                         ![k].got = p.room]
  <2>1. PICK p \in Package :
              session' = [session EXCEPT ![k].at = IF Current(k) = RoomItem THEN "room" ELSE "record",
                                         ![k].got = p.room]
    BY <1>2
  <2>2. PICK q : q = [session[k] EXCEPT !.at = IF Current(k) = RoomItem THEN "room" ELSE "record",
                                        !.got = p.room]
    OBVIOUS
  <2>3. p.room \in Nat BY SimulatorAssumption
  <2>4. q \in SessionRec /\ q.items = session[k].items /\ q.turn = session[k].turn
    BY <1>1, <2>2, <2>3 DEF SessionRec, SessionPoints, Rooms
  <2>5. session' = [session EXCEPT ![k] = q] BY <2>1, <2>2, <1>1 DEF SimInv, SimType
  <2>6. q.at = (IF Current(k) = RoomItem THEN "room" ELSE "record") BY <1>1, <2>2 DEF SessionRec
  <2>7. InTurn(q) BY <1>1, <2>4, <2>6 DEF InTurn, Current
  <2>8. ~(q.at = "record" /\ q.items[q.turn] = RoomItem) BY <2>4, <2>6 DEF Current
  <2> QED BY <1>1, <2>4, <2>5, <2>6, <2>7, <2>8, SameTurnStep
<1>3. CASE session' = [session EXCEPT ![k].at = "record", ![k].got = NoRoom]
  <2>1. PICK q : q = [session[k] EXCEPT !.at = "record", !.got = NoRoom] OBVIOUS
  <2>2. q \in SessionRec /\ q.items = session[k].items /\ q.turn = session[k].turn
    BY <1>1, <2>1 DEF SessionRec, SessionPoints, Rooms
  <2>3. session' = [session EXCEPT ![k] = q] BY <1>3, <2>1, <1>1 DEF SimInv, SimType
  <2>4. q.at = "record" /\ q.got = NoRoom BY <1>1, <2>1 DEF SessionRec
  <2>5. InTurn(q) BY <1>1, <2>2, <2>4 DEF InTurn
  <2> QED BY <1>1, <2>2, <2>3, <2>4, <2>5, SameTurnStep
<1> QED BY <1>2, <1>3 DEF Fetch

LEMMA SetRoomStep == ASSUME SimInv, NEW k \in DOMAIN session, SetRoom(k) PROVE SimInv'
<1>1. /\ session[k] \in SessionRec /\ InTurn(session[k]) /\ session[k].at = "room"
      /\ UNCHANGED <<clone, handling, overlap>> /\ tvState \in TvRec
  BY SessionFacts DEF SetRoom, SimInv, SimType
<1>2. PICK q : q = [session[k] EXCEPT !.at = "record"] OBVIOUS
<1>3. q \in SessionRec /\ q.items = session[k].items /\ q.turn = session[k].turn /\ q.at = "record"
      /\ q.got = session[k].got
  BY <1>1, <1>2 DEF SessionRec, SessionPoints
<1>4. session' = [session EXCEPT ![k] = q] BY <1>2, <1>1 DEF SetRoom, SimInv, SimType
<1>5. InTurn(q) BY <1>1, <1>3 DEF InTurn
<1>6. session[k].got \in Rooms BY <1>1 DEF SessionRec
<1>7. tvState' \in TvRec /\ tvState'.room = session[k].got BY <1>1, <1>6 DEF SetRoom, TvRec
<1> QED BY <1>1, <1>3, <1>4, <1>5, <1>7, SameTurnStep

LEMMA CallbackStep == ASSUME SimInv, NEW k \in DOMAIN session, Callback(k) PROVE SimInv'
<1>1. /\ session[k] \in SessionRec /\ InTurn(session[k]) /\ session[k].at = "callback"
      /\ UNCHANGED <<tvState, clone, handling, overlap>> /\ tvState \in TvRec
  BY SessionFacts DEF Callback, SimInv, SimType
<1>2. PICK q : q = [session[k] EXCEPT !.at = "over"] OBVIOUS
<1>3. q \in SessionRec /\ q.items = session[k].items /\ q.turn = session[k].turn /\ q.at = "over"
  BY <1>1, <1>2 DEF SessionRec, SessionPoints
<1>4. session' = [session EXCEPT ![k] = q] BY <1>2, <1>1 DEF Callback, SimInv, SimType
<1>5. InTurn(q) BY <1>1, <1>3 DEF InTurn
<1> QED BY <1>1, <1>3, <1>4, <1>5, SameTurnStep

\* The item whose turn it was is settled, and all that the sessions have left beside it is
\* still to be.
LEMMA SettleStep == ASSUME SimInv, NEW k \in DOMAIN session, Settle(k) PROVE SimInv'
<1>1. /\ session[k] \in SessionRec /\ InTurn(session[k]) /\ session[k].at = "record"
      /\ UNCHANGED <<tvState, handling, overlap>> /\ tvState \in TvRec
  BY SessionFacts DEF Settle, SimInv, SimType
<1>2. PICK d : d = [status |-> IF session[k].got # NoRoom THEN "Successful" ELSE "Failed",
                    room |-> IF Current(k) = RoomItem THEN session[k].got ELSE NoRoom]
  OBVIOUS
<1>3. PICK q : q = [session[k] EXCEPT
               !.at = IF session[k].turn < Len(session[k].items) THEN "fetch" ELSE "callback",
               !.turn = @ + 1, !.got = NoRoom, !.well = @ /\ session[k].got # NoRoom]
  OBVIOUS
<1>4. clone' = [clone EXCEPT ![Current(k)] = d] BY <1>2 DEF Settle
<1>5. session' = [session EXCEPT ![k] = q] BY <1>3 DEF Settle
<1>6. /\ Current(k) \in Left(session[k]) /\ Current(k) \in CloneItem
      /\ session[k].turn \in 1 .. Len(session[k].items) /\ Len(session[k].items) \in Nat
  BY <1>1, CurrentLeft, SessionFacts
<1>7. q \in SessionRec /\ q.items = session[k].items /\ q.turn = session[k].turn + 1
      /\ q.at = (IF session[k].turn < Len(session[k].items) THEN "fetch" ELSE "callback")
  <2>1. PICK at : at = IF session[k].turn < Len(session[k].items) THEN "fetch" ELSE "callback" OBVIOUS
  <2>2. PICK well \in BOOLEAN : well = (session[k].well /\ session[k].got # NoRoom)
    BY <1>1 DEF SessionRec
  <2>3. q = [at |-> at, items |-> session[k].items, turn |-> session[k].turn + 1, got |-> NoRoom,
             well |-> well, by |-> session[k].by]
    BY <1>1, <1>3, <2>1, <2>2 DEF SessionRec
  <2>4. at \in SessionPoints BY <2>1 DEF SessionPoints
  <2>5. session[k].turn + 1 \in Nat /\ session[k].items \in Seq(CloneItem) /\ session[k].by \in Nat
    BY <1>1 DEF SessionRec
  <2>6. q \in SessionRec BY <2>2, <2>3, <2>4, <2>5 DEF SessionRec, Rooms
  <2> QED BY <2>1, <2>3, <2>6
<1>8. InTurn(q) BY <1>6, <1>7 DEF InTurn
<1>9. /\ session' \in Seq(SessionRec) /\ DOMAIN session' = DOMAIN session /\ session'[k] = q
      /\ \A j \in DOMAIN session : j # k => session'[j] = session[j]
      /\ \A j \in DOMAIN session : InTurn(session'[j])
  BY <1>5, <1>7, <1>8, OneMoves
<1>10. /\ Left(q) \subseteq Left(session[k])
       /\ \A i \in Left(session[k]) : i # Current(k) => i \in Left(q)
  BY <1>1, <1>6, <1>7, NextTurn DEF Current
<1>11. d \in Details /\ d.status # "InProgress" BY <1>1, <1>2 DEF Details, SessionRec, Rooms
<1>12. /\ clone' \in [CloneItem -> Details] /\ clone'[Current(k)] = d
       /\ \A i \in CloneItem : i # Current(k) => clone'[i] = clone[i]
  BY <1>4, <1>6, <1>11 DEF SimInv, SimType
<1>13. SimType' BY <1>1, <1>9, <1>12 DEF SimInv, SimType
<1>14. (\A j \in DOMAIN session : InTurn(session[j]))' BY <1>9 DEF InTurn
<1>15. Settling'
  <2> SUFFICES ASSUME NEW i \in CloneItem, clone'[i].status = "InProgress"
               PROVE  \E j \in DOMAIN session' : i \in Left(session'[j])
    BY DEF Settling
  <2>1. i # Current(k) /\ clone[i].status = "InProgress" BY <1>11, <1>12
  <2>2. PICK j \in DOMAIN session : i \in Left(session[j]) BY <2>1 DEF SimInv, Settling
  <2>3. CASE j = k BY <1>9, <1>10, <2>1, <2>2, <2>3
  <2>4. CASE j # k BY <1>9, <2>2, <2>4
  <2> QED BY <2>3, <2>4
<1>16. OneRoom'
  <2> SUFFICES ASSUME ~overlap PROVE OneRoom' BY <1>1 DEF OneRoom
  <2>1. RoomItem \in CloneItem BY SimulatorAssumption
  <2>2. Holds(k, Current(k)) BY <1>1, <1>6 DEF Holds
  <2>3. \A j \in DOMAIN session : Holds(j, RoomItem)' => Holds(j, RoomItem)
    BY <1>1, <1>9, <1>10 DEF Holds
  <2>4. \A i, j \in DOMAIN session : Holds(i, RoomItem) /\ Holds(j, RoomItem) => i = j
    BY DEF SimInv, OneRoom
  <2>5. ASSUME NEW j \in DOMAIN session, Holds(j, RoomItem)', session'[j].at = "ready"
        PROVE  clone'[RoomItem].status = "InProgress"
    <3>1. j # k /\ session'[j] = session[j] BY <1>7, <1>9, <2>5
    <3>2. Current(k) # RoomItem BY <2>2, <2>3, <2>4, <2>5, <3>1
    <3> QED BY <1>12, <2>1, <2>3, <2>5, <3>1, <3>2 DEF SimInv, OneRoom
  <2>6. ASSUME NEW j \in DOMAIN session,
               session'[j].at = "record", Current(j)' = RoomItem, session'[j].got # NoRoom
        PROVE  tvState'.room = session'[j].got
    <3>1. j # k /\ session'[j] = session[j] BY <1>7, <1>9, <2>6
    <3>2. Current(j) = RoomItem BY <2>6, <3>1 DEF Current
    <3> QED BY <1>1, <2>6, <3>1, <3>2 DEF SimInv, OneRoom
  <2>7. ASSUME clone'[RoomItem].status = "Successful", \A j \in DOMAIN session : ~Holds(j, RoomItem)'
        PROVE  tvState'.room = clone'[RoomItem].room
    <3>1. CASE Current(k) = RoomItem
      <4>1. session[k].got # NoRoom /\ clone'[RoomItem].room = session[k].got
        BY <1>2, <1>12, <2>7, <3>1
      <4> QED BY <1>1, <3>1, <4>1 DEF SimInv, OneRoom
    <3>2. CASE Current(k) # RoomItem
      <4>1. clone'[RoomItem] = clone[RoomItem] BY <1>12, <2>1, <3>2
      <4>2. ~Holds(k, RoomItem) BY <1>7, <1>9, <1>10, <2>7, <3>2 DEF Holds
      <4>3. \A j \in DOMAIN session : j # k => ~Holds(j, RoomItem) BY <1>9, <2>7 DEF Holds
      <4> QED BY <1>1, <2>7, <4>1, <4>2, <4>3 DEF SimInv, OneRoom
    <3> QED BY <3>1, <3>2
  <2> QED BY <1>9, <2>3, <2>4, <2>5, <2>6, <2>7 DEF OneRoom
<1> QED BY <1>13, <1>14, <1>15, <1>16 DEF SimInv

\* A new session has all its items left, and has not begun.
LEMMA BeginCloneStep == ASSUME SimInv, NEW n \in DOMAIN handling, BeginClone(n) PROVE SimInv'
<1>1. n \in Nat /\ handling' \in Seq(CommandPoints) /\ session \in Seq(SessionRec)
  <2>1. handling \in Seq(CommandPoints) /\ session \in Seq(SessionRec) BY DEF SimInv, SimType
  <2>2. handling' \in Seq(CommandPoints) BY GoesType DEF BeginClone, CommandPoints
  <2> QED BY <2>1, <2>2
<1>2. PICK items \in UNION {[1 .. l -> CloneItem] : l \in 1 .. MaxItems} :
        /\ session' = Append(session, [at |-> "ready", items |-> items, turn |-> 1,
                                       got |-> NoRoom, well |-> TRUE, by |-> n])
        /\ clone' = [i \in CloneItem |-> IF \E k \in DOMAIN items : items[k] = i THEN InProgress
                                    ELSE clone[i]]
        /\ overlap' = (overlap \/ (Holders(RoomItem) # {}
                                   /\ \E k \in DOMAIN items : items[k] = RoomItem))
  BY DEF BeginClone
<1>3. PICK l \in 1 .. MaxItems : items \in [1 .. l -> CloneItem] BY <1>2
<1>4. l \in Nat /\ l >= 1 BY SimulatorAssumption
<1>5. items \in Seq(CloneItem) /\ Len(items) = l /\ DOMAIN items = 1 .. l BY <1>3, <1>4
<1>6. PICK q : q = [at |-> "ready", items |-> items, turn |-> 1,
                    got |-> NoRoom, well |-> TRUE, by |-> n]
  OBVIOUS
<1>7. q \in SessionRec /\ q.at = "ready" /\ q.items = items /\ q.turn = 1
  BY <1>1, <1>5, <1>6 DEF SessionRec, SessionPoints, Rooms
<1>8. InTurn(q) BY <1>4, <1>5, <1>7 DEF InTurn
<1>9. \A i : i \in Left(q) <=> \E k \in DOMAIN items : items[k] = i BY <1>5, <1>7, LeftIs
<1>10. PICK new : new = Len(session) + 1 OBVIOUS
<1>11. /\ session' \in Seq(SessionRec) /\ DOMAIN session' = DOMAIN session \cup {new}
       /\ new \notin DOMAIN session /\ session'[new] = q
       /\ \A j \in DOMAIN session : session'[j] = session[j]
  BY <1>1, <1>2, <1>6, <1>7, <1>10
<1>12. clone' = [i \in CloneItem |-> IF i \in Left(q) THEN InProgress ELSE clone[i]] BY <1>2, <1>9
<1>13. InProgress \in Details /\ InProgress.status = "InProgress"
  BY DEF InProgress, Untouched, Details, Rooms
<1>14. UNCHANGED tvState BY DEF BeginClone
<1>15. overlap' \in BOOLEAN BY <1>2 DEF SimInv, SimType
<1>16. SimType' BY <1>1, <1>11, <1>12, <1>13, <1>14, <1>15 DEF SimInv, SimType
<1>17. (\A j \in DOMAIN session : InTurn(session[j]))' BY <1>8, <1>11 DEF SimInv, InTurn
<1>18. Settling'
  <2> SUFFICES ASSUME NEW i \in CloneItem, clone'[i].status = "InProgress"
               PROVE  \E j \in DOMAIN session' : i \in Left(session'[j])
    BY DEF Settling
  <2>1. CASE i \in Left(q) BY <1>11, <2>1
  <2>2. CASE i \notin Left(q)
    <3>1. clone[i].status = "InProgress" BY <1>12, <2>2
    <3>2. PICK j \in DOMAIN session : i \in Left(session[j]) BY <3>1 DEF SimInv, Settling
    <3> QED BY <1>11, <3>2
  <2> QED BY <2>1, <2>2
<1>19. OneRoom'
  <2> SUFFICES ASSUME ~overlap' PROVE OneRoom' BY DEF OneRoom
  <2>1. RoomItem \in CloneItem BY SimulatorAssumption
  <2>2. ~overlap /\ (RoomItem \in Left(q) => \A j \in DOMAIN session : ~Holds(j, RoomItem))
    BY <1>2, <1>9 DEF Holders, Running, Holds
  <2>3. \A j \in DOMAIN session : Holds(j, RoomItem)' <=> Holds(j, RoomItem) BY <1>11 DEF Holds
  <2>4. Holds(new, RoomItem)' <=> RoomItem \in Left(q) BY <1>7, <1>11 DEF Holds
  <2>5. \A i, j \in DOMAIN session' : Holds(i, RoomItem)' /\ Holds(j, RoomItem)' => i = j
    BY <1>11, <2>2, <2>3, <2>4 DEF SimInv, OneRoom
  <2>6. clone'[RoomItem] = IF RoomItem \in Left(q) THEN InProgress ELSE clone[RoomItem]
    BY <1>12, <2>1
  <2>7. ASSUME NEW j \in DOMAIN session', Holds(j, RoomItem)', session'[j].at = "ready"
        PROVE  clone'[RoomItem].status = "InProgress"
    <3>1. CASE RoomItem \in Left(q) BY <1>13, <2>6, <3>1
    <3>2. CASE RoomItem \notin Left(q)
      <4>1. j \in DOMAIN session BY <1>11, <2>4, <2>7, <3>2
      <4> QED BY <1>11, <2>2, <2>3, <2>6, <2>7, <3>2, <4>1 DEF SimInv, OneRoom
    <3> QED BY <3>1, <3>2
  <2>8. ASSUME NEW j \in DOMAIN session',
               session'[j].at = "record", Current(j)' = RoomItem, session'[j].got # NoRoom
        PROVE  tvState'.room = session'[j].got
    <3>1. j \in DOMAIN session /\ session'[j] = session[j] BY <1>7, <1>11, <2>8
    <3>2. Current(j) = RoomItem BY <2>8, <3>1 DEF Current
    <3> QED BY <1>14, <2>2, <2>8, <3>1, <3>2 DEF SimInv, OneRoom
  <2>9. ASSUME clone'[RoomItem].status = "Successful", \A j \in DOMAIN session' : ~Holds(j, RoomItem)'
        PROVE  tvState'.room = clone'[RoomItem].room
    <3>1. RoomItem \notin Left(q) BY <1>11, <2>4, <2>9
    <3>2. \A j \in DOMAIN session : ~Holds(j, RoomItem) BY <1>11, <2>3, <2>9
    <3> QED BY <1>14, <2>2, <2>6, <2>9, <3>1, <3>2 DEF SimInv, OneRoom
  <2> QED BY <2>5, <2>7, <2>8, <2>9 DEF OneRoom
<1> QED BY <1>16, <1>17, <1>18, <1>19 DEF SimInv

\* A session that starts keeps its items; one that cannot be started leaves them in progress.
LEMMA StartSessionStep == ASSUME SimInv, NEW n \in DOMAIN handling, StartSession(n) PROVE SimInv'
<1>1. /\ handling' \in Seq(CommandPoints) /\ session \in Seq(SessionRec)
      /\ UNCHANGED <<tvState, clone, overlap>>
  BY GoesType DEF StartSession, CommandPoints, SimInv, SimType
<1>2. PICK to \in {"fetch", "lost"} :
        session' = [k \in DOMAIN session |-> IF session[k].by = n /\ session[k].at = "ready"
                        THEN [session[k] EXCEPT !.at = to] ELSE session[k]]
  BY DEF StartSession
<1>3. ASSUME NEW k \in DOMAIN session
      PROVE  /\ session'[k] \in SessionRec /\ InTurn(session'[k])
             /\ session'[k].items = session[k].items /\ session'[k].turn = session[k].turn
             /\ \/ session'[k] = session[k]
                \/ session[k].at = "ready" /\ session'[k].at = to
  <2>1. session[k] \in SessionRec /\ InTurn(session[k]) BY SessionFacts
  <2>2. session'[k] = IF session[k].by = n /\ session[k].at = "ready"
                      THEN [session[k] EXCEPT !.at = to] ELSE session[k]
    BY <1>2
  <2>3. PICK q : q = [session[k] EXCEPT !.at = to] OBVIOUS
  <2>4. q \in SessionRec /\ q.items = session[k].items /\ q.turn = session[k].turn /\ q.at = to
    BY <2>1, <2>3 DEF SessionRec, SessionPoints
  <2>5. CASE session[k].by = n /\ session[k].at = "ready"
    <3>1. session'[k] = q BY <2>2, <2>3, <2>5
    <3>2. InTurn(q) BY <2>1, <2>4, <2>5 DEF InTurn
    <3> QED BY <2>4, <2>5, <3>1, <3>2
  <2>6. CASE ~(session[k].by = n /\ session[k].at = "ready")
    <3>1. PICK s : s = session[k] OBVIOUS
    <3>2. s \in SessionRec /\ InTurn(s) BY <2>1, <3>1
    <3>3. session'[k] = s BY <2>2, <2>6, <3>1
    <3> QED BY <3>1, <3>2, <3>3
  <2> QED BY <2>5, <2>6
<1>4. DOMAIN session' = DOMAIN session BY <1>2
<1>5. session' \in Seq(SessionRec)
  <2>1. Len(session) \in Nat /\ DOMAIN session = 1 .. Len(session) BY <1>1
  <2>2. session' \in [1 .. Len(session) -> SessionRec] BY <1>2, <1>3, <2>1
  <2> QED BY <2>1, <2>2
<1>6. SimType' BY <1>1, <1>5 DEF SimInv, SimType
<1>7. (\A j \in DOMAIN session : InTurn(session[j]))' BY <1>3, <1>4 DEF InTurn
<1>8. \A k \in DOMAIN session : Left(session'[k]) = Left(session[k]) BY <1>3, SameTurn
<1>9. Settling' BY <1>1, <1>4, <1>8 DEF SimInv, Settling
<1>10. OneRoom'
  <2> SUFFICES ASSUME ~overlap PROVE OneRoom' BY <1>1 DEF OneRoom
  <2>1. \A j \in DOMAIN session : Holds(j, RoomItem)' => Holds(j, RoomItem) BY <1>3, <1>8 DEF Holds
  <2>2. \A j \in DOMAIN session : session'[j].at \in {"ready", "record"} => session'[j] = session[j]
    BY <1>3
  <2>3. ASSUME NEW j \in DOMAIN session,
               session'[j].at = "record", Current(j)' = RoomItem, session'[j].got # NoRoom
        PROVE  tvState'.room = session'[j].got
    <3>1. session'[j] = session[j] BY <2>2, <2>3
    <3>2. Current(j) = RoomItem BY <2>3, <3>1 DEF Current
    <3> QED BY <1>1, <2>3, <3>1, <3>2 DEF SimInv, OneRoom
  <2>4. ASSUME clone'[RoomItem].status = "Successful", \A j \in DOMAIN session : ~Holds(j, RoomItem)'
        PROVE  tvState'.room = clone'[RoomItem].room
    <3>1. ASSUME NEW j \in DOMAIN session, Holds(j, RoomItem) PROVE FALSE
      <4>1. session[j].at = "ready" BY <1>3, <1>8, <2>4, <3>1 DEF Holds
      <4> QED BY <1>1, <2>4, <3>1, <4>1 DEF SimInv, OneRoom
    <3> QED BY <1>1, <2>4, <3>1 DEF SimInv, OneRoom
  <2>5. \A i, j \in DOMAIN session : Holds(i, RoomItem)' /\ Holds(j, RoomItem)' => i = j
    BY <2>1 DEF SimInv, OneRoom
  <2>6. ASSUME NEW j \in DOMAIN session, Holds(j, RoomItem)', session'[j].at = "ready"
        PROVE  clone'[RoomItem].status = "InProgress"
    BY <1>1, <2>1, <2>2, <2>6 DEF SimInv, OneRoom
  <2> QED BY <1>4, <2>3, <2>4, <2>5, <2>6 DEF OneRoom
<1> QED BY <1>6, <1>7, <1>9, <1>10 DEF SimInv

LEMMA SimInvStep == SimInv /\ [SimNext]_simVars => SimInv'
<1> SUFFICES ASSUME SimInv, [SimNext]_simVars PROVE SimInv' OBVIOUS
<1>1. tvState \in TvRec /\ handling \in Seq(CommandPoints) BY DEF SimInv, SimType
<1>2. ASSUME NEW fun \in {"TVDiscoveryService", "PowerService", "EnablerService",
                          "ApplicationControl", "IPCloneService"}, Receive(fun)
      PROVE  SimInv'
  <2>1. fun \in CommandPoints BY DEF CommandPoints
  <2>2. handling' = Append(handling, fun) BY <1>2 DEF Receive
  <2>3. handling' \in Seq(CommandPoints) BY <1>1, <2>1, <2>2
  <2> QED BY <1>1, <1>2, <2>3, SimQuiet DEF Receive
<1>3. ASSUME NEW n \in DOMAIN handling, Command(n) PROVE SimInv'
  <2>1. CASE Refused(n)
    <3>1. handling' \in Seq(CommandPoints) BY <2>1, GoesType DEF Refused, CommandPoints
    <3> QED BY <1>1, <2>1, <3>1, SimQuiet DEF Refused
  <2>2. CASE ChangePower(n)
    <3>1. handling' \in Seq(CommandPoints) BY <2>2, GoesType DEF ChangePower, CommandPoints
    <3>2. CASE UNCHANGED tvState BY <1>1, <2>2, <3>1, <3>2, SimQuiet DEF ChangePower
    <3>3. CASE tvState' = [tvState EXCEPT !.reboots = @ + 1, !.power = "On"]
      <4>1. tvState.reboots \in Nat /\ tvState.reboots + 1 \in Nat BY <1>1 DEF TvRec
      <4>2. tvState' \in TvRec /\ tvState'.room = tvState.room BY <1>1, <3>3, <4>1 DEF TvRec
      <4> QED BY <2>2, <3>1, <4>2, SimQuiet DEF ChangePower
    <3>4. CASE \E p \in {"On", "Standby"} : tvState' = [tvState EXCEPT !.power = p]
      <4>1. tvState' \in TvRec /\ tvState'.room = tvState.room BY <1>1, <3>4 DEF TvRec
      <4> QED BY <2>2, <3>1, <4>1, SimQuiet DEF ChangePower
    <3> QED BY <2>2, <3>2, <3>3, <3>4 DEF ChangePower
  <2>3. CASE CurrentPower(n)
    <3>1. handling' \in Seq(CommandPoints) BY <2>3, GoesType DEF CurrentPower, CommandPoints
    <3> QED BY <1>1, <2>3, <3>1, SimQuiet DEF CurrentPower
  <2>4. CASE EnableServices(n)
    <3>1. handling' \in Seq(CommandPoints) BY <2>4, GoesType DEF EnableServices, CommandPoints
    <3>2. PICK sv \in Service, on \in SUBSET Service : tvState' = [tvState EXCEPT !.on = on]
      <4>1. PICK sv \in Service :
              \E on \in {tvState.on \cup {sv}, tvState.on \ {sv}} : tvState' = [tvState EXCEPT !.on = on]
        BY <2>4 DEF EnableServices
      <4>2. PICK on \in {tvState.on \cup {sv}, tvState.on \ {sv}} : tvState' = [tvState EXCEPT !.on = on]
        BY <4>1
      <4>3. tvState.on \subseteq Service BY <1>1 DEF TvRec
      <4>4. on \in SUBSET Service BY <4>2, <4>3
      <4> QED BY <4>2, <4>4
    <3>3. tvState' \in TvRec /\ tvState'.room = tvState.room BY <1>1, <3>2 DEF TvRec
    <3> QED BY <2>4, <3>1, <3>3, SimQuiet DEF EnableServices
  <2>5. CASE Activate(n)
    <3>1. handling' \in Seq(CommandPoints) BY <2>5, GoesType DEF Activate, CommandPoints
    <3>2. tvState' \in TvRec /\ tvState'.room = tvState.room BY <1>1, <2>5 DEF Activate, TvRec
    <3> QED BY <2>5, <3>1, <3>2, SimQuiet DEF Activate
  <2>6. CASE BeginClone(n) BY <2>6, BeginCloneStep
  <2>7. CASE StartSession(n) BY <2>7, StartSessionStep
  <2> QED BY <1>3, <2>1, <2>2, <2>3, <2>4, <2>5, <2>6, <2>7 DEF Command
<1>4. ASSUME NEW k \in DOMAIN session, Session(k) PROVE SimInv'
  BY <1>4, FetchStep, SetRoomStep, SettleStep, CallbackStep DEF Session
<1>5. CASE UNCHANGED simVars BY <1>1, <1>5, SimQuiet DEF simVars
<1> QED BY <1>2, <1>3, <1>4, <1>5 DEF SimNext

\* A session that is over has nothing left, so an item in progress is with one that runs or
\* was lost.
LEMMA SimInvClones == SimInv => ClonesSettle
<1> SUFFICES ASSUME SimInv PROVE ClonesSettle OBVIOUS
<1>1. ASSUME NEW k \in DOMAIN session, NEW i \in Left(session[k]) PROVE session[k].at # "over"
  <2>1. PICK j \in session[k].turn .. Len(session[k].items) : session[k].items[j] = i
    BY SessionFacts, LeftIs
  <2>2. session[k].turn # Len(session[k].items) + 1 BY <2>1, SessionFacts
  <2> QED BY <2>2, SessionFacts DEF InTurn
<1>2. \A i : \A k : k \in Holders(i) <=> k \in DOMAIN session /\ Holds(k, i)
  BY DEF Holders, Running, Holds
<1>3. ASSUME NEW i \in CloneItem, clone[i].status = "InProgress"
      PROVE  Holders(i) # {} \/ \E k \in DOMAIN session : session[k].at = "lost" /\ i \in Left(session[k])
  <2>1. PICK k \in DOMAIN session : i \in Left(session[k]) BY <1>3 DEF SimInv, Settling
  <2> QED BY <1>1, <1>2, <2>1 DEF Holds
<1>4. ASSUME clone[RoomItem].status = "Successful", Holders(RoomItem) = {}, ~overlap
      PROVE  tvState.room = clone[RoomItem].room
  BY <1>2, <1>4 DEF SimInv, OneRoom
<1> QED BY <1>3, <1>4 DEF ClonesSettle

\* An item in progress is with a session that will settle it, or with one whose thread never
\* started; and once no session with the room item is left, the TV shows the room that its
\* details give, unless two such sessions overlapped.
THEOREM ClonesAreSettled == SimSpec => []ClonesSettle
<1>1. SimSpec => []SimInv BY InitSimInv, SimInvStep, PTL DEF SimSpec
<1> QED BY <1>1, SimInvClones, PTL

=============================================================================
