----------------------------- MODULE CloneExport -----------------------------
(***************************************************************************)
(* cmndctl export-clone --execute (clone_export.py): ask one TV to upload      *)
(* clone items, receive them in a thread with a byte budget and a deadline,    *)
(* and write a report that says whether all of them arrived.  The main thread, *)
(* the receiver thread and the sender move on their own.                       *)
(***************************************************************************)
EXTENDS Naturals

CONSTANTS
    Item,        \* items an archive may hold
    Wanted,      \* items the operator asked for
    Device,      \* TVs that may answer at the target address
    Selected,    \* those of them the operator's identity names (unique ID, serial or MAC)
    Nothing,     \* no device, no upload, no report
    MaxBytes,    \* the byte budget of the session
    MaxLength,   \* bound: bytes of one upload
    MaxUploads,  \* bound: connections
    MaxFaults    \* bound: failing steps of the main thread, changes of the address

ASSUME ExportAssumption ==
    /\ Wanted \subseteq Item /\ Selected \subseteq Device
    /\ Nothing \notin Device
    /\ MaxBytes \in Nat /\ MaxLength \in Nat /\ MaxUploads \in Nat /\ MaxFaults \in Nat

VARIABLES
    tv,         \* who has the target's address
    pc,         \* next step of the main thread
    first,      \* unique ID of the first identity check
    sent,       \* TVUniqueID of the Change command that was sent
    server,     \* none, serving, stopping (shutdown was called), closed
    upload,     \* the connection the receiver thread serves
    total,      \* bytes charged to the budget
    stored,     \* bytes written to the private directory, bodies and extracted parts
    files,      \* kinds of files received, as [items, crc]
    failed,     \* an upload was rejected
    expired,    \* the deadline has passed
    completed,  \* of the report, before it is written
    report,     \* export-report.json
    count       \* connections and faults so far

vars == <<tv, pc, first, sent, server, upload, total, stored, files, failed, expired,
          completed, report, count>>
main     == <<pc, first, sent, server, completed, report>>
receiver == <<upload, total, stored, files, failed>>

\* What a body turns out to hold: an archive whose members were checked, one that
\* is encrypted (its CRCs cannot be checked), or something that is refused.
Body   == [items: SUBSET Item, crc: {"valid", "unknown", "refused"}]
File   == {b \in Body : b.crc # "refused"}
\* left: bytes of the body still to be received, then those not yet extracted.
Upload == [at: {"headers", "body", "parse", "answer"}, length: 0 .. MaxLength,
           left: 0 .. MaxLength, parts: SUBSET File]
Ended  == {"done", "refused"}
Label  == {"identify", "capabilities", "listen", "revalidate", "send", "record", "poll",
           "shutdown", "report"} \cup Ended

Init ==
    /\ tv \in Device
    /\ pc = "identify" /\ first = Nothing /\ sent = Nothing /\ server = "none"
    /\ upload = Nothing /\ total = 0 /\ stored = 0 /\ files = {} /\ failed = FALSE
    /\ expired = FALSE /\ completed = FALSE /\ report = Nothing
    /\ count = [uploads |-> 0, faults |-> 0]

Fault == count.faults < MaxFaults /\ count' = [count EXCEPT !.faults = @ + 1]

\* The address goes to another TV.
Readdress ==
    /\ Fault /\ tv' \in Device \ {tv}
    /\ UNCHANGED <<main, receiver, expired>>

-----------------------------------------------------------------------------
(* The main thread.                                                          *)

Step(here, there) == pc = here /\ pc' = there

\* verify_identity: the answer must carry the identity the operator selected.
Identify ==
    /\ Step("identify", "capabilities") /\ tv \in Selected /\ first' = tv
    /\ UNCHANGED <<tv, sent, server, receiver, expired, completed, report, count>>

\* The TV is ready and offers every item that is asked for.
Capabilities ==
    /\ Step("capabilities", "listen")
    /\ UNCHANGED <<tv, first, sent, server, receiver, expired, completed, report, count>>

Listen ==
    /\ Step("listen", "revalidate") /\ server' = "serving"
    /\ UNCHANGED <<tv, first, sent, receiver, expired, completed, report, count>>

\* Fault: any TV the operator's identity names will do.
RevalidateAlias ==
    /\ Step("revalidate", "send") /\ tv \in Selected /\ sent' = tv
    /\ UNCHANGED <<tv, first, server, receiver, expired, completed, report, count>>

\* The unique ID must still be that of the first check; it goes into the message.
Revalidate ==
    /\ Step("revalidate", "send") /\ tv \in Selected /\ tv = first /\ sent' = tv
    /\ UNCHANGED <<tv, first, server, receiver, expired, completed, report, count>>

Send ==
    /\ Step("send", "record")
    /\ UNCHANGED <<tv, first, sent, server, receiver, expired, completed, report, count>>

Record ==
    /\ Step("record", "poll")
    /\ UNCHANGED <<tv, first, sent, server, receiver, expired, completed, report, count>>

Observed == UNION {f.items : f \in files}
Valid    == \A f \in files : f.crc = "valid"

\* Fault: a file whose members were not checked counts.
PollAnyFile ==
    /\ Step("poll", "shutdown")
    /\ \/ (expired \/ failed) /\ UNCHANGED completed
       \/ ~failed /\ Wanted \subseteq Observed /\ completed' = TRUE
    /\ UNCHANGED <<tv, first, sent, server, receiver, expired, report, count>>

\* One pass of the loop that ends it; the others change nothing.
Poll ==
    /\ Step("poll", "shutdown")
    /\ \/ (expired \/ failed) /\ UNCHANGED completed
       \/ ~failed /\ Wanted \subseteq Observed /\ Valid /\ completed' = TRUE
    /\ UNCHANGED <<tv, first, sent, server, receiver, expired, report, count>>

\* Anything in the try block may raise: the finally clause comes next.  Before it
\* there is nothing to take back and no report.
Raise ==
    /\ \/ Fault
       \/ pc \in {"identify", "revalidate"} /\ tv \notin Selected /\ UNCHANGED count
       \/ pc = "revalidate" /\ tv # first /\ UNCHANGED count
    /\ \/ pc \in {"identify", "capabilities", "listen"} /\ pc' = "refused"
       \/ pc \in {"revalidate", "send", "record", "poll"} /\ pc' = "shutdown"
       \/ pc = "report" /\ pc' = "done"
    /\ UNCHANGED <<tv, first, sent, server, receiver, expired, completed, report>>

\* Fault: the thread is not waited for.
ShutdownAtOnce ==
    /\ Step("shutdown", "report") /\ server' = "closed"
    /\ UNCHANGED <<tv, first, sent, receiver, expired, completed, report, count>>

\* shutdown() returns, and the thread is joined, when the loop of the server has
\* ended, which the connection it serves holds up.
Shutdown ==
    /\ pc = "shutdown"
    /\ \/ server = "serving" /\ server' = "stopping" /\ UNCHANGED pc
       \/ server = "stopping" /\ upload = Nothing /\ server' = "closed" /\ pc' = "report"
    /\ UNCHANGED <<tv, first, sent, receiver, expired, completed, report, count>>

\* A rejection that came in after the last pass takes the completion back.
Report ==
    /\ Step("report", "done")
    /\ completed' = (completed /\ ~failed)
    /\ report' = [completed |-> completed', files |-> files, failed |-> failed]
    /\ UNCHANGED <<tv, first, sent, server, receiver, expired, count>>

-----------------------------------------------------------------------------
(* The receiver thread: one connection at a time.                            *)

Expire ==
    /\ ~expired /\ server # "none" /\ expired' = TRUE
    /\ UNCHANGED <<tv, main, receiver, count>>

Accept ==
    /\ server = "serving" /\ upload = Nothing /\ count.uploads < MaxUploads
    /\ upload' = [at |-> "headers", length |-> 0, left |-> 0, parts |-> {}]
    /\ count' = [count EXCEPT !.uploads = @ + 1]
    /\ UNCHANGED <<tv, main, total, stored, files, failed, expired>>

\* A request that never comes, a wrong path, or a peer that is not the target.
Turn ==
    /\ upload # Nothing /\ upload.at = "headers" /\ upload' = Nothing
    /\ UNCHANGED <<tv, main, total, stored, files, failed, expired, count>>

\* Fault: an upload is measured against the budget alone.
ChargeEach ==
    /\ upload # Nothing /\ upload.at = "headers"
    /\ \E length \in 1 .. MaxLength :
           /\ length <= MaxBytes
           /\ total' = total + length
           /\ upload' = [at |-> "body", length |-> length, left |-> length, parts |-> {}]
    /\ UNCHANGED <<tv, main, stored, files, failed, expired, count>>

\* Content-Length is charged before a byte of the body is read.
Charge ==
    /\ upload # Nothing /\ upload.at = "headers"
    /\ \E length \in 1 .. MaxLength :
           /\ total + length <= MaxBytes
           /\ total' = total + length
           /\ upload' = [at |-> "body", length |-> length, left |-> length, parts |-> {}]
    /\ UNCHANGED <<tv, main, stored, files, failed, expired, count>>

Chunk ==
    /\ upload # Nothing /\ upload.at = "body" /\ ~expired
    /\ \E n \in 1 .. upload.left :
           /\ stored' = stored + n
           /\ upload' = IF n = upload.left THEN [upload EXCEPT !.at = "parse", !.left = upload.length]
                        ELSE [upload EXCEPT !.left = @ - n]
    /\ UNCHANGED <<tv, main, total, files, failed, expired, count>>

\* extract_multipart_files: a part is written once more, to a file of its own, and
\* inspected there.  The parts of a body do not overlap.
Extract ==
    /\ upload # Nothing /\ upload.at = "parse"
    /\ \E n \in 1 .. upload.left, f \in File :
           /\ stored' = stored + n
           /\ upload' = [upload EXCEPT !.left = @ - n, !.parts = @ \cup {f}]
    /\ UNCHANGED <<tv, main, total, files, failed, expired, count>>

\* The files of an upload count together, before the sender has its answer.
Parse ==
    /\ upload # Nothing /\ upload.at = "parse" /\ upload.parts # {}
    /\ files' = files \cup upload.parts
    /\ upload' = [upload EXCEPT !.at = "answer"]
    /\ UNCHANGED <<tv, main, total, stored, failed, expired, count>>

Answer ==
    /\ upload # Nothing /\ upload.at = "answer" /\ upload' = Nothing
    /\ UNCHANGED <<tv, main, total, stored, files, failed, expired, count>>

\* Fault: a sender that stops sending is waited for, deadline or not.
RejectNoTimeout ==
    /\ upload # Nothing /\ upload.at = "parse" /\ upload' = Nothing
    /\ failed' = TRUE
    /\ UNCHANGED <<tv, main, total, stored, files, expired, count>>

\* Too long, cut off, late, silent for 30 seconds, not a valid archive, or gone
\* before it has its answer.
Reject ==
    /\ upload # Nothing /\ upload' = Nothing
    /\ failed' = TRUE
    /\ UNCHANGED <<tv, main, total, stored, files, expired, count>>

-----------------------------------------------------------------------------
Main == \/ Identify \/ Capabilities \/ Listen \/ Revalidate \/ Send \/ Record
        \/ Poll \/ Shutdown \/ Report

Serve == Turn \/ Charge \/ Chunk \/ Extract \/ Parse \/ Answer \/ Reject

Next == Main \/ Raise \/ Readdress \/ Expire \/ Accept \/ Serve

Spec == Init /\ [][Next]_vars

\* The main thread goes on where it can or raises; time passes; a connection is
\* answered or its socket times out.  Nobody is obliged to send anything.
FairSpec == Spec /\ WF_vars(Main) /\ WF_vars(Raise) /\ WF_vars(Expire) /\ WF_vars(Reject)

-----------------------------------------------------------------------------
(* Properties.                                                               *)

\* The state is well typed.
TypeOK ==
    /\ tv \in Device /\ first \in Selected \cup {Nothing} /\ sent \in Selected \cup {Nothing}
    /\ pc \in Label /\ server \in {"none", "serving", "stopping", "closed"}
    /\ upload \in Upload \cup {Nothing}
    /\ total \in Nat /\ stored \in Nat /\ files \in SUBSET File
    /\ failed \in BOOLEAN /\ expired \in BOOLEAN /\ completed \in BOOLEAN
    /\ report \in [completed: BOOLEAN, files: SUBSET File, failed: BOOLEAN] \cup {Nothing}
    /\ count \in [uploads: Nat, faults: Nat]

\* "A timeout or incomplete item set is failure", and encrypted archives "cannot
\* count as CRC/content-validated" (docs/FIRST-TV-TEST.md 95-97): a report that
\* says completed has every item in a file whose members were checked, and knows
\* of no rejected upload, one that came in after the last look included.
CompletedIsWhole ==
    report # Nothing /\ report.completed =>
        /\ \A i \in Wanted : \E f \in report.files : f.crc = "valid" /\ i \in f.items
        /\ ~report.failed

\* The report is the whole truth: nothing is received or rejected after it.
ReportIsFinal ==
    report # Nothing => report.files = files /\ report.failed = failed /\ upload = Nothing

\* "checks identity again immediately before requesting the upload"
\* (docs/FIRST-TV-TEST.md 60): the command names the TV of both checks.
SentToVerified == pc \in {"record", "poll"} \/ sent # Nothing => sent = first

\* The room asked for before the session (clone_export.py 252) is enough: every
\* byte charged may reach the disk twice, in the body and in an extracted part, the
\* ones of rejected and cut off uploads included, and the sum charged over all
\* uploads stays in the budget (clone_export.py 194-196).
Reserved == 2 * MaxBytes
BudgetKept == total <= MaxBytes /\ stored <= Reserved

\* The command ends: no sender, silent or slow, holds the shutdown up for ever.
ExportEnds == <>(pc \in Ended)
=============================================================================
