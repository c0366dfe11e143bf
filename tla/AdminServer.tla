----------------------------- MODULE AdminServer -----------------------------
(***************************************************************************)
(* cmnd-admin (update_gui.py): the threads of the management server, its        *)
(* logins and sessions, and the release check (updates.py) that decides what   *)
(* the administrator may confirm.  One process from its start on; a restart    *)
(* starts over with everything but the queue file.                             *)
(*                                                                         *)
(* Each critical section of GuiState.lock is one action; between two of them   *)
(* any other thread may run.                                                   *)
(***************************************************************************)
EXTENDS Integers, Sequences, FiniteSets

CONSTANTS
    Client,        \* connections there may be at a time
    Slots,         \* max_clients (32)
    Window,        \* 60 seconds, in ticks
    Life,          \* 1800 seconds, in ticks
    MaxAttempts,   \* 12 attempts in a window
    MaxSessions,   \* 64 sessions
    Release,       \* releases GitHub may list
    Current,       \* __version__
    Channel,       \* "stable" or "preview"
    Nothing,
    MaxTime,       \* bound: ticks since the machine started
    MaxFaults      \* bound: threads that cannot be started

Triple == Nat \X Nat \X Nat

ASSUME AdminAssumption ==
    /\ IsFiniteSet(Client) /\ IsFiniteSet(Release)
    /\ Slots \in Nat \ {0} /\ MaxAttempts \in Nat /\ MaxSessions \in Nat
    /\ Window \in Nat /\ Life \in Nat
    /\ Release \subseteq [version: Triple \cup {Nothing}, id: Nat, draft: BOOLEAN,
                          prerelease: BOOLEAN, assets: BOOLEAN]
    /\ Current \in Triple /\ Nothing \notin Triple /\ Nothing \notin Release
    /\ Channel \in {"stable", "preview"}
    /\ MaxTime \in Nat /\ MaxFaults \in Nat

VARIABLES
    slots,      \* the semaphore
    conn,       \* each connection: next step, and what its request carries
    attempts,   \* times of the logins that were let in, as far as they are remembered: a time
                \* for each of some numbers
    admitted,   \* times of the last of all of them, in order (history variable)
    sessions,   \* expiry of each session: a time for each of some numbers (its token)
    checking, checked, result,  \* GuiState
    checker,    \* the check thread: next step, and what it found
    queue,      \* request.json
    now, faults

server == <<slots, conn>>
logins == <<attempts, admitted, sessions>>
check  == <<checking, checked, result, checker>>
vars   == <<server, logins, check, queue, now, faults>>

-----------------------------------------------------------------------------
(* Which release is offered (updates.py).                                    *)

\* Fault: the parts of a version are compared as text.
LaterAsText(v, w) ==
    LET Digits(n) == IF n < 10 THEN n * 10 ELSE n IN
    \E i \in 1 .. 3 : Digits(v[i]) > Digits(w[i]) /\ \A j \in 1 .. i - 1 : v[j] = w[j]

\* version_tuple: three numbers, the first difference decides.
Later(v, w) == \E i \in 1 .. 3 : v[i] > w[i] /\ \A j \in 1 .. i - 1 : v[j] = w[j]

\* A tag that is no version is passed over.
Candidates(listed) ==
    {r \in listed : /\ ~r.draft /\ (r.prerelease => Channel = "preview")
                    /\ r.version # Nothing /\ Later(r.version, Current)}

Offer(r) == [version |-> r.version, id |-> r.id]

\* The highest version; without a valid ID and both assets it is an error, which offers
\* nothing, and no lower one is taken in its place.
SelectRelease(listed) ==
    LET found == Candidates(listed)
        best  == CHOOSE r \in found : \A s \in found : ~Later(s.version, r.version) IN
    IF found # {} /\ best.id > 0 /\ best.assets THEN Offer(best) ELSE Nothing

-----------------------------------------------------------------------------
(* Connections: the accepting thread, and one thread for each connection.     *)

NoTimes == [i \in {} |-> now]

Closed == [at |-> "closed", asks |-> Nothing]

\* serve: with check_on_startup the first check is started before the first connection is
\* accepted, if it is due.
Init ==
    /\ slots = Slots /\ conn = [c \in Client |-> Closed]
    /\ attempts = NoTimes /\ admitted = <<>> /\ sessions = NoTimes
    /\ checked = 0 /\ result = Nothing /\ queue = Nothing /\ faults = 0
    /\ now \in {0, Window}
    /\ checking \in {FALSE, now >= Window}
    /\ checker = [at |-> IF checking THEN "fetch" ELSE "none", found |-> Nothing]

At(c, here) == conn[c].at = here
To(c, there) == conn' = [conn EXCEPT ![c].at = there]
\* A step of the handler between two others.
Step(c, here, there) == At(c, here) /\ To(c, there) /\ UNCHANGED slots

\* process_request: without a free slot the connection is shut down at once, and nothing
\* changes.  The accepting thread takes the next one when this one's thread is started.
Accept(c) ==
    /\ At(c, "closed") /\ \A d \in Client : ~At(d, "starting")
    /\ slots > 0 /\ slots' = slots - 1 /\ To(c, "starting")
    /\ UNCHANGED <<logins, check, queue, now, faults>>

StartThread(c) ==
    /\ Step(c, "starting", "read")
    /\ UNCHANGED <<logins, check, queue, now, faults>>

\* Fault: the slot is given back by the thread only.
StartFailsKeeping(c) ==
    /\ At(c, "starting") /\ faults < MaxFaults /\ faults' = faults + 1
    /\ conn' = [conn EXCEPT ![c] = Closed]
    /\ UNCHANGED <<slots, logins, check, queue, now>>

\* A thread that cannot be started gives nothing back: the caller does.
StartFails(c) ==
    /\ At(c, "starting") /\ faults < MaxFaults /\ faults' = faults + 1
    /\ conn' = [conn EXCEPT ![c] = Closed] /\ slots' = slots + 1
    /\ UNCHANGED <<logins, check, queue, now>>

\* The thread ends, with its reply sent or in an exception (a read that takes five
\* seconds, a client that is gone): the slot is given back.
EndThread(c) ==
    /\ At(c, "read") \/ At(c, "reply")
    /\ conn' = [conn EXCEPT ![c] = Closed] /\ slots' = slots + 1
    /\ UNCHANGED <<logins, check, queue, now, faults>>

Live == {i \in DOMAIN sessions : sessions[i] > now}

\* A bounded JSON request from the right origin; all but a login need a session.  As long
\* as no check has ended, asking for the status asks for one too.
Read(c) ==
    /\ At(c, "read")
    /\ \/ To(c, "admit")
       \/ Live # {} /\ To(c, "check")
       \/ Live # {} /\ \E r \in Release :
              conn' = [conn EXCEPT ![c] = [at |-> "confirm", asks |-> Offer(r)]]
    /\ UNCHANGED <<slots, logins, check, queue, now, faults>>

-----------------------------------------------------------------------------
(* /api/login                                                                *)

Young  == {i \in DOMAIN attempts : now - attempts[i] < Window}
Recent == [i \in Young |-> attempts[i]]

\* One more time, under a number that is not in use.
Added(times, t) ==
    LET new == CHOOSE i \in 1 .. Cardinality(DOMAIN times) + 1 : i \notin DOMAIN times IN
    [i \in DOMAIN times \cup {new} |-> IF i = new THEN t ELSE times[i]]

\* One more than the limit is enough to see it exceeded.
Remember(t) ==
    IF Len(admitted) > MaxAttempts THEN Append(Tail(admitted), t) ELSE Append(admitted, t)

\* Under the lock: the attempt is counted before the password is looked at.
Admit(c) ==
    /\ At(c, "admit")
    /\ IF Cardinality(Young) >= MaxAttempts
       THEN To(c, "reply") /\ attempts' = Recent /\ UNCHANGED admitted
       ELSE To(c, "verify") /\ attempts' = Added(Recent, now) /\ admitted' = Remember(now)
    /\ UNCHANGED <<slots, sessions, check, queue, now, faults>>

\* 310000 rounds, without the lock.
Verify(c) ==
    /\ Step(c, "verify", "issue") \/ Step(c, "verify", "reply")
    /\ UNCHANGED <<logins, check, queue, now, faults>>

Unexpired == [i \in Live |-> sessions[i]]

\* Fault: the limit was tested when the attempt was admitted.
IssueUntested(c) ==
    /\ Step(c, "issue", "reply") /\ sessions' = Added(Unexpired, now + Life)
    /\ UNCHANGED <<attempts, admitted, check, queue, now, faults>>

\* Under the lock again: the limit is tested as it is now.
Issue(c) ==
    /\ Step(c, "issue", "reply")
    /\ sessions' = IF Cardinality(Live) >= MaxSessions THEN Unexpired
                   ELSE Added(Unexpired, now + Life)
    /\ UNCHANGED <<attempts, admitted, check, queue, now, faults>>

-----------------------------------------------------------------------------
(* /api/check, /api/status and the check thread                              *)

\* checked is 0.0 until the first check has ended, and the clock counts from the start
\* of the machine: in its first minute nothing is due.
Due == ~checking /\ now - checked >= Window

\* Under the lock; the thread is started after it.
Check(c) ==
    /\ Step(c, "check", IF Due THEN "startCheck" ELSE "reply")
    /\ checking' = (checking \/ Due)
    /\ UNCHANGED <<logins, checked, result, checker, queue, now, faults>>

StartCheck(c) ==
    /\ Step(c, "startCheck", "reply")
    /\ checker' = [at |-> "fetch", found |-> Nothing]
    /\ UNCHANGED <<logins, checking, checked, result, queue, now, faults>>

\* The check thread cannot be started: nothing takes the flag back.
StartCheckFails(c) ==
    /\ At(c, "startCheck") /\ To(c, "reply") /\ faults < MaxFaults /\ faults' = faults + 1
    /\ checker' = [at |-> "lost", found |-> Nothing]
    /\ UNCHANGED <<slots, logins, checking, checked, result, queue, now>>

\* One answer of GitHub's, or none: a refusal, a timeout, a list that is too long.
Fetch ==
    /\ checker.at = "fetch"
    /\ \/ \E listed \in SUBSET Release :
            checker' = [at |-> "record", found |-> SelectRelease(listed)]
       \/ checker' = [at |-> "failed", found |-> Nothing]
    /\ UNCHANGED <<server, logins, checking, checked, result, queue, now, faults>>

\* Fault: the flag is taken back when a list came.
RecordOnlySuccess ==
    /\ checker.at \in {"record", "failed"} /\ checker' = [at |-> "none", found |-> Nothing]
    /\ checked' = now
    /\ result' = checker.found
    /\ checking' = (checker.at = "failed")
    /\ UNCHANGED <<server, logins, queue, now, faults>>

\* Under the lock, whatever the outcome.
Record ==
    /\ checker.at \in {"record", "failed"} /\ checker' = [at |-> "none", found |-> Nothing]
    /\ result' = checker.found
    /\ checked' = now /\ checking' = FALSE
    /\ UNCHANGED <<server, logins, queue, now, faults>>

-----------------------------------------------------------------------------
(* /api/install                                                              *)

\* Under the lock: the body names what is offered, no update is under way, and no
\* confirmation is queued (the queue file is linked, never replaced).  What status.json
\* says is the worker's.
Confirm(c) ==
    /\ At(c, "confirm") /\ conn' = [conn EXCEPT ![c] = [Closed EXCEPT !.at = "reply"]]
    /\ UNCHANGED slots
    /\ \E running \in BOOLEAN :
            queue' = IF conn[c].asks = result /\ ~running /\ queue = Nothing
                     THEN conn[c].asks ELSE queue
    /\ UNCHANGED <<logins, check, now, faults>>

-----------------------------------------------------------------------------
(* What surrounds the process.                                               *)

\* The worker takes a confirmation.
WorkerTakes ==
    /\ queue # Nothing /\ queue' = Nothing
    /\ UNCHANGED <<server, logins, check, now, faults>>

Tick ==
    /\ now < MaxTime /\ now' = now + 1
    /\ UNCHANGED <<server, logins, check, queue, faults>>

Handle(c) ==
    \/ StartThread(c) \/ StartFails(c) \/ EndThread(c) \/ Read(c)
    \/ Admit(c) \/ Verify(c) \/ Issue(c)
    \/ Check(c) \/ StartCheck(c) \/ StartCheckFails(c) \/ Confirm(c)

Next ==
    \/ \E c \in Client : Accept(c) \/ Handle(c)
    \/ Fetch \/ Record
    \/ WorkerTakes \/ Tick

\* A started thread runs, and what it waits for has a timeout.
Fairness == (\A c \in Client : WF_vars(Handle(c))) /\ WF_vars(Fetch \/ Record)

Spec == Init /\ [][Next]_vars /\ Fairness

-----------------------------------------------------------------------------
(* Properties                                                                *)

\* A slot is free or held by exactly one connection, whichever thread gives it back.
SlotsConserved == slots + Cardinality({c \in Client : ~At(c, "closed")}) = Slots

\* In no 60 seconds are more than twelve passwords looked at, and the sessions stay within
\* their limit, however the threads of the logins interleave between the two critical
\* sections, with the slow comparison of the password between them.
LoginsLimited ==
    /\ Len(admitted) > MaxAttempts => admitted[Len(admitted)] - admitted[1] >= Window
    /\ Cardinality(Live) <= MaxSessions

\* What waits for the worker is a published release with its assets, of this channel and
\* newer than the version that runs, whatever the request named and whichever checks
\* ended before it.
QueuedIsEligible ==
    queue # Nothing =>
        \E r \in Release : /\ queue = Offer(r) /\ ~r.draft /\ r.assets
                           /\ r.prerelease => Channel = "preview"
                           /\ \E i \in 1 .. 3 : /\ r.version[i] > Current[i]
                                                /\ \A j \in 1 .. i - 1 : r.version[j] = Current[j]

\* However many requests find a check due while one is being started or under way, only one
\* thread is: results are never recorded out of order (update_gui.py 80-93).
OneCheck ==
    /\ checker.at # "none" => checking
    /\ \A c, d \in Client : At(c, "startCheck") /\ At(d, "startCheck") => c = d
    /\ \A c \in Client : At(c, "startCheck") => checking /\ checker.at = "none"

\* A check that was started ends, and another one may follow.
CheckEnds == (checker.at \in {"fetch", "record", "failed"}) ~> ~checking
=============================================================================
