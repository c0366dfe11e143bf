---------------------------- MODULE ReleaseStore ----------------------------
(***************************************************************************)
(* The release directories under /opt/cmnd (runtime.py): install_release   *)
(* copies a release, marks it, and activates it by current.txt and by the   *)
(* link current, which the services run from; rollback activates a release  *)
(* that is already there.  install_release takes a lock file, rollback      *)
(* takes none.  One action is one change of the file system; a small text file is *)
(* written at once.                                                        *)
(***************************************************************************)
EXTENDS Naturals

CONSTANTS
    Proc,       \* processes an operator may run
    Release,    \* names of releases
    Nothing,    \* no file, no process, no release
    MaxOps,     \* bound: commands that get past their first test
    MaxFaults   \* bound: I/O errors, interrupts and kills

ASSUME StoreAssumption ==
    /\ Nothing \notin Release \cup Proc
    /\ MaxOps \in Nat /\ MaxFaults \in Nat

VARIABLES
    dir,         \* each release directory: absent, partial (no release.json), whole,
                 \* or damaged (release.json, but not every file)
    current,     \* current.txt
    link,        \* the link current
    pending,     \* the link .current.next, renamed to current
    lock,        \* .cmndctl.lock: who created it
    pc, target,  \* each process: its next step, the release it works on
    ops, faults, \* counters
    overlapped   \* two commands were once active at the same time (history variable)

files == <<dir, current, link, pending>>
vars == <<files, lock, pc, target, ops, faults, overlapped>>

\* The marker that makes a directory an installed release is there.
Marked == {"whole", "damaged"}

\* Program points of install_release and, with a name of its own, of rollback.
Locked  == {"mkdir", "copy", "mark", "text", "unlink", "symlink", "replace", "remove", "unlock"}
Undone  == {"mkdir", "copy", "mark", "text", "unlink", "symlink", "replace"}
Unlocked == {"rb-text", "rb-unlink", "rb-symlink", "rb-replace"}
Label == {"off", "lock"} \cup Locked \cup Unlocked

Init ==
    /\ dir = [r \in Release |-> "absent"]
    /\ current = Nothing /\ link = Nothing /\ pending = Nothing /\ lock = Nothing
    /\ pc = [p \in Proc |-> "off"] /\ target = [p \in Proc |-> Nothing]
    /\ ops = 0 /\ faults = 0 /\ overlapped = FALSE

-----------------------------------------------------------------------------
At(p, here)    == pc[p] = here
Goto(p, there) == pc' = [pc EXCEPT ![p] = there]

Enter(p, r, there) ==
    /\ At(p, "off") /\ ops < MaxOps /\ ops' = ops + 1
    /\ Goto(p, there) /\ target' = [target EXCEPT ![p] = r]
    /\ overlapped' = (overlapped \/ \E q \in Proc \ {p} : pc[q] # "off")
    /\ UNCHANGED <<files, lock, faults>>

\* The process ends, and with it its local variables.
Leave(p) == Goto(p, "off") /\ target' = [target EXCEPT ![p] = Nothing]

Same == UNCHANGED <<ops, faults, overlapped>>

\* Where an exception leads: install_release removes its release directory and
\* then the lock, rollback has no handler.
Fail(p) == IF pc[p] \in Undone THEN Goto(p, "remove") /\ UNCHANGED target ELSE Leave(p)

-----------------------------------------------------------------------------
\* A release that is marked is reported, one that is not is refused, before the
\* lock is looked at; neither changes anything.
Install(p, r) == dir[r] = "absent" /\ Enter(p, r, "lock")

Lock(p) ==
    /\ At(p, "lock")
    /\ IF lock = Nothing THEN lock' = p /\ Goto(p, "mkdir") /\ UNCHANGED target
                         ELSE Leave(p) /\ UNCHANGED lock
    /\ UNCHANGED files /\ Same

\* webapps.mkdir(parents=True) fails if the directory exists by now.
Mkdir(p) ==
    /\ At(p, "mkdir")
    /\ IF dir[target[p]] = "absent"
       THEN dir' = [dir EXCEPT ![target[p]] = "partial"] /\ Goto(p, "copy") /\ UNCHANGED target
       ELSE Fail(p) /\ UNCHANGED dir
    /\ UNCHANGED <<current, link, pending, lock>> /\ Same

Copy(p) == /\ At(p, "copy") /\ Goto(p, "mark")
           /\ UNCHANGED <<files, lock, target>> /\ Same

\* Fault: the directory is activated before release.json is written.
MarkLater(p) ==
    /\ At(p, "mark") /\ Goto(p, "text")
    /\ UNCHANGED <<files, lock, target>> /\ Same

Mark(p) == /\ At(p, "mark") /\ Goto(p, "text")
           /\ dir' = [dir EXCEPT ![target[p]] = "whole"]
           /\ UNCHANGED <<current, link, pending, lock, target>> /\ Same

\* The four steps of an activation, the same in both commands.
Text(p, here, there) ==
    /\ At(p, here) /\ Goto(p, there)
    /\ current' = target[p]
    /\ UNCHANGED <<dir, link, pending, lock, target>> /\ Same

Unlink(p, here, there) ==
    /\ At(p, here) /\ Goto(p, there)
    /\ pending' = Nothing
    /\ UNCHANGED <<dir, current, link, lock, target>> /\ Same

Symlink(p, here, there) ==
    /\ At(p, here)
    /\ IF pending = Nothing THEN pending' = target[p] /\ Goto(p, there) /\ UNCHANGED target
                            ELSE Fail(p) /\ UNCHANGED pending
    /\ UNCHANGED <<dir, current, link, lock>> /\ Same

Replace(p, here, there) ==
    /\ At(p, here)
    /\ IF pending # Nothing
       THEN /\ link' = pending /\ pending' = Nothing
            /\ IF there = "off" THEN Leave(p) ELSE Goto(p, there) /\ UNCHANGED target
       ELSE Fail(p) /\ UNCHANGED <<link, pending>>
    /\ UNCHANGED <<dir, current, lock>> /\ Same

\* except Exception: rmtree(destination).
Remove(p) ==
    /\ At(p, "remove") /\ Goto(p, "unlock")
    /\ dir' = [dir EXCEPT ![target[p]] = "absent"]
    /\ UNCHANGED <<current, link, pending, lock, target>> /\ Same

\* Fault: the lock is left behind after an error.
UnlockKept(p) == At(p, "unlock") /\ Leave(p) /\ UNCHANGED <<files, lock>> /\ Same

Unlock(p) == /\ At(p, "unlock") /\ Leave(p)
             /\ lock' = Nothing
             /\ UNCHANGED files /\ Same

Rollback(p, r) == dir[r] \in Marked /\ Enter(p, r, "rb-text")

-----------------------------------------------------------------------------
(* Faults.                                                                   *)

Faulty == /\ faults < MaxFaults /\ faults' = faults + 1
          /\ UNCHANGED <<lock, current, link, pending, ops, overlapped>>

\* An operation of the file system fails; a mkdir(parents=True) may have made
\* some of the directories.
IOError(p) ==
    /\ pc[p] \in Undone \cup Unlocked /\ Fail(p)
    /\ \/ UNCHANGED dir
       \/ /\ At(p, "mkdir") /\ dir[target[p]] = "absent"
          /\ dir' = [dir EXCEPT ![target[p]] = "partial"]
    /\ Faulty

\* rmtree may have removed a part of the directory when it is cut short (an error
\* in it, which it ignores, has the same outcomes), and release.json is not
\* necessarily in that part.
CutShort(p) ==
    \/ UNCHANGED dir
    \/ /\ At(p, "remove") /\ dir[target[p]] # "absent"
       /\ \E left \in {"absent", "partial", "damaged"} :
              /\ left = "damaged" => dir[target[p]] \in Marked
              /\ dir' = [dir EXCEPT ![target[p]] = left]

\* Ctrl-C is no Exception: the directory stays, the lock goes.
Interrupt(p) ==
    /\ pc[p] \notin {"off", "unlock"}
    /\ IF pc[p] \in Locked THEN Goto(p, "unlock") /\ UNCHANGED target ELSE Leave(p)
    /\ CutShort(p) /\ Faulty

\* A kill leaves the lock.
Kill(p) == pc[p] # "off" /\ Leave(p) /\ CutShort(p) /\ Faulty

-----------------------------------------------------------------------------
InstallSteps(p) ==
    \/ \E r \in Release : Install(p, r)
    \/ Lock(p) \/ Mkdir(p) \/ Copy(p) \/ Mark(p) \/ Text(p, "text", "unlink")
    \/ Unlink(p, "unlink", "symlink") \/ Symlink(p, "symlink", "replace")
    \/ Replace(p, "replace", "unlock") \/ Remove(p) \/ Unlock(p)

RollbackSteps(p) ==
    \/ \E r \in Release : Rollback(p, r)
    \/ Text(p, "rb-text", "rb-unlink") \/ Unlink(p, "rb-unlink", "rb-symlink")
    \/ Symlink(p, "rb-symlink", "rb-replace") \/ Replace(p, "rb-replace", "off")

Next == \E p \in Proc : InstallSteps(p) \/ RollbackSteps(p) \/ IOError(p) \/ Interrupt(p) \/ Kill(p)

Spec == Init /\ [][Next]_vars

-----------------------------------------------------------------------------
(* Properties.                                                               *)

\* The state is well typed, and exactly the processes that run work on a release.
TypeOK ==
    /\ dir \in [Release -> {"absent", "partial", "damaged", "whole"}]
    /\ {current, link, pending} \subseteq Release \cup {Nothing}
    /\ lock \in Proc \cup {Nothing}
    /\ pc \in [Proc -> Label] /\ target \in [Proc -> Release \cup {Nothing}]
    /\ \A p \in Proc : pc[p] = "off" <=> target[p] = Nothing
    /\ ops \in Nat /\ faults \in Nat /\ overlapped \in BOOLEAN

\* "another cmndctl lifecycle operation is active": two installations never
\* copy, activate or remove at the same time, and one that was killed stays in
\* the way of the next (runtime.py 83-88, 109-110).
OneInstaller == \A p \in Proc : pc[p] \in Locked => lock = p

\* As long as commands are run one after the other, the services run from a
\* release that was copied completely and marked, and whose directory is still
\* there, whatever fails, is interrupted or killed in between (runtime.py 90-110,
\* 158-170).  It may lack files, but then only because a removal of it was cut
\* short before it was activated.
ActiveIsMarked == ~overlapped /\ link # Nothing => dir[link] \in Marked

\* As long as commands are run one after the other and nothing fails, status
\* reports the release the services run from (runtime.py 98-104, 150-170).
NamesAgree ==
    ~overlapped /\ faults = 0 /\ (\A p \in Proc : pc[p] = "off") => current = link /\ lock = Nothing

\* "Rerunnable release staging" (README.md 161), "another cmndctl lifecycle
\* operation is active" (runtime.py 88): also when commands overlap, no command
\* removes the release the services run from.
ActiveStays == [][link # Nothing /\ dir[link] = "whole" => dir'[link] = "whole"]_vars
=============================================================================
