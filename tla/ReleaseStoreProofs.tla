------------------------- MODULE ReleaseStoreProofs -------------------------
(***************************************************************************)
(* Theorems about ReleaseStore for any number of processes, releases,       *)
(* commands and faults.                                                     *)
(***************************************************************************)
EXTENDS ReleaseStore, TLAPS

\* Points at which a release is being activated.
Activating == {"text", "unlink", "symlink", "replace"} \cup Unlocked

\* What is known of the release a process works on, as long as commands are run
\* one after the other: its directory, and that an installation which may still
\* remove it works on a release the services do not run from.
Alone(p) ==
    /\ pc[p] \in {"lock", "mkdir"} => dir[target[p]] = "absent"
    /\ pc[p] \in Activating => dir[target[p]] \in Marked
    /\ pc[p] \in {"replace", "rb-replace"} => pending = target[p]
    /\ pc[p] \in Undone \cup {"lock", "remove"} => link # target[p]

Sequential == \A p, q \in Proc : pc[p] # "off" /\ pc[q] # "off" => p = q

IInv == /\ TypeOK
        /\ OneInstaller
        /\ ActiveIsMarked
        /\ ~overlapped => Sequential /\ \A p \in Proc : Alone(p)

LEMMA LabelFacts ==
    /\ Label = {"off", "lock"} \cup Locked \cup Unlocked
    /\ Locked = {"mkdir", "copy", "mark", "text", "unlink", "symlink", "replace", "remove", "unlock"}
    /\ Undone = {"mkdir", "copy", "mark", "text", "unlink", "symlink", "replace"}
    /\ Unlocked = {"rb-text", "rb-unlink", "rb-symlink", "rb-replace"}
    /\ Activating = {"text", "unlink", "symlink", "replace"} \cup Unlocked
    /\ Marked = {"whole", "damaged"}
BY DEF Marked, Label, Locked, Undone, Unlocked, Activating

LEMMA InitIInv == Init => IInv
<1> SUFFICES ASSUME Init PROVE IInv OBVIOUS
<1> USE StoreAssumption, LabelFacts DEF Init
<1>1. TypeOK BY DEF TypeOK
<1>2. OneInstaller /\ ActiveIsMarked /\ Sequential BY DEF OneInstaller, ActiveIsMarked, Sequential
<1>3. \A p \in Proc : Alone(p) BY DEF Alone
<1> QED BY <1>1, <1>2, <1>3 DEF IInv

-----------------------------------------------------------------------------
\* One process moves at a time, so what is known of the others carries over: they
\* are off if commands are run one after the other.
LEMMA Mover ==
    ASSUME IInv, NEW p \in Proc, TypeOK', ActiveIsMarked',
           \A q \in Proc \ {p} : pc'[q] = pc[q] /\ target'[q] = target[q],
           pc'[p] \in Locked => lock' = p,
           \A q \in Proc \ {p} : pc[q] \in Locked => lock' = lock,
           overlapped => overlapped',
           ~overlapped' => \A q \in Proc \ {p} : pc[q] = "off",
           ~overlapped' => Alone(p)'
    PROVE  IInv'
<1> USE LabelFacts
<1>1. OneInstaller' BY DEF IInv, OneInstaller
<1>2. ASSUME ~overlapped' PROVE Sequential' BY <1>2 DEF IInv, Sequential
<1>3. ASSUME ~overlapped', NEW q \in Proc PROVE Alone(q)'
  <2>1. CASE q = p BY <2>1, <1>3
  <2>2. CASE q # p BY <2>2, <1>3 DEF Alone
  <2> QED BY <2>1, <2>2
<1> QED BY <1>1, <1>2, <1>3 DEF IInv

-----------------------------------------------------------------------------
(* A command starts.                                                         *)

LEMMA InstallStep == ASSUME IInv, NEW p \in Proc, NEW r \in Release, Install(p, r) PROVE IInv'
<1> USE LabelFacts, StoreAssumption DEF Install, Enter, At, Goto, files
<1>1. TypeOK' BY DEF IInv, TypeOK
<1>2. ActiveIsMarked' BY DEF IInv, ActiveIsMarked
<1>3. ~overlapped' => Alone(p)' BY <1>2 DEF IInv, TypeOK, Alone, ActiveIsMarked
<1> QED BY <1>1, <1>2, <1>3, Mover DEF IInv, TypeOK

LEMMA RollbackStep == ASSUME IInv, NEW p \in Proc, NEW r \in Release, Rollback(p, r) PROVE IInv'
<1> USE LabelFacts, StoreAssumption DEF Rollback, Enter, At, Goto, files
<1>1. TypeOK' BY DEF IInv, TypeOK
<1>2. ActiveIsMarked' BY DEF IInv, ActiveIsMarked
<1>3. ~overlapped' => Alone(p)' BY DEF IInv, TypeOK, Alone
<1> QED BY <1>1, <1>2, <1>3, Mover DEF IInv, TypeOK

-----------------------------------------------------------------------------
(* A command works.  While commands are run one after the other, the others  *)
(* are off.                                                                  *)

LEMMA OthersOff ==
    ASSUME IInv, NEW p \in Proc, pc[p] # "off", ~overlapped, NEW q \in Proc \ {p}
    PROVE  pc[q] = "off"
BY DEF IInv, Sequential

LEMMA LockStep == ASSUME IInv, NEW p \in Proc, Lock(p) PROVE IInv'
<1> USE LabelFacts, StoreAssumption DEF Lock, At, Goto, Leave, Fail, Same, files
<1>1. TypeOK' BY DEF IInv, TypeOK
<1>2. ActiveIsMarked' BY DEF IInv, TypeOK, Alone, ActiveIsMarked
<1>3. ~overlapped' => Alone(p)' BY DEF IInv, TypeOK, Alone, ActiveIsMarked
<1>4. ~overlapped' => \A q \in Proc \ {p} : pc[q] = "off" BY OthersOff DEF IInv, TypeOK
<1>5. /\ pc'[p] \in Locked => lock' = p
      /\ \A q \in Proc \ {p} : pc[q] \in Locked => lock' = lock
  BY DEF IInv, TypeOK, OneInstaller
<1> QED BY <1>1, <1>2, <1>3, <1>4, <1>5, Mover DEF IInv, TypeOK

LEMMA MkdirStep == ASSUME IInv, NEW p \in Proc, Mkdir(p) PROVE IInv'
<1> USE LabelFacts, StoreAssumption DEF Mkdir, At, Goto, Leave, Fail, Same, files
<1>1. TypeOK' BY DEF IInv, TypeOK
<1>2. ActiveIsMarked' BY DEF IInv, TypeOK, Alone, ActiveIsMarked
<1>3. ~overlapped' => Alone(p)' BY DEF IInv, TypeOK, Alone, ActiveIsMarked
<1>4. ~overlapped' => \A q \in Proc \ {p} : pc[q] = "off" BY OthersOff DEF IInv, TypeOK
<1>5. /\ pc'[p] \in Locked => lock' = p
      /\ \A q \in Proc \ {p} : pc[q] \in Locked => lock' = lock
  BY DEF IInv, TypeOK, OneInstaller
<1> QED BY <1>1, <1>2, <1>3, <1>4, <1>5, Mover DEF IInv, TypeOK

LEMMA CopyStep == ASSUME IInv, NEW p \in Proc, Copy(p) PROVE IInv'
<1> USE LabelFacts, StoreAssumption DEF Copy, At, Goto, Leave, Fail, Same, files
<1>1. TypeOK' BY DEF IInv, TypeOK
<1>2. ActiveIsMarked' BY DEF IInv, TypeOK, Alone, ActiveIsMarked
<1>3. ~overlapped' => Alone(p)' BY DEF IInv, TypeOK, Alone, ActiveIsMarked
<1>4. ~overlapped' => \A q \in Proc \ {p} : pc[q] = "off" BY OthersOff DEF IInv, TypeOK
<1>5. /\ pc'[p] \in Locked => lock' = p
      /\ \A q \in Proc \ {p} : pc[q] \in Locked => lock' = lock
  BY DEF IInv, TypeOK, OneInstaller
<1> QED BY <1>1, <1>2, <1>3, <1>4, <1>5, Mover DEF IInv, TypeOK

LEMMA MarkStep == ASSUME IInv, NEW p \in Proc, Mark(p) PROVE IInv'
<1> USE LabelFacts, StoreAssumption DEF Mark, At, Goto, Leave, Fail, Same, files
<1>1. TypeOK' BY DEF IInv, TypeOK
<1>2. ActiveIsMarked' BY DEF IInv, TypeOK, Alone, ActiveIsMarked
<1>3. ~overlapped' => Alone(p)' BY DEF IInv, TypeOK, Alone, ActiveIsMarked
<1>4. ~overlapped' => \A q \in Proc \ {p} : pc[q] = "off" BY OthersOff DEF IInv, TypeOK
<1>5. /\ pc'[p] \in Locked => lock' = p
      /\ \A q \in Proc \ {p} : pc[q] \in Locked => lock' = lock
  BY DEF IInv, TypeOK, OneInstaller
<1> QED BY <1>1, <1>2, <1>3, <1>4, <1>5, Mover DEF IInv, TypeOK

LEMMA RemoveStep == ASSUME IInv, NEW p \in Proc, Remove(p) PROVE IInv'
<1> USE LabelFacts, StoreAssumption DEF Remove, At, Goto, Leave, Fail, Same, files
<1>1. TypeOK' BY DEF IInv, TypeOK
<1>2. ActiveIsMarked' BY DEF IInv, TypeOK, Alone, ActiveIsMarked
<1>3. ~overlapped' => Alone(p)' BY DEF IInv, TypeOK, Alone, ActiveIsMarked
<1>4. ~overlapped' => \A q \in Proc \ {p} : pc[q] = "off" BY OthersOff DEF IInv, TypeOK
<1>5. /\ pc'[p] \in Locked => lock' = p
      /\ \A q \in Proc \ {p} : pc[q] \in Locked => lock' = lock
  BY DEF IInv, TypeOK, OneInstaller
<1> QED BY <1>1, <1>2, <1>3, <1>4, <1>5, Mover DEF IInv, TypeOK

LEMMA UnlockStep == ASSUME IInv, NEW p \in Proc, Unlock(p) PROVE IInv'
<1> USE LabelFacts, StoreAssumption DEF Unlock, At, Goto, Leave, Fail, Same, files
<1>1. TypeOK' BY DEF IInv, TypeOK
<1>2. ActiveIsMarked' BY DEF IInv, TypeOK, Alone, ActiveIsMarked
<1>3. ~overlapped' => Alone(p)' BY DEF IInv, TypeOK, Alone, ActiveIsMarked
<1>4. ~overlapped' => \A q \in Proc \ {p} : pc[q] = "off" BY OthersOff DEF IInv, TypeOK
<1>5. /\ pc'[p] \in Locked => lock' = p
      /\ \A q \in Proc \ {p} : pc[q] \in Locked => lock' = lock
  BY DEF IInv, TypeOK, OneInstaller
<1> QED BY <1>1, <1>2, <1>3, <1>4, <1>5, Mover DEF IInv, TypeOK

LEMMA TextStep == ASSUME IInv, NEW p \in Proc, NEW step \in {<<"text", "unlink">>, <<"rb-text", "rb-unlink">>},
                         Text(p, step[1], step[2]) PROVE IInv'
<1> USE LabelFacts, StoreAssumption DEF Text, At, Goto, Leave, Fail, Same, files
<1>1. TypeOK' BY DEF IInv, TypeOK
<1>2. ActiveIsMarked' BY DEF IInv, TypeOK, Alone, ActiveIsMarked
<1>3. ~overlapped' => Alone(p)' BY DEF IInv, TypeOK, Alone, ActiveIsMarked
<1>4. ~overlapped' => \A q \in Proc \ {p} : pc[q] = "off" BY OthersOff DEF IInv, TypeOK
<1>5. /\ pc'[p] \in Locked => lock' = p
      /\ \A q \in Proc \ {p} : pc[q] \in Locked => lock' = lock
  BY DEF IInv, TypeOK, OneInstaller
<1> QED BY <1>1, <1>2, <1>3, <1>4, <1>5, Mover DEF IInv, TypeOK

LEMMA UnlinkStep == ASSUME IInv, NEW p \in Proc, NEW step \in {<<"unlink", "symlink">>, <<"rb-unlink", "rb-symlink">>},
                         Unlink(p, step[1], step[2]) PROVE IInv'
<1> USE LabelFacts, StoreAssumption DEF Unlink, At, Goto, Leave, Fail, Same, files
<1>1. TypeOK' BY DEF IInv, TypeOK
<1>2. ActiveIsMarked' BY DEF IInv, TypeOK, Alone, ActiveIsMarked
<1>3. ~overlapped' => Alone(p)' BY DEF IInv, TypeOK, Alone, ActiveIsMarked
<1>4. ~overlapped' => \A q \in Proc \ {p} : pc[q] = "off" BY OthersOff DEF IInv, TypeOK
<1>5. /\ pc'[p] \in Locked => lock' = p
      /\ \A q \in Proc \ {p} : pc[q] \in Locked => lock' = lock
  BY DEF IInv, TypeOK, OneInstaller
<1> QED BY <1>1, <1>2, <1>3, <1>4, <1>5, Mover DEF IInv, TypeOK

LEMMA SymlinkStep == ASSUME IInv, NEW p \in Proc, NEW step \in {<<"symlink", "replace">>, <<"rb-symlink", "rb-replace">>},
                         Symlink(p, step[1], step[2]) PROVE IInv'
<1> USE LabelFacts, StoreAssumption DEF Symlink, At, Goto, Leave, Fail, Same, files
<1>1. TypeOK' BY DEF IInv, TypeOK
<1>2. ActiveIsMarked' BY DEF IInv, TypeOK, Alone, ActiveIsMarked
<1>3. ~overlapped' => Alone(p)' BY DEF IInv, TypeOK, Alone, ActiveIsMarked
<1>4. ~overlapped' => \A q \in Proc \ {p} : pc[q] = "off" BY OthersOff DEF IInv, TypeOK
<1>5. /\ pc'[p] \in Locked => lock' = p
      /\ \A q \in Proc \ {p} : pc[q] \in Locked => lock' = lock
  BY DEF IInv, TypeOK, OneInstaller
<1> QED BY <1>1, <1>2, <1>3, <1>4, <1>5, Mover DEF IInv, TypeOK

LEMMA ReplaceStep == ASSUME IInv, NEW p \in Proc, NEW step \in {<<"replace", "unlock">>, <<"rb-replace", "off">>},
                         Replace(p, step[1], step[2]) PROVE IInv'
<1> USE LabelFacts, StoreAssumption DEF Replace, At, Goto, Leave, Fail, Same, files
<1>1. TypeOK' BY DEF IInv, TypeOK
<1>2. ActiveIsMarked' BY DEF IInv, TypeOK, Alone, ActiveIsMarked
<1>3. ~overlapped' => Alone(p)' BY DEF IInv, TypeOK, Alone, ActiveIsMarked
<1>4. ~overlapped' => \A q \in Proc \ {p} : pc[q] = "off" BY OthersOff DEF IInv, TypeOK
<1>5. /\ pc'[p] \in Locked => lock' = p
      /\ \A q \in Proc \ {p} : pc[q] \in Locked => lock' = lock
  BY DEF IInv, TypeOK, OneInstaller
<1> QED BY <1>1, <1>2, <1>3, <1>4, <1>5, Mover DEF IInv, TypeOK

-----------------------------------------------------------------------------
(* Something fails.                                                          *)

LEMMA IOErrorStep == ASSUME IInv, NEW p \in Proc, IOError(p) PROVE IInv'
<1> USE LabelFacts, StoreAssumption DEF IOError, Faulty, At, Goto, Leave, Fail, Same, files
<1>1. TypeOK' BY DEF IInv, TypeOK
<1>2. ActiveIsMarked' BY DEF IInv, TypeOK, Alone, ActiveIsMarked
<1>3. ~overlapped' => Alone(p)' BY DEF IInv, TypeOK, Alone, ActiveIsMarked
<1>4. ~overlapped' => \A q \in Proc \ {p} : pc[q] = "off" BY OthersOff DEF IInv, TypeOK
<1>5. /\ pc'[p] \in Locked => lock' = p
      /\ \A q \in Proc \ {p} : pc[q] \in Locked => lock' = lock
  BY DEF IInv, TypeOK, OneInstaller
<1> QED BY <1>1, <1>2, <1>3, <1>4, <1>5, Mover DEF IInv, TypeOK

LEMMA InterruptStep == ASSUME IInv, NEW p \in Proc, Interrupt(p) PROVE IInv'
<1> USE LabelFacts, StoreAssumption DEF Interrupt, CutShort, Faulty, At, Goto, Leave, Fail, Same, files
<1>1. TypeOK' BY DEF IInv, TypeOK
<1>2. ActiveIsMarked' BY DEF IInv, TypeOK, Alone, ActiveIsMarked
<1>3. ~overlapped' => Alone(p)' BY DEF IInv, TypeOK, Alone, ActiveIsMarked
<1>4. ~overlapped' => \A q \in Proc \ {p} : pc[q] = "off" BY OthersOff DEF IInv, TypeOK
<1>5. /\ pc'[p] \in Locked => lock' = p
      /\ \A q \in Proc \ {p} : pc[q] \in Locked => lock' = lock
  BY DEF IInv, TypeOK, OneInstaller
<1> QED BY <1>1, <1>2, <1>3, <1>4, <1>5, Mover DEF IInv, TypeOK

LEMMA KillStep == ASSUME IInv, NEW p \in Proc, Kill(p) PROVE IInv'
<1> USE LabelFacts, StoreAssumption DEF Kill, CutShort, Faulty, At, Goto, Leave, Fail, Same, files
<1>1. TypeOK' BY DEF IInv, TypeOK
<1>2. ActiveIsMarked' BY DEF IInv, TypeOK, Alone, ActiveIsMarked
<1>3. ~overlapped' => Alone(p)' BY DEF IInv, TypeOK, Alone, ActiveIsMarked
<1>4. ~overlapped' => \A q \in Proc \ {p} : pc[q] = "off" BY OthersOff DEF IInv, TypeOK
<1>5. /\ pc'[p] \in Locked => lock' = p
      /\ \A q \in Proc \ {p} : pc[q] \in Locked => lock' = lock
  BY DEF IInv, TypeOK, OneInstaller
<1> QED BY <1>1, <1>2, <1>3, <1>4, <1>5, Mover DEF IInv, TypeOK

-----------------------------------------------------------------------------
LEMMA NextIInv == IInv /\ [Next]_vars => IInv'
<1> SUFFICES ASSUME IInv, [Next]_vars PROVE IInv' OBVIOUS
<1>1. ASSUME NEW p \in Proc, InstallSteps(p) PROVE IInv'
  <2>1. CASE \E r \in Release : Install(p, r) BY <2>1, InstallStep
  <2>2. CASE Lock(p) \/ Mkdir(p) \/ Copy(p) \/ Mark(p)
    BY <2>2, LockStep, MkdirStep, CopyStep, MarkStep
  <2>3. CASE Text(p, "text", "unlink") BY <2>3, TextStep
  <2>4. CASE Unlink(p, "unlink", "symlink") BY <2>4, UnlinkStep
  <2>5. CASE Symlink(p, "symlink", "replace") BY <2>5, SymlinkStep
  <2>6. CASE Replace(p, "replace", "unlock") BY <2>6, ReplaceStep
  <2>7. CASE Remove(p) \/ Unlock(p) BY <2>7, RemoveStep, UnlockStep
  <2> QED BY <1>1, <2>1, <2>2, <2>3, <2>4, <2>5, <2>6, <2>7 DEF InstallSteps
<1>2. ASSUME NEW p \in Proc, RollbackSteps(p) PROVE IInv'
  <2>1. CASE \E r \in Release : Rollback(p, r) BY <2>1, RollbackStep
  <2>2. CASE Text(p, "rb-text", "rb-unlink") BY <2>2, TextStep
  <2>3. CASE Unlink(p, "rb-unlink", "rb-symlink") BY <2>3, UnlinkStep
  <2>4. CASE Symlink(p, "rb-symlink", "rb-replace") BY <2>4, SymlinkStep
  <2>5. CASE Replace(p, "rb-replace", "off") BY <2>5, ReplaceStep
  <2> QED BY <1>2, <2>1, <2>2, <2>3, <2>4, <2>5 DEF RollbackSteps
<1>3. ASSUME NEW p \in Proc, IOError(p) \/ Interrupt(p) \/ Kill(p) PROVE IInv'
  BY <1>3, IOErrorStep, InterruptStep, KillStep
<1>4. CASE UNCHANGED vars
  BY <1>4 DEF vars, files, IInv, TypeOK, OneInstaller, ActiveIsMarked, Sequential, Alone
<1> QED BY <1>1, <1>2, <1>3, <1>4 DEF Next

THEOREM Invariance == Spec => []IInv
BY InitIInv, NextIInv, PTL DEF Spec

\* The store's state is well typed, and exactly the processes that run work on a
\* release.
THEOREM StoreTypeCorrect == Spec => []TypeOK
<1>1. IInv => TypeOK BY DEF IInv
<1> QED BY <1>1, Invariance, PTL

\* No two installations copy, activate or remove at the same time, whatever is
\* killed and however many processes there are (runtime.py 83-88, 109-110).
THEOREM OneInstallerAtATime == Spec => []OneInstaller
<1>1. IInv => OneInstaller BY DEF IInv
<1> QED BY <1>1, Invariance, PTL

\* Run one after the other, commands never leave the services with a release
\* that was copied in part or removed, whatever fails (runtime.py 90-110, 158-170).
THEOREM ActiveReleaseIsMarked == Spec => []ActiveIsMarked
<1>1. IInv => ActiveIsMarked BY DEF IInv
<1> QED BY <1>1, Invariance, PTL

-----------------------------------------------------------------------------
(* Nothing fails: current.txt and the link agree.                            *)

\* Points between the writing of current.txt and the replacing of the link.
Between == {"unlink", "symlink", "replace", "rb-unlink", "rb-symlink", "rb-replace"}

Agrees(p) ==
    /\ pc[p] # "remove"
    /\ pc[p] \in Between => current = target[p]
    /\ pc[p] \in {"symlink", "rb-symlink"} => pending = Nothing

Calm == ~overlapped /\ faults = 0

Agreed ==
    Calm => /\ lock # Nothing => pc[lock] \in Locked
            /\ \A p \in Proc : Agrees(p)
            /\ (\A p \in Proc : pc[p] \notin Between) => current = link

\* While the others are off, everything is up to one process.
LEMMA Lonely ==
    ASSUME IInv, Agreed, Calm, NEW p \in Proc, \A q \in Proc \ {p} : pc[q] = "off"
    PROVE  /\ Alone(p) /\ Agrees(p)
           /\ lock # Nothing => lock = p /\ pc[p] \in Locked
           /\ pc[p] \notin Between => current = link
<1> USE LabelFacts DEF Between
<1>1. Alone(p) /\ Agrees(p) BY DEF IInv, Agreed, Calm
<1>2. lock # Nothing => lock = p /\ pc[p] \in Locked BY DEF IInv, TypeOK, Agreed
<1>3. pc[p] \notin Between => current = link BY DEF Agreed
<1> QED BY <1>1, <1>2, <1>3

LEMMA LonelyMoves ==
    ASSUME IInv, Agreed, NEW p \in Proc,
           \A q \in Proc \ {p} : pc'[q] = pc[q],
           Calm' => /\ \A q \in Proc \ {p} : pc[q] = "off"
                    /\ Agrees(p)'
                    /\ lock' # Nothing => lock' = p /\ pc'[p] \in Locked
                    /\ pc'[p] \notin Between => current' = link'
    PROVE  Agreed'
<1> USE LabelFacts DEF Between
<1> SUFFICES ASSUME Calm' PROVE Agreed' BY DEF Agreed
<1>1. ASSUME NEW q \in Proc PROVE Agrees(q)'
  <2>1. CASE q = p BY <2>1
  <2>2. CASE q # p BY <2>2 DEF Agrees
  <2> QED BY <2>1, <2>2
<1> QED BY <1>1 DEF Agreed

LEMMA EnterAgreed ==
    ASSUME IInv, Agreed, NEW p \in Proc, NEW r \in Release, NEW there \in {"lock", "rb-text"},
           Enter(p, r, there)
    PROVE  Agreed'
<1> USE LabelFacts DEF Enter, At, Goto, files, Between
<1>1. Calm' => Calm /\ \A q \in Proc \ {p} : pc[q] = "off" BY DEF Calm
<1>2. pc'[p] = there /\ \A q \in Proc \ {p} : pc'[q] = pc[q] BY DEF IInv, TypeOK
<1>3. ASSUME Calm' PROVE Agrees(p)' /\ lock' = Nothing /\ current' = link'
  BY <1>1, <1>2, <1>3, Lonely DEF Agrees
<1> QED BY <1>1, <1>2, <1>3, LonelyMoves

LEMMA InstallAgreed ==
    ASSUME IInv, Agreed, NEW p \in Proc,
           Lock(p) \/ Mkdir(p) \/ Copy(p) \/ Mark(p) \/ Remove(p) \/ Unlock(p)
    PROVE  Agreed'
<1> USE LabelFacts, StoreAssumption
    DEF Lock, Mkdir, Copy, Mark, Remove, Unlock, At, Goto, Leave, Fail, Same, files, Between
<1>1. (Calm' => Calm) /\ pc[p] # "off" BY DEF Calm, IInv, TypeOK
<1>2. \A q \in Proc \ {p} : pc'[q] = pc[q] BY DEF IInv, TypeOK
<1>3. ASSUME Calm' PROVE \A q \in Proc \ {p} : pc[q] = "off" BY <1>1, <1>3, OthersOff DEF Calm
<1>4. ASSUME Calm'
      PROVE  /\ Agrees(p)'
             /\ lock' # Nothing => lock' = p /\ pc'[p] \in Locked
             /\ pc'[p] \notin Between => current' = link'
  <2>1. /\ Alone(p) /\ Agrees(p)
        /\ lock # Nothing => lock = p /\ pc[p] \in Locked
        /\ pc[p] \notin Between => current = link
    BY <1>1, <1>3, <1>4, Lonely
  <2> QED BY <2>1 DEF Agrees, Alone, IInv, TypeOK
<1> QED BY <1>2, <1>3, <1>4, LonelyMoves

LEMMA ActivationAgreed ==
    ASSUME IInv, Agreed, NEW p \in Proc,
           \/ Text(p, "text", "unlink") \/ Text(p, "rb-text", "rb-unlink")
           \/ Unlink(p, "unlink", "symlink") \/ Unlink(p, "rb-unlink", "rb-symlink")
           \/ Symlink(p, "symlink", "replace") \/ Symlink(p, "rb-symlink", "rb-replace")
           \/ Replace(p, "replace", "unlock") \/ Replace(p, "rb-replace", "off")
    PROVE  Agreed'
<1> USE LabelFacts, StoreAssumption
    DEF Text, Unlink, Symlink, Replace, At, Goto, Leave, Fail, Same, files, Between
<1>1. (Calm' => Calm) /\ pc[p] # "off" BY DEF Calm
<1>2. \A q \in Proc \ {p} : pc'[q] = pc[q] BY DEF IInv, TypeOK
<1>3. ASSUME Calm' PROVE \A q \in Proc \ {p} : pc[q] = "off" BY <1>1, <1>3, OthersOff DEF Calm
<1>4. ASSUME Calm'
      PROVE  /\ Agrees(p)'
             /\ lock' # Nothing => lock' = p /\ pc'[p] \in Locked
             /\ pc'[p] \notin Between => current' = link'
  <2>1. /\ Alone(p) /\ Agrees(p)
        /\ lock # Nothing => lock = p /\ pc[p] \in Locked
        /\ pc[p] \notin Between => current = link
    BY <1>1, <1>3, <1>4, Lonely
  <2>2. target[p] \in Release /\ p # Nothing /\ target[p] # Nothing BY <1>1 DEF IInv, TypeOK
  <2> QED BY <2>1, <2>2 DEF Agrees, Alone, IInv, TypeOK
<1> QED BY <1>2, <1>3, <1>4, LonelyMoves

\* After a fault nothing is claimed.
LEMMA FaultAgreed == ASSUME IInv, NEW p \in Proc, IOError(p) \/ Interrupt(p) \/ Kill(p) PROVE Agreed'
<1>1. faults \in Nat /\ faults' = faults + 1
  BY DEF IInv, TypeOK, IOError, Interrupt, Kill, Faulty
<1>2. ~Calm' BY <1>1 DEF Calm
<1> QED BY <1>2 DEF Agreed

LEMMA NextAgreed == IInv /\ Agreed /\ [Next]_vars => Agreed'
<1> SUFFICES ASSUME IInv, Agreed, [Next]_vars PROVE Agreed' OBVIOUS
<1>1. ASSUME NEW p \in Proc, InstallSteps(p) PROVE Agreed'
  <2>1. CASE \E r \in Release : Install(p, r) BY <2>1, EnterAgreed DEF Install
  <2> QED BY <1>1, <2>1, InstallAgreed, ActivationAgreed DEF InstallSteps
<1>2. ASSUME NEW p \in Proc, RollbackSteps(p) PROVE Agreed'
  <2>1. CASE \E r \in Release : Rollback(p, r) BY <2>1, EnterAgreed DEF Rollback
  <2> QED BY <1>2, <2>1, ActivationAgreed DEF RollbackSteps
<1>3. ASSUME NEW p \in Proc, IOError(p) \/ Interrupt(p) \/ Kill(p) PROVE Agreed'
  BY <1>3, FaultAgreed
<1>4. CASE UNCHANGED vars BY <1>4 DEF vars, files, Agreed, Agrees, Calm
<1> QED BY <1>1, <1>2, <1>3, <1>4 DEF Next

\* Run one after the other and without a fault, commands leave current.txt and the link at the
\* same release and the lock free (runtime.py 98-110, 150-170).
THEOREM NamesAlwaysAgree == Spec => []NamesAgree
<1>1. Init => Agreed BY StoreAssumption DEF Init, Agreed, Agrees, Between
<1>2. Spec => []Agreed BY <1>1, NextAgreed, Invariance, PTL DEF Spec
<1>3. IInv /\ Agreed => NamesAgree
  <2> SUFFICES ASSUME IInv, Agreed, Calm, \A p \in Proc : pc[p] = "off"
               PROVE  current = link /\ lock = Nothing
    BY DEF NamesAgree, Calm
  <2> QED BY LabelFacts DEF Agreed, IInv, TypeOK, Between
<1> QED BY <1>2, <1>3, Invariance, PTL
=============================================================================
