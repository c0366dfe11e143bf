--------------------------- MODULE RestoreLabProofs ---------------------------
(***************************************************************************)
(* Theorems about RestorePrepare and RestoreLab for any number of processes, *)
(* archives, databases, versions, commands and faults, and about             *)
(* SqlPreparation for texts of any length.                                   *)
(***************************************************************************)
EXTENDS RestoreLab, DumpText, FiniteSetTheorems, WellFoundedInduction, TLAPS

N == Len(Files)

PrepareStep == {"idle", "mkdir", "create", "write", "unlink", "remove"}
Process     == [at: PrepareStep, of: {Nothing} \cup Backup, made: 0 .. N]

PrepareType ==
    /\ stage \in Stage /\ preparing \in [Preparer -> Process]
    /\ \A p \in Preparer : preparing[p].at # "idle" => preparing[p].of \in Backup

Slot(i)   == stage.file[Files[i]]
Holds(p)  == preparing[p].at \in {"create", "write", "unlink"}
Owner(p)  == Holds(p) /\ preparing[p].made > 0

\* Files are created in their order and removed against it: what stands before a file is
\* whole and of the same archive.
Ordered ==
    \A i \in 1 .. N : Slot(i) # Nothing =>
        /\ stage.exists
        /\ \A j \in 1 .. i - 1 : Slot(j) = [of |-> Slot(i).of, whole |-> TRUE]


\* What the process that created files knows of them: they are its own, and the last ones.
Owned(p) ==
    /\ preparing[p].at = "mkdir" => preparing[p].made = 0
    /\ preparing[p].at = "create" => preparing[p].made < N
    /\ preparing[p].at = "write" => preparing[p].made > 0
    /\ Owner(p) =>
        /\ \A i \in 1 .. preparing[p].made :
               Slot(i) # Nothing /\ Slot(i).of = preparing[p].of
        /\ \A i \in preparing[p].made + 1 .. N : Slot(i) = Nothing
        /\ preparing[p].at = "create" => Slot(preparing[p].made).whole

OneOwner == \A p, q \in Preparer : Owner(p) /\ Owner(q) => p = q

PrepareInv ==
    PrepareType /\ Ordered /\ OneOwner /\ \A p \in Preparer : Owned(p)

-----------------------------------------------------------------------------
(* The files and their order.                                                *)

LEMMA FilesFacts ==
    /\ N \in Nat /\ N > 0 /\ Files[N] = "manifest"
    /\ \A i \in 1 .. N : Files[i] \in Name
    /\ \A i, j \in 1 .. N : Files[i] = Files[j] => i = j
    /\ \A n \in Name : \E i \in 1 .. N : n = Files[i]
    /\ \A d \in Database : \E i \in 1 .. N - 1 : d = Files[i]
<1> USE PrepareAssumption
<1>1. Databases \in Seq(STRING) /\ Len(Databases) \in Nat /\ DOMAIN Databases = 1 .. Len(Databases)
  OBVIOUS
<1>2. N = Len(Databases) + 1 /\ DOMAIN Files = 1 .. N
  BY <1>1 DEF N, Files
<1>3. /\ \A i \in 1 .. N - 1 : Files[i] = Databases[i]
      /\ Files[N] = "manifest"
  BY <1>1, <1>2 DEF Files
<1>4. \A i \in 1 .. N - 1 : Files[i] # "manifest"
  BY <1>1, <1>2, <1>3
<1>5. \A i, j \in 1 .. N : Files[i] = Files[j] => i = j
  BY <1>1, <1>2, <1>3, <1>4
<1>6. \A n \in Name : \E i \in 1 .. N : n = Files[i]
  BY <1>2 DEF Name
<1>7. \A i \in 1 .. N : Files[i] \in Name
  BY <1>2 DEF Name
<1>8. \A d \in Database : \E i \in 1 .. N - 1 : d = Files[i]
  BY <1>1, <1>2, <1>3 DEF Database
<1> QED BY <1>1, <1>2, <1>3, <1>5, <1>6, <1>7, <1>8

LEMMA PrepareInitInv == PrepareInit => PrepareInv
<1> SUFFICES ASSUME PrepareInit PROVE PrepareInv OBVIOUS
<1> USE FilesFacts, PrepareAssumption DEF PrepareInit, Idle
<1>1. PrepareType BY DEF PrepareType, Stage, Process, PrepareStep
<1>2. Ordered BY DEF Ordered, Slot
<1>3. OneOwner /\ \A p \in Preparer : Owned(p) BY DEF OneOwner, Owned, Owner, Holds
<1> QED BY <1>1, <1>2, <1>3 DEF PrepareInv

-----------------------------------------------------------------------------
(* Each step of prepare-windows-sql keeps PrepareInv.                        *)

LEMMA SlotTypes ==
    ASSUME PrepareType, NEW i \in 1 .. N
    PROVE  Slot(i) # Nothing => Slot(i) \in Staging
BY FilesFacts DEF PrepareType, Stage, Slot

LEMMA RecordFacts ==
    \A b \in Backup, w \in BOOLEAN :
        [of |-> b, whole |-> w] \in Staging /\ [of |-> b, whole |-> w] # Nothing
<1>1. \A b \in Backup, w \in BOOLEAN : [of |-> b, whole |-> w] \in Staging BY DEF Staging
<1>2. Nothing \notin Staging BY PrepareAssumption
<1> QED BY <1>1, <1>2

\* The two kinds of change.
Filled(k, x) == [stage EXCEPT !.file[Files[k]] = x]
Moved(p, at, m) == [preparing EXCEPT ![p].at = at, ![p].made = m]

LEMMA SlotChange ==
    ASSUME PrepareType, NEW k \in 1 .. N, NEW x \in {Nothing} \cup Staging,
           stage' = Filled(k, x)
    PROVE  /\ stage' \in Stage /\ stage'.exists = stage.exists
           /\ Slot(k)' = x /\ \A i \in 1 .. N : i # k => Slot(i)' = Slot(i)
BY FilesFacts DEF PrepareType, Stage, Slot, Filled

LEMMA ProcessChange ==
    ASSUME PrepareType, NEW p \in Preparer, NEW at \in PrepareStep, NEW m \in 0 .. N,
           preparing[p].at # "idle",
           preparing' = Moved(p, at, m)
    PROVE  /\ preparing' \in [Preparer -> Process]
           /\ preparing'[p].at = at /\ preparing'[p].made = m /\ preparing'[p].of = preparing[p].of
           /\ \A q \in Preparer : q # p => preparing'[q] = preparing[q]
           /\ \A q \in Preparer : preparing'[q].at # "idle" => preparing'[q].of \in Backup
BY DEF PrepareType, Process, PrepareStep, Moved

\* A step that only moves a process to a step at which it holds nothing, or from a step
\* with files to the failure path.
LEMMA MoveOnly ==
    ASSUME PrepareInv, NEW p \in Preparer, NEW at \in PrepareStep,
           preparing[p].at # "idle", UNCHANGED stage,
           preparing' = [preparing EXCEPT ![p].at = at],
           at \in {"idle", "remove"} \/ (Holds(p) /\ at = "unlink")
    PROVE  PrepareInv'
<1>1. PICK m \in 0 .. N : m = preparing[p].made BY DEF PrepareInv, PrepareType, Process
<1>2. preparing' = Moved(p, at, m) BY <1>1 DEF PrepareInv, PrepareType, Process, Moved
<1>3. /\ preparing' \in [Preparer -> Process]
      /\ preparing'[p].at = at /\ preparing'[p].made = preparing[p].made
      /\ preparing'[p].of = preparing[p].of
      /\ \A q \in Preparer : q # p => preparing'[q] = preparing[q]
      /\ \A q \in Preparer : preparing'[q].at # "idle" => preparing'[q].of \in Backup
  <2>1. PrepareType /\ preparing[p].at # "idle" BY DEF PrepareInv
  <2> QED BY <1>1, <1>2, <2>1, ProcessChange
<1>4. PrepareType' BY <1>3 DEF PrepareInv, PrepareType
<1>5. Ordered' BY DEF PrepareInv, Ordered, Slot
<1>6. \A q \in Preparer : Owner(q)' => Owner(q) BY <1>3 DEF Owner, Holds
<1>7. OneOwner' BY <1>6 DEF PrepareInv, OneOwner
<1>8. \A q \in Preparer : Owned(q)'
  BY <1>3, <1>6 DEF PrepareInv, Owned, Owner, Holds, Slot
<1> QED BY <1>4, <1>5, <1>7, <1>8 DEF PrepareInv

LEMMA BeginStep ==
    ASSUME PrepareInv, NEW p \in Preparer, NEW b \in Backup, Begin(p, b) PROVE PrepareInv'
<1> USE FilesFacts DEF Begin
<1>1. /\ preparing' \in [Preparer -> Process]
      /\ preparing'[p] = [at |-> "mkdir", of |-> b, made |-> 0]
      /\ \A q \in Preparer : q # p => preparing'[q] = preparing[q]
  BY DEF PrepareInv, PrepareType, Process, PrepareStep
<1>2. PrepareType' BY <1>1 DEF PrepareInv, PrepareType
<1>3. Ordered' BY DEF PrepareInv, Ordered, Slot
<1>4. \A q \in Preparer : Owner(q)' => Owner(q) /\ q # p BY <1>1 DEF Owner, Holds
<1>5. OneOwner' BY <1>4 DEF PrepareInv, OneOwner
<1>6. \A q \in Preparer : Owned(q)'
  BY <1>1, <1>4 DEF PrepareInv, Owned, Owner, Holds, Slot
<1> QED BY <1>2, <1>3, <1>5, <1>6 DEF PrepareInv

LEMMA MkdirStep ==
    ASSUME PrepareInv, NEW p \in Preparer, Mkdir(p) PROVE PrepareInv'
<1> USE FilesFacts DEF Mkdir, Goes
<1>0. preparing[p].at = "mkdir" OBVIOUS
<1>1. CASE stage.exists
  BY <1>0, <1>1, MoveOnly DEF PrepareStep
<1>2. CASE ~stage.exists
  <2>1. preparing' = [preparing EXCEPT ![p].at = "create"] BY <1>2
  <2>2. \A i \in 1 .. N : Slot(i) = Nothing BY <1>2 DEF PrepareInv, Ordered
  <2>3. stage' \in Stage /\ \A i \in 1 .. N : Slot(i)' = Slot(i)
    BY <1>2 DEF PrepareInv, PrepareType, Stage, Slot
  <2>4. /\ preparing' \in [Preparer -> Process]
        /\ preparing'[p].at = "create" /\ preparing'[p].made = preparing[p].made
        /\ preparing'[p].of = preparing[p].of
        /\ \A q \in Preparer : q # p => preparing'[q] = preparing[q]
    BY <2>1 DEF PrepareInv, PrepareType, Process, PrepareStep
  <2>5. PrepareType' BY <2>3, <2>4, <1>0 DEF PrepareInv, PrepareType
  <2>6. Ordered' BY <2>2, <2>3 DEF Ordered
  <2>7. \A q \in Preparer : ~Owner(q)
    BY <2>2 DEF PrepareInv, PrepareType, Process, Owned, Owner
  <2>8. preparing[p].made = 0 BY <1>0 DEF PrepareInv, Owned
  <2>9. \A q \in Preparer : ~Owner(q)' BY <2>4, <2>7, <2>8 DEF Owner, Holds
  <2>10. \A q \in Preparer : Owned(q)'
    BY <2>4, <2>8, <2>9 DEF PrepareInv, Owned
  <2> QED BY <2>5, <2>6, <2>9, <2>10 DEF PrepareInv, OneOwner
<1> QED BY <1>1, <1>2 DEF PrepareInv, PrepareType, Stage

LEMMA CreateStep ==
    ASSUME PrepareInv, NEW p \in Preparer, Create(p) PROVE PrepareInv'
<1> USE FilesFacts
<1>0. preparing[p].at = "create" BY DEF Create
<1>1. PICK k \in 1 .. N : k - 1 = preparing[p].made /\ File(p) = Files[k]
  BY <1>0 DEF PrepareInv, PrepareType, Process, Owned, File
<1>o. PICK o \in Backup : o = preparing[p].of BY <1>0 DEF PrepareInv, PrepareType
<1> DEFINE x == [of |-> o, whole |-> FALSE]
<1>2. CASE ~(stage.exists /\ Slot(k) = Nothing)
  <2>1. preparing' = [preparing EXCEPT ![p].at = "unlink"] /\ UNCHANGED stage
    BY <1>1, <1>2 DEF Create, Slot
  <2> QED BY <1>0, <2>1, MoveOnly DEF PrepareStep, Holds
<1>3. CASE stage.exists /\ Slot(k) = Nothing
  <2>1. /\ preparing' = [preparing EXCEPT ![p].at = "write", ![p].made = k]
        /\ stage' = [stage EXCEPT !.file[Files[k]] = x]
    BY <1>0, <1>1, <1>3, <1>o DEF Create, Slot, PrepareInv, PrepareType, Process
  <2>a. preparing' = Moved(p, "write", k) /\ stage' = Filled(k, x)
    BY <2>1 DEF Moved, Filled
  <2>2. x \in Staging /\ x # Nothing BY RecordFacts
  <2> HIDE DEF x
  <2>3. /\ stage' \in Stage /\ stage'.exists = stage.exists
        /\ Slot(k)' = x /\ \A i \in 1 .. N : i # k => Slot(i)' = Slot(i)
    BY <1>1, <2>a, <2>2, SlotChange DEF PrepareInv
  <2>4. /\ preparing' \in [Preparer -> Process]
        /\ preparing'[p].at = "write" /\ preparing'[p].made = k
        /\ preparing'[p].of = o
        /\ \A q \in Preparer : q # p => preparing'[q] = preparing[q]
        /\ \A q \in Preparer : preparing'[q].at # "idle" => preparing'[q].of \in Backup
    <3>1. k \in 0 .. N /\ "write" \in PrepareStep /\ preparing[p].at # "idle"
      BY <1>0, <1>1 DEF PrepareStep
    <3> QED BY <1>o, <2>a, <3>1, ProcessChange DEF PrepareInv
  <2>5. PrepareType' BY <2>3, <2>4 DEF PrepareType
  <2>6. \A q \in Preparer : q # p => ~Owner(q)
    <3> SUFFICES ASSUME NEW q \in Preparer, q # p, Owner(q) PROVE FALSE OBVIOUS
    <3>1. k - 1 = 0
      BY <1>0, <1>1 DEF PrepareInv, PrepareType, Process, OneOwner, Owner, Holds
    <3>2. k = 1 BY <3>1, <1>1
    <3>3. Slot(1) # Nothing
      BY DEF PrepareInv, PrepareType, Process, Owned, Owner
    <3> QED BY <1>3, <3>2, <3>3
  <2>7. \A i \in 1 .. N : i > k => Slot(i) = Nothing
    <3> SUFFICES ASSUME NEW i \in 1 .. N, i > k, Slot(i) # Nothing PROVE FALSE OBVIOUS
    <3>1. Slot(k) = [of |-> Slot(i).of, whole |-> TRUE] BY <1>1 DEF PrepareInv, Ordered
    <3>2. Slot(i).of \in Backup BY SlotTypes DEF PrepareInv, Staging
    <3> QED BY <1>3, <3>1, <3>2, RecordFacts
  <2>8. \A j \in 1 .. k - 1 : Slot(j) = [of |-> o, whole |-> TRUE]
    <3>1. CASE k = 1 BY <3>1
    <3>2. CASE k > 1
      <4>1. Owner(p) /\ k - 1 \in 1 .. N
        BY <1>0, <1>1, <3>2 DEF Owner, Holds
      <4>2. Slot(k - 1) # Nothing /\ Slot(k - 1).of = o /\ Slot(k - 1).whole
        BY <1>0, <1>1, <1>o, <4>1 DEF PrepareInv, Owned
      <4>3. Slot(k - 1) \in Staging BY <4>1, <4>2, SlotTypes DEF PrepareInv
      <4>4. Slot(k - 1) = [of |-> o, whole |-> TRUE] BY <4>2, <4>3 DEF Staging
      <4>5. \A j \in 1 .. k - 2 : Slot(j) = [of |-> o, whole |-> TRUE]
        BY <1>1, <4>1, <4>2 DEF PrepareInv, Ordered
      <4> QED BY <1>1, <4>4, <4>5
    <3> QED BY <1>1, <3>1, <3>2
  <2>9. Ordered'
    <3> SUFFICES ASSUME NEW i \in 1 .. N, Slot(i)' # Nothing
                 PROVE  /\ stage'.exists
                        /\ \A j \in 1 .. i - 1 : Slot(j)' = [of |-> Slot(i)'.of, whole |-> TRUE]
      BY DEF Ordered
    <3>1. CASE i = k BY <1>1, <1>3, <2>3, <2>8, <3>1 DEF x
    <3>2. CASE i > k BY <1>1, <2>3, <2>7, <3>2
    <3>3. CASE i < k BY <1>1, <2>3, <3>3 DEF PrepareInv, Ordered
    <3> QED BY <1>1, <3>1, <3>2, <3>3
  <2>10. \A q \in Preparer : Owner(q)' => q = p BY <2>4, <2>6 DEF Owner, Holds
  <2>11. Owned(p)'
    <3>1. \A i \in 1 .. k : Slot(i)' # Nothing /\ Slot(i)'.of = o
      <4>1. \A i \in 1 .. k - 1 : Slot(i) # Nothing /\ Slot(i).of = o
        <5>1. [of |-> o, whole |-> TRUE] # Nothing /\ [of |-> o, whole |-> TRUE].of = o
          BY RecordFacts
        <5> QED BY <2>8, <5>1
      <4>2. x.of = o BY DEF x
      <4> QED BY <1>1, <2>2, <2>3, <4>1, <4>2
    <3> QED BY <1>1, <2>3, <2>4, <2>7, <3>1 DEF Owned
  <2>12. \A q \in Preparer : q # p => Owned(q)'
    BY <2>4, <2>10 DEF PrepareInv, Owned
  <2> QED BY <2>5, <2>9, <2>10, <2>11, <2>12 DEF PrepareInv, OneOwner
<1> QED BY <1>2, <1>3

LEMMA WriteStep ==
    ASSUME PrepareInv, NEW p \in Preparer, preparing[p].at = "write", NEW at \in PrepareStep,
           preparing' = [preparing EXCEPT ![p].at = at],
           at \in {"idle", "create", "unlink"}, at = "create" => preparing[p].made # N,
           stage' = [stage EXCEPT !.file[Files[preparing[p].made]] =
                                  [of |-> preparing[p].of, whole |-> TRUE]]
    PROVE  PrepareInv'
<1> USE FilesFacts
<1>1. PICK k \in 1 .. N : k = preparing[p].made /\ Owner(p)
  BY DEF PrepareInv, PrepareType, Process, Owned, Owner, Holds
<1>o. PICK o \in Backup : o = preparing[p].of BY DEF PrepareInv, PrepareType
<1> DEFINE x == [of |-> o, whole |-> TRUE]
<1>2. x \in Staging /\ x # Nothing BY RecordFacts
<1>3. preparing' = Moved(p, at, k) /\ stage' = Filled(k, x)
  BY <1>1, <1>o DEF PrepareInv, PrepareType, Process, Moved, Filled
<1>a. k \in 0 .. N BY <1>1
<1>4. /\ preparing' \in [Preparer -> Process]
      /\ preparing'[p].at = at /\ preparing'[p].made = k
      /\ preparing'[p].of = o
      /\ \A q \in Preparer : q # p => preparing'[q] = preparing[q]
      /\ \A q \in Preparer : preparing'[q].at # "idle" => preparing'[q].of \in Backup
  <2>1. PrepareType /\ preparing[p].at # "idle" BY DEF PrepareInv
  <2> QED BY <1>a, <1>o, <1>3, <2>1, ProcessChange
<1> HIDE DEF x
<1>5. /\ stage' \in Stage /\ stage'.exists = stage.exists
      /\ Slot(k)' = x /\ \A i \in 1 .. N : i # k => Slot(i)' = Slot(i)
  BY <1>1, <1>2, <1>3, SlotChange DEF PrepareInv
<1>6. PrepareType' BY <1>4, <1>5 DEF PrepareType
<1>7. /\ \A i \in 1 .. k : Slot(i) # Nothing /\ Slot(i).of = o
      /\ \A i \in k + 1 .. N : Slot(i) = Nothing
  BY <1>1, <1>o DEF PrepareInv, Owned
<1>8. \A q \in Preparer : q # p => ~Owner(q) BY <1>1 DEF PrepareInv, OneOwner
<1>9. Ordered'
  <2> SUFFICES ASSUME NEW i \in 1 .. N, Slot(i)' # Nothing
               PROVE  /\ stage'.exists
                      /\ \A j \in 1 .. i - 1 : Slot(j)' = [of |-> Slot(i)'.of, whole |-> TRUE]
    BY DEF Ordered
  <2>1. CASE i = k
    <3>1. /\ Slot(k) # Nothing /\ Slot(k).of = o /\ Slot(k)'.of = o
      BY <1>1, <1>5, <1>7 DEF x
    <3> QED BY <1>1, <1>5, <3>1, <2>1 DEF PrepareInv, Ordered
  <2>2. CASE i > k BY <1>1, <1>5, <1>7, <2>2
  <2>3. CASE i < k BY <1>1, <1>5, <2>3 DEF PrepareInv, Ordered
  <2> QED BY <1>1, <2>1, <2>2, <2>3
<1>10. \A q \in Preparer : Owner(q)' => q = p BY <1>4, <1>8 DEF Owner, Holds
<1>11. Owned(p)'
  <2>1. \A i \in 1 .. k : Slot(i)' # Nothing /\ Slot(i)'.of = o
    <3>1. x.of = o BY DEF x
    <3> QED BY <1>1, <1>2, <1>5, <1>7, <3>1
  <2>2. \A i \in k + 1 .. N : Slot(i)' = Nothing BY <1>1, <1>5, <1>7
  <2>3. Slot(k)'.whole BY <1>5 DEF x
  <2>4. at = "create" => k < N BY <1>1
  <2> QED BY <1>1, <1>4, <2>1, <2>2, <2>3, <2>4 DEF Owned
<1>12. \A q \in Preparer : q # p => Owned(q)' BY <1>4, <1>10 DEF PrepareInv, Owned
<1> QED BY <1>6, <1>9, <1>10, <1>11, <1>12 DEF PrepareInv, OneOwner

LEMMA UnlinkStep ==
    ASSUME PrepareInv, NEW p \in Preparer, Unlink(p) PROVE PrepareInv'
<1> USE FilesFacts
<1>0. preparing[p].at = "unlink" BY DEF Unlink, Goes
<1>1. CASE preparing[p].made = 0
  BY <1>0, <1>1, MoveOnly DEF Unlink, Goes, PrepareStep
<1>2. CASE preparing[p].made # 0
  <2>1. PICK k \in 1 .. N : k = preparing[p].made /\ Owner(p)
    BY <1>0, <1>2 DEF PrepareInv, PrepareType, Process, Owner, Holds
  <2>2. /\ preparing' = [preparing EXCEPT ![p].made = k - 1]
        /\ stage' = [stage EXCEPT !.file[Files[k]] = Nothing]
    BY <1>2, <2>1 DEF Unlink
  <2>3. preparing' = Moved(p, "unlink", k - 1) /\ stage' = Filled(k, Nothing)
    <3>1. preparing[p] = [preparing[p] EXCEPT !.at = "unlink"]
      BY <1>0 DEF PrepareInv, PrepareType, Process
    <3> QED BY <2>2, <3>1 DEF Moved, Filled, PrepareInv, PrepareType
  <2>4. k - 1 \in 0 .. N /\ "unlink" \in PrepareStep BY <2>1 DEF PrepareStep
  <2>5. /\ preparing' \in [Preparer -> Process]
        /\ preparing'[p].at = "unlink" /\ preparing'[p].made = k - 1
        /\ preparing'[p].of = preparing[p].of
        /\ \A q \in Preparer : q # p => preparing'[q] = preparing[q]
        /\ \A q \in Preparer : preparing'[q].at # "idle" => preparing'[q].of \in Backup
    <3>1. PrepareType /\ preparing[p].at # "idle" BY <1>0 DEF PrepareInv
    <3> QED BY <2>3, <2>4, <3>1, ProcessChange
  <2>6. /\ stage' \in Stage /\ stage'.exists = stage.exists
        /\ Slot(k)' = Nothing /\ \A i \in 1 .. N : i # k => Slot(i)' = Slot(i)
    BY <2>1, <2>3, SlotChange DEF PrepareInv
  <2>7. PrepareType' BY <2>5, <2>6 DEF PrepareType
  <2>8. /\ \A i \in 1 .. k : Slot(i) # Nothing /\ Slot(i).of = preparing[p].of
        /\ \A i \in k + 1 .. N : Slot(i) = Nothing
    BY <2>1 DEF PrepareInv, Owned
  <2>9. \A q \in Preparer : q # p => ~Owner(q) BY <2>1 DEF PrepareInv, OneOwner
  <2>10. Ordered'
    <3> SUFFICES ASSUME NEW i \in 1 .. N, Slot(i)' # Nothing
                 PROVE  /\ stage'.exists
                        /\ \A j \in 1 .. i - 1 : Slot(j)' = [of |-> Slot(i)'.of, whole |-> TRUE]
      BY DEF Ordered
    <3>1. i < k BY <2>1, <2>6, <2>8
    <3> QED BY <2>1, <2>6, <3>1 DEF PrepareInv, Ordered
  <2>11. \A q \in Preparer : Owner(q)' => q = p BY <2>5, <2>9 DEF Owner, Holds
  <2>12. Owned(p)'
    BY <2>1, <2>5, <2>6, <2>8 DEF Owned
  <2>13. \A q \in Preparer : q # p => Owned(q)' BY <2>5, <2>11 DEF PrepareInv, Owned
  <2> QED BY <2>7, <2>10, <2>11, <2>12, <2>13 DEF PrepareInv, OneOwner
<1> QED BY <1>1, <1>2

LEMMA RemoveStep ==
    ASSUME PrepareInv, NEW p \in Preparer, Remove(p) PROVE PrepareInv'
<1> USE FilesFacts DEF Remove, Goes
<1>1. CASE \A n \in Name : stage.file[n] = Nothing
  <2>1. stage' \in Stage /\ \A i \in 1 .. N : Slot(i) = Nothing /\ Slot(i)' = Nothing
    BY <1>1 DEF PrepareInv, PrepareType, Stage, Slot
  <2>2. /\ preparing' \in [Preparer -> Process]
        /\ preparing'[p].at = "idle" /\ \A q \in Preparer : q # p => preparing'[q] = preparing[q]
    BY DEF PrepareInv, PrepareType, Process, PrepareStep
  <2>3. PrepareType' BY <2>1, <2>2 DEF PrepareInv, PrepareType
  <2>4. Ordered' BY <2>1 DEF Ordered
  <2>5. \A q \in Preparer : ~Owner(q)
    BY <2>1 DEF PrepareInv, PrepareType, Process, Owned, Owner
  <2>6. \A q \in Preparer : ~Owner(q)' BY <2>2, <2>5 DEF Owner, Holds
  <2>7. \A q \in Preparer : Owned(q)' BY <2>2, <2>6 DEF PrepareInv, Owned
  <2> QED BY <2>3, <2>4, <2>6, <2>7 DEF PrepareInv, OneOwner
<1>2. CASE ~\A n \in Name : stage.file[n] = Nothing
  BY <1>2, MoveOnly DEF PrepareStep
<1> QED BY <1>1, <1>2

LEMMA PrepareNextInv == ASSUME PrepareInv, PrepareNext PROVE PrepareInv'
<1> SUFFICES ASSUME NEW p \in Preparer, Prepare(p) PROVE PrepareInv' BY DEF PrepareNext
<1>1. CASE \E b \in Backup : Begin(p, b) BY <1>1, BeginStep
<1>2. CASE Mkdir(p) BY <1>2, MkdirStep
<1>3. CASE Create(p) BY <1>3, CreateStep
<1>4. CASE Write(p)
  <2>1. CASE preparing[p].made = N
    BY <1>4, <2>1, WriteStep DEF Write, Goes, PrepareStep, N
  <2>2. CASE preparing[p].made # N
    BY <1>4, <2>2, WriteStep DEF Write, Goes, PrepareStep, N
  <2> QED BY <2>1, <2>2
<1>5. CASE Unlink(p) BY <1>5, UnlinkStep
<1>6. CASE Remove(p) BY <1>6, RemoveStep
<1>7. CASE WriteFails(p)
  <2>1. /\ preparing[p].at = "write" /\ preparing' = [preparing EXCEPT ![p].at = "unlink"]
        /\ "unlink" \in PrepareStep /\ Holds(p)
    BY <1>7 DEF WriteFails, Goes, PrepareStep, Holds
  <2>2. CASE UNCHANGED stage BY <2>1, <2>2, MoveOnly
  <2>3. CASE ~UNCHANGED stage BY <1>7, <2>1, <2>3, WriteStep DEF WriteFails
  <2> QED BY <2>2, <2>3
<1>8. CASE CreateFails(p)
  BY <1>8, MoveOnly DEF CreateFails, Goes, PrepareStep, Holds
<1>9. CASE Abandon(p)
  BY <1>9, MoveOnly DEF Abandon, PrepareStep
<1> QED BY <1>1, <1>2, <1>3, <1>4, <1>5, <1>6, <1>7, <1>8, <1>9 DEF Prepare

-----------------------------------------------------------------------------
(* What prepare-windows-sql promises.                                        *)

\* No command of the lab changes the staged files.
LEMMA LabFrame == ASSUME LabNext PROVE UNCHANGED <<stage, preparing>>
BY DEF LabNext, At, prepareVars,
    Restore, MakeBase, CopyInput, WriteCredentials, WriteConfig, CreateVolume,
    RunContainer, MysqlReady, WaitMysql, CreateDatabase, Import, LockImporter, UnlinkConfig,
    Qualify, Resume, Recover, CreatePrerequisite, WritePrerequisite, RecoverResumes,
    Migrate, BuildRunner, Flyway, FlywayFails, Compare, WriteEvidence,
    Repair, SaveHistory, RepairAndMigrate, Examine, Raise, Fail

LEMMA PrepareFrame == ASSUME PrepareInv, UNCHANGED <<stage, preparing>> PROVE PrepareInv'
BY DEF PrepareInv, PrepareType, Ordered, OneOwner, Owned, Owner, Holds, Slot

\* PrepareInv is an invariant, with the lab beside it.
LEMMA PrepareInvHolds == Spec => []PrepareInv
<1>1. Init => PrepareInv BY PrepareInitInv DEF Init
<1>2. PrepareInv /\ [Next]_<<prepareVars, labVars>> => PrepareInv'
  <2> SUFFICES ASSUME PrepareInv, [Next]_<<prepareVars, labVars>> PROVE PrepareInv' OBVIOUS
  <2>1. CASE LabNext BY <2>1, LabFrame, PrepareFrame
  <2>2. CASE PrepareNext BY <2>2, PrepareNextInv
  <2>3. CASE UNCHANGED <<prepareVars, labVars>> BY <2>3, PrepareFrame DEF prepareVars
  <2> QED BY <2>1, <2>2, <2>3 DEF Next
<1> QED BY <1>1, <1>2, PTL DEF Spec

LEMMA InvVouches == PrepareInv => ManifestVouches
<1> SUFFICES ASSUME PrepareInv, stage.file["manifest"] # Nothing, NEW d \in Database
             PROVE  stage.file[d] = [of |-> stage.file["manifest"].of, whole |-> TRUE]
  BY DEF ManifestVouches
<1>1. PICK i \in 1 .. N - 1 : d = Files[i] BY FilesFacts
<1>2. N \in 1 .. N /\ i \in 1 .. N BY <1>1, FilesFacts
<1> QED BY <1>1, <1>2, FilesFacts DEF PrepareInv, Ordered, Slot

\* A manifest stands only beside all the files it describes, each of them whole and of its
\* archive, however many processes stage to the same directory, fail and clean up.
THEOREM Vouches == Spec => []ManifestVouches
BY PrepareInvHolds, InvVouches, PTL

\* With the manifest there and its process gone, the last file is there, so every other
\* process finds its next file in its way or has no file to take back.
LEMMA FinishedStep ==
    ASSUME PrepareInv, NEW p \in Preparer, Prepare(p),
           stage.file["manifest"] # Nothing, ManifestSettled
    PROVE  stage' = stage /\ ManifestSettled'
<1> USE FilesFacts
<1>1. Slot(N) # Nothing /\ \A i \in 1 .. N : Slot(i) # Nothing
  <2>1. Slot(N) # Nothing BY DEF Slot
  <2>2. Slot(N).of \in Backup BY <2>1, SlotTypes DEF PrepareInv, Staging
  <2>3. \A j \in 1 .. N - 1 : Slot(j) = [of |-> Slot(N).of, whole |-> TRUE]
    BY <2>1 DEF PrepareInv, Ordered
  <2>4. [of |-> Slot(N).of, whole |-> TRUE] # Nothing BY <2>2, RecordFacts
  <2>5. \A i \in 1 .. N : i = N \/ i \in 1 .. N - 1 OBVIOUS
  <2> QED BY <2>1, <2>3, <2>4, <2>5
<1>2. stage.exists BY <1>1 DEF PrepareInv, Ordered
<1>3. \A q \in Preparer : preparing[q].made \in 0 .. N BY DEF PrepareInv, PrepareType, Process
<1>4. \A q \in Preparer : Owner(q) => preparing[q].made = N
  BY <1>1, <1>3 DEF PrepareInv, Owned
<1>5. \A q \in Preparer : preparing[q].at \in {"write", "unlink"} => preparing[q].made = 0
  BY <1>3, <1>4 DEF ManifestSettled, Owner, Holds, N
<1>6. \A q \in Preparer : preparing[q].at # "write"
  BY <1>5 DEF PrepareInv, Owned
<1>7. \A q \in Preparer : preparing[q].at = "create" => preparing[q].made = 0
  BY <1>3, <1>4 DEF PrepareInv, Owned, Owner, Holds
<1>8. stage.file[Files[1]] # Nothing BY <1>1 DEF Slot
<1>9. ~\A n \in Name : stage.file[n] = Nothing BY <1>8
<1>10. CASE \E b \in Backup : Begin(p, b) BY <1>2, <1>10 DEF Begin
<1>11. CASE Mkdir(p)
  BY <1>2, <1>5, <1>11 DEF Mkdir, Goes, ManifestSettled, N, PrepareInv, PrepareType, Process
<1>12. CASE Create(p)
  <2>1. preparing[p].made = 0 /\ File(p) = Files[1] BY <1>7, <1>12 DEF Create, File
  <2>2. UNCHANGED stage /\ preparing' = [preparing EXCEPT ![p].at = "unlink"]
    BY <1>8, <1>12, <2>1 DEF Create
  <2> QED BY <2>1, <2>2 DEF ManifestSettled, N, PrepareInv, PrepareType, Process
<1>13. CASE Write(p) \/ WriteFails(p) BY <1>6, <1>13 DEF Write, WriteFails, Goes
<1>14. CASE Unlink(p)
  BY <1>5, <1>14 DEF Unlink, Goes, ManifestSettled, N, PrepareInv, PrepareType, Process
<1>15. CASE Remove(p)
  BY <1>9, <1>15 DEF Remove, Goes, ManifestSettled, PrepareInv, PrepareType, Process
<1>16. CASE CreateFails(p)
  BY <1>7, <1>16 DEF CreateFails, Goes, ManifestSettled, N, PrepareInv, PrepareType, Process
<1>17. CASE Abandon(p)
  BY <1>17 DEF Abandon, ManifestSettled, PrepareInv, PrepareType, Process
<1> QED BY <1>10, <1>11, <1>12, <1>13, <1>14, <1>15, <1>16, <1>17 DEF Prepare

\* Once the process that wrote the manifest has ended nothing that was staged is touched.
THEOREM Stays == Spec => FinishedStays
<1>1. PrepareInv /\ [Next]_<<prepareVars, labVars>> =>
          [stage.file["manifest"] # Nothing /\ ManifestSettled => stage' = stage]_prepareVars
  <2> SUFFICES ASSUME PrepareInv, [Next]_<<prepareVars, labVars>>,
                      stage.file["manifest"] # Nothing, ManifestSettled
               PROVE  stage' = stage
    OBVIOUS
  <2>1. CASE LabNext BY <2>1, LabFrame
  <2>2. CASE PrepareNext BY <2>2, FinishedStep DEF PrepareNext
  <2>3. CASE UNCHANGED <<prepareVars, labVars>> BY <2>3 DEF prepareVars
  <2> QED BY <2>1, <2>2, <2>3 DEF Next
<1> QED BY <1>1, PrepareInvHolds, PTL DEF Spec, FinishedStays

-----------------------------------------------------------------------------
(* The lab.                                                                  *)

Preparing == {"base", "copy"}
Setup     == {"credentials", "configs", "volume"}
Starting  == {"run", "wait"}
Loading   == {"create", "import", "lock", "unlink"}
Restoring == Setup \cup Starting \cup Loading \cup {"qualify"}
Resuming  == {"ddl", "recovered", "resume"}
Migrating == {"runner", "flyway", "compare"}
Repairing == {"snapshot", "repair", "examine"}
LabStep   == {"idle", "evidence"} \cup Preparing \cup Restoring \cup Resuming
                 \cup Migrating \cup Repairing

LabType ==
    /\ lab \in [at: LabStep, turn: 1 .. Last] /\ base \in BOOLEAN
    /\ file \in [Kept -> {"absent", "part", "whole"}]
    /\ cnf \in [Database -> {"absent", "part", "whole"}]
    /\ server \in {"none", "volume", "container", "ready"}
    /\ db \in [Database -> {"absent", "empty", "part", "loaded"}]
    /\ importer \in [Database -> {"none", "open", "locked"}] /\ upg \in BOOLEAN
    /\ history \in [rows: {"old", "mixed", "new"}, changed: SUBSET Version]
    /\ differs \in SUBSET Version

LEMMA OrderFacts ==
    /\ Last \in Nat /\ Last > 0 /\ Smart = Order[Last] /\ Smart \in Database
    /\ \A i \in 1 .. Last : Order[i] \in Database
    /\ \A i, j \in 1 .. Last : Order[i] = Order[j] => i = j
    /\ \A d \in Database : \E i \in 1 .. Last : d = Order[i]
<1>1. Order \in Seq(Database) /\ Order # <<>> /\ {Order[i] : i \in DOMAIN Order} = Database
      /\ \A i, j \in DOMAIN Order : Order[i] = Order[j] => i = j
  BY LabAssumption
<1>2. Last \in Nat /\ Last > 0 /\ DOMAIN Order = 1 .. Last BY <1>1 DEF Last
<1> QED BY <1>1, <1>2 DEF Smart

LEMMA LabTypeInit == LabInit => LabType
<1> SUFFICES ASSUME LabInit PROVE LabType OBVIOUS
<1>1. lab \in [at: LabStep, turn: 1 .. Last] BY OrderFacts DEF LabInit, Rested, LabStep
<1>2. history \in [rows: {"old", "mixed", "new"}, changed: SUBSET Version] BY DEF LabInit, Old
<1>3. differs \in SUBSET Version /\ base \in BOOLEAN /\ upg \in BOOLEAN BY DEF LabInit
<1>4. file \in [Kept -> {"absent", "part", "whole"}] BY DEF LabInit
<1> QED BY <1>1, <1>2, <1>3, <1>4 DEF LabInit, LabType

LEMMA LabTypeStep ==
    ASSUME LabType, LabNext PROVE LabType'
<1> USE OrderFacts
<1> USE DEF LabType, LabStep, Preparing, Setup, Starting, Loading, Restoring, Resuming,
    Migrating, Repairing, Kept, At, To, prepareVars, labVars, restored, migrated
<1>1. CASE Restore BY <1>1 DEF Restore, Verified, Command, Rested
<1>2. CASE MakeBase BY <1>2 DEF MakeBase
<1>3. CASE CopyInput BY <1>3 DEF CopyInput
<1>4. CASE WriteCredentials BY <1>4 DEF WriteCredentials
<1>5. CASE WriteConfig BY <1>5 DEF WriteConfig, D
<1>6. CASE CreateVolume BY <1>6 DEF CreateVolume
<1>7. CASE RunContainer BY <1>7 DEF RunContainer
<1>8. CASE MysqlReady BY <1>8 DEF MysqlReady
<1>9. CASE WaitMysql BY <1>9 DEF WaitMysql
<1>10. CASE CreateDatabase BY <1>10 DEF CreateDatabase, D
<1>11. CASE Import BY <1>11 DEF Import, D, Importable
<1>12. CASE LockImporter BY <1>12 DEF LockImporter, D
<1>13. CASE UnlinkConfig BY <1>13 DEF UnlinkConfig, D
<1>14. CASE Qualify BY <1>14 DEF Qualify
<1>15. CASE Resume BY <1>15 DEF Resume, Resumable, Command
<1>16. CASE Recover BY <1>16 DEF Recover, Command
<1>17. CASE CreatePrerequisite BY <1>17 DEF CreatePrerequisite
<1>18. CASE WritePrerequisite BY <1>18 DEF WritePrerequisite
<1>19. CASE RecoverResumes BY <1>19 DEF RecoverResumes, Resumable
<1>20. CASE Migrate BY <1>20 DEF Migrate, Command, Rested
<1>21. CASE BuildRunner BY <1>21 DEF BuildRunner
<1>22. CASE Flyway BY <1>22 DEF Flyway
<1>23. CASE FlywayFails BY <1>23 DEF FlywayFails
<1>24. CASE Compare BY <1>24 DEF Compare
<1>25. CASE WriteEvidence BY <1>25 DEF WriteEvidence
<1>26. CASE Repair BY <1>26 DEF Repair, Command, Rested
<1>27. CASE SaveHistory BY <1>27 DEF SaveHistory
<1>28. CASE RepairAndMigrate BY <1>28 DEF RepairAndMigrate
<1>29. CASE Examine BY <1>29 DEF Examine
<1>30. CASE Raise BY <1>30 DEF Raise, D, Resumable, Importable
<1>31. CASE Fail
  <2> USE <1>31 DEF Fail, CutShort, D
  <2>1. lab' \in [at: LabStep, turn: 1 .. Last] /\ base' \in BOOLEAN OBVIOUS
  <2>2. file' \in [Kept -> {"absent", "part", "whole"}] BY DEF Writes
  <2>3. cnf' \in [Database -> {"absent", "part", "whole"}] OBVIOUS
  <2>4. server' \in {"none", "volume", "container", "ready"} OBVIOUS
  <2>5. db' \in [Database -> {"absent", "empty", "part", "loaded"}] OBVIOUS
  <2>6. history' \in [rows: {"old", "mixed", "new"}, changed: SUBSET Version] OBVIOUS
  <2> QED BY <2>1, <2>2, <2>3, <2>4, <2>5, <2>6
<1> QED BY <1>1, <1>2, <1>3, <1>4, <1>5, <1>6, <1>7, <1>8, <1>9, <1>10, <1>11, <1>12, <1>13,
    <1>14, <1>15, <1>16, <1>17, <1>18, <1>19, <1>20, <1>21, <1>22, <1>23, <1>24, <1>25, <1>26,
    <1>27, <1>28, <1>29, <1>30, <1>31 DEF LabNext

\* What each step of the restore finds.  Before BASE exists, and until the copies are made,
\* there is nothing; the directory that was verified is one that no process touches.
Empty ==
    /\ ~base => lab.at \in {"idle", "base"}
    /\ ~base \/ lab.at \in Preparing =>
           /\ server = "none" /\ \A f \in Kept : file[f] = "absent"
           /\ \A d \in Database : cnf[d] = "absent"
    /\ lab.at \in Preparing => Verified /\ ManifestSettled

\* An option file, or the qualification, exists only if the copies are whole.
Copied ==
    /\ lab.at \in Restoring \/ file["qualification"] # "absent"
             \/ (\E d \in Database : cnf[d] # "absent") =>
           \A d \in Database : input[d] = [of |-> Approved, whole |-> TRUE]
    /\ lab.at \in Preparing \cup Restoring => file["qualification"] = "absent"

\* The option files show which databases are left.
Left ==
    /\ lab.at \in Preparing \cup Starting \cup {"credentials", "volume"} => lab.turn = 1
    /\ lab.at \in Resuming => lab.turn = Last
    /\ lab.at \in Setup => server = "none"
    /\ lab.at = "configs" => \A j \in 1 .. lab.turn - 1 : cnf[Order[j]] # "absent"
    /\ lab.at \in Starting \cup {"volume"} => \A j \in 1 .. Last : cnf[Order[j]] # "absent"
    /\ lab.at \in Loading =>
           /\ \A j \in lab.turn .. Last : cnf[Order[j]] # "absent"
           /\ \A j \in 1 .. lab.turn - 1 : cnf[Order[j]] = "absent"
    /\ lab.at = "qualify" => \A j \in 1 .. Last : cnf[Order[j]] = "absent"
    /\ lab.at \in Starting \cup Loading \cup {"qualify"} => server # "none"

\* Once the server exists, a database without its option file is done.
Done ==
    /\ lab.at \in {"lock", "unlink"} => db[D] = "loaded" /\ (D = Smart => upg)
    /\ lab.at = "unlink" => importer[D] = "locked"
    /\ server # "none" => \A d \in Database : cnf[d] = "absent" =>
           db[d] = "loaded" /\ importer[d] = "locked" /\ (d = Smart => upg)
    /\ file["qualification"] # "absent" =>
           server # "none" /\ \A d \in Database : cnf[d] = "absent"

RestoreInv == Empty /\ Copied /\ Left /\ Done

LEMMA RestoreInvInit == LabInit => RestoreInv
BY OrderFacts DEF LabInit, RestoreInv, Empty, Copied, Left, Done, Rested, Kept,
    Preparing, Restoring, Setup, Starting, Loading, Resuming

\* The history: what is at each step, and that no checksum is changed before it is saved.
Saved ==
    /\ saved \in {Nothing, Old}
    /\ history.changed # {} =>
           saved = Old /\ file["snapshot"] = "whole" /\ file["runner"] # "absent"
    /\ lab.at \in Migrating => history.changed = {}
    /\ lab.at = "snapshot" => history.rows = "old"
    /\ lab.at \in {"repair", "examine"} => saved = Old /\ file["snapshot"] = "whole"
    /\ lab.at \in Repairing => named = Known

Evidence ==
    /\ lab.at \in Repairing \cup {"flyway", "compare"} => file["runner"] # "absent"
    /\ file["runner"] # "absent" \/ lab.at = "runner" => file["qualification"] # "absent"
    /\ lab.at \in Migrating \cup Repairing \cup {"evidence"} => file["migration"] = "absent"
    /\ lab.at = "evidence" \/ file["migration"] # "absent" =>
           /\ file["qualification"] # "absent" /\ history.rows = "new"
           /\ history.changed \in {{}, Known}

MigrateInv == Saved /\ Evidence

LEMMA MigrateInvInit == LabInit => MigrateInv
BY DEF LabInit, MigrateInv, Saved, Evidence, Rested, Old, Kept, Migrating, Repairing

LEMMA VerifiedFrame == ASSUME LabNext PROVE (Verified' <=> Verified) /\ (ManifestSettled' <=> ManifestSettled)
BY LabFrame DEF Verified, ManifestSettled

LEMMA EmptyStep == ASSUME LabType, RestoreInv, LabNext PROVE Empty'
<1> USE VerifiedFrame
<1> USE DEF LabType, RestoreInv, Empty, Preparing, Setup, Starting, Loading, Restoring,
    Resuming, Migrating, Repairing, LabStep, Kept, At, To, prepareVars, labVars, restored,
    migrated
<1>1. CASE Restore BY <1>1 DEF Restore, Command, Rested
<1>2. CASE MakeBase BY <1>2 DEF MakeBase
<1>3. CASE CopyInput BY <1>3 DEF CopyInput
<1>4. CASE WriteCredentials BY <1>4 DEF WriteCredentials
<1>5. CASE WriteConfig BY <1>5 DEF WriteConfig
<1>6. CASE CreateVolume BY <1>6 DEF CreateVolume
<1>7. CASE RunContainer BY <1>7 DEF RunContainer
<1>8. CASE MysqlReady BY <1>8 DEF MysqlReady
<1>9. CASE WaitMysql BY <1>9 DEF WaitMysql
<1>10. CASE CreateDatabase BY <1>10 DEF CreateDatabase
<1>11. CASE Import BY <1>11 DEF Import
<1>12. CASE LockImporter BY <1>12 DEF LockImporter
<1>13. CASE UnlinkConfig BY <1>13 DEF UnlinkConfig
<1>14. CASE Qualify BY <1>14 DEF Qualify
<1>15. CASE Resume BY <1>15 DEF Resume, Resumable, Command
<1>16. CASE Recover BY <1>16 DEF Recover, Command
<1>17. CASE CreatePrerequisite BY <1>17 DEF CreatePrerequisite
<1>18. CASE WritePrerequisite BY <1>18 DEF WritePrerequisite
<1>19. CASE RecoverResumes BY <1>19 DEF RecoverResumes
<1>20. CASE Migrate BY <1>20 DEF Migrate, Command, Rested
<1>21. CASE BuildRunner BY <1>21 DEF BuildRunner
<1>22. CASE Flyway BY <1>22 DEF Flyway
<1>23. CASE FlywayFails BY <1>23 DEF FlywayFails
<1>24. CASE Compare BY <1>24 DEF Compare
<1>25. CASE WriteEvidence BY <1>25 DEF WriteEvidence
<1>26. CASE Repair BY <1>26 DEF Repair, Command, Rested
<1>27. CASE SaveHistory BY <1>27 DEF SaveHistory
<1>28. CASE RepairAndMigrate BY <1>28 DEF RepairAndMigrate
<1>29. CASE Examine BY <1>29 DEF Examine
<1>30. CASE Raise BY <1>30 DEF Raise
<1>31. CASE Fail BY <1>31 DEF Fail, CutShort, Writes, Fault
<1> QED BY <1>1, <1>2, <1>3, <1>4, <1>5, <1>6, <1>7, <1>8, <1>9, <1>10, <1>11, <1>12, <1>13,
    <1>14, <1>15, <1>16, <1>17, <1>18, <1>19, <1>20, <1>21, <1>22, <1>23, <1>24, <1>25, <1>26,
    <1>27, <1>28, <1>29, <1>30, <1>31 DEF LabNext

LEMMA CopiedStep == ASSUME LabType, RestoreInv, LabNext PROVE Copied'
<1> USE OrderFacts
<1> USE DEF LabType, RestoreInv, Empty, Copied, D, Preparing, Setup, Starting, Loading,
    Restoring, Resuming, Migrating, Repairing, LabStep, Kept, At, To, prepareVars, labVars,
    restored, migrated
<1>1. CASE Restore BY <1>1 DEF Restore, Command, Rested
<1>2. CASE MakeBase BY <1>2 DEF MakeBase
<1>3. CASE CopyInput BY <1>3 DEF CopyInput, Verified
<1>4. CASE WriteCredentials BY <1>4 DEF WriteCredentials
<1>5. CASE WriteConfig BY <1>5 DEF WriteConfig, D
<1>6. CASE CreateVolume BY <1>6 DEF CreateVolume
<1>7. CASE RunContainer BY <1>7 DEF RunContainer
<1>8. CASE MysqlReady BY <1>8 DEF MysqlReady
<1>9. CASE WaitMysql BY <1>9 DEF WaitMysql
<1>10. CASE CreateDatabase BY <1>10 DEF CreateDatabase, D
<1>11. CASE Import BY <1>11 DEF Import, D
<1>12. CASE LockImporter BY <1>12 DEF LockImporter, D
<1>13. CASE UnlinkConfig BY <1>13 DEF UnlinkConfig, D
<1>14. CASE Qualify BY <1>14 DEF Qualify
<1>15. CASE Resume BY <1>15 DEF Resume, Resumable, Command
<1>16. CASE Recover BY <1>16 DEF Recover, Command
<1>17. CASE CreatePrerequisite BY <1>17 DEF CreatePrerequisite
<1>18. CASE WritePrerequisite BY <1>18 DEF WritePrerequisite
<1>19. CASE RecoverResumes BY <1>19 DEF RecoverResumes, Resumable
<1>20. CASE Migrate BY <1>20 DEF Migrate, Command, Rested
<1>21. CASE BuildRunner BY <1>21 DEF BuildRunner
<1>22. CASE Flyway BY <1>22 DEF Flyway
<1>23. CASE FlywayFails BY <1>23 DEF FlywayFails
<1>24. CASE Compare BY <1>24 DEF Compare
<1>25. CASE WriteEvidence BY <1>25 DEF WriteEvidence
<1>26. CASE Repair BY <1>26 DEF Repair, Command, Rested
<1>27. CASE SaveHistory BY <1>27 DEF SaveHistory
<1>28. CASE RepairAndMigrate BY <1>28 DEF RepairAndMigrate
<1>29. CASE Examine BY <1>29 DEF Examine
<1>30. CASE Raise BY <1>30 DEF Raise, D, Resumable
<1>31. CASE Fail
  <2> USE <1>31 DEF Fail, CutShort
  <2>1. lab'.at = "idle" OBVIOUS
  <2>2. file'["qualification"] # "absent" => file["qualification"] # "absent" \/ lab.at \in Restoring
    BY DEF Writes
  <2>3. (\E d \in Database : cnf'[d] # "absent") =>
            (\E d \in Database : cnf[d] # "absent") \/ lab.at \in Restoring
    OBVIOUS
  <2>4. lab.at # "copy" => input' = input OBVIOUS
  <2>5. lab.at = "copy" => ~(\E d \in Database : cnf[d] # "absent")
                           /\ file["qualification"] = "absent" /\ lab.at \notin Restoring
    OBVIOUS
  <2> HIDE <1>31 DEF Fail, CutShort
  <2>6. file'["qualification"] # "absent" \/ (\E d \in Database : cnf'[d] # "absent") =>
            \A d \in Database : input'[d] = [of |-> Approved, whole |-> TRUE]
    <3> SUFFICES ASSUME file'["qualification"] # "absent" \/ \E d \in Database : cnf'[d] # "absent"
                 PROVE  \A d \in Database : input'[d] = [of |-> Approved, whole |-> TRUE]
      OBVIOUS
    <3>1. \/ lab.at \in Restoring \/ file["qualification"] # "absent"
          \/ \E d \in Database : cnf[d] # "absent"
      BY <2>2, <2>3 DEF Restoring
    <3>2. input' = input BY <2>4, <2>5, <3>1
    <3> QED BY <3>1, <3>2
  <2>7. lab'.at \notin Preparing \cup Restoring BY <2>1
  <2> QED BY <2>6, <2>7
<1> QED BY <1>1, <1>2, <1>3, <1>4, <1>5, <1>6, <1>7, <1>8, <1>9, <1>10, <1>11, <1>12, <1>13,
    <1>14, <1>15, <1>16, <1>17, <1>18, <1>19, <1>20, <1>21, <1>22, <1>23, <1>24, <1>25, <1>26,
    <1>27, <1>28, <1>29, <1>30, <1>31 DEF LabNext

LEMMA LeftStep == ASSUME LabType, RestoreInv, LabNext PROVE Left'
<1> USE OrderFacts
<1> USE DEF LabType, RestoreInv, Empty, Left, D, Preparing, Setup, Starting, Loading, Restoring,
    Resuming, Migrating, Repairing, LabStep, Kept, At, To, prepareVars, labVars, restored,
    migrated
<1>1. CASE Restore BY <1>1 DEF Restore, Command, Rested
<1>2. CASE MakeBase BY <1>2 DEF MakeBase
<1>3. CASE CopyInput BY <1>3 DEF CopyInput
<1>4. CASE WriteCredentials BY <1>4 DEF WriteCredentials
<1>5. CASE WriteConfig BY <1>5 DEF WriteConfig, D
<1>6. CASE CreateVolume BY <1>6 DEF CreateVolume
<1>7. CASE RunContainer BY <1>7 DEF RunContainer
<1>8. CASE MysqlReady BY <1>8 DEF MysqlReady
<1>9. CASE WaitMysql BY <1>9 DEF WaitMysql
<1>10. CASE CreateDatabase BY <1>10 DEF CreateDatabase, D
<1>11. CASE Import BY <1>11 DEF Import, D
<1>12. CASE LockImporter BY <1>12 DEF LockImporter, D
<1>13. CASE UnlinkConfig BY <1>13 DEF UnlinkConfig, D
<1>14. CASE Qualify BY <1>14 DEF Qualify
<1>15. CASE Resume BY <1>15 DEF Resume, Resumable, Command
<1>16. CASE Recover BY <1>16 DEF Recover, Command
<1>17. CASE CreatePrerequisite BY <1>17 DEF CreatePrerequisite
<1>18. CASE WritePrerequisite BY <1>18 DEF WritePrerequisite
<1>19. CASE RecoverResumes BY <1>19 DEF RecoverResumes, Resumable
<1>20. CASE Migrate BY <1>20 DEF Migrate, Command, Rested
<1>21. CASE BuildRunner BY <1>21 DEF BuildRunner
<1>22. CASE Flyway BY <1>22 DEF Flyway
<1>23. CASE FlywayFails BY <1>23 DEF FlywayFails
<1>24. CASE Compare BY <1>24 DEF Compare
<1>25. CASE WriteEvidence BY <1>25 DEF WriteEvidence
<1>26. CASE Repair BY <1>26 DEF Repair, Command, Rested
<1>27. CASE SaveHistory BY <1>27 DEF SaveHistory
<1>28. CASE RepairAndMigrate BY <1>28 DEF RepairAndMigrate
<1>29. CASE Examine BY <1>29 DEF Examine
<1>30. CASE Raise BY <1>30 DEF Raise, D, Resumable
<1>31. CASE Fail BY <1>31 DEF Fail, CutShort, D, Writes, Fault
<1> QED BY <1>1, <1>2, <1>3, <1>4, <1>5, <1>6, <1>7, <1>8, <1>9, <1>10, <1>11, <1>12, <1>13,
    <1>14, <1>15, <1>16, <1>17, <1>18, <1>19, <1>20, <1>21, <1>22, <1>23, <1>24, <1>25, <1>26,
    <1>27, <1>28, <1>29, <1>30, <1>31 DEF LabNext

LEMMA DoneStep == ASSUME LabType, RestoreInv, LabNext PROVE Done'
<1> USE OrderFacts
<1> USE DEF LabType, RestoreInv, Empty, Copied, Left, Done, D, Preparing, Setup, Starting,
    Loading, Restoring, Resuming, Migrating, Repairing, LabStep, Kept, At, To, prepareVars,
    labVars, restored, migrated
<1>1. CASE Restore BY <1>1 DEF Restore, Command, Rested
<1>2. CASE MakeBase BY <1>2 DEF MakeBase
<1>3. CASE CopyInput BY <1>3 DEF CopyInput
<1>4. CASE WriteCredentials BY <1>4 DEF WriteCredentials
<1>5. CASE WriteConfig BY <1>5 DEF WriteConfig, D
<1>6. CASE CreateVolume BY <1>6 DEF CreateVolume
<1>7. CASE RunContainer BY <1>7 DEF RunContainer
<1>8. CASE MysqlReady BY <1>8 DEF MysqlReady
<1>9. CASE WaitMysql BY <1>9 DEF WaitMysql
<1>10. CASE CreateDatabase BY <1>10 DEF CreateDatabase, D
<1>11. CASE Import BY <1>11 DEF Import, D, Importable
<1>12. CASE LockImporter BY <1>12 DEF LockImporter, D
<1>13. CASE UnlinkConfig BY <1>13 DEF UnlinkConfig, D
<1>14. CASE Qualify BY <1>14 DEF Qualify
<1>15. CASE Resume BY <1>15 DEF Resume, Resumable, Command
<1>16. CASE Recover BY <1>16 DEF Recover, Command
<1>17. CASE CreatePrerequisite BY <1>17 DEF CreatePrerequisite
<1>18. CASE WritePrerequisite BY <1>18 DEF WritePrerequisite
<1>19. CASE RecoverResumes BY <1>19 DEF RecoverResumes, Resumable
<1>20. CASE Migrate BY <1>20 DEF Migrate, Command, Rested
<1>21. CASE BuildRunner BY <1>21 DEF BuildRunner
<1>22. CASE Flyway BY <1>22 DEF Flyway
<1>23. CASE FlywayFails BY <1>23 DEF FlywayFails
<1>24. CASE Compare BY <1>24 DEF Compare
<1>25. CASE WriteEvidence BY <1>25 DEF WriteEvidence
<1>26. CASE Repair BY <1>26 DEF Repair, Command, Rested
<1>27. CASE SaveHistory BY <1>27 DEF SaveHistory
<1>28. CASE RepairAndMigrate BY <1>28 DEF RepairAndMigrate
<1>29. CASE Examine BY <1>29 DEF Examine
<1>30. CASE Raise BY <1>30 DEF Raise, D, Resumable, Importable
<1>31. CASE Fail BY <1>31 DEF Fail, CutShort, D, Writes, Fault
<1> QED BY <1>1, <1>2, <1>3, <1>4, <1>5, <1>6, <1>7, <1>8, <1>9, <1>10, <1>11, <1>12, <1>13,
    <1>14, <1>15, <1>16, <1>17, <1>18, <1>19, <1>20, <1>21, <1>22, <1>23, <1>24, <1>25, <1>26,
    <1>27, <1>28, <1>29, <1>30, <1>31 DEF LabNext

LEMMA RestoreStep == ASSUME LabType, RestoreInv, LabNext PROVE RestoreInv'
BY EmptyStep, CopiedStep, LeftStep, DoneStep DEF RestoreInv

LEMMA MigrateStep ==
    ASSUME LabType, MigrateInv, LabNext PROVE MigrateInv'
<1> USE OrderFacts
<1> USE DEF LabType, MigrateInv, Saved, Evidence, Migrating, Repairing, LabStep, Kept, At, To,
    prepareVars, labVars, restored, migrated
<1>1. CASE Restore BY <1>1 DEF Restore, Verified, Command, Rested
<1>2. CASE MakeBase BY <1>2 DEF MakeBase
<1>3. CASE CopyInput BY <1>3 DEF CopyInput
<1>4. CASE WriteCredentials BY <1>4 DEF WriteCredentials
<1>5. CASE WriteConfig BY <1>5 DEF WriteConfig, D
<1>6. CASE CreateVolume BY <1>6 DEF CreateVolume
<1>7. CASE RunContainer BY <1>7 DEF RunContainer
<1>8. CASE MysqlReady BY <1>8 DEF MysqlReady
<1>9. CASE WaitMysql BY <1>9 DEF WaitMysql
<1>10. CASE CreateDatabase BY <1>10 DEF CreateDatabase, D
<1>11. CASE Import BY <1>11 DEF Import, D, Importable
<1>12. CASE LockImporter BY <1>12 DEF LockImporter, D
<1>13. CASE UnlinkConfig BY <1>13 DEF UnlinkConfig, D
<1>14. CASE Qualify BY <1>14 DEF Qualify
<1>15. CASE Resume BY <1>15 DEF Resume, Resumable, Command
<1>16. CASE Recover BY <1>16 DEF Recover, Command
<1>17. CASE CreatePrerequisite BY <1>17 DEF CreatePrerequisite
<1>18. CASE WritePrerequisite BY <1>18 DEF WritePrerequisite
<1>19. CASE RecoverResumes BY <1>19 DEF RecoverResumes, Resumable
<1>20. CASE Migrate BY <1>20 DEF Migrate, Command, Rested
<1>21. CASE BuildRunner BY <1>21 DEF BuildRunner
<1>22. CASE Flyway BY <1>22 DEF Flyway
<1>23. CASE FlywayFails BY <1>23 DEF FlywayFails
<1>24. CASE Compare BY <1>24 DEF Compare
<1>25. CASE WriteEvidence BY <1>25 DEF WriteEvidence
<1>26. CASE Repair BY <1>26 DEF Repair, Command, Rested
<1>27. CASE SaveHistory
  <2> USE <1>27 DEF SaveHistory
  <2>1. history.changed = {} /\ history.rows = "old" OBVIOUS
  <2>2. saved' = Old
    <3>1. \A h \in [rows: {"old", "mixed", "new"}, changed: SUBSET Version] :
              h.rows = "old" /\ h.changed = {} => h = Old
      BY DEF Old
    <3> QED BY <2>1, <3>1
  <2> QED BY <2>1, <2>2
<1>28. CASE RepairAndMigrate BY <1>28 DEF RepairAndMigrate
<1>29. CASE Examine BY <1>29 DEF Examine
<1>30. CASE Raise BY <1>30 DEF Raise, D, Resumable, Importable
<1>31. CASE Fail BY <1>31 DEF Fail, CutShort, D, Writes, Fault
<1> QED BY <1>1, <1>2, <1>3, <1>4, <1>5, <1>6, <1>7, <1>8, <1>9, <1>10, <1>11, <1>12, <1>13,
    <1>14, <1>15, <1>16, <1>17, <1>18, <1>19, <1>20, <1>21, <1>22, <1>23, <1>24, <1>25, <1>26,
    <1>27, <1>28, <1>29, <1>30, <1>31 DEF LabNext

-----------------------------------------------------------------------------
(* The commands and prepare-windows-sql together.                            *)

LabInv == PrepareInv /\ LabType /\ RestoreInv /\ MigrateInv

\* A step of prepare-windows-sql does not disturb the lab: what it verified is settled.
LEMMA PrepareKeepsLab ==
    ASSUME LabInv, PrepareNext, UNCHANGED labVars PROVE LabInv'
<1>1. PrepareInv' BY PrepareNextInv DEF LabInv
<1>2. LabType' /\ MigrateInv'
  BY DEF LabInv, LabType, MigrateInv, Saved, Evidence, labVars, restored, migrated
<1>3. lab.at \in Preparing => Verified' /\ ManifestSettled'
  <2> SUFFICES ASSUME lab.at \in Preparing PROVE Verified' /\ ManifestSettled' OBVIOUS
  <2>1. Verified /\ ManifestSettled BY DEF LabInv, RestoreInv, Empty
  <2>2. Approved \in Backup BY LabAssumption
  <2>3. stage.file["manifest"] # Nothing BY <2>1, <2>2, RecordFacts DEF Verified
  <2>4. stage' = stage /\ ManifestSettled'
    BY <2>1, <2>3, FinishedStep DEF LabInv, PrepareNext
  <2> QED BY <2>1, <2>4 DEF Verified
<1>4. RestoreInv'
  <2> USE DEF LabInv, RestoreInv, labVars, restored
  <2>1. Empty' BY <1>3 DEF Empty
  <2>2. Copied' BY DEF Copied
  <2>3. Left' BY DEF Left
  <2>4. Done' BY DEF Done, D
  <2> QED BY <2>1, <2>2, <2>3, <2>4
<1> QED BY <1>1, <1>2, <1>4 DEF LabInv

LEMMA LabInvHolds == Spec => []LabInv
<1>1. Init => LabInv
  BY PrepareInitInv, LabTypeInit, RestoreInvInit, MigrateInvInit DEF Init, LabInv
<1>2. LabInv /\ [Next]_<<prepareVars, labVars>> => LabInv'
  <2> SUFFICES ASSUME LabInv, [Next]_<<prepareVars, labVars>> PROVE LabInv' OBVIOUS
  <2>1. CASE LabNext
    BY <2>1, LabFrame, PrepareFrame, LabTypeStep, RestoreStep, MigrateStep DEF LabInv
  <2>2. CASE PrepareNext /\ UNCHANGED labVars BY <2>2, PrepareKeepsLab
  <2>3. CASE UNCHANGED <<prepareVars, labVars>>
    <3>1. PrepareInv' BY <2>3, PrepareFrame DEF LabInv, prepareVars
    <3>2. LabType' /\ MigrateInv'
      BY <2>3 DEF LabInv, LabType, MigrateInv, Saved, Evidence, labVars, restored, migrated
    <3>3. (Verified' <=> Verified) /\ (ManifestSettled' <=> ManifestSettled)
      BY <2>3 DEF Verified, ManifestSettled, prepareVars
    <3>4. Empty' /\ Copied'
      <4>1. Empty' BY <2>3, <3>3 DEF LabInv, RestoreInv, Empty, labVars, restored
      <4>2. Copied' BY <2>3 DEF LabInv, RestoreInv, Copied, labVars, restored
      <4> QED BY <4>1, <4>2
    <3>5. Left' /\ Done'
      <4>1. Left' BY <2>3 DEF LabInv, RestoreInv, Left, labVars, restored
      <4>2. Done' BY <2>3 DEF LabInv, RestoreInv, Done, D, labVars, restored
      <4> QED BY <4>1, <4>2
    <3> QED BY <3>1, <3>2, <3>4, <3>5 DEF LabInv, RestoreInv
  <2> QED BY <2>1, <2>2, <2>3 DEF Next
<1> QED BY <1>1, <1>2, PTL DEF Spec

\* qualification.json, even one that is cut off, stands only for databases that were each
\* loaded from the whole dump of the approved archive, with every importer locked.
THEOREM Qualified == Spec => []QualifiedIsWhole
<1>1. LabInv => QualifiedIsWhole
  <2> SUFFICES ASSUME LabInv, file["qualification"] # "absent" PROVE QualifiedIsWhole
    BY DEF QualifiedIsWhole
  <2>1. upg BY OrderFacts DEF LabInv, RestoreInv, Done
  <2>2. \A d \in Database : input[d] = [of |-> Approved, whole |-> TRUE]
    BY DEF LabInv, RestoreInv, Copied
  <2>3. \A d \in Database : db[d] = "loaded" /\ importer[d] = "locked" /\ cnf[d] = "absent"
    BY DEF LabInv, RestoreInv, Done
  <2> QED BY <2>1, <2>2, <2>3 DEF QualifiedIsWhole
<1> QED BY <1>1, LabInvHolds, PTL

\* The snapshot is the history the backup came with, and no checksum changes before it.
THEOREM Snapshot == Spec => []SnapshotIsOriginal
<1>1. LabInv => SnapshotIsOriginal
  BY DEF LabInv, MigrateInv, Saved, SnapshotIsOriginal
<1> QED BY <1>1, LabInvHolds, PTL

\* migration-qualification.json stands only for a qualified restore with a migrated history in
\* which no checksum, or exactly the accepted ones, changed.
THEOREM Migrated == Spec => []MigrationIsTrue
<1>1. LabInv => MigrationIsTrue
  BY DEF LabInv, MigrateInv, Evidence, MigrationIsTrue
<1> QED BY <1>1, LabInvHolds, PTL

-----------------------------------------------------------------------------
(* The preparation of a text of any length (SqlPreparation).                 *)

\* Induction over a set of numbers.
LEMMA UpTo ==
    ASSUME NEW n \in Nat, NEW G, 0 \in G, \A i \in 0 .. n - 1 : i \in G => i + 1 \in G
    PROVE  \A i \in 0 .. n : i \in G
<1> DEFINE B == {i \in 0 .. n : i \notin G}
<1> SUFFICES ASSUME B # {} PROVE FALSE OBVIOUS
<1>1. PICK m \in B : \A k \in B : m <= k
  <2> DEFINE S == FiniteSubsetsOf(0 .. n)
             R == StrictSubsetOrdering(0 .. n)
             T == {U \in S : \E k \in B : U = 0 .. k}
  <2>1. IsWellFoundedOn(R, S) BY FS_Interval, FS_StrictSubsetOrderingWellFounded
  <2>2. \A k \in B : 0 .. k \in T BY FS_Interval DEF FiniteSubsetsOf
  <2>3. T # {} /\ T \subseteq S BY <2>2
  <2>4. PICK U \in T : \A V \in T : ~(<<V, U>> \in R)
    <3> HIDE DEF R, S, T
    <3> QED BY <2>1, <2>3, WFMin
  <2>5. PICK m \in B : U = 0 .. m OBVIOUS
  <2>6. ASSUME NEW k \in B, k < m PROVE FALSE
    <3>1. 0 .. k \subseteq U /\ 0 .. k # U /\ U \subseteq 0 .. n BY <2>5, <2>6
    <3>2. <<0 .. k, U>> \in R BY <3>1 DEF StrictSubsetOrdering
    <3> QED BY <2>2, <2>4, <3>2
  <2> QED BY <2>6
<1>2. m # 0 /\ m - 1 \in 0 .. n - 1 /\ m - 1 \notin B BY <1>1
<1>3. m - 1 \in G /\ (m - 1) + 1 = m BY <1>2
<1> QED BY <1>1, <1>2, <1>3

Modes  == {"code", "literal", "escape", "identifier", "comment", "line"}
Places == [mode: Modes, inside: BOOLEAN]

LEMMA TurnTaken ==
    ASSUME NEW turns, NEW t \in turns, \A u \in turns : u[1] = t[1] /\ u[2] = t[2] => u = t
    PROVE  Turned(turns, t[1], t[2]) = t[3]
BY DEF Turned

LEMMA NoTurn ==
    ASSUME NEW turns, NEW mode, NEW token, \A u \in turns : ~(u[1] = mode /\ u[2] = token)
    PROVE  Turned(turns, mode, token) = IF mode = "escape" THEN "literal" ELSE mode
BY DEF Turned

LEMMA LiteralTurn ==
    ASSUME NEW mode \in Modes, NEW token \in Token
    PROVE  Turned(LiteralTurns, mode, token) =
              IF mode = "code" /\ token = "quote" THEN "literal"
              ELSE IF mode = "literal" /\ token = "quote" THEN "code"
              ELSE IF mode = "literal" /\ token = "backslash" THEN "escape"
              ELSE IF mode = "escape" THEN "literal" ELSE mode
<1> DEFINE T == LiteralTurns
           Turns == {<<"code", "quote">>, <<"literal", "quote">>, <<"literal", "backslash">>}
<1>1. /\ <<"code", "quote", "literal">> \in T /\ <<"literal", "quote", "code">> \in T
      /\ <<"literal", "backslash", "escape">> \in T BY DEF LiteralTurns
<1>2. \A t, u \in T : u[1] = t[1] /\ u[2] = t[2] => u = t BY DEF LiteralTurns
<1>3. \A t \in T : <<t[1], t[2]>> \in Turns
  BY DEF LiteralTurns
<1> HIDE DEF T
<1>4. /\ Turned(T, "code", "quote") = "literal" /\ Turned(T, "literal", "quote") = "code"
      /\ Turned(T, "literal", "backslash") = "escape"
  <2>1. \A t \in T : Turned(T, t[1], t[2]) = t[3] BY <1>2, TurnTaken
  <2> QED BY <1>1, <2>1
<1>5. CASE <<mode, token>> \in Turns
  BY <1>4, <1>5 DEF T
<1>6. CASE <<mode, token>> \notin Turns
  <2>1. Turned(T, mode, token) = IF mode = "escape" THEN "literal" ELSE mode BY <1>3, <1>6, NoTurn
  <2> QED BY <1>6, <2>1 DEF T
<1> QED BY <1>5, <1>6

LEMMA EveryTurn ==
    ASSUME NEW mode \in Modes, NEW token \in Token
    PROVE  Turned(AllTurns, mode, token) =
              IF mode = "code" /\ token = "open" THEN "comment"
              ELSE IF mode = "comment" /\ token = "close" THEN "code"
              ELSE IF mode = "code" /\ token = "hash" THEN "line"
              ELSE IF mode = "line" /\ token = "newline" THEN "code"
              ELSE IF mode = "code" /\ token = "backtick" THEN "identifier"
              ELSE IF mode = "identifier" /\ token = "backtick" THEN "code"
              ELSE Turned(LiteralTurns, mode, token)
<1> DEFINE T == AllTurns
           Turns == {<<"code", "open">>, <<"comment", "close">>, <<"code", "hash">>, <<"line", "newline">>,
                     <<"code", "backtick">>, <<"identifier", "backtick">>,
                     <<"code", "quote">>, <<"literal", "quote">>, <<"literal", "backslash">>}
<1>1. /\ <<"code", "quote", "literal">> \in T /\ <<"literal", "quote", "code">> \in T
      /\ <<"literal", "backslash", "escape">> \in T
      /\ <<"code", "open", "comment">> \in T /\ <<"comment", "close", "code">> \in T
      /\ <<"code", "hash", "line">> \in T /\ <<"line", "newline", "code">> \in T
      /\ <<"code", "backtick", "identifier">> \in T /\ <<"identifier", "backtick", "code">> \in T
  BY DEF AllTurns, LiteralTurns, NameTurns, CommentTurns
<1>2. \A t, u \in T : u[1] = t[1] /\ u[2] = t[2] => u = t
  BY DEF AllTurns, LiteralTurns, NameTurns, CommentTurns
<1>3. \A t \in T : <<t[1], t[2]>> \in Turns
  BY DEF AllTurns, LiteralTurns, NameTurns, CommentTurns
<1> HIDE DEF T
<1>4. /\ Turned(T, "code", "quote") = "literal" /\ Turned(T, "literal", "quote") = "code"
      /\ Turned(T, "literal", "backslash") = "escape"
      /\ Turned(T, "code", "open") = "comment" /\ Turned(T, "comment", "close") = "code"
      /\ Turned(T, "code", "hash") = "line" /\ Turned(T, "line", "newline") = "code"
      /\ Turned(T, "code", "backtick") = "identifier" /\ Turned(T, "identifier", "backtick") = "code"
  <2>1. \A t \in T : Turned(T, t[1], t[2]) = t[3] BY <1>2, TurnTaken
  <2> QED BY <1>1, <2>1
<1>5. CASE <<mode, token>> \in Turns BY <1>4, <1>5, LiteralTurn DEF T
<1>6. CASE <<mode, token>> \notin Turns
  <2>1. Turned(T, mode, token) = IF mode = "escape" THEN "literal" ELSE mode BY <1>3, <1>6, NoTurn
  <2> QED BY <1>6, <2>1, LiteralTurn DEF T
<1> QED BY <1>5, <1>6

LEMMA AfterPlace ==
    ASSUME NEW s \in Places, NEW token \in Token, NEW turns \in {LiteralTurns, AllTurns},
           NEW first \in BOOLEAN
    PROVE  After(s, token, turns, first) \in Places
<1>1. Turned(turns, s.mode, token) \in Modes
  <2>1. s.mode \in Modes BY DEF Places
  <2>2. CASE turns = LiteralTurns BY <2>1, <2>2, LiteralTurn DEF Modes
  <2>3. CASE turns = AllTurns BY <2>1, <2>3, LiteralTurn, EveryTurn DEF Modes
  <2> QED BY <2>2, <2>3
<1> QED BY <1>1 DEF After, Start, Places, Modes

\* A pass begins in code, and every token moves it once.
LEMMA PassSteps ==
    ASSUME NEW text \in Seq(Token), NEW turns \in {LiteralTurns, AllTurns}, NEW first \in BOOLEAN
    PROVE  LET pass == Pass(text, turns, first) IN
           /\ pass[1] = Start
           /\ \A i \in DOMAIN text : /\ pass[i] \in Places
                                     /\ pass[i + 1] = After(pass[i], text[i], turns, first)
<1> DEFINE L == Len(text)
           Next1(past, i) == Append(past, After(past[i], text[i], turns, first))
           Is(f, n) == f = [i \in 0 .. n |-> IF i = 0 THEN <<Start>> ELSE Next1(f[i - 1], i)]
           states == CHOOSE f : Is(f, L)
<1>0. L \in Nat /\ DOMAIN text = 1 .. L OBVIOUS
<1>1. Pass(text, turns, first) = states[L] BY DEF Pass
<1>2. \E f : Is(f, L)
  <2> HIDE DEF L, Next1
  <2> DEFINE G == {n \in Nat : \E f : Is(f, n)}
  <2>1. 0 \in G
    <3> DEFINE f == [i \in 0 .. 0 |-> <<Start>>]
    <3>1. Is(f, 0) OBVIOUS
    <3> QED BY <3>1
  <2>2. ASSUME NEW n \in 0 .. L - 1, n \in G PROVE n + 1 \in G
    <3>1. PICK g : Is(g, n) BY <2>2
    <3> DEFINE f == [i \in 0 .. n + 1 |-> IF i = n + 1 THEN Next1(g[n], n + 1) ELSE g[i]]
    <3>2. \A i \in 0 .. n + 1 : f[i] = IF i = 0 THEN <<Start>> ELSE Next1(f[i - 1], i)
      <4> SUFFICES ASSUME NEW i \in 0 .. n + 1 PROVE f[i] = IF i = 0 THEN <<Start>> ELSE Next1(f[i - 1], i)
        OBVIOUS
      <4>1. CASE i = n + 1
        <5>1. f[i] = Next1(g[n], n + 1) /\ f[i - 1] = g[n] /\ i - 1 = n BY <1>0, <4>1
        <5> QED BY <1>0, <4>1, <5>1
      <4>2. CASE i # n + 1
        <5>1. i \in 0 .. n /\ f[i] = g[i] BY <1>0, <4>2
        <5>2. i # 0 => f[i - 1] = g[i - 1] BY <1>0, <5>1
        <5>3. g[i] = IF i = 0 THEN <<Start>> ELSE Next1(g[i - 1], i) BY <3>1, <5>1
        <5> QED BY <5>1, <5>2, <5>3
      <4> QED BY <4>1, <4>2
    <3>3. f = [i \in 0 .. n + 1 |-> IF i = 0 THEN <<Start>> ELSE Next1(f[i - 1], i)]
      <4>1. f = [i \in 0 .. n + 1 |-> f[i]] OBVIOUS
      <4> HIDE DEF f
      <4> QED BY <3>2, <4>1
    <3>4. n + 1 \in Nat BY <1>0
    <3> HIDE DEF f
    <3> QED BY <3>3, <3>4
  <2>3. \A i \in 0 .. L : i \in G
    <3> HIDE DEF G
    <3> QED BY <1>0, <2>1, <2>2, UpTo
  <2>4. L \in G
    <3> HIDE DEF G
    <3> QED BY <1>0, <2>3
  <2> HIDE DEF Is
  <2> QED BY <2>4
<1>3. \A n \in 0 .. L : states[n] = IF n = 0 THEN <<Start>> ELSE Next1(states[n - 1], n)
  <2> HIDE DEF Next1
  <2>1. Is(states, L) BY <1>2
  <2> HIDE DEF states
  <2> QED BY <2>1
<1> HIDE DEF states
<1> DEFINE Right(n) == /\ states[n] \in Seq(Places) /\ Len(states[n]) = n + 1 /\ states[n][1] = Start
                       /\ \A i \in 1 .. n : states[n][i + 1] = After(states[n][i], text[i], turns, first)
           G == {n \in Nat : Right(n)}
<1>4. 0 \in G
  <2>1. states[0] = <<Start>> BY <1>0, <1>3
  <2>2. Start \in Places BY DEF Start, Places, Modes
  <2>3. <<Start>> \in Seq(Places) /\ Len(<<Start>>) = 1 /\ <<Start>>[1] = Start BY <2>2
  <2>4. states[0] \in Seq(Places) /\ Len(states[0]) = 0 + 1 /\ states[0][1] = Start BY <2>1, <2>3
  <2>5. \A i \in 1 .. 0 : states[0][i + 1] = After(states[0][i], text[i], turns, first) OBVIOUS
  <2> HIDE DEF states
  <2>6. Right(0) BY <2>4, <2>5
  <2> HIDE DEF Right
  <2> QED BY <2>6
<1>5. ASSUME NEW n \in 0 .. L - 1, n \in G PROVE n + 1 \in G
  <2>1. Right(n) /\ n + 1 \in 1 .. L /\ n \in Nat BY <1>0, <1>5
  <2> DEFINE past == states[n]
             x == After(past[n + 1], text[n + 1], turns, first)
  <2>2. states[n + 1] = Append(past, x)
    <3>1. n + 1 # 0 /\ (n + 1) - 1 = n /\ n + 1 \in 0 .. L BY <1>0, <2>1
    <3>2. states[n + 1] = Next1(states[(n + 1) - 1], n + 1)
      <4> HIDE DEF L, Next1
      <4> QED BY <1>3, <3>1
    <3> QED BY <3>1, <3>2
  <2>3. x \in Places BY <1>0, <2>1, AfterPlace
  <2> HIDE DEF x
  <2>4. past \in Seq(Places) /\ Len(past) = n + 1 BY <2>1
  <2>5. /\ Append(past, x) \in Seq(Places) /\ Len(Append(past, x)) = n + 2
        /\ \A i \in 1 .. n + 1 : Append(past, x)[i] = past[i]
        /\ Append(past, x)[n + 2] = x
    <3> HIDE DEF past
    <3> QED BY <2>1, <2>3, <2>4
  <2>6. states[n + 1][1] = Start BY <2>1, <2>2, <2>5
  <2>7. ASSUME NEW i \in 1 .. n + 1
        PROVE  states[n + 1][i + 1] = After(states[n + 1][i], text[i], turns, first)
    <3>1. CASE i = n + 1 BY <2>1, <2>2, <2>5, <3>1 DEF x
    <3>2. CASE i # n + 1
      <4>1. i \in 1 .. n /\ i + 1 \in 1 .. n + 1 BY <2>1, <3>2
      <4> QED BY <2>1, <2>2, <2>5, <4>1
    <3> QED BY <3>1, <3>2
  <2>8. Len(states[n + 1]) = (n + 1) + 1 /\ states[n + 1] \in Seq(Places) BY <2>1, <2>2, <2>5
  <2> QED BY <2>1, <2>6, <2>7, <2>8
<1>6. Right(L)
  <2>1. L \in G
    <3> HIDE DEF G, L
    <3> QED BY <1>0, <1>4, <1>5, UpTo
  <2> QED BY <2>1
<1> QED BY <1>0, <1>1, <1>6
-----------------------------------------------------------------------------
(* Where the passes agree.                                                   *)

\* Up to an end mark the code takes for the end of an executable comment, its mask is the
\* server's.
LEMMA MaskIsServer ==
    ASSUME NEW text \in Seq(Token), ~EndsEarly(text)
    PROVE  Visible(text) = Server(text, {"code", "identifier"})
<1> DEFINE L == Len(text)
           V == Pass(text, AllTurns, TRUE)
           S == Pass(text, AllTurns, FALSE)
           G == {n \in Nat : n < L => V[n + 1] = S[n + 1]}
<1>0. L \in Nat /\ DOMAIN text = 1 .. L /\ \A i \in 1 .. L : text[i] \in Token OBVIOUS
<1>1. /\ V[1] = Start /\ S[1] = Start
      /\ \A i \in DOMAIN text : V[i + 1] = After(V[i], text[i], AllTurns, TRUE)
      /\ \A i \in DOMAIN text : S[i + 1] = After(S[i], text[i], AllTurns, FALSE)
  BY PassSteps
<1>2. \A i \in DOMAIN text : ~(text[i] = "close" /\ S[i].inside /\ S[i].mode # "code")
  BY DEF EndsEarly
<1> HIDE DEF V, S
<1>3. 0 \in G BY <1>1
<1>4. ASSUME NEW n \in 0 .. L - 1, n \in G PROVE n + 1 \in G
  <2>1. n + 1 \in DOMAIN text /\ V[n + 1] = S[n + 1] BY <1>0, <1>4
  <2>2. After(V[n + 1], text[n + 1], AllTurns, TRUE) = After(S[n + 1], text[n + 1], AllTurns, FALSE)
    BY <1>2, <2>1 DEF After
  <2>3. V[(n + 1) + 1] = S[(n + 1) + 1] BY <1>1, <2>1, <2>2
  <2> QED BY <1>0, <2>3
<1>5. \A i \in DOMAIN text : V[i] = S[i]
  <2>1. \A n \in 0 .. L : n \in G
    <3> HIDE DEF G, L
    <3> QED BY <1>0, <1>3, <1>4, UpTo
  <2> SUFFICES ASSUME NEW i \in DOMAIN text PROVE V[i] = S[i] OBVIOUS
  <2>2. i - 1 \in 0 .. L /\ i - 1 < L /\ (i - 1) + 1 = i BY <1>0
  <2> QED BY <2>1, <2>2
<1> QED BY <1>5 DEF Visible, Server, InMode, V, S

\* Without a quote in a comment or an identifier the literals of the digest are the server's.
LEMMA DigestIsServer ==
    ASSUME NEW text \in Seq(Token), ~StrayQuote(text)
    PROVE  Server(text, {"literal", "escape"}) \subseteq DOMAIN Literals(text)
<1> DEFINE L == Len(text)
           Digest == Pass(text, LiteralTurns, FALSE)
           S == Pass(text, AllTurns, FALSE)
           Same(d, s) == d.mode = IF s.mode \in {"comment", "line", "identifier"} THEN "code" ELSE s.mode
           G == {n \in Nat : n < L => Same(Digest[n + 1], S[n + 1])}
<1>0. L \in Nat /\ DOMAIN text = 1 .. L /\ \A i \in 1 .. L : text[i] \in Token OBVIOUS
<1>1. /\ Digest[1] = Start /\ S[1] = Start
      /\ \A i \in DOMAIN text :
             /\ Digest[i] \in Places /\ Digest[i + 1] = After(Digest[i], text[i], LiteralTurns, FALSE)
             /\ S[i] \in Places /\ S[i + 1] = After(S[i], text[i], AllTurns, FALSE)
  BY PassSteps
<1>2. \A i \in DOMAIN text : S[i].mode \in {"comment", "line", "identifier"} => text[i] # "quote"
  BY DEF StrayQuote, Server, InMode
<1> HIDE DEF Digest, S
<1>3. 0 \in G BY <1>1 DEF Start
<1>4. ASSUME NEW n \in 0 .. L - 1, n \in G PROVE n + 1 \in G
  <2> DEFINE d == Digest[n + 1]
             s == S[n + 1]
             token == text[n + 1]
  <2>1. n + 1 \in DOMAIN text /\ Same(d, s) BY <1>0, <1>4
  <2>2. d.mode \in Modes /\ s.mode \in Modes /\ token \in Token BY <1>0, <1>1, <2>1 DEF Places
  <2>3. s.mode \in {"comment", "line", "identifier"} => token # "quote" BY <1>2, <2>1
  <2> HIDE DEF d, s, token
  <2>4. LET past == Turned(LiteralTurns, d.mode, token)
            now  == Turned(AllTurns, s.mode, token) IN
        past = IF now \in {"comment", "line", "identifier"} THEN "code" ELSE now
    BY <2>1, <2>2, <2>3, LiteralTurn, EveryTurn DEF Modes
  <2>5. d.mode = "code" /\ token = "close" => Turned(LiteralTurns, d.mode, token) = "code"
    BY <2>2, LiteralTurn
  <2>6. s.mode = "code" /\ token = "close" => Turned(AllTurns, s.mode, token) = "code"
    BY <2>2, LiteralTurn, EveryTurn
  <2>7. /\ After(d, token, LiteralTurns, FALSE).mode = Turned(LiteralTurns, d.mode, token)
        /\ After(s, token, AllTurns, FALSE).mode = Turned(AllTurns, s.mode, token)
    BY <2>5, <2>6 DEF After, Start
  <2>8. Same(Digest[(n + 1) + 1], S[(n + 1) + 1]) BY <1>1, <2>1, <2>4, <2>7 DEF d, s, token
  <2> HIDE DEF Same
  <2> QED BY <1>0, <2>8
<1>5. \A i \in DOMAIN text : Same(Digest[i], S[i])
  <2>1. \A n \in 0 .. L : n \in G
    <3> HIDE DEF G, L
    <3> QED BY <1>0, <1>3, <1>4, UpTo
  <2> SUFFICES ASSUME NEW i \in DOMAIN text PROVE Same(Digest[i], S[i]) OBVIOUS
  <2>2. i - 1 \in 0 .. L /\ i - 1 < L /\ (i - 1) + 1 = i BY <1>0
  <2> QED BY <2>1, <2>2
<1>6. \A i \in DOMAIN text : S[i].mode \in {"literal", "escape"} => Digest[i].mode \in {"literal", "escape"}
  BY <1>5
<1> QED BY <1>6 DEF Literals, Server, InMode, Digest, S

\* There the code of the server is searched for keywords: an odd number of backticks stands
\* before a place just if it is in an identifier.
LEMMA CodeIsSearched ==
    ASSUME NEW text \in Seq(Token), ~EndsEarly(text)
    PROVE  Server(text, {"code"}) \subseteq Keywords(text)
<1> DEFINE L == Len(text)
           S == Pass(text, AllTurns, FALSE)
           ticks == {i \in Visible(text) : text[i] = "backtick"}
           before(i) == {j \in ticks : j < i}
           Parity(i) == /\ Cardinality(before(i)) \in Nat
                        /\ Cardinality(before(i)) % 2 = (IF S[i].mode = "identifier" THEN 1 ELSE 0)
           G == {n \in Nat : n < L => Parity(n + 1)}
<1>0. L \in Nat /\ DOMAIN text = 1 .. L /\ \A i \in 1 .. L : text[i] \in Token OBVIOUS
<1>1. /\ S[1] = Start
      /\ \A i \in DOMAIN text : S[i] \in Places /\ S[i + 1] = After(S[i], text[i], AllTurns, FALSE)
  BY PassSteps
<1>2. Visible(text) = Server(text, {"code", "identifier"}) BY MaskIsServer
<1>3. ticks = {i \in DOMAIN text : S[i].mode \in {"code", "identifier"} /\ text[i] = "backtick"}
  BY <1>2 DEF Server, InMode
<1>4. \A i : IsFiniteSet(before(i))
  <2>1. IsFiniteSet(DOMAIN text) BY <1>0, FS_Interval
  <2>2. \A i : before(i) \subseteq DOMAIN text BY <1>3
  <2> QED BY <2>1, <2>2, FS_Subset
<1> HIDE DEF S, ticks
<1>5. 0 \in G
  <2>1. before(1) = {} BY <1>0, <1>3
  <2>2. Cardinality(before(1)) = 0 BY <2>1, FS_EmptySet
  <2>3. S[1].mode # "identifier" BY <1>1 DEF Start
  <2> QED BY <2>2, <2>3
<1>6. ASSUME NEW n \in 0 .. L - 1, n \in G PROVE n + 1 \in G
  <2> DEFINE i == n + 1
             s == S[i]
             t == S[i + 1]
  <2>1. i \in DOMAIN text /\ Parity(i) /\ i \in Nat BY <1>0, <1>6
  <2>2. s \in Places /\ s.mode \in Modes /\ text[i] \in Token /\ t = After(s, text[i], AllTurns, FALSE)
    BY <1>0, <1>1, <2>1 DEF Places
  <2>3. CASE i \in ticks
    <3>1. text[i] = "backtick" /\ s.mode \in {"code", "identifier"} BY <1>3, <2>3
    <3>2. t.mode = IF s.mode = "identifier" THEN "code" ELSE "identifier"
      BY <2>2, <3>1, EveryTurn DEF After
    <3>3. before(i + 1) = before(i) \cup {i} /\ i \notin before(i) BY <1>0, <1>3, <2>1, <2>3
    <3>4. Cardinality(before(i + 1)) = Cardinality(before(i)) + 1
      <4> HIDE DEF before, i
      <4> QED BY <1>4, <3>3, FS_AddElement
    <3>5. Parity(i + 1)
      <4> DEFINE c == Cardinality(before(i))
      <4>1. c \in Nat /\ c % 2 = (IF s.mode = "identifier" THEN 1 ELSE 0) BY <2>1
      <4>2. Cardinality(before(i + 1)) = c + 1 BY <3>4
      <4> HIDE DEF c, before
      <4>3. (c + 1) % 2 = (IF c % 2 = 1 THEN 0 ELSE 1) BY <4>1
      <4>4. t.mode = "identifier" <=> c % 2 = 0 BY <3>1, <3>2, <4>1
      <4> QED BY <4>1, <4>2, <4>3, <4>4
    <3> HIDE DEF Parity
    <3> QED BY <1>0, <3>5
  <2>4. CASE i \notin ticks
    <3>1. text[i] # "backtick" \/ s.mode \notin {"code", "identifier"} BY <1>3, <2>1, <2>4
    <3>2. t.mode = "identifier" <=> s.mode = "identifier"
      BY <2>2, <3>1, EveryTurn, LiteralTurn DEF After, Start, Modes
    <3>3. before(i + 1) = before(i) BY <1>0, <1>3, <2>1, <2>4
    <3>4. Parity(i + 1)
      <4> HIDE DEF before
      <4> QED BY <2>1, <3>2, <3>3
    <3> HIDE DEF Parity
    <3> QED BY <1>0, <3>4
  <2> QED BY <2>3, <2>4
<1>7. \A i \in DOMAIN text : Parity(i)
  <2>1. \A n \in 0 .. L : n \in G
    <3> HIDE DEF G, L
    <3> QED BY <1>0, <1>5, <1>6, UpTo
  <2> SUFFICES ASSUME NEW i \in DOMAIN text PROVE Parity(i) OBVIOUS
  <2>2. i - 1 \in 0 .. L /\ i - 1 < L /\ (i - 1) + 1 = i BY <1>0
  <2> HIDE DEF Parity
  <2> QED BY <2>1, <2>2
<1>8. ASSUME NEW i \in Server(text, {"code"}) PROVE i \in Keywords(text)
  <2>1. i \in DOMAIN text /\ S[i].mode = "code" BY DEF Server, InMode, S
  <2>2. Cardinality(before(i)) % 2 = 0 BY <1>7, <2>1
  <2>3. i \in Visible(text) BY <1>2, <2>1 DEF Server, InMode, S
  <2> QED BY <2>2, <2>3 DEF Keywords, ticks
<1> QED BY <1>8

-----------------------------------------------------------------------------
(* What the checks leave.                                                    *)

LEMMA Unseen ==
    ASSUME NEW text \in Seq(Token), NEW places \in SUBSET DOMAIN text, NEW words
    PROVE  /\ IsFiniteSet({i \in places : text[i] \in words})
           /\ Count(text, places, words) = 0 => \A i \in places : text[i] \notin words
<1> DEFINE seen == {i \in places : text[i] \in words}
<1>1. IsFiniteSet(seen)
  <2>1. Len(text) \in Nat /\ DOMAIN text = 1 .. Len(text) OBVIOUS
  <2>2. IsFiniteSet(DOMAIN text) BY <2>1, FS_Interval
  <2>3. seen \subseteq DOMAIN text OBVIOUS
  <2> QED BY <2>2, <2>3, FS_Subset
<1>2. Cardinality(seen) \in Nat /\ (Cardinality(seen) = 0 <=> seen = {})
  BY <1>1, FS_CardinalityType, FS_EmptySet
<1> QED BY <1>1, <1>2 DEF Count

LEMMA Within ==
    ASSUME NEW text \in Seq(Token)
    PROVE  Visible(text) \subseteq DOMAIN text /\ Keywords(text) \subseteq Visible(text)
BY DEF Visible, Keywords, InMode

\* What the mask shows is staged without another schema, the Windows name or a known definer.
LEMMA SeenIsStaged ==
    ASSUME NEW text \in Seq(Token), NEW definers, NEW recorded \in BOOLEAN,
           Accepted(text, definers, recorded), NEW i \in Visible(text)
    PROVE  Staged(text)[i] \notin {"windows", "foreign", "definer"}
<1>1. Count(text, Visible(text), {"foreign"}) = 0 BY DEF Accepted, Audited
<1>2. text[i] # "foreign" BY <1>1, Unseen, Within
<1> QED BY <1>2, Within DEF Staged

\* Where it is searched for keywords nothing forbidden stands, and no other definer if every
\* known one is counted.
LEMMA KeywordsAreStaged ==
    ASSUME NEW text \in Seq(Token), NEW definers, NEW recorded \in BOOLEAN,
           Accepted(text, definers, recorded), NEW i \in Keywords(text)
    PROVE  /\ Staged(text)[i] # "forbidden"
           /\ (\A j \in Visible(text) : text[j] = "definer" => j \in Keywords(text))
                => Staged(text)[i] # "owner"
<1> DEFINE all  == {j \in Keywords(text) : text[j] \in {"definer", "owner", "current"}}
           some == {j \in Visible(text) : text[j] \in {"definer"}}
<1>1. /\ Count(text, Keywords(text), {"forbidden"}) = 0
      /\ Cardinality(all) = Cardinality(some)
  BY DEF Accepted, Audited, Count
<1>2. text[i] # "forbidden" BY <1>1, Unseen, Within
<1>3. ASSUME some \subseteq Keywords(text) PROVE text[i] # "owner"
  <2>1. IsFiniteSet(all) BY Unseen, Within
  <2>2. some \subseteq all BY <1>3
  <2>3. all = some
    <3> HIDE DEF all, some
    <3> QED BY <1>1, <2>1, <2>2, FS_Subset
  <2> QED BY <2>3
<1>4. i \in DOMAIN text BY Within
<1>5. Staged(text)[i] \in {"forbidden", "owner"} => Staged(text)[i] = text[i] BY <1>4 DEF Staged
<1> QED BY <1>2, <1>3, <1>5

\* Up to a line the mask does not know, a line with the history table on it is staged as it is.
LEMMA HistoryIsStaged ==
    ASSUME NEW text \in Seq(Token), History(Staged(text)) = History(text), ~EndsEarly(text),
           NEW i \in Visible(text), text[i] = "history", ~LinesShift(text, i),
           NEW j \in SameLine(text, i)
    PROVE  Staged(text)[j] = text[j]
<1> DEFINE S == Pass(text, AllTurns, FALSE)
<1>0. Len(text) \in Nat /\ DOMAIN text = 1 .. Len(text) OBVIOUS
<1>1. \A k \in DOMAIN text : S[k].mode \in Modes BY PassSteps DEF Places
<1>2. \A k \in DOMAIN text : k < i /\ text[k] = "separator" => k \in Visible(text)
  <2>1. Visible(text) = Server(text, {"code", "identifier"}) BY MaskIsServer
  <2> HIDE DEF S
  <2> QED BY <1>1, <2>1 DEF LinesShift, Server, InMode, Modes, S
<1>3. {k \in MaskBreaks(text) : k < i} = {k \in Breaks(text) : k < i}
  BY <1>2 DEF MaskBreaks, Breaks
<1>4. Line(MaskBreaks(text), i) = Line(Breaks(text), i) BY <1>3 DEF Line
<1>5. j \in DOMAIN text /\ Line(Breaks(text), j) = Line(MaskBreaks(text), i)
  BY <1>4 DEF SameLine
<1>6. j \in DOMAIN History(text) /\ History(text)[j] = text[j] BY <1>5 DEF History
<1>7. j \in DOMAIN History(Staged(text)) => History(Staged(text))[j] = Staged(text)[j]
  BY DEF History
<1> QED BY <1>6, <1>7

LEMMA UnseenIsKept ==
    ASSUME NEW text \in Seq(Token), NEW i \in DOMAIN text, i \notin Visible(text)
    PROVE  Staged(text)[i] = text[i]
BY DEF Staged

\* Every text that passes the checks is staged with its literals, and normalised.
LEMMA AcceptedIsSound ==
    ASSUME NEW text \in Seq(Token), NEW definers, NEW recorded \in BOOLEAN,
           Accepted(text, definers, recorded)
    PROVE  LiteralsKept(text) /\ CodeIsNormalised(text, recorded)
<1> DEFINE S == Pass(text, AllTurns, FALSE)
<1>1. \A modes : Server(text, modes) = {i \in DOMAIN text : S[i].mode \in modes}
  BY DEF Server, InMode
<1> HIDE DEF S
<1>2. CodeIsNormalised(text, recorded)
  <2> SUFFICES ASSUME ~EndsEarly(text) PROVE CodeIsNormalised(text, recorded)
    BY DEF CodeIsNormalised
  <2>1. /\ Visible(text) = Server(text, {"code", "identifier"})
        /\ Server(text, {"code"}) \subseteq Keywords(text)
    BY MaskIsServer, CodeIsSearched
  <2>2. \A i \in Server(text, {"code", "identifier"}) :
            Staged(text)[i] \notin {"windows", "foreign", "definer"}
    BY <2>1, SeenIsStaged
  <2>3. ~DefinerInName(text) => \A j \in Visible(text) : text[j] = "definer" => j \in Keywords(text)
    BY <1>1, <2>1 DEF DefinerInName
  <2>4. \A i \in Server(text, {"code"}) :
            /\ Staged(text)[i] # "forbidden"
            /\ Staged(text)[i] # "owner" \/ DefinerInName(text)
    BY <2>1, <2>3, KeywordsAreStaged
  <2>5. \A i \in Server(text, {"comment", "line"}) : Staged(text)[i] = text[i]
    BY <1>1, <2>1, UnseenIsKept
  <2>6. recorded => HistoryKept(text, FALSE)
    BY <2>1, HistoryIsStaged DEF Accepted, HistoryKept
  <2> QED BY <2>2, <2>4, <2>5, <2>6 DEF CodeIsNormalised
<1>3. LiteralsKept(text)
  <2>1. CASE ~EndsEarly(text)
    <3>1. Visible(text) = Server(text, {"code", "identifier"}) BY <2>1, MaskIsServer
    <3>2. \A i \in Server(text, {"literal", "escape"}) : Staged(text)[i] = text[i]
      BY <1>1, <3>1, UnseenIsKept
    <3> QED BY <3>2 DEF LiteralsKept
  <2>2. CASE ~StrayQuote(text)
    <3>1. ASSUME NEW i \in Server(text, {"literal", "escape"}) PROVE Staged(text)[i] = text[i]
      <4>1. i \in DOMAIN Literals(text) BY <2>2, DigestIsServer
      <4>2. Literals(Staged(text)) = Literals(text) BY DEF Accepted
      <4>3. /\ Literals(text)[i] = text[i]
            /\ i \in DOMAIN Literals(Staged(text)) => Literals(Staged(text))[i] = Staged(text)[i]
        BY <4>1 DEF Literals
      <4> QED BY <4>1, <4>2, <4>3
    <3> QED BY <3>1 DEF LiteralsKept
  <2> QED BY <2>1, <2>2 DEF LiteralsKept
<1> QED BY <1>2, <1>3

\* What passes the checks keeps its literals and is normalised, for texts of any length.
THEOREM StagedSoundly == DumpSpec => []StagedIsSound
<1>1. sql = <<>> => sql \in Seq(Token) OBVIOUS
<1>2. sql \in Seq(Token) /\ [\E t \in Token : Lengthen(t)]_sql => (sql \in Seq(Token))'
  BY DEF Lengthen
<1>3. sql \in Seq(Token) => StagedIsSound BY AcceptedIsSound DEF StagedIsSound
<1> QED BY <1>1, <1>2, <1>3, PTL DEF DumpSpec
=============================================================================
