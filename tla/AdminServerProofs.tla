-------------------------- MODULE AdminServerProofs --------------------------
(***************************************************************************)
(* Theorems about AdminServer for every number of connections, limit and    *)
(* list of releases.                                                         *)
(***************************************************************************)
EXTENDS AdminServer, FiniteSetTheorems, FunctionTheorems, WellFoundedInduction, TLAPS

-----------------------------------------------------------------------------
(* The inductive invariant.                                                  *)

Points == {"closed", "starting", "read", "admit", "verify", "issue", "check", "startCheck",
           "confirm", "reply"}

Times(f) == f \in [DOMAIN f -> Nat] /\ IsFiniteSet(DOMAIN f)

Connections ==
    /\ slots \in Nat /\ conn \in [Client -> [at: Points, asks: {Nothing} \cup {Offer(r) : r \in Release}]]
    /\ SlotsConserved

\* What update_gui.py may offer, whoever looks at it.
Eligible(o) ==
    \E r \in Release : /\ o = Offer(r) /\ ~r.draft /\ r.assets
                       /\ r.prerelease => Channel = "preview"
                       /\ Later(r.version, Current)

Offers == \A o \in {checker.found, result, queue} : o # Nothing => Eligible(o)

Clock == now \in Nat /\ Times(attempts) /\ Times(sessions)

\* The logins that are in the window are remembered, each by itself.
InWindow == {j \in DOMAIN admitted : now - admitted[j] < Window}
Remembers(f) ==
    /\ f \in [InWindow -> DOMAIN attempts]
    /\ \A i, j \in InWindow : f[i] = f[j] => i = j
    /\ \A j \in InWindow : attempts[f[j]] = admitted[j]

Logins ==
    /\ admitted \in Seq(Nat) /\ Len(admitted) <= MaxAttempts + 1
    /\ \A j \in DOMAIN admitted : admitted[j] <= now
    /\ \A i, j \in DOMAIN admitted : i <= j => admitted[i] <= admitted[j]
    /\ \E f : Remembers(f)
    /\ Len(admitted) > MaxAttempts => admitted[Len(admitted)] - admitted[1] >= Window

Issued == Cardinality(DOMAIN sessions) <= MaxSessions

IInv == Connections /\ Offers /\ Clock /\ Logins /\ Issued /\ OneCheck

-----------------------------------------------------------------------------
(* Which release is offered.                                                 *)

LEMMA LaterIs ==
    ASSUME NEW v \in Triple, NEW w \in Triple
    PROVE  Later(v, w) <=> \/ v[1] > w[1]
                           \/ v[1] = w[1] /\ v[2] > w[2]
                           \/ v[1] = w[1] /\ v[2] = w[2] /\ v[3] > w[3]
<1>1. 1 .. 3 = {1, 2, 3} /\ 1 .. 1 - 1 = {} /\ 1 .. 2 - 1 = {1} /\ 1 .. 3 - 1 = {1, 2} OBVIOUS
<1> QED BY <1>1 DEF Later

LEMMA LaterOrders ==
    ASSUME NEW u \in Triple, NEW v \in Triple, NEW w \in Triple
    PROVE  /\ ~Later(v, v)
           /\ Later(u, v) /\ Later(v, w) => Later(u, w)
           /\ ~Later(u, v) /\ ~Later(v, w) => ~Later(u, w)
<1>1. /\ u[1] \in Nat /\ u[2] \in Nat /\ u[3] \in Nat
      /\ v[1] \in Nat /\ v[2] \in Nat /\ v[3] \in Nat
      /\ w[1] \in Nat /\ w[2] \in Nat /\ w[3] \in Nat BY DEF Triple
<1>2. ~Later(v, v) BY <1>1, LaterIs
<1>3. Later(u, v) /\ Later(v, w) => Later(u, w) BY <1>1, LaterIs
<1>4. ~Later(u, v) /\ ~Later(v, w) => ~Later(u, w) BY <1>1, LaterIs
<1> QED BY <1>2, <1>3, <1>4

Highest(r, found) == r \in found /\ \A s \in found : ~Later(s.version, r.version)

\* Of finitely many releases with a version, one is the highest.
LEMMA SomeHighest ==
    ASSUME NEW found, IsFiniteSet(found), found # {}, \A r \in found : r.version \in Triple
    PROVE  \E r : Highest(r, found)
<1> DEFINE R == StrictSubsetOrdering(found)
           S == FiniteSubsetsOf(found)
           T == {U \in S : U # {} /\ ~ \E r : Highest(r, U)}
<1> SUFFICES ASSUME ~ \E r : Highest(r, found) PROVE FALSE
  OBVIOUS
<1>1. found \in T BY DEF FiniteSubsetsOf
<1>2. PICK U \in T : \A V \in T : ~(<<V, U>> \in R)
  <2>1. IsWellFoundedOn(R, S) BY FS_StrictSubsetOrderingWellFounded
  <2> HIDE DEF R, S
  <2>2. T \subseteq S /\ T # {} BY <1>1
  <2> HIDE DEF T
  <2> QED BY <2>1, <2>2, WFMin
<1>3. U \subseteq found /\ IsFiniteSet(U) /\ U # {} /\ ~ \E r : Highest(r, U)
  BY DEF FiniteSubsetsOf
<1>4. PICK x : x \in U BY <1>3
<1> DEFINE V == U \ {x}
<1>5. V = {}
  <2> SUFFICES ASSUME V # {} PROVE FALSE OBVIOUS
  <2>1. V \subseteq found /\ IsFiniteSet(V) BY <1>3, FS_RemoveElement
  <2>2. V \in S BY <2>1 DEF FiniteSubsetsOf
  <2>3. <<V, U>> \in R
    BY <1>3, <1>4, <2>1 DEF StrictSubsetOrdering
  <2>4. PICK m : Highest(m, V) BY <1>2, <2>2, <2>3
  <2>5. x.version \in Triple /\ m.version \in Triple BY <1>3, <1>4, <2>4 DEF Highest
  <2>6. CASE Later(x.version, m.version)
    <3>1. \A s \in U : ~Later(s.version, x.version)
      BY <1>3, <2>4, <2>5, <2>6, LaterOrders DEF Highest
    <3> QED BY <1>3, <1>4, <3>1 DEF Highest
  <2>7. CASE ~Later(x.version, m.version)
    BY <1>3, <1>4, <2>4, <2>7 DEF Highest
  <2> QED BY <2>6, <2>7
<1>6. Highest(x, U)
  <2>1. U = {x} BY <1>4, <1>5
  <2>2. x.version \in Triple BY <1>3, <1>4
  <2> QED BY <2>1, <2>2, LaterOrders DEF Highest
<1> QED BY <1>3, <1>6

\* select_release offers the highest version among the candidates of any list, which has
\* an ID and both assets; whatever else it does, it offers nothing.
THEOREM OffersTheHighest ==
    ASSUME NEW listed \in SUBSET Release, SelectRelease(listed) # Nothing
    PROVE  \E r \in Candidates(listed) :
               /\ SelectRelease(listed) = Offer(r) /\ r.id > 0 /\ r.assets
               /\ \A s \in Candidates(listed) : ~Later(s.version, r.version)
<1> DEFINE found == Candidates(listed)
           best  == CHOOSE r \in found : \A s \in found : ~Later(s.version, r.version)
<1>1. found # {} /\ best.id > 0 /\ best.assets /\ SelectRelease(listed) = Offer(best)
  BY DEF SelectRelease
<1>2. found \subseteq Release BY DEF Candidates
<1>3. IsFiniteSet(found) BY <1>2, AdminAssumption, FS_Subset
<1>4. \A r \in found : r.version \in Triple BY AdminAssumption DEF Candidates
<1>5. \E r \in found : \A s \in found : ~Later(s.version, r.version)
  BY <1>1, <1>3, <1>4, SomeHighest DEF Highest
<1>6. best \in found /\ \A s \in found : ~Later(s.version, best.version) BY <1>5
<1> QED BY <1>1, <1>6

LEMMA SelectsEligible ==
    ASSUME NEW listed \in SUBSET Release, SelectRelease(listed) # Nothing
    PROVE  Eligible(SelectRelease(listed))
<1>1. PICK r \in Candidates(listed) : SelectRelease(listed) = Offer(r) /\ r.assets
  BY OffersTheHighest
<1> QED BY <1>1 DEF Candidates, Eligible

-----------------------------------------------------------------------------
(* The slots.                                                                *)

Open == {c \in Client : ~At(c, "closed")}

LEMMA OpenFinite == IsFiniteSet(Open) /\ Cardinality(Open) \in Nat
<1>1. Open \subseteq Client BY DEF Open
<1> QED BY <1>1, AdminAssumption, FS_Subset, FS_CardinalityType

\* Connection c goes on from one of its steps to another, and keeps its slot.
LEMMA Keeps ==
    ASSUME Connections, NEW c \in Client, ~At(c, "closed"), UNCHANGED slots,
           NEW there \in Points \ {"closed"}, NEW asks \in {Nothing} \cup {Offer(r) : r \in Release},
           conn' = [conn EXCEPT ![c] = [at |-> there, asks |-> asks]]
    PROVE  Connections'
<1>1. Open' = Open BY DEF Open, At, Connections
<1>2. SlotsConserved' BY <1>1 DEF Connections, SlotsConserved, Open
<1> QED BY <1>2 DEF Connections

LEMMA KeepsTo ==
    ASSUME Connections, NEW c \in Client, ~At(c, "closed"), UNCHANGED slots,
           NEW there \in Points \ {"closed"}, To(c, there)
    PROVE  Connections'
<1>1. PICK asks \in {Nothing} \cup {Offer(r) : r \in Release} : asks = conn[c].asks
  BY DEF Connections
<1>2. [conn[c] EXCEPT !.at = there] = [at |-> there, asks |-> asks]
  BY <1>1 DEF Connections
<1>3. conn' = [conn EXCEPT ![c] = [conn[c] EXCEPT !.at = there]] BY DEF To
<1>4. conn' = [conn EXCEPT ![c] = [at |-> there, asks |-> asks]] BY <1>2, <1>3
<1> QED BY <1>4, Keeps

LEMMA Opens ==
    ASSUME Connections, NEW c \in Client, At(c, "closed"), slots > 0, slots' = slots - 1,
           To(c, "starting")
    PROVE  Connections'
<1>1. Open' = Open \cup {c} /\ c \notin Open BY DEF Open, At, To, Connections
<1>2. Cardinality(Open') = Cardinality(Open) + 1 BY <1>1, OpenFinite, FS_AddElement
<1>3. SlotsConserved' BY <1>2, OpenFinite, AdminAssumption DEF Connections, SlotsConserved, Open
<1>4. conn' \in [Client -> [at: Points, asks: {Nothing} \cup {Offer(r) : r \in Release}]]
  BY DEF To, Connections, Points
<1> QED BY <1>3, <1>4 DEF Connections

LEMMA Closes ==
    ASSUME Connections, NEW c \in Client, ~At(c, "closed"), slots' = slots + 1,
           conn' = [conn EXCEPT ![c] = Closed]
    PROVE  Connections'
<1>1. Open' = Open \ {c} /\ c \in Open BY DEF Open, At, Closed, Connections
<1>2. Cardinality(Open') = Cardinality(Open) - 1 BY <1>1, OpenFinite, FS_RemoveElement
<1>3. SlotsConserved' BY <1>2, OpenFinite, AdminAssumption DEF Connections, SlotsConserved, Open
<1>4. conn' \in [Client -> [at: Points, asks: {Nothing} \cup {Offer(r) : r \in Release}]]
  BY DEF Closed, Connections, Points
<1> QED BY <1>3, <1>4 DEF Connections

\* One step per action.
LEMMA ConnectionsStep == Connections /\ [Next]_vars => Connections'
<1> SUFFICES ASSUME Connections, [Next]_vars PROVE Connections'
  OBVIOUS
<1> USE DEF At
<1>1. ASSUME NEW c \in Client, Accept(c) PROVE Connections'
  BY <1>1, Opens DEF Accept
<1>2. ASSUME NEW c \in Client, StartThread(c) PROVE Connections'
  BY <1>2, KeepsTo DEF StartThread, Step, Points
<1>3. ASSUME NEW c \in Client, StartFails(c) PROVE Connections'
  BY <1>3, Closes DEF StartFails
<1>4. ASSUME NEW c \in Client, EndThread(c) PROVE Connections'
  BY <1>4, Closes DEF EndThread
<1>5. ASSUME NEW c \in Client, Read(c) PROVE Connections'
  <2>1. CASE To(c, "admit") BY <1>5, <2>1, KeepsTo DEF Read, Points
  <2>2. CASE To(c, "check") BY <1>5, <2>2, KeepsTo DEF Read, Points
  <2>3. ASSUME NEW r \in Release, conn' = [conn EXCEPT ![c] = [at |-> "confirm", asks |-> Offer(r)]]
        PROVE Connections'
    <3>1. PICK asks \in {Nothing} \cup {Offer(q) : q \in Release} : asks = Offer(r) OBVIOUS
    <3>2. conn' = [conn EXCEPT ![c] = [at |-> "confirm", asks |-> asks]] BY <2>3, <3>1
    <3> QED BY <1>5, <3>2, Keeps DEF Read, Points
  <2> QED BY <1>5, <2>1, <2>2, <2>3 DEF Read
<1>6. ASSUME NEW c \in Client, Admit(c) PROVE Connections'
  BY <1>6, KeepsTo DEF Admit, Points
<1>7. ASSUME NEW c \in Client, Verify(c) PROVE Connections'
  BY <1>7, KeepsTo DEF Verify, Step, Points
<1>8. ASSUME NEW c \in Client, Issue(c) PROVE Connections'
  BY <1>8, KeepsTo DEF Issue, Step, Points
<1>9. ASSUME NEW c \in Client, Check(c) PROVE Connections'
  BY <1>9, KeepsTo DEF Check, Step, Points
<1>10. ASSUME NEW c \in Client, StartCheck(c) PROVE Connections'
  BY <1>10, KeepsTo DEF StartCheck, Step, Points
<1>11. ASSUME NEW c \in Client, StartCheckFails(c) PROVE Connections'
  BY <1>11, KeepsTo DEF StartCheckFails, Points
<1>12. ASSUME NEW c \in Client, Confirm(c) PROVE Connections'
  <2>1. conn' = [conn EXCEPT ![c] = [at |-> "reply", asks |-> Nothing]]
    <3>1. [Closed EXCEPT !.at = "reply"] = [at |-> "reply", asks |-> Nothing] BY DEF Closed
    <3> QED BY <1>12, <3>1 DEF Confirm
  <2>2. UNCHANGED slots /\ ~At(c, "closed") BY <1>12 DEF Confirm
  <2>3. "reply" \in Points \ {"closed"} BY DEF Points
  <2> HIDE DEF At
  <2> QED BY <2>1, <2>2, <2>3, Keeps
<1>13. ASSUME UNCHANGED server PROVE Connections'
  BY <1>13 DEF server, Connections, SlotsConserved
<1> QED BY <1>1, <1>2, <1>3, <1>4, <1>5, <1>6, <1>7, <1>8, <1>9, <1>10, <1>11, <1>12, <1>13
        DEF Next, Handle, Fetch, Record, WorkerTakes, Tick, vars

-----------------------------------------------------------------------------
(* What is offered.                                                          *)

LEMMA OffersStep == Offers /\ [Next]_vars => Offers'
<1> SUFFICES ASSUME Offers, [Next]_vars PROVE Offers'
  OBVIOUS
<1> USE DEF Offers
<1>1. ASSUME Fetch PROVE Offers'
  <2>1. checker'.found = Nothing \/ Eligible(checker'.found)
    <3>1. CASE checker' = [at |-> "failed", found |-> Nothing] BY <3>1
    <3>2. ASSUME NEW listed \in SUBSET Release,
                 checker' = [at |-> "record", found |-> SelectRelease(listed)]
          PROVE checker'.found = Nothing \/ Eligible(checker'.found)
      BY <3>2, SelectsEligible
    <3> QED BY <1>1, <3>1, <3>2 DEF Fetch
  <2> QED BY <1>1, <2>1 DEF Fetch, Eligible
<1>2. ASSUME Record PROVE Offers' BY <1>2 DEF Record, Eligible
<1>3. ASSUME NEW c \in Client, Confirm(c) PROVE Offers'
  BY <1>3 DEF Confirm, check, Eligible
<1>4. ASSUME WorkerTakes PROVE Offers' BY <1>4 DEF WorkerTakes, check, Eligible
<1>5. ASSUME NEW c \in Client, StartCheck(c) \/ StartCheckFails(c) PROVE Offers'
  BY <1>5 DEF StartCheck, StartCheckFails, Eligible
<1>6. ASSUME UNCHANGED <<checker, result, queue>> PROVE Offers' BY <1>6 DEF Eligible
<1> QED BY <1>1, <1>2, <1>3, <1>4, <1>5, <1>6
        DEF Next, Handle, Accept, StartThread, StartFails, EndThread, Read, Admit, Verify, Issue,
            Check, Tick, vars, check

-----------------------------------------------------------------------------
(* Logins and sessions.                                                      *)

LEMMA AddedFacts ==
    ASSUME NEW f, Times(f), NEW t \in Nat
    PROVE  \E new : /\ new \notin DOMAIN f
                    /\ DOMAIN Added(f, t) = DOMAIN f \cup {new}
                    /\ Added(f, t)[new] = t
                    /\ \A i \in DOMAIN f : Added(f, t)[i] = f[i]
<1> DEFINE n == Cardinality(DOMAIN f)
           new == CHOOSE i \in 1 .. n + 1 : i \notin DOMAIN f
<1>1. n \in Nat BY FS_CardinalityType DEF Times
<1>2. \E i \in 1 .. n + 1 : i \notin DOMAIN f
  <2> SUFFICES ASSUME 1 .. n + 1 \subseteq DOMAIN f PROVE FALSE OBVIOUS
  <2>1. Cardinality(1 .. n + 1) = n + 1
    <3> HIDE DEF n
    <3>1. 1 \in Int /\ n + 1 \in Int /\ ~(1 > n + 1) /\ (n + 1) - 1 + 1 = n + 1 BY <1>1
    <3> QED BY <3>1, FS_Interval
  <2>2. Cardinality(1 .. n + 1) <= n BY FS_Subset DEF Times
  <2> HIDE DEF n
  <2> QED BY <1>1, <2>1, <2>2
<1>3. new \notin DOMAIN f BY <1>2
<1>4. Added(f, t) = [i \in DOMAIN f \cup {new} |-> IF i = new THEN t ELSE f[i]]
  BY DEF Added
<1> HIDE DEF new
<1> QED BY <1>3, <1>4

LEMMA AddedTimes ==
    ASSUME NEW f, Times(f), NEW t \in Nat
    PROVE  /\ Times(Added(f, t))
           /\ Cardinality(DOMAIN Added(f, t)) = Cardinality(DOMAIN f) + 1
<1>1. PICK new : /\ new \notin DOMAIN f
                 /\ DOMAIN Added(f, t) = DOMAIN f \cup {new}
                 /\ Added(f, t)[new] = t
                 /\ \A i \in DOMAIN f : Added(f, t)[i] = f[i]
  BY AddedFacts
<1>2. IsFiniteSet(DOMAIN f) BY DEF Times
<1>3. /\ IsFiniteSet(DOMAIN f \cup {new})
      /\ Cardinality(DOMAIN f \cup {new}) = Cardinality(DOMAIN f) + 1
  BY <1>1, <1>2, FS_AddElement
<1>4. Added(f, t) \in [DOMAIN f \cup {new} -> Nat]
  <2>1. Added(f, t) = [i \in DOMAIN Added(f, t) |-> Added(f, t)[i]] BY DEF Added
  <2>2. \A i \in DOMAIN f \cup {new} : Added(f, t)[i] \in Nat BY <1>1 DEF Times
  <2> QED BY <1>1, <2>1, <2>2
<1> QED BY <1>1, <1>3, <1>4 DEF Times

\* What is left of a list when the old are taken out.
LEMMA FilteredTimes ==
    ASSUME NEW f, Times(f), NEW S \in SUBSET DOMAIN f
    PROVE  Times([i \in S |-> f[i]]) /\ Cardinality(S) \in Nat /\ Cardinality(S) <= Cardinality(DOMAIN f)
BY FS_Subset, FS_CardinalityType DEF Times

LEMMA RecentTimes ==
    ASSUME Clock
    PROVE  /\ Times(Recent) /\ DOMAIN Recent = Young
           /\ Times(Unexpired) /\ DOMAIN Unexpired = Live
           /\ Cardinality(Young) \in Nat /\ Cardinality(Live) \in Nat
           /\ Cardinality(Live) <= Cardinality(DOMAIN sessions)
<1>1. Young \subseteq DOMAIN attempts /\ Live \subseteq DOMAIN sessions BY DEF Young, Live
<1> QED BY <1>1, FilteredTimes DEF Clock, Recent, Unexpired

LEMMA ClockStep == Clock /\ [Next]_vars => Clock'
<1> SUFFICES ASSUME Clock, [Next]_vars PROVE Clock'
  OBVIOUS
<1> USE DEF Clock
<1>1. ASSUME NEW c \in Client, Admit(c) PROVE Clock'
  <2>1. Times(attempts') BY <1>1, RecentTimes, AddedTimes DEF Admit
  <2> QED BY <1>1, <2>1 DEF Admit, Times
<1>2. ASSUME NEW c \in Client, Issue(c) PROVE Clock'
  <2>1. now + Life \in Nat BY AdminAssumption
  <2>2. Times(sessions') BY <1>2, <2>1, RecentTimes, AddedTimes DEF Issue
  <2> QED BY <1>2, <2>2 DEF Issue, Times
<1>3. ASSUME Tick PROVE Clock' BY <1>3 DEF Tick, logins, Times
<1>4. ASSUME UNCHANGED <<attempts, sessions, now>> PROVE Clock' BY <1>4 DEF Times
<1> QED BY <1>1, <1>2, <1>3, <1>4
        DEF Next, Handle, Accept, StartThread, StartFails, EndThread, Read, Verify, Check, StartCheck,
            StartCheckFails, Confirm, Fetch, Record, WorkerTakes, vars, logins

LEMMA IssuedStep == Clock /\ Issued /\ [Next]_vars => Issued'
<1> SUFFICES ASSUME Clock, Issued, [Next]_vars PROVE Issued'
  OBVIOUS
<1> USE DEF Issued
<1>1. ASSUME NEW c \in Client, Issue(c) PROVE Issued'
  <2>1. now + Life \in Nat BY AdminAssumption DEF Clock
  <2>2. CASE Cardinality(Live) >= MaxSessions
    <3>1. DOMAIN sessions' = Live BY <1>1, <2>2, RecentTimes DEF Issue
    <3>2. Cardinality(DOMAIN sessions) \in Nat BY FS_CardinalityType DEF Clock, Times
    <3> QED BY <3>1, <3>2, RecentTimes, AdminAssumption
  <2>3. CASE ~(Cardinality(Live) >= MaxSessions)
    <3>1. Cardinality(DOMAIN sessions') = Cardinality(Live) + 1
      BY <1>1, <2>1, <2>3, RecentTimes, AddedTimes DEF Issue
    <3> QED BY <2>3, <3>1, RecentTimes, AdminAssumption
  <2> QED BY <2>2, <2>3
<1>2. ASSUME UNCHANGED sessions PROVE Issued' BY <1>2
<1> QED BY <1>1, <1>2
        DEF Next, Handle, Accept, StartThread, StartFails, EndThread, Read, Admit, Verify, Check,
            StartCheck, StartCheckFails, Confirm, Fetch, Record, WorkerTakes, Tick, vars, logins

\* When as many as the limit are remembered, more are not in the window: of the logins
\* that were let in, at most as many as are remembered are.
LEMMA FewInWindow ==
    ASSUME Clock, Logins, Cardinality(Young) < MaxAttempts, Len(admitted) >= MaxAttempts
    PROVE  now - admitted[Len(admitted) - MaxAttempts + 1] >= Window
<1> DEFINE first == Len(admitted) - MaxAttempts + 1
           Last == first .. Len(admitted)
<1>1. /\ Len(admitted) \in Nat /\ DOMAIN admitted = 1 .. Len(admitted) /\ MaxAttempts \in Nat
      /\ \A j \in DOMAIN admitted : admitted[j] \in Nat
  BY AdminAssumption DEF Logins
<1>2. first \in DOMAIN admitted
  <2>1. Cardinality(Young) \in Nat BY RecentTimes
  <2> QED BY <1>1, <2>1
<1> SUFFICES ASSUME ~(now - admitted[first] >= Window) PROVE FALSE OBVIOUS
<1>3. Last \subseteq InWindow
  <2> SUFFICES ASSUME NEW j \in Last PROVE j \in InWindow OBVIOUS
  <2>1. j \in DOMAIN admitted /\ first <= j BY <1>1, <1>2
  <2>2. admitted[first] <= admitted[j] BY <1>2, <2>1 DEF Logins
  <2>3. now - admitted[j] < Window BY <1>1, <1>2, <2>1, <2>2, AdminAssumption DEF Clock
  <2> QED BY <2>1, <2>3 DEF InWindow
<1>4. PICK f : Remembers(f) BY DEF Logins
<1>5. f \in Injection(InWindow, Young)
  <2>1. \A j \in InWindow : f[j] \in Young BY <1>4 DEF Remembers, InWindow, Young
  <2> QED BY <1>4, <2>1 DEF Remembers, Injection, IsInjective
<1>6. IsFiniteSet(Young)
  <2>1. Young \subseteq DOMAIN attempts BY DEF Young
  <2> QED BY <2>1, FS_Subset DEF Clock, Times
<1>7. IsFiniteSet(InWindow) /\ Cardinality(InWindow) <= Cardinality(Young)
  BY <1>5, <1>6, FS_Injection
<1>8. Cardinality(Last) <= Cardinality(InWindow) BY <1>3, <1>7, FS_Subset
<1>9. Cardinality(Last) = MaxAttempts
  <2>1. /\ first \in Int /\ Len(admitted) \in Int
        /\ first > Len(admitted) => MaxAttempts = 0
        /\ Len(admitted) - first + 1 = MaxAttempts BY <1>1
  <2> HIDE DEF first
  <2> QED BY <2>1, FS_Interval
<1>10. Cardinality(InWindow) \in Nat /\ Cardinality(Young) \in Nat /\ Cardinality(Last) \in Nat
  BY <1>1, <1>6, <1>7, <1>9, FS_CardinalityType
<1> HIDE DEF Last
<1> QED BY <1>1, <1>7, <1>8, <1>9, <1>10

LEMMA RememberFacts ==
    ASSUME Clock, Logins
    PROVE  \E d \in {0, 1} :
              /\ d <= Len(admitted) /\ (d = 1 <=> Len(admitted) > MaxAttempts)
              /\ Remember(now) \in Seq(Nat) /\ Len(Remember(now)) = Len(admitted) - d + 1
              /\ \A j \in 1 .. Len(admitted) - d : Remember(now)[j] = admitted[j + d]
              /\ Remember(now)[Len(admitted) - d + 1] = now
<1> USE DEF Remember
<1>1. admitted \in Seq(Nat) /\ Len(admitted) \in Nat /\ now \in Nat /\ MaxAttempts \in Nat
  BY AdminAssumption DEF Logins, Clock
<1>2. CASE Len(admitted) > MaxAttempts
  <2>1. admitted # <<>> BY <1>1, <1>2
  <2>2. Tail(admitted) \in Seq(Nat) /\ Len(Tail(admitted)) = Len(admitted) - 1
        /\ \A j \in 1 .. Len(admitted) - 1 : Tail(admitted)[j] = admitted[j + 1]
    BY <1>1, <2>1
  <2> WITNESS 1 \in {0, 1}
  <2> QED BY <1>1, <1>2, <2>2
<1>3. CASE ~(Len(admitted) > MaxAttempts)
  <2> WITNESS 0 \in {0, 1}
  <2> QED BY <1>1, <1>3
<1> QED BY <1>2, <1>3

\* A login that is refused, or let in.
LEMMA AdmitStep == ASSUME Clock, Logins, NEW c \in Client, Admit(c) PROVE Logins'
<1>1. now' = now BY DEF Admit
<1>2. /\ admitted \in Seq(Nat) /\ Len(admitted) \in Nat /\ DOMAIN admitted = 1 .. Len(admitted)
      /\ now \in Nat /\ MaxAttempts \in Nat /\ Window \in Nat
      /\ \A j \in DOMAIN admitted : admitted[j] \in Nat
  BY AdminAssumption DEF Logins, Clock
<1>3. PICK f : Remembers(f) BY DEF Logins
<1>4. CASE Cardinality(Young) >= MaxAttempts
  <2>1. admitted' = admitted /\ attempts' = Recent BY <1>4 DEF Admit
  <2>2. InWindow' = InWindow BY <1>1, <2>1 DEF InWindow
  <2>3. DOMAIN attempts' = Young /\ \A i \in Young : attempts'[i] = attempts[i]
    BY <2>1 DEF Recent
  <2>4. \A j \in InWindow : f[j] \in Young BY <1>3 DEF Remembers, InWindow, Young
  <2>5. Remembers(f)' BY <1>3, <2>1, <2>2, <2>3, <2>4 DEF Remembers
  <2> QED BY <1>1, <2>1, <2>5 DEF Logins
<1>5. CASE ~(Cardinality(Young) >= MaxAttempts)
  <2>1. admitted' = Remember(now) /\ attempts' = Added(Recent, now) BY <1>5 DEF Admit
  <2>2. PICK d \in {0, 1} :
              /\ d <= Len(admitted) /\ (d = 1 <=> Len(admitted) > MaxAttempts)
              /\ Remember(now) \in Seq(Nat) /\ Len(Remember(now)) = Len(admitted) - d + 1
              /\ \A j \in 1 .. Len(admitted) - d : Remember(now)[j] = admitted[j + d]
              /\ Remember(now)[Len(admitted) - d + 1] = now
    BY RememberFacts
  <2> DEFINE n == Len(admitted) - d + 1
  <2>3. /\ n \in Nat \ {0} /\ n = Len(admitted) - d + 1 /\ admitted' \in Seq(Nat) /\ Len(admitted') = n /\ DOMAIN admitted' = 1 .. n
        /\ \A j \in 1 .. n - 1 : j + d \in DOMAIN admitted /\ admitted'[j] = admitted[j + d]
        /\ admitted'[n] = now
    BY <1>2, <2>1, <2>2
  <2> HIDE DEF n
  <2>4. PICK new : /\ new \notin Young /\ DOMAIN attempts' = Young \cup {new}
                   /\ attempts'[new] = now /\ \A i \in Young : attempts'[i] = attempts[i]
    <3>1. Times(Recent) /\ DOMAIN Recent = Young BY RecentTimes
    <3>2. \A i \in Young : Recent[i] = attempts[i] BY DEF Recent
    <3>3. PICK new : /\ new \notin Young /\ DOMAIN Added(Recent, now) = Young \cup {new}
                     /\ Added(Recent, now)[new] = now
                     /\ \A i \in Young : Added(Recent, now)[i] = Recent[i]
      BY <1>2, <3>1, AddedFacts
    <3> QED BY <2>1, <3>2, <3>3
  <2>5. Len(admitted) <= MaxAttempts + 1 BY DEF Logins
  <2>6. \A j \in DOMAIN admitted : admitted[j] <= now BY DEF Logins
  <2>7. \A i, j \in DOMAIN admitted : i <= j => admitted[i] <= admitted[j] BY DEF Logins
  <2>8. n <= MaxAttempts + 1 BY <1>2, <2>2, <2>3, <2>5
  <2>9. \A j \in 1 .. n : admitted'[j] <= now
    <3> SUFFICES ASSUME NEW j \in 1 .. n PROVE admitted'[j] <= now OBVIOUS
    <3>1. CASE j = n BY <1>2, <2>3, <3>1
    <3>2. CASE j # n
      <4>1. j \in 1 .. n - 1 BY <2>3, <3>2
      <4> QED BY <2>3, <2>6, <4>1
    <3> QED BY <3>1, <3>2
  <2>10. \A i, j \in 1 .. n : i <= j => admitted'[i] <= admitted'[j]
    <3> SUFFICES ASSUME NEW i \in 1 .. n, NEW j \in 1 .. n, i <= j
                 PROVE  admitted'[i] <= admitted'[j]
      OBVIOUS
    <3>1. CASE j = n BY <2>3, <2>9, <3>1
    <3>2. CASE j # n
      <4>1. i \in 1 .. n - 1 /\ j \in 1 .. n - 1 BY <2>3, <3>2
      <4>2. i + d <= j + d BY <1>2, <2>2
      <4> QED BY <2>3, <2>7, <4>1, <4>2
    <3> QED BY <3>1, <3>2
  <2>11. \E g : Remembers(g)'
    <3> DEFINE W == {j \in 1 .. n : now - admitted'[j] < Window}
               g == [j \in W |-> IF j = n THEN new ELSE f[j + d]]
    <3>1. InWindow' = W BY <1>1, <2>3 DEF InWindow
    <3>2. \A j \in W : j # n => /\ j + d \in InWindow /\ admitted'[j] = admitted[j + d]
                                /\ f[j + d] \in Young /\ attempts[f[j + d]] = admitted[j + d]
      <4> SUFFICES ASSUME NEW j \in W, j # n
                   PROVE  /\ j + d \in InWindow /\ admitted'[j] = admitted[j + d]
                          /\ f[j + d] \in Young /\ attempts[f[j + d]] = admitted[j + d]
        OBVIOUS
      <4>1. j \in 1 .. n - 1 BY <2>3
      <4>2. j + d \in InWindow /\ admitted'[j] = admitted[j + d] BY <2>3, <4>1 DEF InWindow
      <4>3. f[j + d] \in DOMAIN attempts /\ attempts[f[j + d]] = admitted[j + d]
        BY <1>3, <4>2 DEF Remembers
      <4> QED BY <4>2, <4>3 DEF InWindow, Young
    <3>3. g \in [W -> DOMAIN attempts'] BY <2>4, <3>2
    <3>4. \A i, j \in W : g[i] = g[j] => i = j
      <4> SUFFICES ASSUME NEW i \in W, NEW j \in W, g[i] = g[j] PROVE i = j
        OBVIOUS
      <4>1. CASE i = n \/ j = n BY <2>4, <3>2, <4>1
      <4>2. CASE i # n /\ j # n
        <5>1. f[i + d] = f[j + d] /\ i + d \in InWindow /\ j + d \in InWindow BY <3>2, <4>2
        <5>2. i + d = j + d BY <1>3, <5>1 DEF Remembers
        <5> QED BY <2>2, <2>3, <5>2
      <4> QED BY <4>1, <4>2
    <3>5. \A j \in W : attempts'[g[j]] = admitted'[j] BY <2>3, <2>4, <3>2
    <3> HIDE DEF g, W
    <3>6. PICK h : h = g OBVIOUS
    <3>7. Remembers(h)' BY <3>1, <3>3, <3>4, <3>5, <3>6 DEF Remembers
    <3> QED BY <3>7
  <2>12. n > MaxAttempts => admitted'[n] - admitted'[1] >= Window
    <3> SUFFICES ASSUME n > MaxAttempts PROVE now - admitted'[1] >= Window BY <2>3
    <3>1. Len(admitted) >= MaxAttempts BY <1>2, <2>2, <2>3
    <3>2. Cardinality(Young) \in Nat BY RecentTimes
    <3>3. Cardinality(Young) < MaxAttempts BY <1>2, <1>5, <3>2
    <3>4. now - admitted[Len(admitted) - MaxAttempts + 1] >= Window BY <3>1, <3>3, FewInWindow
    <3>5. n = MaxAttempts + 1 BY <1>2, <2>3, <2>8
    <3>6. Len(admitted) - MaxAttempts + 1 = 1 + d BY <1>2, <2>2, <2>3, <3>5
    <3>7. 1 \in 1 .. n - 1 BY <1>2, <3>2, <3>3, <3>5
    <3> QED BY <2>3, <3>4, <3>6, <3>7
  <2> QED BY <1>1, <2>3, <2>8, <2>9, <2>10, <2>11, <2>12 DEF Logins
<1> QED BY <1>4, <1>5

LEMMA TickStep == ASSUME Clock, Logins, Tick PROVE Logins'
<1>1. now \in Nat /\ now' = now + 1 /\ admitted' = admitted /\ attempts' = attempts
  BY DEF Tick, logins, Clock
<1>2. \A j \in DOMAIN admitted : admitted[j] \in Nat BY DEF Logins
<1>3. InWindow' \subseteq InWindow BY <1>1, <1>2, AdminAssumption DEF InWindow
<1>4. PICK f : Remembers(f) BY DEF Logins
<1> DEFINE g == [j \in InWindow' |-> f[j]]
<1>5. PICK h : h = g OBVIOUS
<1>6. Remembers(h)' BY <1>1, <1>3, <1>4, <1>5 DEF Remembers
<1>7. \A j \in DOMAIN admitted : admitted[j] <= now + 1 BY <1>1, <1>2 DEF Logins
<1> QED BY <1>1, <1>6, <1>7 DEF Logins

LEMMA LoginsStep == Clock /\ Logins /\ [Next]_vars => Logins'
<1> SUFFICES ASSUME Clock, Logins, [Next]_vars PROVE Logins'
  OBVIOUS
<1>1. ASSUME NEW c \in Client, Admit(c) PROVE Logins' BY <1>1, AdmitStep
<1>2. ASSUME Tick PROVE Logins' BY <1>2, TickStep
<1>3. ASSUME UNCHANGED <<attempts, admitted, now>> PROVE Logins'
  BY <1>3 DEF Logins, Remembers, InWindow
<1> QED BY <1>1, <1>2, <1>3
        DEF Next, Handle, Accept, StartThread, StartFails, EndThread, Read, Verify, Issue, Check,
            StartCheck, StartCheckFails, Confirm, Fetch, Record, WorkerTakes, vars, logins

-----------------------------------------------------------------------------
(* One check at a time.                                                      *)

\* A step that starts no check and changes nothing of the one under way.
LEMMA OthersCheck ==
    ASSUME Connections, OneCheck, UNCHANGED <<checking, checker>>,
           \A d \in Client : conn'[d] = conn[d] \/ conn'[d].at # "startCheck"
    PROVE  OneCheck'
<1>1. \A d \in Client : At(d, "startCheck")' => At(d, "startCheck") BY DEF At
<1> QED BY <1>1 DEF OneCheck

LEMMA ConnectionMoves ==
    ASSUME Connections, NEW c \in Client, NEW there, To(c, there)
    PROVE  conn'[c].at = there /\ \A d \in Client \ {c} : conn'[d] = conn[d]
BY DEF To, Connections

LEMMA OneCheckStep == Connections /\ OneCheck /\ [Next]_vars => OneCheck'
<1> SUFFICES ASSUME Connections, OneCheck, [Next]_vars PROVE OneCheck' OBVIOUS
<1>1. ASSUME NEW c \in Client, Check(c) PROVE OneCheck'
  <2>1. \A d \in Client \ {c} : conn'[d] = conn[d]
    BY <1>1, ConnectionMoves DEF Check, Step
  <2>2. CASE Due
    <3>1. ~checking /\ checking' = TRUE /\ checker' = checker BY <1>1, <2>2 DEF Check, Due
    <3>2. checker.at = "none" /\ \A d \in Client : ~At(d, "startCheck") BY <3>1 DEF OneCheck
    <3> QED BY <2>1, <3>1, <3>2 DEF OneCheck, At
  <2>3. CASE ~Due
    <3>1. To(c, "reply") /\ checker' = checker BY <1>1, <2>3 DEF Check, Step
    <3>2. conn'[c].at = "reply" BY <3>1, ConnectionMoves
    <3>3. \A d \in Client : At(d, "startCheck")' => At(d, "startCheck") BY <2>1, <3>2 DEF At
    <3>4. checking => checking' BY <1>1 DEF Check
    <3> QED BY <3>1, <3>3, <3>4 DEF OneCheck
  <2> QED BY <2>2, <2>3
<1>2. ASSUME NEW c \in Client, StartCheck(c) \/ StartCheckFails(c) PROVE OneCheck'
  <2>1. At(c, "startCheck") /\ To(c, "reply") /\ checking' = checking
    BY <1>2 DEF StartCheck, StartCheckFails, Step
  <2>2. conn'[c].at = "reply" /\ \A d \in Client \ {c} : conn'[d] = conn[d] BY <2>1, ConnectionMoves
  <2>3. checking /\ \A d \in Client \ {c} : ~At(d, "startCheck") BY <2>1 DEF OneCheck
  <2>4. \A d \in Client : ~At(d, "startCheck")' BY <2>2, <2>3 DEF At
  <2> QED BY <2>1, <2>3, <2>4 DEF OneCheck
<1>3. ASSUME Fetch \/ Record PROVE OneCheck'
  <2>1. checker.at # "none" /\ UNCHANGED conn BY <1>3 DEF Fetch, Record, server
  <2>2. checking /\ \A c \in Client : ~At(c, "startCheck") BY <2>1 DEF OneCheck
  <2>3. \A c \in Client : ~At(c, "startCheck")' BY <2>1, <2>2 DEF At
  <2>4. (checker'.at # "none") => checking'
    <3>1. CASE Fetch
      <4>1. checking' = checking BY <3>1 DEF Fetch
      <4> QED BY <2>2, <4>1
    <3>2. CASE Record BY <3>2 DEF Record
    <3> QED BY <1>3, <3>1, <3>2
  <2> QED BY <2>3, <2>4 DEF OneCheck
<1>4. ASSUME NEW c \in Client, Accept(c) \/ StartThread(c) PROVE OneCheck'
  <2>1. /\ UNCHANGED <<checking, checker>>
        /\ \E there \in {"starting", "read"} : To(c, there)
    BY <1>4 DEF Accept, StartThread, Step, check
  <2>2. \A d \in Client : conn'[d] = conn[d] \/ conn'[d].at \in {"starting", "read"}
    BY <2>1, ConnectionMoves
  <2> QED BY <2>1, <2>2, OthersCheck
<1>5. ASSUME NEW c \in Client, Admit(c) \/ Verify(c) \/ Issue(c) PROVE OneCheck'
  <2>1. /\ UNCHANGED <<checking, checker>>
        /\ \E there \in Points \ {"startCheck"} : To(c, there)
    BY <1>5 DEF Admit, Verify, Issue, Step, check, Points
  <2>2. \A d \in Client : conn'[d] = conn[d] \/ conn'[d].at \in Points \ {"startCheck"}
    BY <2>1, ConnectionMoves
  <2> QED BY <2>1, <2>2, OthersCheck
<1>6. ASSUME NEW c \in Client, StartFails(c) \/ EndThread(c) \/ Read(c) \/ Confirm(c) PROVE OneCheck'
  <2>1. UNCHANGED <<checking, checker>>
    BY <1>6 DEF StartFails, EndThread, Read, Confirm, Step, check
  <2>2. \A d \in Client : conn'[d] = conn[d] \/ conn'[d].at # "startCheck"
    BY <1>6 DEF StartFails, EndThread, Read, Confirm, To, Step, Closed, Connections
  <2> QED BY <2>1, <2>2, OthersCheck
<1>7. CASE WorkerTakes \/ Tick \/ UNCHANGED vars
  BY <1>7, OthersCheck DEF WorkerTakes, Tick, vars, server, check
<1> QED BY <1>1, <1>2, <1>3, <1>4, <1>5, <1>6, <1>7 DEF Next, Handle

-----------------------------------------------------------------------------
(* The theorems.                                                             *)

LEMMA InitIInv == Init => IInv
<1> SUFFICES ASSUME Init PROVE IInv
  OBVIOUS
<1>1. Connections
  <2>1. \A c \in Client : At(c, "closed") BY DEF Init, At, Closed
  <2>2. {c \in Client : ~At(c, "closed")} = {} BY <2>1
  <2>3. Cardinality({c \in Client : ~At(c, "closed")}) = 0 BY <2>2, FS_EmptySet
  <2> QED BY <2>3, AdminAssumption DEF Init, Connections, SlotsConserved, Closed, Points
<1>2. Offers BY DEF Init, Offers
<1>3. Clock
  <2>1. DOMAIN NoTimes = {} /\ Times(NoTimes) BY FS_EmptySet DEF NoTimes, Times
  <2> QED BY <2>1, AdminAssumption DEF Init, Clock
<1>4. Logins
  <2>1. InWindow = {} BY DEF Init, InWindow
  <2>2. Remembers([j \in {} |-> 0]) BY <2>1 DEF Remembers
  <2> QED BY <2>2, AdminAssumption DEF Init, Logins
<1>5. Issued
  <2>1. DOMAIN sessions = {} BY DEF Init, NoTimes
  <2> QED BY <2>1, FS_EmptySet, AdminAssumption DEF Issued
<1>6. OneCheck BY DEF Init, OneCheck, At, Closed
<1> QED BY <1>1, <1>2, <1>3, <1>4, <1>5, <1>6 DEF IInv

LEMMA Invariance == Spec => []IInv
<1>1. IInv /\ [Next]_vars => IInv'
  BY ConnectionsStep, OffersStep, ClockStep, LoginsStep, IssuedStep,
     OneCheckStep DEF IInv
<1> QED BY <1>1, InitIInv, PTL DEF Spec

\* Every slot is free or held by one connection, for any number of both, also when a
\* thread cannot be started.
THEOREM SlotsAreConserved == Spec => []SlotsConserved
<1>1. IInv => SlotsConserved BY DEF IInv, Connections
<1> QED BY <1>1, Invariance, PTL

\* However the logins interleave, the limits of passwords in a window and of sessions hold,
\* for every limit, window and life of a session.
THEOREM LoginsAreLimited == Spec => []LoginsLimited
<1>1. IInv => LoginsLimited
  <2> SUFFICES ASSUME IInv PROVE Cardinality(Live) <= MaxSessions
    BY DEF IInv, Logins, LoginsLimited
  <2>1. Cardinality(DOMAIN sessions) \in Nat BY FS_CardinalityType DEF IInv, Clock, Times
  <2> QED BY <2>1, RecentTimes, AdminAssumption DEF IInv, Issued
<1> QED BY <1>1, Invariance, PTL

\* Only a release that the running version may be updated to waits for the worker, whatever
\* lists GitHub answered with.
THEOREM ConfirmedIsEligible == Spec => []QueuedIsEligible
<1>1. IInv => QueuedIsEligible
  BY DEF IInv, Offers, Eligible, QueuedIsEligible, Later
<1> QED BY <1>1, Invariance, PTL

\* Of all the requests that find a check due, one starts a thread, and none while another
\* thread is under way.
THEOREM OneCheckAtATime == Spec => []OneCheck
<1>1. IInv => OneCheck BY DEF IInv
<1> QED BY <1>1, Invariance, PTL
=============================================================================
