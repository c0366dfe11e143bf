------------------------------ MODULE Discovery ------------------------------
(***************************************************************************)
(* Scanning for TVs, the inventory (discovery.py) and the commands that change *)
(* a TV (cli.py, config.py, protocol.py).  TVs come, go and change addresses    *)
(* between any two requests; other commands run at the same time.              *)
(***************************************************************************)
EXTENDS Integers, Sequences, FiniteSets

CONSTANTS
    Address, TV,
    Permitted,      \* addresses in permitted_ranges
    Loopback,
    Isolated,       \* safety.mode is isolated
    Allowed,        \* the allowlist: an address, the device there, an operation approved for it
    Process,        \* commands of the operator that may run at the same time
    Concurrency,    \* probes at a time
    MaxTargets,     \* cap on the targets of a scan
    Nobody,
    MaxMoves,       \* bound: changes of who is where
    MaxUses         \* bound: commands

ASSUME DiscoveryAssumption ==
    /\ IsFiniteSet(Address)
    /\ Permitted \subseteq Address /\ Loopback \subseteq Address /\ Isolated \in BOOLEAN
    /\ Allowed \subseteq Address \X TV \X {"power", "clone"}
    /\ Concurrency \in Nat \ {0} /\ MaxTargets \in Nat /\ Nobody \notin TV
    /\ MaxMoves \in Nat /\ MaxUses \in Nat

VARIABLES
    present,    \* the device that answers at each address
    moves, uses,
    seen,       \* who was seen where by a command (history variable)
    scanner,    \* the scan: its loop, the targets left, the probes, results
    cancel,     \* the event that cancels it
    proc,       \* the other commands: next step, what they do, target, expected device, who answered
    inventory,  \* rows: device and address
    obeyed      \* who has obeyed which operation, and where (history variable)

scanVars == <<present, moves, uses, seen, scanner, cancel, proc, inventory, obeyed>>

\* submitted: every target that went to the pool (history).
NoScan == [at |-> "idle", requested |-> {}, left |-> <<>>, exhausted |-> FALSE, submitted |-> {},
           pending |-> {}, done |-> {}, devices |-> {}, failures |-> {}]

Operation == {"power", "clone"}
Rest == [at |-> "idle", does |-> "add", target |-> Nobody, expected |-> Nobody, found |-> Nobody,
         moved |-> FALSE]

ScanInit ==
    /\ present \in [Address -> TV \cup {Nobody}]
    /\ \A a, b \in Address : present[a] = present[b] /\ a # b => present[a] = Nobody
    /\ moves = 0 /\ uses = 0 /\ seen = {}
    /\ scanner = NoScan /\ cancel = FALSE
    /\ proc = [p \in Process |-> Rest] /\ inventory = {} /\ obeyed = {}

Use == uses < MaxUses /\ uses' = uses + 1

-----------------------------------------------------------------------------
(* The network.                                                              *)

\* A TV is switched off, or gets another address.
Move ==
    /\ moves < MaxMoves /\ moves' = moves + 1
    /\ \E a \in Address, d \in TV \cup {Nobody} :
        /\ present[a] # d
        /\ present' = [b \in Address |-> IF b = a THEN d
                                         ELSE IF present[b] = d THEN Nobody ELSE present[b]]
        /\ proc' = [p \in Process |-> [proc[p] EXCEPT !.moved = @ \/ proc[p].target = a]]
    /\ UNCHANGED <<uses, seen, scanner, cancel, inventory, obeyed>>

\* The responses a request to address a may get: that of the device there, which may still
\* claim an address it had before; or one that is late, wrong or missing.
Answers(a) == [who: {present[a]}, claims: Address, valid: {present[a] # Nobody, FALSE}]

\* identify, after send has compared the cookie, the function and the type.
Identified(a, response) == IF response.valid /\ response.claims = a THEN response.who ELSE Nobody

-----------------------------------------------------------------------------
(* scan                                                                      *)

ScanTargets(requested) ==
    /\ requested # {} /\ Cardinality(requested) <= MaxTargets /\ requested \subseteq Permitted
    /\ Isolated => requested \subseteq Loopback

\* Before any socket or thread; a scan that is refused changes nothing.
BeginScan(order) ==
    /\ scanner.at = "idle" /\ Use
    /\ LET targets == {order[i] : i \in DOMAIN order} IN
        /\ ScanTargets(targets)
        /\ scanner' = [NoScan EXCEPT !.at = "top", !.requested = targets, !.left = order]
    /\ cancel' = FALSE
    /\ UNCHANGED <<present, moves, seen, proc, inventory, obeyed>>

Cancel ==
    /\ scanner.at \notin {"idle", "ended"} /\ ~cancel /\ cancel' = TRUE
    /\ UNCHANGED <<present, moves, uses, seen, scanner, proc, inventory, obeyed>>

ScanOnly == UNCHANGED <<present, moves, uses, seen, cancel, proc, inventory, obeyed>>

Top ==
    /\ scanner.at = "top"
    /\ scanner' = [scanner EXCEPT !.exhausted = @ \/ cancel, !.at = "fill"]
    /\ ScanOnly

\* Fault: the next target is taken before the pool is looked at.
SubmitEager ==
    /\ scanner.at = "fill" /\ ~scanner.exhausted
    /\ LET s == scanner IN
        scanner' =
            IF s.left = <<>> THEN [s EXCEPT !.exhausted = TRUE]
            ELSE IF Cardinality(s.pending) >= Concurrency
                 THEN [s EXCEPT !.left = Tail(@), !.at = "wait"]
                 ELSE [s EXCEPT !.left = Tail(@), !.pending = @ \cup {Head(s.left)},
                                !.submitted = @ \cup {Head(s.left)}]
    /\ ScanOnly

\* The next target, after the pause between two requests: a cancellation in the pause
\* drops it.
Submit ==
    /\ scanner.at = "fill" /\ ~scanner.exhausted
    /\ Cardinality(scanner.pending) < Concurrency
    /\ LET s == scanner IN
        scanner' =
            IF s.left = <<>> THEN [s EXCEPT !.exhausted = TRUE]
            ELSE IF cancel THEN [s EXCEPT !.left = Tail(@), !.exhausted = TRUE]
                 ELSE [s EXCEPT !.left = Tail(@), !.pending = @ \cup {Head(s.left)},
                                !.submitted = @ \cup {Head(s.left)}]
    /\ ScanOnly

\* Fault: a scan that is cancelled does not wait for the probes that are under way.
FilledImpatient ==
    /\ scanner.at = "fill"
    /\ scanner.exhausted \/ Cardinality(scanner.pending) >= Concurrency
    /\ scanner' = [scanner EXCEPT !.at = IF cancel \/ scanner.pending = {} THEN "ended" ELSE "wait"]
    /\ ScanOnly

\* The pool is full or nothing is left: wait for a probe, or end.
Filled ==
    /\ scanner.at = "fill"
    /\ scanner.exhausted \/ Cardinality(scanner.pending) >= Concurrency
    /\ scanner' = [scanner EXCEPT !.at = IF scanner.pending = {} THEN "ended" ELSE "wait"]
    /\ ScanOnly

\* A pool thread: the answer is read at one moment, and reported at a later one.
Probe(a) ==
    /\ a \in scanner.pending /\ a \notin {r.target : r \in scanner.done}
    /\ \E response \in Answers(a) :
        LET who == Identified(a, response) IN
        /\ scanner' = [scanner EXCEPT !.done = @ \cup {[target |-> a, who |-> who]}]
        /\ seen' = IF who = Nobody THEN seen ELSE seen \cup {<<who, a>>}
    /\ UNCHANGED <<present, moves, uses, cancel, proc, inventory, obeyed>>

\* All the probes that are done by now, in whatever order.
Collect ==
    /\ scanner.at = "wait" /\ scanner.done # {}
    /\ LET s == scanner
           good == {r \in s.done : r.who # Nobody} IN
        scanner' = [s EXCEPT
            !.pending = @ \ {r.target : r \in s.done}, !.done = {},
            !.devices = @ \cup good, !.failures = @ \cup {r.target : r \in s.done \ good},
            !.at = IF s.exhausted /\ s.pending = {r.target : r \in s.done} THEN "ended" ELSE "top"]
    /\ ScanOnly

Scan == Top \/ Submit \/ Filled \/ Collect \/ Cancel \/ \E a \in Address : Probe(a)

-----------------------------------------------------------------------------
(* add-tv, power and clone: identify the TV, then use what was identified.    *)

Others == UNCHANGED <<present, moves, scanner, cancel>>
To(p, there) == proc' = [proc EXCEPT ![p].at = there]

Checked(p, a, d, does) ==
    /\ proc[p].at = "idle" /\ Use /\ ScanTargets({a})
    /\ proc' = [proc EXCEPT ![p] = [Rest EXCEPT !.at = "verify", !.does = does,
                                                !.target = a, !.expected = d]]
    /\ Others /\ UNCHANGED <<seen, inventory, obeyed>>

\* Fault: whatever a device is listed for, it is listed for everything.
BeginListed(p, a, d, does) ==
    /\ does # "add" => \E o \in Operation : <<a, d, o>> \in Allowed
    /\ Checked(p, a, d, does)

\* An addition may be of any permitted TV; a write needs address, device and operation to be
\* approved together (of several rows for a pair the first counts).
Begin(p, a, d, does) ==
    /\ does # "add" => <<a, d, does>> \in Allowed
    /\ Checked(p, a, d, does)

Answered(p, who, accepted) ==
    /\ seen' = IF who = Nobody THEN seen ELSE seen \cup {<<who, proc[p].target>>}
    /\ proc' = [proc EXCEPT ![p] =
           IF accepted
           THEN [proc[p] EXCEPT !.at = IF proc[p].does = "add" THEN "select" ELSE "send",
                                !.found = who, !.moved = FALSE]
           ELSE Rest]
    /\ Others /\ UNCHANGED <<uses, inventory, obeyed>>

\* Fault: any TV that answers will do.
VerifyAnyone(p) ==
    /\ proc[p].at = "verify"
    /\ \E response \in Answers(proc[p].target) :
        LET who == Identified(proc[p].target, response) IN Answered(p, who, who # Nobody)

\* verify_identity: the expected TV answers, or the command ends.
Verify(p) ==
    /\ proc[p].at = "verify"
    /\ \E response \in Answers(proc[p].target) :
        LET who == Identified(proc[p].target, response) IN
        Answered(p, who, who # Nobody /\ who = proc[p].expected)

\* The command is another request: whoever is at the address by then obeys it.
SendCommand(p) ==
    /\ proc[p].at = "send" /\ proc' = [proc EXCEPT ![p] = Rest]
    /\ LET there == present[proc[p].target] IN
        obeyed' = IF there = Nobody THEN obeyed
                  ELSE obeyed \cup {[device |-> there, ip |-> proc[p].target,
                                     does |-> proc[p].does, moved |-> proc[p].moved]}
    /\ Others /\ UNCHANGED <<uses, seen, inventory>>

\* Another device's row with this address is a conflict; the transaction has not begun.
Select(p) ==
    /\ proc[p].at = "select"
    /\ IF \E row \in inventory : row.ip = proc[p].target /\ row.device # proc[p].found
       THEN proc' = [proc EXCEPT ![p] = Rest] ELSE To(p, "insert")
    /\ Others /\ UNCHANGED <<uses, seen, inventory, obeyed>>

\* Fault: the table does not keep addresses apart, the conflict was looked for before.
InsertUnchecked(p) ==
    /\ proc[p].at = "insert" /\ proc' = [proc EXCEPT ![p] = Rest]
    /\ inventory' = {row \in inventory : row.device # proc[p].found}
                        \cup {[device |-> proc[p].found, ip |-> proc[p].target]}
    /\ Others /\ UNCHANGED <<uses, seen, obeyed>>

\* An upsert by identity; ip is UNIQUE, and a violation of it ends the command.
Insert(p) ==
    /\ proc[p].at = "insert" /\ proc' = [proc EXCEPT ![p] = Rest]
    /\ LET others == {row \in inventory : row.device # proc[p].found} IN
        inventory' = IF \E row \in others : row.ip = proc[p].target THEN inventory
                     ELSE others \cup {[device |-> proc[p].found, ip |-> proc[p].target]}
    /\ Others /\ UNCHANGED <<uses, seen, obeyed>>

Control(p) ==
    \/ \E a \in Address, d \in TV, does \in Operation \cup {"add"} : Begin(p, a, d, does)
    \/ Verify(p) \/ SendCommand(p) \/ Select(p) \/ Insert(p)

ScanNext ==
    \/ Move \/ Scan
    \/ /\ scanner.at = "idle"
       /\ \E order \in UNION {[1 .. n -> Address] : n \in 1 .. Cardinality(Address)} :
              (\A i, j \in DOMAIN order : i # j => order[i] # order[j]) /\ BeginScan(order)
    \/ \E p \in Process : Control(p)

ScanSpec == ScanInit /\ [][ScanNext]_scanVars

-----------------------------------------------------------------------------
(* Properties                                                                *)

\* A scan that ended, of itself or because it was cancelled in the middle of its probes,
\* has reported every probe it submitted, once, as a device that was seen at that address
\* or as a failure; and it submitted every target unless it was cancelled.
ScanAccounts ==
    LET reported == {r.target : r \in scanner.devices} IN
    scanner.at = "ended" =>
        /\ scanner.submitted = reported \cup scanner.failures
        /\ reported \cap scanner.failures = {}
        /\ \A r, s \in scanner.devices : r.target = s.target => r = s
        /\ \A r \in scanner.devices : <<r.who, r.target>> \in seen
        /\ cancel \/ scanner.submitted = scanner.requested

\* The inventory has one address for a device and one device at an address, and only
\* pairs that a command saw, however additions interleave.
InventoryIsTrue ==
    /\ \A r, s \in inventory : r.device = s.device <=> r.ip = s.ip
    /\ \A r \in inventory : <<r.device, r.ip>> \in seen

\* A TV obeys an operation only at an address where the allowlist approves that operation
\* for a device that was seen there; and only that device obeys, unless another one took
\* the address over after it was verified.
CommandReachesAllowed ==
    \A o \in obeyed :
        /\ \E d \in TV : <<o.ip, d, o.does>> \in Allowed /\ <<d, o.ip>> \in seen
        /\ o.moved \/ <<o.ip, o.device, o.does>> \in Allowed
=============================================================================
