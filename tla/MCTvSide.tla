------------------------------ MODULE MCTvSide ------------------------------
(* What speaks WIXP in one run of TLC, each part of it by itself: the export of a *)
(* clone from a TV, the simulated TV with its threads, and the commands that look *)
(* for TVs.                                                                       *)
EXTENDS CloneExport, Simulator, Discovery

CONSTANTS a1, a2, a3, d1, d2, d3, p1, p2, settings, channels

AllowList == {<<a1, d1, "power">>}

Zip(content, serial, room, safe) ==
    [bytes |-> 10, entries |-> 1, expanded |-> 20, safe |-> safe,
     settings |-> content, serial |-> serial, room |-> room]

\* Two rooms; a package for another TV, one that unpacks too far away.
Packages == {Zip(1, "own", 2, TRUE), Zip(1, "own", 3, TRUE), Zip(1, "other", 2, TRUE),
             Zip(0, "own", 1, TRUE), Zip(1, "own", 2, FALSE)}

Urls == {[origin |-> o, canonical |-> TRUE, zip |-> TRUE, profile |-> TRUE] :
             o \in {"cmnd", "other"}}

\* The parts share nothing.  The simulator and the discovery have their turn where
\* the export was refused by its first check, and nothing else has happened to it.
Turned ==
    /\ pc = "refused" /\ tv = d3 /\ first = Nothing /\ ~expired
    /\ count = [uploads |-> 0, faults |-> 0]
Quiet == commands = 0 /\ uses = 0 /\ moves = 0

\* The export needs one network beside it; elsewhere it is refused at once.  What is
\* alike, d1 and d2 to the export and a2 and a3 to the discovery, starts in one order.
Empty == present = [a \in Address |-> Nobody]

MCInit ==
    /\ Init /\ tv # d2
    /\ SimInit
    /\ ScanInit
    /\ present[a2] = Nobody => present[a3] = Nobody
    /\ present[a3] = d1 => present[a2] # d2
    /\ Empty \/ tv = d3

MCNext ==
    \/ /\ Quiet /\ Next /\ UNCHANGED <<simVars, scanVars>>
       /\ Empty \/ Turned'
    \/ Turned /\ Empty /\ uses = 0 /\ moves = 0 /\ SimNext /\ UNCHANGED <<vars, scanVars>>
    \/ /\ Turned /\ commands = 0 /\ ScanNext /\ UNCHANGED <<vars, simVars>>
       \* A scan shares nothing with the other commands: it runs alone.
       /\ scanner'.at # "idle" => uses' = 1

\* The fairness of FairSpec, for the export that still has its turn.
MCSpec ==
    /\ MCInit /\ [][MCNext]_<<vars, simVars, scanVars>>
    /\ WF_vars(Quiet /\ Main) /\ WF_vars(Quiet /\ Raise)
    /\ WF_vars(Quiet /\ Expire) /\ WF_vars(Quiet /\ Reject)
=============================================================================
