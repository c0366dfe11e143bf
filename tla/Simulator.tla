------------------------------ MODULE Simulator ------------------------------
(***************************************************************************)
(* The TV simulator (simulator.py): a thread for each WIXP command, and one    *)
(* for each clone session, over one TVState.  Every critical section of its    *)
(* lock is one action.                                                         *)
(***************************************************************************)
EXTENDS Integers, Sequences, FiniteSets

CONSTANTS
    CloneItem,      \* RoomItem is RoomSpecificSettings
    RoomItem,
    Package,        \* what a server may answer a download with
    Url,            \* clone URLs a command may give
    Configured,     \* whether a callback base URL is configured
    Serial,         \* of this TV
    Service, App,   \* switchable services and installed applications
    NoRoom,         \* no room, no download
    Keep,           \* callbacks and requests remembered (20 and 50)
    MaxCloneBytes, MaxUncompressedBytes, MaxZipEntries,
    MaxItems,       \* bound: items of a clone command
    MaxCommands,    \* bound: WIXP commands
    MaxLost         \* bound: threads that cannot be started

ASSUME SimulatorAssumption ==
    /\ RoomItem \in CloneItem /\ App # {} /\ Configured \in BOOLEAN /\ Keep \in Nat
    /\ MaxItems \in Nat /\ MaxCommands \in Nat /\ MaxLost \in Nat
    /\ MaxCloneBytes \in Nat /\ MaxUncompressedBytes \in Nat /\ MaxZipEntries \in Nat
    /\ Package \subseteq [bytes: Nat, entries: Nat, expanded: Nat, safe: BOOLEAN,
                          settings: Nat, serial: STRING, room: Nat]
    /\ Url \subseteq [origin: {"cmnd", "loopback", "other"}, canonical: BOOLEAN,
                      zip: BOOLEAN, profile: BOOLEAN]

VARIABLES
    tvState,   \* power, reboots, room, services that are on, the active application
    clone,     \* status and details of each item
    callbacks, \* outcomes of the last callbacks
    requests,  \* functions of the last commands
    session,   \* the clone sessions so far, by number: next step, its items, ...
    handling,  \* commands whose thread has not replied: next step
    commands, lost,
    overlap    \* two sessions have had the room item at the same time (history variable)

simVars == <<tvState, clone, callbacks, requests, session, handling, commands, lost, overlap>>

Untouched == [status |-> "none", room |-> NoRoom]
InProgress == [Untouched EXCEPT !.status = "InProgress"]
LastOf(s) == IF Len(s) > Keep THEN Tail(s) ELSE s

SimInit ==
    /\ tvState = [power |-> "On", reboots |-> 0, room |-> 1, on |-> {}, active |-> CHOOSE a \in App : TRUE]
    /\ clone = [i \in CloneItem |-> Untouched]
    /\ callbacks = <<>> /\ requests = <<>> /\ session = <<>> /\ handling = <<>>
    /\ commands = 0 /\ lost = 0 /\ overlap = FALSE

-----------------------------------------------------------------------------
(* What a command and a package must look like.                              *)

\* Canonical, a ZIP, and in the profiles of the configured CMND server; without one, of
\* the loopback.
AllowedCloneUrl(u) ==
    /\ u.canonical /\ u.zip
    /\ IF Configured THEN u.origin = "cmnd" /\ u.profile ELSE u.origin = "loopback"

ValidZip(p) ==
    /\ p.bytes \in 1 .. MaxCloneBytes /\ p.entries \in 1 .. MaxZipEntries
    /\ p.expanded <= MaxUncompressedBytes /\ p.safe

\* One RoomSpecificSettings.xml, with the serial of this TV and a RoomID.
RoomValues(p) == p.settings = 1 /\ p.serial = Serial /\ p.room > 0

Accepts(i, p) == ValidZip(p) /\ (i = RoomItem => RoomValues(p))

-----------------------------------------------------------------------------
(* WIXP commands.  What a command is refused for changes nothing, except that *)
(* a missing Cookie is noticed when the reply is made, after the effect.      *)

\* The command is remembered before it is examined.
Receive(fun) ==
    /\ commands < MaxCommands /\ commands' = commands + 1
    /\ requests' = LastOf(Append(requests, fun))
    /\ handling' = Append(handling, fun)
    /\ UNCHANGED <<tvState, clone, callbacks, session, lost, overlap>>

\* The command n is at this step, and goes on to that one.
Goes(n, here, there) == handling[n] = here /\ handling' = [handling EXCEPT ![n] = there]

\* So does a discovery request that is answered.
Refused(n) ==
    /\ Goes(n, handling[n], "reply") /\ handling[n] \notin {"start", "current", "reply"}
    /\ UNCHANGED <<tvState, clone, callbacks, requests, session, commands, lost, overlap>>

\* A request, a reboot or a change.
ChangePower(n) ==
    /\ Goes(n, "PowerService", "current")
    /\ \/ UNCHANGED tvState
       \/ tvState' = [tvState EXCEPT !.reboots = @ + 1, !.power = "On"]
       \/ \E p \in {"On", "Standby"} : tvState' = [tvState EXCEPT !.power = p]
    /\ UNCHANGED <<clone, callbacks, requests, session, commands, lost, overlap>>

\* The reply gives the power as it is by then.
CurrentPower(n) ==
    /\ Goes(n, "current", "reply")
    /\ UNCHANGED <<tvState, clone, callbacks, requests, session, commands, lost, overlap>>

\* All the parameters are known, or none is taken over.
EnableServices(n) ==
    /\ Goes(n, "EnablerService", "reply")
    /\ \E s \in Service : \E on \in {tvState.on \cup {s}, tvState.on \ {s}} :
           tvState' = [tvState EXCEPT !.on = on]
    /\ UNCHANGED <<clone, callbacks, requests, session, commands, lost, overlap>>

Activate(n) ==
    /\ Goes(n, "ApplicationControl", "reply")
    /\ \E a \in App : tvState' = [tvState EXCEPT !.active = a]
    /\ UNCHANGED <<clone, callbacks, requests, session, commands, lost, overlap>>

\* The items of a session that it has still to settle.
Left(s) == {s.items[k] : k \in s.turn .. Len(s.items)}
Running == {k \in DOMAIN session : session[k].at \notin {"lost", "over"}}
Holders(i) == {k \in Running : i \in Left(session[k])}

\* Every URL is examined first; then all the items are in progress, and the session's
\* thread is started after the lock is given back.
BeginClone(n) ==
    /\ Goes(n, "IPCloneService", "start")
    /\ \E items \in UNION {[1 .. l -> CloneItem] : l \in 1 .. MaxItems}, u \in Url :
        /\ AllowedCloneUrl(u)
        /\ session' = Append(session, [at |-> "ready", items |-> items, turn |-> 1,
                                       got |-> NoRoom, well |-> TRUE, by |-> n])
        /\ clone' = [i \in CloneItem |-> IF \E k \in DOMAIN items : items[k] = i THEN InProgress
                                    ELSE clone[i]]
        /\ overlap' = (overlap \/ (Holders(RoomItem) # {}
                                   /\ \E k \in DOMAIN items : items[k] = RoomItem))
    /\ UNCHANGED <<tvState, callbacks, requests, commands, lost>>

StartSession(n) ==
    /\ Goes(n, "start", "reply")
    /\ \/ /\ session' = [k \in DOMAIN session |-> IF session[k].by = n /\ session[k].at = "ready"
                                                  THEN [session[k] EXCEPT !.at = "fetch"] ELSE session[k]]
          /\ UNCHANGED lost
       \/ /\ lost < MaxLost /\ lost' = lost + 1
          /\ session' = [k \in DOMAIN session |-> IF session[k].by = n /\ session[k].at = "ready"
                                                  THEN [session[k] EXCEPT !.at = "lost"] ELSE session[k]]
    /\ UNCHANGED <<tvState, clone, callbacks, requests, commands, overlap>>

Command(n) ==
    \/ Refused(n) \/ ChangePower(n) \/ CurrentPower(n) \/ EnableServices(n) \/ Activate(n)
    \/ BeginClone(n) \/ StartSession(n)

-----------------------------------------------------------------------------
(* Clone sessions: fetch_all and send_callback.                              *)

Current(k) == session[k].items[session[k].turn]

\* A download that fails or is not accepted fails its item only.
Fetch(k) ==
    /\ session[k].at = "fetch"
    /\ \/ \E p \in Package : Accepts(Current(k), p) /\
              session' = [session EXCEPT ![k].at = IF Current(k) = RoomItem THEN "room" ELSE "record",
                                         ![k].got = p.room]
       \/ session' = [session EXCEPT ![k].at = "record", ![k].got = NoRoom]
    /\ UNCHANGED <<tvState, clone, callbacks, requests, handling, commands, lost, overlap>>

\* The room is set in a critical section of its own ...
SetRoom(k) ==
    /\ session[k].at = "room" /\ tvState' = [tvState EXCEPT !.room = session[k].got]
    /\ session' = [session EXCEPT ![k].at = "record"]
    /\ UNCHANGED <<clone, callbacks, requests, handling, commands, lost, overlap>>

\* Fault: only an item that was accepted is recorded.
SettleAccepted(k) ==
    /\ session[k].at = "record"
    /\ LET s == session[k]  good == s.got # NoRoom IN
        /\ clone' = IF good THEN [clone EXCEPT ![Current(k)] = [status |-> "Successful",
                         room |-> IF Current(k) = RoomItem THEN s.got ELSE NoRoom]] ELSE clone
        /\ session' = [session EXCEPT ![k] = [s EXCEPT
               !.at = IF s.turn < Len(s.items) THEN "fetch" ELSE "callback",
               !.turn = @ + 1, !.got = NoRoom, !.well = @ /\ good]]
    /\ UNCHANGED <<tvState, callbacks, requests, handling, commands, lost, overlap>>

\* ... and recorded, like every outcome, in the next one.
Settle(k) ==
    /\ session[k].at = "record"
    /\ LET s == session[k]  good == s.got # NoRoom IN
        /\ clone' = [clone EXCEPT ![Current(k)] =
               [status |-> IF good THEN "Successful" ELSE "Failed",
                room |-> IF Current(k) = RoomItem THEN s.got ELSE NoRoom]]
        /\ session' = [session EXCEPT ![k] = [s EXCEPT
               !.at = IF s.turn < Len(s.items) THEN "fetch" ELSE "callback",
               !.turn = @ + 1, !.got = NoRoom, !.well = @ /\ good]]
    /\ UNCHANGED <<tvState, callbacks, requests, handling, commands, lost, overlap>>

\* The session's own outcome is sent; whether that succeeds is remembered.
Callback(k) ==
    /\ session[k].at = "callback" /\ session' = [session EXCEPT ![k].at = "over"]
    /\ IF Configured THEN \E r \in {"sent", "failed"} : callbacks' = LastOf(Append(callbacks, r))
       ELSE UNCHANGED callbacks
    /\ UNCHANGED <<tvState, clone, requests, handling, commands, lost, overlap>>

Session(k) == Fetch(k) \/ SetRoom(k) \/ Settle(k) \/ Callback(k)

SimNext ==
    \/ \E fun \in {"TVDiscoveryService", "PowerService", "EnablerService", "ApplicationControl",
                   "IPCloneService"} : Receive(fun)
    \/ \E n \in DOMAIN handling : Command(n)
    \/ \E k \in DOMAIN session : Session(k)

SimSpec == SimInit /\ [][SimNext]_simVars

-----------------------------------------------------------------------------
(* Properties                                                                *)

\* An item is in progress only as long as a session that will settle it runs (or could
\* not be started), whichever sessions took it over from each other; and when no session
\* with the room item is left, the room of the TV is the one its details give, unless two
\* such sessions overlapped.
ClonesSettle ==
    /\ \A i \in CloneItem : clone[i].status = "InProgress" =>
           Holders(i) # {} \/ \E k \in DOMAIN session : session[k].at = "lost" /\ i \in Left(session[k])
    /\ clone[RoomItem].status = "Successful" /\ Holders(RoomItem) = {} /\ ~overlap
           => tvState.room = clone[RoomItem].room
=============================================================================
