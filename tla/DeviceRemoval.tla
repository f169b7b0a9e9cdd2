----------------------------- MODULE DeviceRemoval -----------------------------
(***************************************************************************)
(* The removal of a device (api/devices.py, remove_device; the sources'    *)
(* remove): first the source lets go of the device, then the store forgets *)
(* it.  The removal is a task of its own that outlives the request; the    *)
(* request waits for it a moment and may join one that runs already.       *)
(* matter-server drops a node before it asks the device to leave, and      *)
(* answers only then, so that a call that is cut off may have done its     *)
(* work, or may do it later.                                               *)
(***************************************************************************)
EXTENDS Naturals

CONSTANTS
    Removable,         \* devices of the store
    Technology,        \* per device: "matter" or "zigbee"
    Deletes,           \* the requests DELETE /devices/{id} that are sent
    Target,            \* per request: its device
    MaxRemovalFaults,  \* bound: refusals, and writes that fail
    MaxOutages         \* bound: links and sticks that come or go, restarts

ASSUME RemovalAssumption ==
    /\ Technology \in [Removable -> {"matter", "zigbee"}]
    /\ Target \in [Deletes -> Removable]
    /\ MaxRemovalFaults \in Nat /\ MaxOutages \in Nat

VARIABLES
    listed,     \* devices the store has as active
    joined,     \* devices their source holds: matter-server's nodes, zigpy's table
    link,       \* per technology: "up"; "down", without its link; "away", not
                \* registered while a stick is stored; "none", nothing stored
    removal,    \* `removals`: what its task is at, or how it ended; or "none"
    call,       \* the call of that task into the source
    late,       \* Matter devices with a call nobody waits for any more
    failed,     \* `removal_failures`: devices with the reason of the latest failure
    reply,      \* per request: what it was answered
    leftAlone,  \* history: devices that were forgotten without their radio
    removalFaults, outages

removalVars == <<listed, joined, link, removal, call, late, failed, reply, leftAlone,
                 removalFaults, outages>>

RemovalInit ==
    /\ listed = Removable
    \* A removal before a restart, or a reset stick, may have left it unknown.
    /\ joined \in SUBSET Removable
    /\ link = [t \in {"matter", "zigbee"} |-> "up"]
    /\ removal = [d \in Removable |-> "none"] /\ call = [d \in Removable |-> "none"]
    /\ late = {} /\ failed = {} /\ leftAlone = {}
    /\ reply = [r \in Deletes |-> "unsent"]
    /\ removalFaults = 0 /\ outages = 0

-----------------------------------------------------------------------------
(* The request. *)

Registered(d) == link[Technology[d]] \in {"up", "down"}
Running(d) == removal[d] \in {"begun", "asked"}

Replied(r, what) == reply' = [reply EXCEPT ![r] = what]

\* No source serves the device, and the request asks to remove it anyway: a
\* stick that is only away is waited for, without one it may be forgotten.
Unserved(r, forgetOnly) ==
    LET d == Target[r]
    IN /\ ~Registered(d)
       /\ IF link[Technology[d]] = "none" /\ forgetOnly
          THEN /\ listed' = listed \ {d} /\ leftAlone' = leftAlone \cup {d}
               /\ Replied(r, "removed")
          ELSE /\ Replied(r, IF link[Technology[d]] = "away" THEN "changing" ELSE "offered")
               /\ UNCHANGED <<listed, leftAlone>>
       /\ UNCHANGED <<removal, failed>>

\* The first request starts the task and drops the last reason, a further one
\* joins the task; one that finds it ended hears at once how.
Served(r) ==
    LET d == Target[r]
    IN /\ Registered(d)
       /\ IF removal[d] = "none"
          THEN /\ removal' = [removal EXCEPT ![d] = "begun"] /\ failed' = failed \ {d}
               /\ Replied(r, "waits")
          ELSE /\ Replied(r, IF Running(d) THEN "waits" ELSE removal[d])
               /\ UNCHANGED <<removal, failed>>
       /\ UNCHANGED <<listed, leftAlone>>

RemoveDevice(r, forgetOnly) ==
    /\ reply[r] = "unsent"
    /\ \/ Target[r] \notin listed /\ Replied(r, "unknown")
          /\ UNCHANGED <<listed, leftAlone, removal, failed>>
       \/ Target[r] \in listed /\ Unserved(r, forgetOnly)
       \/ Target[r] \in listed /\ ~forgetOnly /\ Served(r)
       \/ Target[r] \in listed /\ forgetOnly /\ Registered(Target[r])
          /\ Replied(r, "declined") /\ UNCHANGED <<listed, leftAlone, removal, failed>>
    /\ UNCHANGED <<joined, link, call, late, removalFaults, outages>>

\* After REMOVAL_ANSWER_SECONDS the request is answered, and the task goes on.
PatienceEnds(r) ==
    /\ reply[r] = "waits" /\ Replied(r, "removing")
    /\ UNCHANGED <<listed, joined, link, removal, call, late, failed, leftAlone,
                   removalFaults, outages>>

-----------------------------------------------------------------------------
(* The task. *)

\* The task ends, and wakes the requests that wait for it.
TaskEnds(d, how) ==
    /\ removal' = [removal EXCEPT ![d] = how] /\ call' = [call EXCEPT ![d] = "none"]
    /\ reply' = [r \in Deletes |->
                    IF reply[r] = "waits" /\ Target[r] = d THEN how ELSE reply[r]]

Faulty == removalFaults < MaxRemovalFaults /\ removalFaults' = removalFaults + 1

\* The first step of the task asks the source, which needs its link.
AsksSource(d) ==
    /\ removal[d] = "begun"
    /\ IF link[Technology[d]] = "up"
       THEN /\ removal' = [removal EXCEPT ![d] = "asked"] /\ call' = [call EXCEPT ![d] = "told"]
            /\ UNCHANGED reply
       ELSE TaskEnds(d, "failed")
    /\ UNCHANGED <<listed, joined, link, late, failed, leftAlone, removalFaults, outages>>

\* The source lets go of the device, and then asks it to leave.
LetsGo(d) ==
    /\ call[d] = "told" /\ d \in joined
    /\ joined' = joined \ {d} /\ call' = [call EXCEPT ![d] = "leaving"]
    /\ UNCHANGED <<listed, link, removal, late, failed, reply, leftAlone, removalFaults, outages>>

\* Mutant: an error counts as a refusal, although the node is gone.
RefusedAnyway(d) == call[d] # "none"

\* A refusal: the node is still there, or zigpy raises; what matter-server says
\* of a node that it does not hold is no refusal.
Refused(d) == call[d] # "none" /\ (d \in joined \/ Technology[d] = "zigbee")

\* Mutant: the device is forgotten before the source has let go of it.
GivesWayEarly(d) == call[d] # "none"

\* The answer of the source, after which the store forgets the device.
GivesWay(d) == call[d] # "none" /\ d \notin joined

IsGone(d) ==
    /\ GivesWay(d) /\ TaskEnds(d, "removed") /\ listed' = listed \ {d}
    /\ UNCHANGED <<joined, link, late, failed, leftAlone, removalFaults, outages>>

\* The write fails, and the store rolls it back.
ForgettingFails(d) ==
    /\ GivesWay(d) /\ TaskEnds(d, "failed") /\ Faulty
    /\ UNCHANGED <<listed, joined, link, late, failed, leftAlone, outages>>

Refuses(d) ==
    /\ Refused(d) /\ TaskEnds(d, "refused") /\ Faulty
    /\ UNCHANGED <<listed, joined, link, late, failed, leftAlone, outages>>

\* matter-server goes on with what it was told; a call into zigpy is cancelled.
Left(d) == IF call[d] = "told" /\ Technology[d] = "matter" THEN {d} ELSE {}

\* SOURCE_REMOVAL_TIMEOUT_SECONDS, or the link breaks under the call.
CutOff(d) ==
    /\ call[d] # "none" /\ TaskEnds(d, "failed") /\ late' = late \cup Left(d)
    /\ UNCHANGED <<listed, joined, link, failed, leftAlone, removalFaults, outages>>

LateCall(d) ==
    /\ d \in late /\ late' = late \ {d} /\ joined' \in {joined, joined \ {d}}
    /\ UNCHANGED <<listed, link, removal, call, failed, reply, leftAlone, removalFaults, outages>>

\* Mutant: the reason is not kept.
ForgottenReason(d) == failed

Reasons(d) == IF removal[d] # "removed" THEN failed \cup {d} ELSE failed

\* _removal_finished, which the loop calls after the task has ended.
RemovalFinished(d) ==
    /\ removal[d] \in {"removed", "refused", "failed"}
    /\ removal' = [removal EXCEPT ![d] = "none"] /\ failed' = Reasons(d)
    /\ UNCHANGED <<listed, joined, link, call, late, reply, leftAlone, removalFaults, outages>>

-----------------------------------------------------------------------------
(* What comes and goes around it. *)

Outage == outages < MaxOutages /\ outages' = outages + 1

\* A link breaks or is back; a stick is swapped, given up or set up.
SourceTurns(t) ==
    /\ Outage
    /\ \E s \in {"up", "down"} \cup (IF t = "zigbee" THEN {"away", "none"} ELSE {}) :
         link[t] # s /\ link' = [link EXCEPT ![t] = s]
    /\ UNCHANGED <<listed, joined, removal, call, late, failed, reply, leftAlone, removalFaults>>

\* A restart ends a removal, and the page that showed it asks anew.
RemovalRestarts ==
    /\ Outage
    /\ removal' = [d \in Removable |-> "none"] /\ call' = [d \in Removable |-> "none"]
    /\ late' = late \cup {d \in Removable : call[d] = "told" /\ Technology[d] = "matter"}
    /\ failed' = {}
    /\ reply' = [r \in Deletes |->
                    IF reply[r] \in {"waits", "removing"} THEN "cut" ELSE reply[r]]
    /\ UNCHANGED <<listed, joined, link, leftAlone, removalFaults>>

RemovalNext ==
    \/ \E r \in Deletes : PatienceEnds(r) \/ \E forgetOnly \in BOOLEAN : RemoveDevice(r, forgetOnly)
    \/ \E d \in Removable :
         \/ AsksSource(d) \/ LetsGo(d) \/ IsGone(d) \/ ForgettingFails(d) \/ Refuses(d)
         \/ CutOff(d) \/ LateCall(d) \/ RemovalFinished(d)
    \/ \E t \in {"matter", "zigbee"} : SourceTurns(t)
    \/ RemovalRestarts

RemovalSpec == RemovalInit /\ [][RemovalNext]_removalVars

-----------------------------------------------------------------------------
(* Correctness. *)

RemovalTypeOK ==
    /\ listed \subseteq Removable /\ joined \subseteq Removable /\ failed \subseteq Removable
    /\ late \subseteq Removable /\ leftAlone \subseteq Removable
    /\ link \in [{"matter", "zigbee"} -> {"up", "down", "away", "none"}]
    /\ removal \in [Removable -> {"none", "begun", "asked", "removed", "refused", "failed"}]
    /\ call \in [Removable -> {"none", "told", "leaving"}]
    /\ reply \in [Deletes -> {"unsent", "waits", "removing", "removed", "refused", "failed",
                               "unknown", "declined", "offered", "changing", "cut"}]
    /\ removalFaults \in 0..MaxRemovalFaults /\ outages \in 0..MaxOutages

\* "A silent leftover no longer reachable from the UI" (devices.py:48): no
\* source holds a device that the store has forgotten, unless its user gave the
\* radio up.
NothingLeftBehind == joined \subseteq listed \cup leftAlone

\* A request that was answered 204 left no tile behind.
RemovedIsTrue == \A r \in Deletes : reply[r] = "removed" => Target[r] \notin listed

\* Whoever was told that the removal goes on sees it go on, sees why it failed,
\* or sees the device gone (devices.py:55-63).
NobodyIsLeftWaiting ==
    \A r \in Deletes : reply[r] = "removing" /\ Target[r] \in listed =>
        removal[Target[r]] # "none" \/ Target[r] \in failed

\* Every request that waits waits for a task that runs.
WaitsForTheTask == \A r \in Deletes : reply[r] = "waits" => Running(Target[r])

\* A page that shows a removal does not show why an earlier one failed.
NoOldReason == \A d \in Removable : removal[d] # "none" => d \notin failed

RemovalSafe ==
    /\ RemovalTypeOK /\ NothingLeftBehind /\ RemovedIsTrue /\ NobodyIsLeftWaiting
    /\ WaitsForTheTask /\ NoOldReason

\* A device leaves the store when its source has let go of it, or when no stick
\* is set up; and a Matter device is refused only while matter-server holds it,
\* so that one it has dropped can always be removed (client.py:526-542).
RemovalStep ==
    /\ \A d \in listed \ listed' : d \notin joined \/ link[Technology[d]] = "none"
    /\ \A d \in Removable :
         removal[d] = "asked" /\ removal'[d] = "refused" /\ Technology[d] = "matter" => d \in joined
RemovalSteps == [][RemovalStep]_removalVars

\* However two removals of a device and an outage of its source interleave, both
\* hold: RemovalTask and the request that waits for it agree (devices.py:378-403, 592-660).
RemovalIsRight == []RemovalSafe /\ RemovalSteps
=============================================================================
