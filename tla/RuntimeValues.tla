---------------------------- MODULE RuntimeValues ----------------------------
(***************************************************************************)
(* loxone/runtime.py, the value path: how a reported attribute, a device's *)
(* reachability, the radio's state and the snapshot of a (re)connected     *)
(* source reach the Miniserver, and how /resync, a reconnect, a new        *)
(* address and the periodic timer send everything again.                   *)
(*                                                                         *)
(* Each source has one dispatcher that delivers one update at a time and   *)
(* waits for its send; the resenders are the requests, supervisors and     *)
(* timers inside _force_resend().  All share the UdpSender.  A task is     *)
(* between two sends of its loop when `rest` is not empty and it is not in *)
(* the sender's line.  d<id>_online and zigbee_connected are keys like any *)
(* other, but that a snapshot of a followed device does not send the first.*)
(***************************************************************************)
EXTENDS UdpSender, FiniteSets

CONSTANTS
    Sources,      \* device sources, each with its dispatcher task
    Resenders,    \* tasks that run resend_all() or resend_marked()
    Owner,        \* which source a key's device belongs to
    Marked,       \* keys with resend = true in the store
    Online,       \* the d<id>_online keys
    MaxReports,   \* bound: values cached per key
    MaxFailures   \* bound: sends that raise although the socket is open

ASSUME ValuesAssumption ==
    /\ Tasks = Sources \cup Resenders /\ Sources \cap Resenders = {}
    /\ Owner \in [Keys -> Sources]
    /\ Marked \subseteq Keys /\ Online \subseteq Keys
    /\ MaxReports \in Nat /\ MaxFailures \in Nat

VARIABLES
    cache,      \* `_last_values`
    reports,    \* history: how many values each key has had
    rest,       \* per task, the keys its loop has still to send
    created,    \* resend tasks created by the settings route, not begun
    goal,       \* history: what a resend owes the Miniserver, as of its start
    stopping,   \* the bridge shuts down
    failures    \* history: sends that raised

runtimeVars == <<cache, reports, rest, created, goal, stopping, failures>>
vars == <<senderVars, runtimeVars>>

TypeOK ==
    /\ SenderTypeOK
    /\ cache \in [Keys -> Values \cup {None}]
    /\ reports \in [Keys -> Nat]
    /\ rest \in [Tasks -> SUBSET Keys]
    /\ created \in SUBSET Resenders
    /\ goal \in [Resenders -> [Keys -> Nat]]
    /\ stopping \in BOOLEAN
    /\ failures \in Nat

NoGoal == [k \in Keys |-> 0]

Init ==
    /\ SenderInit
    /\ cache = [k \in Keys |-> None]
    /\ reports = [k \in Keys |-> 0]
    /\ rest = [t \in Tasks |-> {}]
    /\ created = {}
    /\ goal = [r \in Resenders |-> NoGoal]
    /\ stopping = FALSE
    /\ failures = 0

(* The task is neither inside send() nor inside one of the loops. *)
Idle(t) == ~Waiting(t) /\ rest[t] = {} /\ t \notin created

Cached == {k \in Keys : cache[k] # None}

(* _cache_attribute / _cache_online for every key of a snapshot. *)
CacheAll(snap) ==
    /\ \A k \in DOMAIN snap : reports[k] < MaxReports
    /\ cache' = [k \in Keys |-> IF k \in DOMAIN snap THEN snap[k] ELSE cache[k]]
    /\ reports' = [k \in Keys |-> IF k \in DOMAIN snap THEN reports[k] + 1 ELSE reports[k]]

(* on_attribute, set_online, set_zigbee_connected: cache, then send.  With  *)
(* the socket closed send() raises after the value was cached.              *)
OnAttribute(s, k, v) ==
    /\ Idle(s) /\ Owner[k] = s
    /\ CacheAll([x \in {k} |-> v])
    /\ IF closed THEN UNCHANGED senderVars
                 ELSE SendCall(s, k, v, reports[k] + 1, FALSE)
    /\ UNCHANGED <<rest, created, goal, stopping, failures>>

(* on_node_snapshot: caches everything, then sends the attributes whose known *)
(* value this snapshot changed; one born in it is only cached, and so is the  *)
(* device's reachability (_cache_online).                                     *)
OnNodeSnapshot(s, snap) ==
    /\ Idle(s) /\ \A k \in DOMAIN snap : Owner[k] = s
    /\ CacheAll(snap)
    /\ rest' = [rest EXCEPT ![s] =
                  {k \in DOMAIN snap \ Online : cache[k] # None /\ cache[k] # snap[k]}]
    /\ UNCHANGED <<senderVars, created, goal, stopping, failures>>

(* supervisor.attach: seed_from_snapshot caches everything and sends      *)
(* nothing; the resend_all() right after it lists all keys known by then. *)
Attach(r, s, snap) ==
    /\ Idle(r) /\ ~stopping /\ \A k \in DOMAIN snap : Owner[k] = s
    /\ CacheAll(snap)
    /\ rest' = [rest EXCEPT ![r] = Cached \cup DOMAIN snap]
    /\ goal' = [goal EXCEPT ![r] = IF target THEN reports' ELSE NoGoal]
    /\ UNCHANGED <<senderVars, created, stopping, failures>>

(* resend_all: /resync, or the task the settings route created. *)
ResendAll(r) ==
    /\ ~Waiting(r) /\ rest[r] = {}
    /\ rest' = [rest EXCEPT ![r] = Cached]
    /\ goal' = [goal EXCEPT ![r] = IF target THEN reports ELSE NoGoal]
    /\ created' = created \ {r}
    /\ UNCHANGED <<senderVars, cache, reports, stopping, failures>>

(* resend_marked: the periodic timer. *)
ResendMarked(r) ==
    /\ Idle(r)
    /\ rest' = [rest EXCEPT ![r] = Marked]
    /\ goal' = [goal EXCEPT ![r] =
                  [k \in Keys |-> IF target /\ k \in Marked THEN reports[k] ELSE 0]]
    /\ UNCHANGED <<senderVars, cache, reports, created, stopping, failures>>

(* Mutant: a resend that lets the debounce cache decide. *)
NextKeyUnforced(t) ==
    /\ ~Waiting(t)
    /\ \E k \in rest[t] :
         /\ rest' = [rest EXCEPT ![t] = @ \ {k}]
         /\ IF cache[k] = None THEN UNCHANGED senderVars
            ELSE SendCall(t, k, cache[k], reports[k], FALSE)
    /\ UNCHANGED <<cache, reports, created, goal, stopping, failures>>

(* One turn of _force_resend (forced) or of on_node_snapshot's last loop:  *)
(* the value is read from the cache now, and a key without one is skipped. *)
NextKey(t) ==
    /\ ~Waiting(t)
    /\ \E k \in rest[t] :
         /\ rest' = [rest EXCEPT ![t] = @ \ {k}]
         /\ IF cache[k] = None THEN UNCHANGED senderVars
            ELSE SendCall(t, k, cache[k], reports[k], t \in Resenders)
    /\ UNCHANGED <<cache, reports, created, goal, stopping, failures>>

(* The same turn with the socket closed: send() raises and the loop is over. *)
NextKeyRaises(t) ==
    /\ closed /\ ~Waiting(t) /\ rest[t] # {}
    /\ rest' = [rest EXCEPT ![t] = {}]
    /\ goal' = [r \in Resenders |-> IF r = t THEN NoGoal ELSE goal[r]]
    /\ UNCHANGED <<senderVars, cache, reports, created, stopping, failures>>

(* The datagram of a task's send() leaves and the task goes on. *)
Sent(t) == SendTo(t) /\ UNCHANGED runtimeVars

(* A task's send() raises: its handler, or its whole resend, is over. *)
SendFails(t) ==
    /\ SendRaises(t)
    /\ IF closed THEN UNCHANGED failures
                 ELSE failures < MaxFailures /\ failures' = failures + 1
    /\ rest' = [rest EXCEPT ![t] = {}]
    /\ goal' = [r \in Resenders |-> IF r = t THEN NoGoal ELSE goal[r]]
    /\ UNCHANGED <<cache, reports, created, stopping>>

(* PATCH /settings: another address (or none).  A new address gets a full *)
(* resend in the background; what a running resend owed is void.          *)
SaveSettings(isSet, r) ==
    /\ (isSet => Idle(r)) /\ ~stopping
    /\ SetTarget(isSet)
    /\ created' = IF isSet THEN created \cup {r} ELSE created
    /\ goal' = [x \in Resenders |-> NoGoal]
    /\ UNCHANGED <<cache, reports, rest, stopping, failures>>

(* The Miniserver restarts: all its inputs sit at their default again. *)
MiniserverRestarts ==
    /\ wire' = [k \in Keys |-> None] /\ shown' = [k \in Keys |-> 0]
    /\ goal' = [x \in Resenders |-> NoGoal]
    /\ UNCHANGED <<target, closed, lastSent, line,
                   cache, reports, rest, created, stopping, failures>>

(* Shutdown: cancels supervisors and timers, then closes the sender; the *)
(* dispatchers and the requests go on until the very end.                *)
BeginStop ==
    /\ ~stopping /\ stopping' = TRUE
    /\ UNCHANGED <<senderVars, cache, reports, rest, created, goal, failures>>

Cancel(r) ==
    /\ stopping /\ ~Idle(r)
    /\ IF Waiting(r) THEN LeaveLine(r) ELSE UNCHANGED senderVars
    /\ rest' = [rest EXCEPT ![r] = {}]
    /\ created' = created \ {r}
    /\ goal' = [goal EXCEPT ![r] = NoGoal]
    /\ UNCHANGED <<cache, reports, stopping, failures>>

BeginClose == stopping /\ CloseCall /\ UNCHANGED runtimeVars

FinishClose == CloseSocket /\ UNCHANGED runtimeVars

Snapshots(s) == UNION {[S -> Values] : S \in SUBSET {k \in Keys : Owner[k] = s}}

Next ==
    \/ \E s \in Sources, k \in Keys, v \in Values : OnAttribute(s, k, v)
    \/ \E s \in Sources : \E snap \in Snapshots(s) : OnNodeSnapshot(s, snap)
    \/ \E s \in Sources, r \in Resenders : \E snap \in Snapshots(s) : Attach(r, s, snap)
    \/ \E r \in Resenders : ResendAll(r) \/ ResendMarked(r) \/ Cancel(r)
    \/ \E t \in Tasks : NextKey(t) \/ NextKeyRaises(t) \/ Sent(t) \/ SendFails(t)
    \/ \E isSet \in BOOLEAN, r \in Resenders : SaveSettings(isSet, r)
    \/ MiniserverRestarts \/ BeginStop \/ BeginClose \/ FinishClose

Spec == Init /\ [][Next]_vars

(* The event loop runs every task that can go on, and the rate limit ends. *)
Fairness ==
    /\ \A t \in Tasks : WF_vars(NextKey(t) \/ NextKeyRaises(t)) /\ WF_vars(Sent(t) \/ SendFails(t))
    /\ \A r \in Resenders : WF_vars(r \in created /\ ResendAll(r))
    /\ WF_vars(FinishClose)

FairSpec == Spec /\ Fairness
-----------------------------------------------------------------------------
(* What the Miniserver is shown of a key only moves forward in the history   *)
(* of its values: a resend that takes seconds never overwrites a newer value *)
(* with an older one (resend_all's docstring, review fix I4).                *)
Feed == INSTANCE ValueFeed WITH FeedKeys <- Keys, latest <- reports, seen <- shown
FeedSpec == Feed!Spec

(* The inductive half of that promise: the calls in the sender's line carry, *)
(* per key, ever newer values, none older than the one shown last and none   *)
(* newer than the last one cached.                                           *)
LineInOrder ==
    /\ \A k \in Keys : shown[k] <= reports[k]
    /\ \A i \in 1..Len(line) : line[i].key \in Keys =>
         shown[line[i].key] <= line[i].ver /\ line[i].ver <= reports[line[i].key]
    /\ \A i, j \in 1..Len(line) :
         i < j /\ line[i].key = line[j].key => line[i].ver <= line[j].ver

(* A resend restores: a key it has dealt with shows the Miniserver a value *)
(* at least as recent as the one known when the resend began (spec 6.4).   *)
ResendRestores ==
    \A r \in Resenders, k \in Keys :
        \/ k \in rest[r]
        \/ \E i \in 1..Len(line) : line[i].task = r /\ line[i].key = k
        \/ shown[k] >= goal[r][k]

(* What that rests on: a key without a value has had no reports, no goal is *)
(* ahead of the reports, none is owed to a missing address, and a resend's  *)
(* call in the line carries at least what its goal asks for.                *)
GoalsWithinReach ==
    /\ \A k \in Keys : cache[k] = None => reports[k] = 0
    /\ \A r \in Resenders, k \in Keys : goal[r][k] <= reports[k]
    /\ ~target => \A r \in Resenders : goal[r] = NoGoal
    /\ \A i \in 1..Len(line) : line[i].task \in Resenders =>
         goal[line[i].task][line[i].key] <= line[i].ver

(* close() takes the same lock as send(): once the socket is gone nothing *)
(* leaves, and whoever still waits in the line raises.                     *)
SilentOnceClosed ==
    [][closed => lastSent' = lastSent /\ closed']_vars

(* "Sends when the value has changed or force is set" (sender.py:162): when *)
(* nothing is under way and no send failed, a key the Miniserver has been   *)
(* shown carries the value the bridge knows.                                *)
ShownIsCurrent ==
    line = <<>> /\ failures = 0 /\ ~closed /\ ~stopping /\ (\A t \in Tasks : Idle(t))
        => \A k \in Keys : wire[k] # None => wire[k] = cache[k]

(* A resend that began or that the settings route created comes to its end: *)
(* the lock is released on every way out of send().                         *)
ResendEnds == \A r \in Resenders : ~Idle(r) ~> Idle(r)
=============================================================================
