----------------------------- MODULE CommandGate -----------------------------
(***************************************************************************)
(* commands/coalesce.py: the one gate in front of a device.  Requests are  *)
(* numbered in the order they are handed in.  A lane's `waiting` list only *)
(* grows at its end and loses members, so its order is that of the numbers *)
(* and the model keeps it as a set.  Lanes come and go in `_lanes`; a lane *)
(* is named by the request that created it.                                *)
(*                                                                         *)
(* One device: the gate keeps nothing that two devices share.  Time passes *)
(* in ticks, and a timer may be handled any time after it is due.          *)
(***************************************************************************)
EXTENDS Naturals, FiniteSets

CONSTANTS
    Slots,        \* what a value call can set: level, colour, per endpoint
    Shapes,       \* requests that set slots: per slot, how much of it they set
    Slotless,     \* a request with on, off or toggle in it
    MaxRequests,  \* bound: requests handed in
    MaxCalls,     \* bound: device calls in one request
    MaxCancels,   \* bound: cancelled workers
    MaxGone,      \* bound: callers that go away
    WaitBound,    \* SOURCE_CALL_TIMEOUT_SECONDS, in ticks
    MinInterval   \* min_interval, in ticks

ASSUME GateAssumption ==
    /\ Shapes \subseteq [Slots -> Nat] /\ Slotless \notin Shapes
    /\ {MaxRequests, MaxCalls, MaxCancels, MaxGone, WaitBound, MinInterval} \subseteq Nat

Requests == 1..MaxRequests
Workers == {"none", "created", "pausing", "calling", "cancelled"}
Outcomes == {"unborn", "pending", "ok", "replaced", "failed", "silent", "cancelled"}

VARIABLES
    handed,     \* how many requests have been handed in
    shape,      \* per request, the slots it sets
    calls,      \* per request, the device calls still to make
    outcome,    \* per request, its future
    gone,       \* requests whose caller was cancelled
    lane,       \* the lane `_lanes` holds for the device, 0 for none
    home,       \* per request, its lane
    waiting,    \* per lane, its queue
    worker,     \* per lane, its task
    running,    \* per lane, the request whose calls the task makes, 0 for none
    paced,      \* ticks since `_paced_at`, at most MinInterval
    idle,       \* per request, ticks since it joined or the device last answered
    silence,    \* history: ticks since the device last answered a call
    rested,     \* history: ticks since a value request last started
    cancels     \* history: cancelled workers

vars == <<handed, shape, calls, outcome, gone, lane, home, waiting, worker,
          running, paced, idle, silence, rested, cancels>>

TypeOK ==
    /\ handed \in 0..MaxRequests
    /\ shape \in [Requests -> Shapes \cup {Slotless}]
    /\ calls \in [Requests -> 0..MaxCalls]
    /\ outcome \in [Requests -> Outcomes]
    /\ gone \in SUBSET Requests
    /\ lane \in 0..MaxRequests
    /\ home \in [Requests -> 0..MaxRequests]
    /\ waiting \in [Requests -> SUBSET Requests]
    /\ worker \in [Requests -> Workers]
    /\ running \in [Requests -> 0..MaxRequests]
    /\ \A l \in Requests : worker[l] = "calling" <=> running[l] # 0
    /\ paced \in 0..MinInterval /\ rested \in 0..MinInterval
    /\ idle \in [Requests -> 0..WaitBound] /\ silence \in 0..WaitBound
    /\ cancels \in 0..MaxCancels

Init ==
    /\ handed = 0 /\ lane = 0 /\ cancels = 0 /\ gone = {}
    /\ shape = [r \in Requests |-> Slotless]
    /\ calls = [r \in Requests |-> 0]
    /\ outcome = [r \in Requests |-> "unborn"]
    /\ home = [r \in Requests |-> 0]
    /\ waiting = [l \in Requests |-> {}]
    /\ worker = [l \in Requests |-> "none"]
    /\ running = [l \in Requests |-> 0]
    /\ idle = [r \in Requests |-> 0]
    /\ paced = MinInterval /\ rested = MinInterval /\ silence = WaitBound

Waits(r) == home[r] # 0 /\ r \in waiting[home[r]]

IsFirst(r, q) == r \in q /\ \A s \in q : r <= s

(* The newer request sets all the older one sets, and as much of it. *)
Covers(newer, older) == \A s \in Slots : older[s] <= newer[s]

(* Mutant: a value may replace any older one that waits. *)
ReplacedJumping(q, new) ==
    {r \in q : /\ new # Slotless /\ shape[r] # Slotless /\ Covers(new, shape[r])}

(* The waiting requests a new one replaces: those it covers, behind the last *)
(* waiting one that nothing may replace.                                     *)
Replaced(q, new) ==
    {r \in q : /\ new # Slotless /\ shape[r] # Slotless /\ Covers(new, shape[r])
               /\ \A s \in q : shape[s] = Slotless => s < r}

NeedsWorker(l) == worker[l] \in {"none", "cancelled"}

(* _enqueue(): all of run() and submit() up to the first await. *)
Enqueue(new, n) ==
    LET r == handed + 1
        l == IF lane = 0 THEN r ELSE lane
        old == Replaced(waiting[l], new)
    IN  /\ handed < MaxRequests
        /\ handed' = r
        /\ lane' = l
        /\ shape' = [shape EXCEPT ![r] = new]
        /\ calls' = [calls EXCEPT ![r] = n]
        /\ home' = [home EXCEPT ![r] = l]
        /\ idle' = [idle EXCEPT ![r] = 0]
        /\ outcome' = [s \in Requests |-> IF s = r THEN "pending"
                                          ELSE IF s \in old THEN "replaced" ELSE outcome[s]]
        /\ waiting' = [waiting EXCEPT ![l] = (@ \ old) \cup {r}]
        /\ worker' = IF NeedsWorker(l) THEN [worker EXCEPT ![l] = "created"] ELSE worker
        /\ UNCHANGED <<gone, running, paced, silence, rested, cancels>>

(* Mutant: the clock of a value request starts when its lane's worker does. *)
MustPauseOnlyBusy(l, r) ==
    shape[r] # Slotless /\ paced < MinInterval /\ worker[l] # "created"

(* _pause_before() is positive. *)
MustPause(l, r) == shape[r] # Slotless /\ paced < MinInterval

(* The worker's task ends: it leaves the lane, and an empty lane goes. *)
EndWorker(l) ==
    /\ worker' = [worker EXCEPT ![l] = "none"]
    /\ running' = [running EXCEPT ![l] = 0]
    /\ lane' = IF lane = l THEN 0 ELSE lane

(* _drain()'s loop from one look at the queue to the next await. *)
Drain(l) ==
    \/ /\ waiting[l] = {}
       /\ EndWorker(l)
       /\ UNCHANGED <<waiting, paced, rested>>
    \/ \E r \in Requests :
        /\ IsFirst(r, waiting[l]) /\ MustPause(l, r)
        /\ worker' = [worker EXCEPT ![l] = "pausing"]
        /\ running' = [running EXCEPT ![l] = 0]
        /\ UNCHANGED <<lane, waiting, paced, rested>>
    \/ \E r \in Requests :
        /\ IsFirst(r, waiting[l]) /\ ~MustPause(l, r)
        /\ waiting' = [waiting EXCEPT ![l] = @ \ {r}]
        /\ worker' = [worker EXCEPT ![l] = "calling"]
        /\ running' = [running EXCEPT ![l] = r]
        /\ paced' = IF shape[r] = Slotless THEN paced ELSE 0
        /\ rested' = IF shape[r] = Slotless THEN rested ELSE 0
        /\ UNCHANGED lane

(* The worker's first step, and its waking from the pause. *)
Wake(l) ==
    /\ worker[l] = "created" \/ (worker[l] = "pausing" /\ paced = MinInterval)
    /\ Drain(l)
    /\ UNCHANGED <<handed, shape, calls, outcome, gone, home, idle, silence, cancels>>

(* Mutant: only the end of a request counts as an answer. *)
AnsweredAtEnd(l) ==
    /\ silence' = 0
    /\ idle' = [r \in Requests |->
                  IF home[r] = l /\ calls[running[l]] = 1 THEN 0 ELSE idle[r]]

(* The device answered: every clock in the lane starts over. *)
Answered(l) ==
    /\ silence' = 0
    /\ idle' = [r \in Requests |-> IF home[r] = l THEN 0 ELSE idle[r]]

(* A call returns and the request has more of them. *)
NextCall(l) ==
    LET r == running[l] IN
    /\ worker[l] = "calling" /\ calls[r] > 1
    /\ calls' = [calls EXCEPT ![r] = @ - 1]
    /\ Answered(l)
    /\ UNCHANGED <<handed, shape, outcome, gone, lane, home, waiting, worker,
                   running, paced, rested, cancels>>

(* The last call of a request returns; the loop goes on. *)
Finish(l) ==
    LET r == running[l] IN
    /\ worker[l] = "calling" /\ calls[r] = 1
    /\ calls' = [calls EXCEPT ![r] = 0]
    /\ outcome' = [outcome EXCEPT ![r] = "ok"]
    /\ Answered(l)
    /\ Drain(l)
    /\ UNCHANGED <<handed, shape, gone, home, cancels>>

(* A call raises, or its own future was cancelled: the request's other calls *)
(* are not made, the requests behind it are.                                 *)
CallFails(l) ==
    LET r == running[l] IN
    /\ worker[l] = "calling"
    /\ outcome' = [outcome EXCEPT ![r] = "failed"]
    /\ Drain(l)
    /\ UNCHANGED <<handed, shape, calls, gone, home, idle, silence, cancels>>

(* Mutant: cancelling a worker in the middle leaves what waits. *)
CancelWorkerOnly(l) ==
    /\ worker[l] \in {"created", "pausing", "calling"} /\ cancels < MaxCancels
    /\ cancels' = cancels + 1
    /\ worker' = [worker EXCEPT ![l] = "none"]
    /\ running' = [running EXCEPT ![l] = 0]
    /\ outcome' = [r \in Requests |-> IF r = running[l] THEN "cancelled" ELSE outcome[r]]
    /\ UNCHANGED <<handed, shape, calls, gone, lane, home, waiting, paced, idle,
                   silence, rested>>

(* The worker is cancelled.  Before its first step none of _drain() runs and *)
(* the finished task stays in the lane; later all its requests go with it.   *)
CancelWorker(l) ==
    /\ worker[l] \in {"created", "pausing", "calling"} /\ cancels < MaxCancels
    /\ cancels' = cancels + 1
    /\ IF worker[l] = "created"
       THEN /\ worker' = [worker EXCEPT ![l] = "cancelled"]
            /\ UNCHANGED <<outcome, lane, waiting, running>>
       ELSE /\ outcome' = [r \in Requests |-> IF r \in waiting[l] \cup {running[l]}
                                              THEN "cancelled" ELSE outcome[r]]
            /\ waiting' = [waiting EXCEPT ![l] = {}]
            /\ EndWorker(l)
    /\ UNCHANGED <<handed, shape, calls, gone, home, paced, idle, silence, rested>>

(* Mutant: the request is answered but stays in the queue. *)
ExpireInPlace(r) ==
    /\ Waits(r) /\ r \notin gone
    /\ idle[r] = WaitBound
    /\ outcome' = [outcome EXCEPT ![r] = "silent"]
    /\ UNCHANGED <<handed, shape, calls, gone, home, worker, running, paced, idle,
                   silence, rested, cancels, lane, waiting>>

(* Mutant: the lane goes with its last waiting request, worker or not. *)
ExpireDropsLane(r) ==
    LET l == home[r] IN
    /\ Waits(r) /\ r \notin gone /\ idle[r] = WaitBound
    /\ outcome' = [outcome EXCEPT ![r] = "silent"]
    /\ waiting' = [waiting EXCEPT ![l] = @ \ {r}]
    /\ lane' = IF waiting[l] = {r} /\ lane = l THEN 0 ELSE lane
    /\ UNCHANGED <<handed, shape, calls, gone, home, worker, running, paced, idle,
                   silence, rested, cancels>>

(* _outcome(): the wait bound of a request that still waits. *)
Expire(r) ==
    LET l == home[r] IN
    /\ outcome[r] = "pending" /\ Waits(r) /\ r \notin gone
    /\ idle[r] = WaitBound
    /\ outcome' = [outcome EXCEPT ![r] = "silent"]
    /\ waiting' = [waiting EXCEPT ![l] = @ \ {r}]
    /\ lane' = IF waiting[l] = {r} /\ NeedsWorker(l) /\ lane = l THEN 0 ELSE lane
    /\ UNCHANGED <<handed, shape, calls, gone, home, worker, running, paced, idle,
                   silence, rested, cancels>>

(* The caller of run() is cancelled: nobody watches the wait bound any more. *)
CallerGoes(r) ==
    /\ outcome[r] = "pending" /\ r \notin gone /\ Cardinality(gone) < MaxGone
    /\ gone' = gone \cup {r}
    /\ UNCHANGED <<handed, shape, calls, outcome, lane, home, waiting, worker,
                   running, paced, idle, silence, rested, cancels>>

Later(n, bound) == IF n < bound THEN n + 1 ELSE n

Tick ==
    /\ paced' = Later(paced, MinInterval) /\ rested' = Later(rested, MinInterval)
    /\ silence' = Later(silence, WaitBound)
    /\ idle' = [r \in Requests |-> IF Waits(r) THEN Later(idle[r], WaitBound) ELSE idle[r]]
    /\ UNCHANGED <<handed, shape, calls, outcome, gone, lane, home, waiting,
                   worker, running, cancels>>

Next ==
    \/ \E new \in Shapes \cup {Slotless}, n \in 1..MaxCalls : Enqueue(new, n)
    \/ \E l \in Requests : Wake(l) \/ NextCall(l) \/ Finish(l) \/ CallFails(l) \/ CancelWorker(l)
    \/ \E r \in Requests : Expire(r) \/ CallerGoes(r)
    \/ Tick

Spec == Init /\ [][Next]_vars

(* asyncio runs every task that can run, and the bound of a source's call    *)
(* ends each of them.                                                        *)
FairSpec ==
    /\ Spec
    /\ \A l \in Requests : WF_vars(Wake(l)) /\ WF_vars(NextCall(l) \/ Finish(l) \/ CallFails(l))
    /\ \A r \in Requests : WF_vars(Expire(r))
    /\ WF_vars(Tick)

-----------------------------------------------------------------------------
(* The device has one live lane at most, the one _lanes holds, and a queue   *)
(* with requests in it has a task: a lane dropped too early would start a    *)
(* second worker for the device, one kept without a worker strands its queue.*)
OneQueue ==
    /\ \A l \in Requests : waiting[l] # {} \/ ~NeedsWorker(l) => l = lane
    /\ \A l \in Requests : waiting[l] # {} => worker[l] # "none"

(* A request answered with False is answered for by a later one that sets    *)
(* all it would have set and was not replaced itself, and no on, off or      *)
(* toggle that reached the device lies between the two.                      *)
NothingLost ==
    \A r \in Requests : outcome[r] = "replaced" =>
        \E n \in Requests :
            /\ n > r /\ outcome[n] \notin {"unborn", "replaced"}
            /\ shape[n] # Slotless /\ Covers(shape[n], shape[r])
            /\ \A k \in r..n : shape[k] = Slotless => outcome[k] = "silent"

(* What holds in every state of the gate: one lane and a worker for what     *)
(* waits, and no value lost (DeviceGate).                                    *)
GateSafe == TypeOK /\ OneQueue /\ NothingLost

(* A request has one outcome: no second result is ever set on its future,    *)
(* which would raise InvalidStateError in the worker and end it.             *)
OutcomeIsFinal ==
    [][\A r \in Requests : outcome[r] \notin {"unborn", "pending"} => outcome'[r] = outcome[r]]_vars

(* Two value requests start at least MinInterval apart, whichever lanes and  *)
(* workers they come from.                                                   *)
ValuesAreSpaced ==
    [][\A l \in Requests :
         running'[l] \notin {0, running[l]} /\ shape[running'[l]] # Slotless
            => rested = MinInterval]_vars

(* The wait bound only hits requests of a device that has answered no call   *)
(* for that long: a slow device does not fail the requests behind a slow one.*)
SlowIsNotSilent ==
    [][\A r \in Requests : outcome[r] = "pending" /\ outcome'[r] = "silent"
                           => silence = WaitBound]_vars

(* Every request is answered in the end.  Only one whose caller went away    *)
(* can stay behind a worker that was cancelled before its first step.        *)
EveryRequestAnswered ==
    \A r \in Requests :
        outcome[r] = "pending" ~>
            \/ outcome[r] # "pending"
            \/ r \in gone /\ worker[home[r]] = "cancelled"

(* What no step of the gate may do: answer twice, start a value too soon,   *)
(* or take a slow device for a silent one (DeviceGate).                     *)
RequestSteps == OutcomeIsFinal /\ ValuesAreSpaced /\ SlowIsNotSilent

=============================================================================
