------------------------- MODULE CommissioningAttempt -------------------------
(***************************************************************************)
(* One commissioning (commissioning/run.py) and the tracker that tells the *)
(* pages how far it is (matter/commissioning_progress.py).  Requests of    *)
(* the route, the queue of cards and the move from Home Assistant may be   *)
(* under way at once: each has its own attempt, with a task that samples   *)
(* BlueZ beside the call to matter-server, and the tracker shows the one   *)
(* that began last.  What the tracker is told carries the attempt's token. *)
(***************************************************************************)
EXTENDS Naturals, FiniteSets

CONSTANTS
    Attempts,   \* the requests, and the tokens of their attempts
    NoAttempt,
    NoReason,
    OthersAdd   \* whether another user of matter-server adds nodes

Reasons == {"no_thread_network", "connection_lost", "not_found", "other", "matter_server_unreachable"}

ASSUME AttemptAssumption ==
    NoAttempt \notin Attempts /\ OthersAdd \in BOOLEAN /\ NoReason \notin Reasons

VARIABLES
    request,   \* per request: how far `commission` is, and its answer
    attempt,   \* per request: its `_Attempt`
    shown,     \* whose attempt the tracker holds
    sampler,   \* per request: its task `sample_while_waiting`
    own,       \* history: what a request's own device was seen to do
    alone,     \* history: requests during which no other was under way
    misjudged  \* history: requests answered with a reason that is not their own

attemptVars == <<request, attempt, shown, sampler, own, alone, misjudged>>

EndPhases == {"done", "failed"}
PhaseOrder == [searching |-> 0, found |-> 1, connected |-> 2, joined |-> 3]

NewAttempt(known) ==
    [phase |-> "searching", reason |-> NoReason, known |-> known,
     matched |-> FALSE, scanned |-> FALSE, stuck |-> "no"]

NewRequest == [at |-> "waits", known |-> FALSE, missing |-> FALSE, answer |-> NoReason]

AttemptInit ==
    /\ request = [a \in Attempts |-> NewRequest]
    /\ attempt = [a \in Attempts |-> NewAttempt(FALSE)]
    /\ shown = NoAttempt /\ sampler = [a \in Attempts |-> "off"]
    /\ own = [a \in Attempts |-> {}] /\ alone = {} /\ misjudged = {}

-----------------------------------------------------------------------------
(* The tracker. *)

\* _advance: only forward, and never out of an ended attempt.
Advanced(t, phase) ==
    IF t.phase \in EndPhases \/ PhaseOrder[phase] <= PhaseOrder[t.phase] THEN t
    ELSE [t EXCEPT !.phase = phase]

\* finish: what ended first stays.
Finished(t, reason) ==
    IF t.phase \in EndPhases THEN t
    ELSE [t EXCEPT !.reason = reason, !.phase = IF reason = NoReason THEN "done" ELSE "failed"]

\* Mutant: the token is not looked at.
FinishTold(a, reason) == attempt' = [attempt EXCEPT ![shown] = Finished(@, reason)]

\* A finish with a stale token does nothing.
Finish(a, reason) ==
    attempt' = IF shown = a THEN [attempt EXCEPT ![a] = Finished(@, reason)] ELSE attempt

\* Mutant: an adapter that never scanned is called stuck, too.
StuckSeenAlways(t, adapter, long) ==
    [t EXCEPT !.stuck = IF adapter = "idle" THEN (IF long THEN "now" ELSE "since") ELSE "no"]

\* _update_stuck: an adapter that has scanned during this search and has
\* stopped, for longer than `stuck_after`.
StuckSeen(t, adapter, long) ==
    LET scanned == t.scanned \/ adapter = "scans"
        idle    == t.phase = "searching" /\ t.known /\ scanned /\ adapter = "idle"
    IN [t EXCEPT !.scanned = scanned,
                 !.stuck = IF ~idle THEN "no"
                           ELSE IF @ = "no" \/ (@ = "since" /\ ~long) THEN "since" ELSE "now"]

\* The rest of sample, after its awaits: what it saw goes into the attempt it
\* began with, and the phase into the attempt that is shown by now.
Sampled(a, near, linked, adapter, long) ==
    LET matching == attempt[a].known /\ near
        first    == matching /\ ~attempt[a].matched
        noted    == [attempt EXCEPT ![a].matched = @ \/ matching]
        told     == [noted EXCEPT ![shown] =
                       Advanced(Advanced(@, IF first THEN "found" ELSE "searching"),
                                IF matching /\ linked THEN "connected" ELSE "searching")]
    IN [told EXCEPT ![a] = StuckSeen(@, adapter, long)]

\* An attempt that is over, or no longer shown, is not sampled.
SampleBegins(a) ==
    /\ sampler[a] = "sleeps" /\ shown = a /\ attempt[a].phase \notin EndPhases
    /\ sampler' = [sampler EXCEPT ![a] = "asks"]
    /\ UNCHANGED <<request, attempt, shown, own, alone, misjudged>>

SampleAnswered(a) ==
    /\ sampler[a] = "asks" /\ sampler' = [sampler EXCEPT ![a] = "sleeps"]
    /\ \E near, linked, long \in BOOLEAN, adapter \in {"none", "scans", "idle"} :
         /\ linked => near
         /\ attempt' = Sampled(a, near, linked, adapter, long)
         /\ own' = [own EXCEPT ![a] = @ \cup
                      (IF request[a].known /\ near THEN {"found"} ELSE {}) \cup
                      (IF request[a].known /\ linked THEN {"connected"} ELSE {})]
    /\ UNCHANGED <<request, shown, alone, misjudged>>

\* BlueZ is not there, or raised: the task goes on.
SampleFails(a) ==
    /\ sampler[a] = "asks" /\ sampler' = [sampler EXCEPT ![a] = "sleeps"]
    /\ UNCHANGED <<request, attempt, shown, own, alone, misjudged>>

-----------------------------------------------------------------------------
(* A request. *)

At(a, step) == request[a].at = step
Commissioning == {a \in Attempts : At(a, "commissions")}
UnderWay == Commissioning \cup {a \in Attempts : At(a, "registers")}

\* tracker.start, the listener, the sampling task and the call, in one step.
\* The attempts of requests that are over are forgotten.
Begins(a, req) ==
    /\ request' = [request EXCEPT ![a] = [req EXCEPT !.at = "commissions"]]
    /\ attempt' = [b \in Attempts |-> IF b \in UnderWay THEN attempt[b]
                                     ELSE NewAttempt(b = a /\ req.known)]
    /\ shown' = a
    /\ sampler' = [sampler EXCEPT ![a] = "sleeps"]
    /\ alone' = (alone \ UnderWay) \cup (IF Commissioning = {} THEN {a} ELSE {})
    /\ UNCHANGED <<own, misjudged>>

NotBegun == UNCHANGED <<attempt, shown, sampler, own, alone, misjudged>>
GoesTo(a, req, step) == request' = [request EXCEPT ![a] = [req EXCEPT !.at = step]] /\ NotBegun
Answer(a, reason) ==
    request' = [request EXCEPT ![a] = [NewRequest EXCEPT !.at = "answered", !.answer = reason]]
Refused(a, reason) == Answer(a, reason) /\ NotBegun

\* A dataset the user entered comes first; without one, the dataset that
\* matter-server has (`thread_dataset_set`) will do, or the border router is
\* asked for it.
Requested(a) ==
    /\ At(a, "waits")
    /\ \E known, dataset \in BOOLEAN, entered \in {"none", "good", "bad"} :
         LET req == [request[a] EXCEPT !.known = known]
         IN \/ entered = "bad"  /\ Refused(a, "other")
            \/ entered = "good" /\ GoesTo(a, req, "hands")
            \/ entered = "none" /\ dataset  /\ Begins(a, req)
            \/ entered = "none" /\ ~dataset /\ GoesTo(a, req, "fetches")

\* Without a dataset it goes on, and remembers why it had none.
Fetched(a) ==
    /\ At(a, "fetches")
    /\ GoesTo(a, request[a], "hands") \/ Begins(a, [request[a] EXCEPT !.missing = TRUE])

HandedOver(a) == At(a, "hands") /\ Begins(a, request[a])
HandOverFails(a) ==
    /\ At(a, "hands")
    /\ Refused(a, "matter_server_unreachable") \/ Refused(a, "other")

\* NODE_ADDED: every listener is called, with the token of its own request.
Announced ==
    attempt' = IF shown \in Commissioning
               THEN [attempt EXCEPT ![shown] = Advanced(@, "joined")] ELSE attempt

NodeAdded(a) ==
    /\ At(a, "commissions") /\ "joined" \notin own[a] /\ Announced
    /\ own' = [own EXCEPT ![a] = @ \cup {"joined"}]
    /\ UNCHANGED <<request, shown, sampler, alone, misjudged>>

\* A node that another user of matter-server brought in.
StrangerAdded ==
    /\ OthersAdd /\ shown \in Commissioning /\ Announced /\ alone' = alone \ {shown}
    /\ UNCHANGED <<request, shown, sampler, own, misjudged>>

\* classify_failure; a request whose attempt is not shown any more has
\* nothing to go by.
Classify(text, reached, known, matched) ==
    IF text = "lost" \/ reached \in {"found", "connected"} THEN "connection_lost"
    ELSE IF text = "not_found" \/ (reached = "searching" /\ known /\ ~matched) THEN "not_found"
    ELSE "other"

ReasonOf(a, text) ==
    IF request[a].missing THEN "no_thread_network"
    ELSE Classify(text, IF shown = a THEN attempt[a].phase ELSE "searching", request[a].known,
                  shown = a /\ attempt[a].matched)

\* What the request's own device was seen to do.
OwnReached(a) ==
    IF "joined" \in own[a] THEN "joined"
    ELSE IF "connected" \in own[a] THEN "connected"
    ELSE IF "found" \in own[a] THEN "found" ELSE "searching"
OwnReason(a, text) ==
    IF request[a].missing THEN "no_thread_network"
    ELSE Classify(text, OwnReached(a), request[a].known, "found" \in own[a])

\* The attempt is finished, the task cancelled and the listener removed.
FailsWith(a, reason) ==
    /\ Finish(a, reason) /\ sampler' = [sampler EXCEPT ![a] = "off"]
    /\ Answer(a, reason) /\ own' = [own EXCEPT ![a] = {}]
    /\ UNCHANGED <<shown, alone>>

Rejected(a) ==
    /\ At(a, "commissions")
    /\ \E text \in {"lost", "not_found", "plain"} :
         /\ FailsWith(a, ReasonOf(a, text))
         /\ misjudged' = IF ReasonOf(a, text) = OwnReason(a, text) THEN misjudged
                         ELSE misjudged \cup {a}

\* matter-server is gone, or something nobody expected.
CallBreaks(a) ==
    /\ At(a, "commissions") /\ UNCHANGED misjudged
    /\ FailsWith(a, "matter_server_unreachable") \/ FailsWith(a, "other")

NodeCommissioned(a) ==
    /\ At(a, "commissions") /\ request' = [request EXCEPT ![a].at = "registers"]
    /\ sampler' = [sampler EXCEPT ![a] = "off"]
    /\ UNCHANGED <<attempt, shown, own, alone, misjudged>>

\* Mutant: an error of the registration leaves the attempt as it is.
RegisteredUnguarded(a) ==
    /\ At(a, "registers") /\ own' = [own EXCEPT ![a] = {}]
    /\ \/ /\ Answer(a, "done")
          /\ Finish(a, NoReason)
       \/ /\ Answer(a, "other")
          /\ UNCHANGED attempt
    /\ UNCHANGED <<shown, sampler, alone, misjudged>>

\* register_node returns, or raises before the device is stored.
Registered(a) ==
    /\ At(a, "registers") /\ own' = [own EXCEPT ![a] = {}]
    /\ \/ /\ Answer(a, "done")
          /\ Finish(a, NoReason)
       \/ /\ Answer(a, "other")
          /\ Finish(a, "other")
    /\ UNCHANGED <<shown, sampler, alone, misjudged>>

AttemptNext ==
    \/ StrangerAdded
    \/ \E a \in Attempts :
         \/ SampleBegins(a) \/ SampleAnswered(a) \/ SampleFails(a)
         \/ Requested(a) \/ Fetched(a) \/ HandedOver(a) \/ HandOverFails(a)
         \/ NodeAdded(a) \/ Rejected(a) \/ CallBreaks(a) \/ NodeCommissioned(a) \/ Registered(a)

AttemptSpec == AttemptInit /\ [][AttemptNext]_attemptVars

-----------------------------------------------------------------------------
(* Correctness. *)

AttemptTypeOK ==
    /\ shown \in Attempts \cup {NoAttempt} /\ alone \subseteq Attempts
    /\ \A a \in Attempts : /\ attempt[a].phase \in DOMAIN PhaseOrder \cup EndPhases
                           /\ sampler[a] # "off" <=> At(a, "commissions")

\* The page shows what the request was answered (run.py:270): an attempt that
\* is shown ends with its request, in success or with the same reason.
AnswerIsShown ==
    shown # NoAttempt /\ At(shown, "answered") =>
       IF request[shown].answer = "done"
       THEN attempt[shown].phase = "done" /\ attempt[shown].reason = NoReason
       ELSE attempt[shown].phase = "failed" /\ attempt[shown].reason = request[shown].answer

\* A phase is what happened to the attempt's own device
\* (commissioning_progress.py:250).
PhaseIsOwnOf(a) == At(a, "commissions") => attempt[a].phase = OwnReached(a)

\* A failure without a text that says why is named after what the request's
\* own device did (commissioning_progress.py:200).
AloneIsOwn == alone \cap misjudged = {} /\ \A a \in alone : PhaseIsOwnOf(a)

\* Bluetooth is called stuck only while the device was not found by a search
\* that had begun (commissioning_progress.py:313).
StuckIsNotFound ==
    shown # NoAttempt /\ attempt[shown].stuck = "now" =>
       attempt[shown].known /\ attempt[shown].scanned /\ own[shown] \subseteq {"joined"}

\* The tracker tells what happened to the attempt it shows, as long as one is
\* under way, and ends with it always (matter/commissioning_progress.py).
AttemptSafe == AttemptTypeOK /\ AnswerIsShown /\ AloneIsOwn /\ StuckIsNotFound

\* The same with several under way, which the code does not keep: the reason ...
ReasonIsOwn == misjudged = {}
\* ... and the phase (run.py:218).
PhaseIsOwn == \A a \in Attempts : shown = a => PhaseIsOwnOf(a)
=============================================================================
