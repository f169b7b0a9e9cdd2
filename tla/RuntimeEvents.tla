---------------------------- MODULE RuntimeEvents ----------------------------
(***************************************************************************)
(* loxone/runtime.py, what a virtual input cannot do on its own: an event  *)
(* becomes a pulse (1, and 0 after 200 ms, sent by a task of its own) plus *)
(* a counter; a heartbeat toggles while the link to the mandatory source   *)
(* is up; stop() lowers what is high and cancels the tasks.  The counter   *)
(* is what a resend restores, so one kind of task from the value path is   *)
(* here too: a request inside resend_all().                                *)
(***************************************************************************)
EXTENDS UdpSender, FiniteSets

CONSTANTS
    Sources,      \* device sources, each with its dispatcher task
    Resenders,    \* requests that run resend_all()
    Events,       \* keys of the event signals
    CounterOf,    \* the key e_n of the counter of each event key e
    Owner,        \* which source an event key's device belongs to
    HeartbeatKey, Heartbeater, Stopper,
    CanStop,      \* whether the bridge may shut down in this instance
    MaxEvents,    \* bound: events per key
    MaxFailures   \* bound: sends that raise although the socket is open

Pulses == Events \X (1..MaxEvents)

ASSUME EventsAssumption ==
    /\ Tasks = Sources \cup Resenders \cup Pulses \cup {Heartbeater, Stopper}
    /\ Sources \cap (Resenders \cup Pulses) = {} /\ Resenders \cap Pulses = {}
    /\ Heartbeater # Stopper
    /\ {Heartbeater, Stopper} \cap (Sources \cup Resenders \cup Pulses) = {}
    /\ CounterOf \in [Events -> Keys \ Events] /\ Events \subseteq Keys
    /\ Owner \in [Events -> Sources]
    /\ HeartbeatKey \in Keys \ (Events \cup {CounterOf[e] : e \in Events})
    /\ Values = 0..MaxEvents /\ MaxEvents \in Nat \ {0} /\ MaxFailures \in Nat
    /\ CanStop \in BOOLEAN

VARIABLES
    counters,   \* `_counters`
    cached,     \* `_last_values[e_n]`, 0 before the first
    high,       \* `_pulses_high`
    handler,    \* per source, how far its on_event has come, and for which key
    pulses,     \* the tasks inside _release_pulse
    rest,       \* per resender, the events whose counter is still to be sent
    linkOk,     \* link_ok(): the mandatory source is connected
    beatOn,     \* `_heartbeat_on`
    beating,    \* the heartbeat loop: "asleep", "sending" or "cancelled"
    phase,      \* "running", "lowering" (inside stop()) or "stopped"
    toLower,    \* what stop() has still to lower
    rises,      \* history: rising edges the Miniserver was shown
    failures    \* history: sends that raised

beatVars == <<linkOk, beatOn, beating>>
stopVars == <<phase, toLower>>
eventVars == <<counters, cached, high, handler, pulses, rises>>
vars == <<senderVars, eventVars, rest, beatVars, stopVars, failures>>

NoHandler == [pc |-> "idle", event |-> None]

TypeOK ==
    /\ SenderTypeOK
    /\ counters \in [Events -> Nat]
    /\ cached \in [Events -> Nat]
    /\ high \in SUBSET Events
    /\ handler \in [Sources -> [pc : {"rising", "count", "counting"}, event : Events]
                                 \cup {NoHandler}]
    /\ pulses \in [Pulses -> {"none", "asleep", "lowering"}]
    /\ rest \in [Resenders -> SUBSET Events]
    /\ linkOk \in BOOLEAN /\ beatOn \in BOOLEAN
    /\ beating \in {"asleep", "sending", "cancelled"}
    /\ phase \in {"running", "lowering", "stopped"}
    /\ toLower \in SUBSET Events
    /\ rises \in [Events -> Nat]
    /\ failures \in Nat

Init ==
    /\ SenderInit /\ target
    /\ counters = [e \in Events |-> 0] /\ cached = [e \in Events |-> 0]
    /\ high = {} /\ toLower = {}
    /\ handler = [s \in Sources |-> NoHandler]
    /\ pulses = [p \in Pulses |-> "none"]
    /\ rest = [r \in Resenders |-> {}]
    /\ linkOk = TRUE /\ beatOn = FALSE /\ beating = "asleep"
    /\ phase = "running"
    /\ rises = [e \in Events |-> 0]
    /\ failures = 0

(* on_event: counts before anything is sent, then sends 1; a debounced 1    *)
(* comes back at once and the key counts as high.  With the socket closed   *)
(* send() raises and only the count remains.                                *)
OnEvent(s, e) ==
    /\ handler[s] = NoHandler /\ Owner[e] = s /\ counters[e] < MaxEvents
    /\ counters' = [counters EXCEPT ![e] = @ + 1]
    /\ IF closed THEN UNCHANGED <<senderVars, handler, high>>
       ELSE LET now == Skipped(e, 1, FALSE) IN
            /\ SendCall(s, e, 1, counters'[e], FALSE)
            /\ handler' = [handler EXCEPT ![s] =
                              [pc |-> IF now THEN "count" ELSE "rising", event |-> e]]
            /\ high' = IF now THEN high \cup {e} ELSE high
    /\ UNCHANGED <<cached, pulses, rises, rest, beatVars, stopVars, failures>>

(* The 1 was sent: the key counts as high. *)
Rose(s) ==
    LET e == handler[s].event IN
    /\ handler[s].pc = "rising" /\ SendTo(s)
    /\ high' = high \cup {e}
    /\ rises' = [rises EXCEPT ![e] = IF wire[e] # 1 /\ wire'[e] = 1 THEN @ + 1 ELSE @]
    /\ handler' = [handler EXCEPT ![s].pc = "count"]
    /\ UNCHANGED <<counters, cached, pulses, rest, beatVars, stopVars, failures>>

(* ... and its counter is sent as it is now. *)
SendCount(s) ==
    LET e == handler[s].event IN
    /\ handler[s].pc = "count"
    /\ IF closed
       THEN handler' = [handler EXCEPT ![s] = NoHandler] /\ UNCHANGED senderVars
       ELSE /\ SendCall(s, CounterOf[e], counters[e], counters[e], FALSE)
            /\ handler' = [handler EXCEPT ![s].pc = "counting"]
    /\ UNCHANGED <<counters, cached, high, pulses, rises, rest, beatVars, stopVars, failures>>

(* Mutant: only the first event of a key gets a task that lowers it. *)
CountedReleasesOnce(s) ==
    LET e == handler[s].event IN
    /\ handler[s].pc = "counting" /\ SendTo(s)
    /\ cached' = [cached EXCEPT ![e] = counters[e]]
    /\ pulses' = IF counters[e] > 1 THEN pulses
                 ELSE [pulses EXCEPT ![<<e, counters[e]>>] = "asleep"]
    /\ handler' = [handler EXCEPT ![s] = NoHandler]
    /\ UNCHANGED <<counters, high, rises, rest, beatVars, stopVars, failures>>

(* Only then the counter is cached, and the task that will lower the pulse *)
(* is created.                                                             *)
Counted(s) ==
    LET e == handler[s].event IN
    /\ handler[s].pc = "counting" /\ SendTo(s)
    /\ cached' = [cached EXCEPT ![e] = counters[e]]
    /\ pulses' = [pulses EXCEPT ![<<e, counters[e]>>] = "asleep"]
    /\ handler' = [handler EXCEPT ![s] = NoHandler]
    /\ UNCHANGED <<counters, high, rises, rest, beatVars, stopVars, failures>>

(* Mutant: the key stops counting as high before its 0 is sent. *)
ReleaseForgetsFirst(p) ==
    /\ pulses[p] = "asleep" /\ ~closed
    /\ SendCall(p, p[1], 0, 0, FALSE)
    /\ high' = high \ {p[1]}
    /\ pulses' = [pulses EXCEPT ![p] = "lowering"]
    /\ UNCHANGED <<counters, cached, handler, rises, rest, beatVars, stopVars, failures>>

(* _release_pulse wakes up after 200 ms and sends 0; when the key is down *)
(* already, send() comes back at once.                                    *)
Release(p) ==
    /\ pulses[p] = "asleep"
    /\ IF closed THEN pulses' = [pulses EXCEPT ![p] = "none"] /\ UNCHANGED <<senderVars, high>>
       ELSE LET now == Skipped(p[1], 0, FALSE) IN
            /\ SendCall(p, p[1], 0, 0, FALSE)
            /\ pulses' = [pulses EXCEPT ![p] = IF now THEN "none" ELSE "lowering"]
            /\ high' = IF now THEN high \ {p[1]} ELSE high
    /\ UNCHANGED <<counters, cached, handler, rises, rest, beatVars, stopVars, failures>>

Lowered(p) ==
    /\ pulses[p] = "lowering" /\ SendTo(p)
    /\ high' = high \ {p[1]}
    /\ pulses' = [pulses EXCEPT ![p] = "none"]
    /\ UNCHANGED <<counters, cached, handler, rises, rest, beatVars, stopVars, failures>>

(* resend_all, as far as the counters go: every cached key, each read when *)
(* its turn comes.                                                         *)
ResendAll(r) ==
    /\ rest[r] = {} /\ ~Waiting(r)
    /\ rest' = [rest EXCEPT ![r] = {e \in Events : cached[e] > 0}]
    /\ UNCHANGED <<senderVars, eventVars, beatVars, stopVars, failures>>

ResendNext(r) ==
    /\ ~Waiting(r)
    /\ \E e \in rest[r] :
         IF closed THEN rest' = [rest EXCEPT ![r] = {}] /\ UNCHANGED senderVars
         ELSE /\ SendCall(r, CounterOf[e], cached[e], cached[e], TRUE)
              /\ rest' = [rest EXCEPT ![r] = @ \ {e}]
    /\ UNCHANGED <<eventVars, beatVars, stopVars, failures>>

Resent(r) == SendTo(r) /\ UNCHANGED <<eventVars, rest, beatVars, stopVars, failures>>

(* Mutant: the phase advances on every turn of the loop. *)
BeatAlwaysToggles ==
    /\ beating = "asleep" /\ ~closed
    /\ beatOn' = ~beatOn
    /\ IF linkOk
       THEN /\ SendCall(Heartbeater, HeartbeatKey, IF beatOn' THEN 1 ELSE 0, 0, TRUE)
            /\ beating' = "sending"
       ELSE UNCHANGED <<senderVars, beating>>
    /\ UNCHANGED <<linkOk, eventVars, rest, stopVars, failures>>

(* One turn of _heartbeat_loop: only with the link up does the phase *)
(* advance.  With the socket closed send() raises and is logged.     *)
Beat ==
    /\ beating = "asleep" /\ linkOk
    /\ beatOn' = ~beatOn
    /\ IF closed THEN UNCHANGED <<senderVars, beating>>
       ELSE /\ SendCall(Heartbeater, HeartbeatKey, IF beatOn' THEN 1 ELSE 0, 0, TRUE)
            /\ beating' = "sending"
    /\ UNCHANGED <<linkOk, eventVars, rest, stopVars, failures>>

BeatSent ==
    /\ beating = "sending" /\ SendTo(Heartbeater)
    /\ beating' = "asleep"
    /\ UNCHANGED <<linkOk, beatOn, eventVars, rest, stopVars, failures>>

LinkChanges ==
    /\ linkOk' = ~linkOk
    /\ UNCHANGED <<senderVars, eventVars, rest, beatOn, beating, stopVars, failures>>

(* Mutant: the handler's phase is reset, its key is not. *)
SendFailsKeepsEvent(t) ==
    /\ SendRaises(t)
    /\ closed \/ failures < MaxFailures
    /\ failures' = IF closed THEN failures ELSE failures + 1
    /\ handler' = [s \in Sources |-> IF s = t THEN [handler[s] EXCEPT !.pc = "idle"] ELSE handler[s]]
    /\ UNCHANGED <<counters, cached, high, pulses, rises, rest, beatVars, stopVars>>

(* A send raises: on_event is over wherever it was, a release dies without *)
(* a trace, the heartbeat goes on, stop() skips to its cleanup.            *)
SendFails(t) ==
    /\ SendRaises(t)
    /\ IF closed THEN UNCHANGED failures
                 ELSE failures < MaxFailures /\ failures' = failures + 1
    /\ handler' = [s \in Sources |-> IF s = t THEN NoHandler ELSE handler[s]]
    /\ pulses' = [p \in Pulses |-> IF p = t THEN "none" ELSE pulses[p]]
    /\ rest' = [r \in Resenders |-> IF r = t THEN {} ELSE rest[r]]
    /\ beating' = IF t = Heartbeater THEN "asleep" ELSE beating
    /\ toLower' = IF t = Stopper THEN {} ELSE toLower
    /\ UNCHANGED <<counters, cached, high, rises, linkOk, beatOn, phase>>

(* stop() cancels the heartbeat and the pulse tasks it knows of: they leave *)
(* the line, and the others keep their order in it.                        *)
Cleanup ==
    /\ phase' = "stopped" /\ high' = {}
    /\ beating' = "cancelled"
    /\ pulses' = [p \in Pulses |-> "none"]
    /\ LET stay == {i \in 1..Len(line) : line[i].task \notin Pulses \cup {Heartbeater}} IN
       \E kept \in [1..Cardinality(stay) -> stay] :
          /\ \A i, j \in 1..Cardinality(stay) : i < j => kept[i] < kept[j]
          /\ line' = [i \in 1..Cardinality(stay) |-> line[kept[i]]]
    /\ UNCHANGED <<target, closed, lastSent, wire, shown, counters, cached, handler,
                   rises, rest, linkOk, beatOn, failures>>

(* First it lowers what is high now, if anything is. *)
Stop ==
    /\ CanStop /\ phase = "running"
    /\ toLower' = high
    /\ IF high = {} THEN Cleanup
       ELSE phase' = "lowering" /\ UNCHANGED <<senderVars, eventVars, rest, beatVars, failures>>

LowerNext ==
    /\ phase = "lowering" /\ ~Waiting(Stopper)
    /\ \E e \in toLower :
         /\ SendCall(Stopper, e, 0, 0, FALSE)
         /\ toLower' = toLower \ {e}
    /\ UNCHANGED <<eventVars, rest, beatVars, phase, failures>>

LowerSent == SendTo(Stopper) /\ UNCHANGED <<eventVars, rest, beatVars, stopVars, failures>>

CancelTasks ==
    /\ phase = "lowering" /\ toLower = {} /\ ~Waiting(Stopper)
    /\ Cleanup /\ UNCHANGED toLower

(* Then the sender is closed, while the dispatchers still deliver. *)
BeginClose ==
    /\ phase = "stopped" /\ CloseCall
    /\ UNCHANGED <<eventVars, rest, beatVars, stopVars, failures>>

FinishClose == CloseSocket /\ UNCHANGED <<eventVars, rest, beatVars, stopVars, failures>>

Handling(s) == Rose(s) \/ SendCount(s) \/ Counted(s)
Pulsing(p) == Release(p) \/ Lowered(p)
Resending(r) == ResendNext(r) \/ Resent(r)
Stopping == LowerNext \/ LowerSent \/ CancelTasks

Next ==
    \/ \E s \in Sources, e \in Events : OnEvent(s, e)
    \/ \E s \in Sources : Handling(s)
    \/ \E p \in Pulses : Pulsing(p)
    \/ \E r \in Resenders : ResendAll(r) \/ Resending(r)
    \/ Beat \/ BeatSent \/ LinkChanges
    \/ \E t \in Tasks : SendFails(t)
    \/ Stop \/ Stopping \/ BeginClose \/ FinishClose

Spec == Init /\ [][Next]_vars

(* The event loop runs every task that can go on; timers expire. *)
Fairness ==
    /\ \A s \in Sources : WF_vars(Handling(s))
    /\ \A p \in Pulses : WF_vars(Pulsing(p))
    /\ \A r \in Resenders : WF_vars(Resending(r))
    /\ WF_vars(BeatSent) /\ WF_vars(Stopping) /\ WF_vars(FinishClose)

FairSpec == Spec /\ Fairness
-----------------------------------------------------------------------------
(* What stop() lowers is what is high: a key whose last datagram is 1 is in *)
(* `_pulses_high` until stop() has begun, whatever pulses overlap and       *)
(* whatever send fails.                                                     *)
HighIsTracked ==
    phase = "running" => \A e \in Events : wire[e] = 1 => e \in high

(* Every state of the event path is a sane one, and nothing is high behind *)
(* stop()'s back (runtime.py).                                             *)
EventsSafe == TypeOK /\ HighIsTracked

(* The watchdog never swallows a beat: as long as no send fails, two      *)
(* heartbeat datagrams in a row differ, also across an outage of the link *)
(* (runtime.py:684).                                                      *)
HeartbeatAlternates ==
    [][BeatSent /\ failures = 0 => wire'[HeartbeatKey] # wire[HeartbeatKey]]_vars

(* No pulse sticks: while the bridge runs and no send fails, a key that is *)
(* 1 at the Miniserver becomes 0 again.                                    *)
PulseFalls ==
    \A e \in Events : wire[e] = 1 ~> wire[e] = 0 \/ phase # "running" \/ failures > 0

(* "Every event becomes a pulse that produces an edge" (runtime.py:22).    *)
EveryEventAnEdge ==
    phase = "running" /\ failures = 0 /\ line = <<>>
      /\ (\A s \in Sources : handler[s] = NoHandler) /\ (\A p \in Pulses : pulses[p] = "none")
        => rises = counters

(* "plus a monotonic counter" (runtime.py:22): what the Miniserver sees of *)
(* a counter never goes back.                                              *)
CounterNeverGoesBack ==
    [][\A e \in Events : wire[CounterOf[e]] # None => wire'[CounterOf[e]] >= wire[CounterOf[e]]]_vars

(* "Lower every currently high pulse BEFORE cancelling the corresponding    *)
(* tasks - otherwise ... the signal stays stuck on 1 until the next event"  *)
(* (runtime.py:622): once the bridge has stopped, no pulse is left at 1.    *)
NothingLeftHigh ==
    closed /\ failures = 0 => \A e \in Events : wire[e] # 1
=============================================================================
