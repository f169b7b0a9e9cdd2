------------------------------- MODULE Identify -------------------------------
(***************************************************************************)
(* commissioning/identify.py, and its callers in commissioning/session.py  *)
(* and api/devices.py: one coordinator makes devices blink, one at a time, *)
(* under a lock that its callers take in turn.  A blink runs out on the    *)
(* device by itself; a task of the coordinator renews it or, for a short   *)
(* blink, notes its end, without the lock.  The callers are the worker,    *)
(* which has commissioned a device, the naming line, whose turns end one   *)
(* after the other, and the user's clicks on a card or a tile.             *)
(*                                                                         *)
(* Time goes in ticks of RENEW_EVERY, which is also the bound of a call to *)
(* a source: a call is answered in the tick it is made, or fails in that   *)
(* tick or the next one.                                                   *)
(***************************************************************************)
EXTENDS Naturals, Sequences, FiniteSets, SequencesExt

CONSTANTS
    Blinkers,        \* the devices that are commissioned
    Nobody,
    BlinkTicks,      \* IDENTIFY_SECONDS in ticks, RENEW_EVERY is a third of it;
                     \* a check blink takes one
    MaxBlinkFaults,  \* bound: calls to a source that fail
    MaxPresses       \* bound: clicks

ASSUME IdentifyAssumption ==
    /\ Nobody \notin Blinkers /\ BlinkTicks \in Nat /\ BlinkTicks >= 3
    /\ MaxBlinkFaults \in Nat /\ MaxPresses \in Nat

VARIABLES
    coord,       \* `_blinking`, `_task` (keeper), and who has or awaits `_lock`
    litFor,      \* the ticks until `_lit_until`
    line,        \* `_naming`: devices that wait for a name
    leaving,     \* `_naming_calls`: the turns that have ended, in order
    coming,      \* devices that are still to be commissioned
    glow,        \* per device, the ticks for which it blinks on
    unanswered,  \* history: renewals in a row without an answer
    stray,       \* history: blinking devices of which the coordinator was not told
    missed,      \* history: devices whose turn ended while they were being started
    away,        \* history: a click, a failure or a late stop took the blink
                 \* from the front
    blinkFaults, presses

identifyVars == <<coord, litFor, line, leaving, coming, glow, unanswered, stray, missed, away,
                  blinkFaults, presses>>

NoKeeper == [dev |-> Nobody, renews |-> FALSE, left |-> 0, at |-> "none", took |-> FALSE, late |-> FALSE]
BlinkCall(op, d, renews, by) ==
    [op |-> op, dev |-> d, renews |-> renews, by |-> by, at |-> "waits", last |-> Nobody, late |-> FALSE]
Length(call) == IF call.op = "idle" THEN 1 ELSE BlinkTicks

IdentifyInit ==
    /\ coord = [blinking |-> Nobody, keeper |-> NoKeeper, calls |-> <<>>]
    /\ litFor = 0 /\ line = <<>> /\ leaving = <<>> /\ coming = Blinkers
    /\ glow = [d \in Blinkers |-> 0] /\ unanswered = 0 /\ stray = {} /\ missed = {}
    /\ away = FALSE /\ blinkFaults = 0 /\ presses = 0

-----------------------------------------------------------------------------
(* The lock. *)

\* Mutant: start_if_idle does not look whether another one blinks.
NothingToDoStop(c, call) == call.op = "stop" /\ c.blinking = Nobody

\* A stop of nothing, and a check blink that would interrupt another one.
NothingToDo(c, call) ==
    \/ call.op = "stop" /\ c.blinking = Nobody
    \/ call.op = "idle" /\ c.blinking # Nobody

\* Mutant: the keeper of the last blink is not cancelled.
BegunKeeping(c) ==
    LET call == Head(c.calls)
        at == IF c.blinking \notin {Nobody, call.dev} THEN "stops" ELSE "lights"
    IN [c EXCEPT !.blinking = Nobody, !.calls[1].at = at, !.calls[1].last = c.blinking]

\* _start_locked and _stop_locked up to their first call to a source: the
\* keeper is cancelled, and the blinking device is told to stop unless it is
\* the one to start.
Begun(c) ==
    LET call == Head(c.calls)
        at == IF c.blinking \notin {Nobody, call.dev} THEN "stops" ELSE "lights"
    IN [blinking |-> Nobody, keeper |-> NoKeeper,
        calls |-> [c.calls EXCEPT ![1].at = at, ![1].last = c.blinking]]

\* A caller that finds the lock free goes on at once.
Entered(c, call) ==
    IF c.calls # <<>> THEN [c EXCEPT !.calls = Append(@, call)]
    ELSE IF NothingToDo(c, call) THEN c
    ELSE Begun([c EXCEPT !.calls = <<call>>])

InCalls(by) == \E i \in DOMAIN coord.calls : coord.calls[i].by = by
First == Head(coord.calls)
Stage(at) == coord.calls # <<>> /\ First.at = at

\* The call of the lock's holder returns, and its caller goes on: the naming
\* line starts the next one after it has stopped the last.
Returns(c) ==
    LET rest == [c EXCEPT !.calls = Tail(@)]
    IN IF First.by = "stopper" /\ Head(leaving).first /\ line # <<>>
       THEN /\ coord' = Entered(rest, BlinkCall("start", Head(line), TRUE, "starter"))
            /\ UNCHANGED leaving
       ELSE /\ coord' = rest
            /\ leaving' = IF First.by \in {"stopper", "starter"} THEN Tail(leaving) ELSE leaving

\* The holder has told the device that blinked to stop.
Stopped ==
    IF First.op = "stop" THEN Returns(coord)
    ELSE coord' = [coord EXCEPT !.calls[1].at = "lights", !.calls[1].late = FALSE] /\ UNCHANGED leaving

LockTurn ==
    /\ Stage("waits")
    /\ IF NothingToDo(coord, First) THEN Returns(coord) ELSE coord' = Begun(coord) /\ UNCHANGED leaving
    /\ UNCHANGED <<litFor, line, coming, glow, unanswered, stray, missed, away, blinkFaults, presses>>

StopAnswered ==
    /\ Stage("stops") /\ ~First.late
    /\ glow' = [glow EXCEPT ![First.last] = 0] /\ stray' = stray \ {First.last}
    /\ Stopped
    /\ UNCHANGED <<litFor, line, coming, unanswered, missed, away, blinkFaults, presses>>

\* "The device stops by itself within 30 s."
StopFails ==
    /\ Stage("stops") /\ blinkFaults < MaxBlinkFaults /\ blinkFaults' = blinkFaults + 1
    /\ stray' = IF glow[First.last] > 0 THEN stray \cup {First.last} ELSE stray
    /\ Stopped
    /\ UNCHANGED <<litFor, line, coming, glow, unanswered, missed, away, presses>>

LightAnswered ==
    /\ Stage("lights") /\ ~First.late
    /\ LET n == Length(First)
           left == IF First.renews THEN 1 ELSE n
       IN /\ glow' = [glow EXCEPT ![First.dev] = n] /\ litFor' = n
          /\ Returns([coord EXCEPT !.blinking = First.dev,
                        !.keeper = [NoKeeper EXCEPT !.dev = First.dev, !.at = "sleeps",
                                                    !.renews = First.renews, !.left = left]])
    /\ unanswered' = 0 /\ stray' = stray \ {First.dev}
    /\ UNCHANGED <<line, coming, missed, away, blinkFaults, presses>>

\* No answer, or no source for the device: it may have taken the call.
LightFails ==
    /\ Stage("lights") /\ blinkFaults < MaxBlinkFaults /\ blinkFaults' = blinkFaults + 1
    /\ glow' \in {glow, [glow EXCEPT ![First.dev] = Length(First)]}
    /\ stray' = IF glow'[First.dev] > 0 THEN stray \cup {First.dev} ELSE stray
    /\ away' = TRUE /\ Returns(coord)
    /\ UNCHANGED <<litFor, line, coming, unanswered, missed, presses>>

-----------------------------------------------------------------------------
(* The keeper of a blink. *)

KeeperSets(f) == coord' = [coord EXCEPT !.keeper = f]

\* The next renewal is due a tick after this one, whenever this one returns.
RenewalSent(k, took) == [k EXCEPT !.at = "calls", !.left = 1, !.took = took]
\* Mutant: the next renewal is due a tick after this one has returned.
RenewalOverLater(k) == [k EXCEPT !.at = "sleeps", !.late = FALSE, !.left = 1]
RenewalOver(k) == [k EXCEPT !.at = "sleeps", !.late = FALSE]

KeeperRenews ==
    /\ coord.keeper.at = "sleeps" /\ coord.keeper.renews /\ coord.keeper.left = 0
    /\ \E took \in BOOLEAN :
         /\ KeeperSets(RenewalSent(coord.keeper, took))
         /\ glow' = IF took THEN [glow EXCEPT ![coord.keeper.dev] = BlinkTicks] ELSE glow
    /\ unanswered' = unanswered + 1
    /\ UNCHANGED <<litFor, line, leaving, coming, stray, missed, away, blinkFaults, presses>>

RenewalAnswered ==
    /\ coord.keeper.at = "calls" /\ coord.keeper.took /\ ~coord.keeper.late
    /\ KeeperSets(RenewalOver(coord.keeper)) /\ litFor' = BlinkTicks /\ unanswered' = 0
    /\ UNCHANGED <<line, leaving, coming, glow, stray, missed, away, blinkFaults, presses>>

RenewalFails ==
    /\ coord.keeper.at = "calls" /\ blinkFaults < MaxBlinkFaults /\ blinkFaults' = blinkFaults + 1
    /\ KeeperSets(RenewalOver(coord.keeper))
    /\ UNCHANGED <<litFor, line, leaving, coming, glow, unanswered, stray, missed, away, presses>>

\* A blink that is not renewed is over.
KeeperEnds ==
    /\ coord.keeper.at = "sleeps" /\ ~coord.keeper.renews /\ coord.keeper.left = 0
    /\ coord' = [coord EXCEPT !.keeper = NoKeeper,
                   !.blinking = IF @ = coord.keeper.dev THEN Nobody ELSE @]
    /\ UNCHANGED <<litFor, line, leaving, coming, glow, unanswered, stray, missed, away,
                   blinkFaults, presses>>

Less(n) == IF n = 0 THEN 0 ELSE n - 1
Older(k) == [k EXCEPT !.left = Less(@), !.late = k.at = "calls"]

\* Timers are on time and bounded calls return before they last two ticks.
Tick ==
    /\ ~Stage("waits") /\ (coord.calls # <<>> => ~First.late)
    /\ ~coord.keeper.late /\ (coord.keeper.at = "sleeps" => coord.keeper.left > 0)
    /\ glow' = [d \in Blinkers |-> Less(glow[d])] /\ litFor' = Less(litFor)
    /\ stray' = {d \in stray : glow'[d] > 0}
    /\ coord' = [coord EXCEPT
         !.keeper = Older(@),
         !.calls = IF @ = <<>> THEN @ ELSE [@ EXCEPT ![1].late = TRUE]]
    /\ UNCHANGED <<line, leaving, coming, unanswered, missed, away, blinkFaults, presses>>

-----------------------------------------------------------------------------
(* The callers. *)

AtFront(d) == line # <<>> /\ d = Head(line)

\* _finish of a card that has a name: a short blink to check which device it was.
FinishedNamed(d) ==
    /\ d \in coming /\ ~InCalls("worker") /\ coming' = coming \ {d}
    /\ coord' = Entered(coord, BlinkCall("idle", d, FALSE, "worker"))
    /\ UNCHANGED <<litFor, line, leaving, glow, unanswered, stray, missed, away, blinkFaults, presses>>

\* ... and of one without: the front of the naming line blinks.
FinishedUnnamed(d) ==
    /\ d \in coming /\ ~InCalls("worker") /\ coming' = coming \ {d} /\ line' = Append(line, d)
    /\ IF line = <<>> THEN /\ coord' = Entered(coord, BlinkCall("start", d, TRUE, "worker"))
                           /\ away' = FALSE
                      ELSE UNCHANGED <<coord, away>>
    /\ UNCHANGED <<litFor, leaving, glow, unanswered, stray, missed, blinkFaults, presses>>

\* Whether the coordinator is about to start d.
Starting(d) ==
    \E i \in DOMAIN coord.calls : coord.calls[i].op = "start" /\ coord.calls[i].dev = d

\* confirm_name, skip_name, or a device that is gone: its turn ends.
LeavesLine(d) ==
    /\ \E i \in DOMAIN line : line[i] = d /\ line' = RemoveAt(line, i)
    /\ leaving' = Append(leaving, [dev |-> d, first |-> AtFront(d)])
    /\ missed' = IF Starting(d) THEN missed \cup {d} ELSE missed
    /\ away' = (away /\ ~AtFront(d))
    /\ UNCHANGED <<coord, litFor, coming, glow, unanswered, stray, blinkFaults, presses>>

\* The stop waits for the lock, and whoever has it then starts another device;
\* nobody starts that one again unless the turn was the front's.
StopMayHitAnother ==
    /\ coord.blinking = Head(leaving).dev /\ coord.calls # <<>> /\ ~Head(leaving).first

\* _hand_on_blink: it looks at what blinks, and then asks for the lock.
HandOn ==
    /\ leaving # <<>> /\ ~InCalls("stopper") /\ ~InCalls("starter")
    /\ IF coord.blinking = Head(leaving).dev
       THEN coord' = Entered(coord, BlinkCall("stop", Nobody, FALSE, "stopper")) /\ UNCHANGED leaving
       ELSE IF Head(leaving).first /\ line # <<>>
       THEN /\ coord' = Entered(coord, BlinkCall("start", Head(line), TRUE, "starter"))
            /\ UNCHANGED leaving
       ELSE leaving' = Tail(leaving) /\ UNCHANGED coord
    /\ away' = (away \/ StopMayHitAnother)
    /\ UNCHANGED <<litFor, line, coming, glow, unanswered, stray, missed, blinkFaults, presses>>

Presses == presses < MaxPresses /\ presses' = presses + 1

\* identify_card, or identify_device of the tile, which never renews.
PressOn(d, onCard) ==
    /\ d \notin coming /\ Presses
    /\ coord' = Entered(coord, BlinkCall("start", d, onCard /\ AtFront(d), "press"))
    /\ away' = ~(onCard /\ AtFront(d)) /\ missed' = missed \ {d}
    /\ UNCHANGED <<litFor, line, leaving, coming, glow, unanswered, stray, blinkFaults>>

PressOff(d) ==
    /\ d = coord.blinking /\ Presses /\ away' = TRUE
    /\ coord' = Entered(coord, BlinkCall("stop", Nobody, FALSE, "press"))
    /\ UNCHANGED <<litFor, line, leaving, coming, glow, unanswered, stray, missed, blinkFaults>>

IdentifyNext ==
    \/ LockTurn \/ StopAnswered \/ StopFails \/ LightAnswered \/ LightFails
    \/ KeeperRenews \/ RenewalAnswered \/ RenewalFails \/ KeeperEnds \/ Tick \/ HandOn
    \/ \E d \in Blinkers : \/ FinishedNamed(d) \/ FinishedUnnamed(d) \/ LeavesLine(d) \/ PressOff(d)
                           \/ \E onCard \in BOOLEAN : PressOn(d, onCard)

IdentifySpec == IdentifyInit /\ [][IdentifyNext]_identifyVars

-----------------------------------------------------------------------------
(* Correctness. *)

IdentifyTypeOK ==
    /\ coord.blinking \in Blinkers \cup {Nobody} /\ litFor \in 0..BlinkTicks
    /\ coord.keeper.at \in {"none", "sleeps", "calls"}
    /\ \A i \in DOMAIN coord.calls : i > 1 => coord.calls[i].at = "waits"
    /\ line \in Seq(Blinkers) /\ coming \subseteq Blinkers
    /\ glow \in [Blinkers -> 0..BlinkTicks]

\* "Only one device blinks at a time" (identify.py:17): two do only where one
\* did not answer a stop or a start.
OneBlinks == Cardinality({d \in Blinkers \ stray : glow[d] > 0}) <= 1

\* Exactly one task looks after exactly the device that blinks.
KeeperIsTheBlinkers ==
    /\ coord.blinking = coord.keeper.dev
    /\ coord.keeper.at = "none" <=> coord.blinking = Nobody

\* "One renewal can go unanswered without the blink lapsing" (identify.py:32).
OneRenewalMayFail ==
    coord.keeper.renews /\ unanswered <= 1 => glow[coord.keeper.dev] > 0

\* What the dialog shows as blinking does blink (`lit`).
LitIsTrue == coord.blinking # Nobody /\ litFor > 0 => glow[coord.blinking] > 0

Settled == coord.calls = <<>> /\ leaving = <<>>

\* "The front of the naming line always blinks" (session.py:813), until a click
\* or a failure takes the blink away.
FrontBlinks ==
    Settled /\ line # <<>> /\ ~away => coord.blinking = Head(line) /\ coord.keeper.renews

\* "... until it is named" (session.py:921): nothing else is renewed, but for a
\* device whose turn ended while it was being started.
RenewsTheFront ==
    Settled /\ coord.keeper.renews /\ coord.keeper.dev \notin missed => AtFront(coord.keeper.dev)

\* One device blinks, with one task that keeps it lit, and it is the front of
\* the naming line unless somebody chose another (commissioning/identify.py).
IdentifySafe ==
    /\ IdentifyTypeOK /\ OneBlinks /\ KeeperIsTheBlinkers /\ OneRenewalMayFail
    /\ LitIsTrue /\ FrontBlinks /\ RenewsTheFront

\* The same without the exception of RenewsTheFront (session.py:921).
NamedStopsBlinking == Settled /\ coord.keeper.renews => AtFront(coord.keeper.dev)
=============================================================================
