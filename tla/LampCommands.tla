---------------------------- MODULE LampCommands -----------------------------
(***************************************************************************)
(* A command on its way to its lamps: the four routes (a device or a       *)
(* group, by the web UI, which waits, or by the Miniserver, which does     *)
(* not), the fan-out over the members of a group (commands/fanout.py), and *)
(* the On that commands/switch_on.py sends before a brightness that may    *)
(* find its lamp off.                                                      *)
(*                                                                         *)
(* The gate between them (CommandGate) is one queue per lamp here, in the  *)
(* order of the requests' numbers: one request at a time, a waiting value  *)
(* replaced by a newer one that covers it.  A lamp has one endpoint.  It   *)
(* reports its power when it changes; reports travel.                      *)
(***************************************************************************)
EXTENDS Naturals, Sequences, FiniteSets

CONSTANTS
    Lamps,
    Orders,       \* commands with their values
    Keys,         \* what may be called: [order, to: "group" or a lamp, route]
    Plan,         \* [Orders -> [Lamps -> the calls adapt.py makes of it]]
    MaxOrders,    \* bound: requests
    MaxWalls,     \* bound: somebody uses the wall switch
    MaxLampFaults     \* bound: failed calls, sources that stop, devices removed

Routes == {"ui", "loxone"}

\* The calls that the plans are made of.
CallsMade == UNION {{Plan[o][m][i] : i \in DOMAIN Plan[o][m]} : o \in Orders, m \in Lamps}

ASSUME LampsAssumption ==
    /\ \A k \in Keys : k.order \in Orders /\ k.to \in Lamps \cup {"group"} /\ k.route \in Routes
    /\ Plan \in [Orders -> [Lamps -> Seq(CallsMade)]]

VARIABLES
    power,     \* what each lamp does
    news,      \* its reports on their way: [on, wall]
    reported,  \* Runtime's last value of its on/off: "none", "on", "off"
    sentOn,    \* SwitchOnFirst._sent_on
    reachable, \* its technology has a source
    active,    \* it is in the store
    waitingFor, \* the gate's queue: the requests in it
    doing,     \* the request its calls belong to, those left, and the call in flight
    orders,    \* the requests so far: command, route
    result,    \* per request and lamp, what became of the lamp's part
    answer,    \* per request, the route's answer
    touched,   \* history: lamps that took a call of the request
    left,      \* history: lamps whose source stopped while the request ran
    blind,     \* history: lamps switched at the wall, unheard when last decided
    dark,      \* history: a brightness met a lamp that was off and not said to be
    ordersDue,       \* history: the power a lamp's last command leads to
    walls, lampFaults

lampVars == <<power, news, reported, sentOn, reachable, active, waitingFor, doing, orders,
              result, answer, touched, left, dark, ordersDue, walls, lampFaults, blind>>

Nobody == [order |-> 0, calls |-> <<>>, flight |-> "none", onSent |-> FALSE]
Failed == {"unreachable", "unconfigured"}
Numbers == 1..Len(orders)

\* Lamps that are off and never were called, or that the bridge has switched
\* on before.
LampInit ==
    /\ \/ /\ power = [m \in Lamps |-> FALSE]
          /\ reported = [m \in Lamps |-> "none"] /\ sentOn = [m \in Lamps |-> "none"]
       \/ /\ power = [m \in Lamps |-> TRUE]
          /\ reported = [m \in Lamps |-> "on"] /\ sentOn = [m \in Lamps |-> "on"]
    /\ news = [m \in Lamps |-> <<>>]
    /\ reachable = [m \in Lamps |-> TRUE] /\ active = [m \in Lamps |-> TRUE]
    /\ waitingFor = [m \in Lamps |-> {}] /\ doing = [m \in Lamps |-> Nobody]
    /\ orders = <<>> /\ result = <<>> /\ answer = <<>> /\ touched = <<>> /\ left = <<>>
    /\ dark = {} /\ ordersDue = [m \in Lamps |-> "any"]
    /\ walls = 0 /\ lampFaults = 0 /\ blind = {}

-----------------------------------------------------------------------------
(* The gate. *)

PlanOf(m, r) == Plan[orders[r].order][m]
PairsHere(calls) == {calls[i].pair : i \in DOMAIN calls}
Unslotted(calls) == PairsHere(calls) \cap {"on", "off", "toggle"} # {}
SetsColour(calls) == PairsHere(calls) \cap {"hs", "xy", "white"} # {}

\* Mutant: a level alone replaces one that switches the lamp as well.
LevelStrengthAlike(calls) == IF PairsHere(calls) \cap {"level", "levelOnOff"} # {} THEN 1 ELSE 0

\* _strength_of the level: (8, 4) switches, (8, 0) does not.
LevelStrength(calls) == IF "levelOnOff" \in PairsHere(calls) THEN 2
                        ELSE IF "level" \in PairsHere(calls) THEN 1 ELSE 0

\* _covers
Supersedes(new, old) ==
    /\ ~Unslotted(new) /\ ~Unslotted(old)
    /\ SetsColour(old) => SetsColour(new)
    /\ LevelStrength(old) <= LevelStrength(new)

\* _supersede: the requests a new one replaces, behind the last with no slot.
Superseded(m, calls) ==
    {w \in waitingFor[m] : /\ Supersedes(calls, PlanOf(m, w))
                           /\ \A v \in waitingFor[m] : v > w => ~Unslotted(PlanOf(m, v))}

\* What a plan leads to: its last call that switches decides.
Switching(calls) == {i \in DOMAIN calls : calls[i].pair \in {"on", "off", "toggle", "levelOnOff"}}

Leads(calls) ==
    IF Switching(calls) = {} THEN "same"
    ELSE LET c == calls[CHOOSE i \in Switching(calls) : \A j \in Switching(calls) : j <= i] IN
         CASE c.pair = "toggle" -> "any"
           [] c.pair = "on" \/ (c.pair = "levelOnOff" /\ c.arg # 0) -> "on"
           [] OTHER -> "off"

-----------------------------------------------------------------------------
(* The routes. *)

\* A command for the lamps `to`: planned for all of them before anything is
\* sent; a lamp with nothing to do is not asked.
HandsOrder(order, to, route) ==
    LET r == Len(orders) + 1
        asked == {m \in to : Plan[order][m] # <<>>}
        old(m) == IF m \in asked THEN Superseded(m, Plan[order][m]) ELSE {}
    IN  /\ Len(orders) < MaxOrders
        /\ orders' = Append(orders, [order |-> order, route |-> route])
        /\ waitingFor' = [m \in Lamps |->
             IF m \in asked THEN (waitingFor[m] \ old(m)) \cup {r} ELSE waitingFor[m]]
        /\ result' = Append([s \in Numbers |-> [m \in Lamps |->
                         IF s \in old(m) THEN "replaced" ELSE result[s][m]]],
                       [m \in Lamps |-> IF m \in asked THEN "pending" ELSE "none"])
        /\ ordersDue' = [m \in Lamps |-> IF m \in asked /\ Leads(Plan[order][m]) # "same"
                                   THEN Leads(Plan[order][m]) ELSE ordersDue[m]]
        /\ answer' = Append(answer, IF route = "loxone" THEN "ok" ELSE "none")
        /\ touched' = Append(touched, {}) /\ left' = Append(left, {})
        /\ UNCHANGED <<power, news, reported, sentOn, reachable, active, doing, dark,
                       walls, lampFaults, blind>>

\* POST /api/commands/{key} and /cmd/{key}/{value} with a group's key: its
\* members are the devices that are active.
GroupCommand(k) ==
    /\ k.to = "group"
    /\ HandsOrder(k.order, {m \in Lamps : active[m]}, k.route)

\* The same for a device's key.  Only the web UI's route asks whether the
\* device is still there.
DeviceCommand(k) ==
    /\ k.to \in Lamps /\ (k.route = "ui" => active[k.to])
    /\ HandsOrder(k.order, {k.to}, k.route)

\* group_outcome and the answer: 503 if nobody could be asked, 502 if
\* somebody failed.  A device's own command is a group of one here.
Asked(r) == {m \in Lamps : result[r][m] # "none"}
Missed(r, why) == {m \in Asked(r) : result[r][m] = why}

Verdict(r) ==
    IF Missed(r, "unconfigured") # {} /\ Missed(r, "unconfigured") = Asked(r) THEN "not configured"
    ELSE IF Missed(r, "unconfigured") \cup Missed(r, "unreachable") # {} THEN "not reached"
    ELSE "ok"

\* Mutant: the first failure is the answer, the others go on.
AllDoneOrOneFailed(r) == \/ \A m \in Lamps : result[r][m] # "pending"
                         \/ \E m \in Lamps : result[r][m] \in Failed

\* gather(..., return_exceptions=True)
AllDone(r) == \A m \in Lamps : result[r][m] # "pending"

Answers(r) ==
    /\ r \in Numbers /\ answer[r] = "none" /\ AllDone(r)
    /\ answer' = [answer EXCEPT ![r] = Verdict(r)]
    /\ UNCHANGED <<power, news, reported, sentOn, reachable, active, waitingFor, doing, orders,
                   result, touched, left, dark, ordersDue, walls, lampFaults, blind>>

-----------------------------------------------------------------------------
(* A lamp and its report. *)

Powered(m, on, wall) ==
    /\ power' = [power EXCEPT ![m] = on]
    /\ news' = IF on = power[m] THEN news
               ELSE [news EXCEPT ![m] = Append(@, [on |-> on, wall |-> wall])]

WallSwitch(m) ==
    /\ walls < MaxWalls /\ walls' = walls + 1
    /\ Powered(m, ~power[m], TRUE) /\ blind' = blind \cup {m} /\ ordersDue' = [ordersDue EXCEPT ![m] = "any"]
    /\ UNCHANGED <<reported, sentOn, reachable, active, waitingFor, doing, orders, result, answer,
                   touched, left, dark, lampFaults>>

ReportArrives(m) ==
    /\ news[m] # <<>> /\ news' = [news EXCEPT ![m] = Tail(@)]
    /\ reported' = [reported EXCEPT ![m] = IF Head(news[m]).on THEN "on" ELSE "off"]
    /\ UNCHANGED <<power, sentOn, reachable, active, waitingFor, doing, orders, result, answer,
                   touched, left, dark, ordersDue, walls, lampFaults, blind>>

\* A stick is taken out, a source is stopped: SourceNotConfiguredError.
SourceStops(m) ==
    /\ lampFaults < MaxLampFaults /\ reachable[m] /\ lampFaults' = lampFaults + 1
    /\ reachable' = [reachable EXCEPT ![m] = FALSE]
    /\ left' = IF doing[m].order = 0 THEN left ELSE [left EXCEPT ![doing[m].order] = @ \cup {m}]
    /\ UNCHANGED <<power, news, reported, sentOn, active, waitingFor, doing, orders, result,
                   answer, touched, dark, ordersDue, walls, blind>>

\* Removed from its network and forgotten: what is still sent fails.
Removed(m) ==
    /\ lampFaults < MaxLampFaults /\ active[m] /\ lampFaults' = lampFaults + 1
    /\ active' = [active EXCEPT ![m] = FALSE]
    /\ UNCHANGED <<power, news, reported, sentOn, reachable, waitingFor, doing, orders, result,
                   answer, touched, left, dark, ordersDue, walls, blind>>

-----------------------------------------------------------------------------
(* SwitchOnFirst, behind the gate. *)

Lights(call) == call.pair = "levelOnOff" /\ call.arg # 0
Darkens(call) == call.pair = "off" \/ (call.pair = "levelOnOff" /\ call.arg = 0)

\* _needs_on_first, with _reported_on and _accepts_on of loxone/server.py:
\* both know nothing of a device that is no longer active.
NeedsOn(m, call) ==
    /\ Lights(call) /\ active[m]
    /\ ~(sentOn[m] = "on" /\ reported[m] # "off")

IsNext(m, r) == r \in waitingFor[m] /\ \A w \in waitingFor[m] : r <= w

Starts(m) ==
    /\ doing[m] = Nobody
    /\ \E r \in waitingFor[m] :
         /\ IsNext(m, r)
         /\ doing' = [doing EXCEPT ![m] = [Nobody EXCEPT !.order = r, !.calls = PlanOf(m, r)]]
         /\ waitingFor' = [waitingFor EXCEPT ![m] = @ \ {r}]
    /\ UNCHANGED <<power, news, reported, sentOn, reachable, active, orders, result, answer,
                   touched, left, dark, ordersDue, walls, lampFaults, blind>>

Ends(m, how) ==
    /\ result' = [result EXCEPT ![doing[m].order][m] = how]
    /\ doing' = [doing EXCEPT ![m] = Nobody]

Sends(m) ==
    /\ doing[m].order # 0 /\ doing[m].flight = "none" /\ reachable[m]
    /\ doing' = [doing EXCEPT ![m].flight =
                    IF ~doing[m].onSent /\ NeedsOn(m, Head(doing[m].calls)) THEN "on" ELSE "call"]
    /\ blind' = IF doing[m].onSent \/ \E i \in DOMAIN news[m] : news[m][i].wall
                THEN blind ELSE blind \ {m}
    /\ UNCHANGED <<power, news, reported, sentOn, reachable, active, waitingFor, orders, result,
                   answer, touched, left, dark, ordersDue, walls, lampFaults>>

\* Sources.send has no source for it: raised before anything is sent.
NotSent(m) ==
    /\ doing[m].order # 0 /\ doing[m].flight = "none" /\ ~reachable[m]
    /\ Ends(m, "unconfigured") /\ sentOn' = [sentOn EXCEPT ![m] = "none"]
    /\ ordersDue' = [ordersDue EXCEPT ![m] = "any"]
    /\ UNCHANGED <<power, news, reported, reachable, active, waitingFor, orders, answer, touched,
                   left, dark, walls, lampFaults, blind>>

\* The lamp takes the call: `dark` if a brightness finds it off, and nobody at
\* the wall has done that behind the bridge's back.
LampTakes(m, call) ==
    /\ CASE call.pair = "toggle" -> Powered(m, ~power[m], FALSE)
         [] call.pair = "on" \/ Lights(call) -> Powered(m, TRUE, FALSE)
         [] Darkens(call) -> Powered(m, FALSE, FALSE)
         [] OTHER -> UNCHANGED <<power, news>>
    /\ dark' = IF Lights(call) /\ ~power[m] /\ active[m] /\ m \notin blind
               THEN dark \cup {m} ELSE dark
    /\ touched' = [touched EXCEPT ![doing[m].order] = @ \cup {m}]

\* _switches_on
Remembers(m, call) ==
    sentOn' = [sentOn EXCEPT ![m] =
        CASE call.pair = "toggle" -> "none"
          [] call.pair = "on" \/ Lights(call) -> "on"
          [] Darkens(call) -> "off"
          [] OTHER -> @]

OnCall == [endpoint |-> 1, pair |-> "on", arg |-> "-"]
Flying(m) == IF doing[m].flight = "on" THEN OnCall ELSE Head(doing[m].calls)

Acknowledged(m) ==
    /\ doing[m].flight # "none" /\ active[m]
    /\ LampTakes(m, Flying(m)) /\ Remembers(m, Flying(m))
    /\ IF doing[m].flight = "call" /\ Len(doing[m].calls) = 1 THEN Ends(m, "ok")
       ELSE /\ doing' = [doing EXCEPT ![m] =
                            [order |-> @.order, flight |-> "none", onSent |-> @.flight = "on",
                             calls |-> IF @.flight = "on" THEN @.calls ELSE Tail(@.calls)]]
            /\ UNCHANGED result
    /\ UNCHANGED <<reported, reachable, active, waitingFor, orders, answer, left, ordersDue, walls, lampFaults, blind>>

\* The except of _send.
ForgetsOrders(m) == sentOn' = [sentOn EXCEPT ![m] = "none"]

\* The source raises: no answer, or too late one - the lamp may have taken it.
Fails(m, taken) ==
    /\ doing[m].flight # "none" /\ (lampFaults < MaxLampFaults \/ ~active[m])
    /\ lampFaults' = IF active[m] THEN lampFaults + 1 ELSE lampFaults
    /\ IF taken /\ active[m] THEN LampTakes(m, Flying(m)) ELSE UNCHANGED <<power, news, dark, touched>>
    /\ ForgetsOrders(m) /\ Ends(m, "unreachable") /\ ordersDue' = [ordersDue EXCEPT ![m] = "any"]
    /\ UNCHANGED <<reported, reachable, active, waitingFor, orders, answer, left, walls, blind>>

\* The gate's wait_timeout: a request that never started.
TimesOut(m) ==
    /\ doing[m] # Nobody /\ lampFaults < MaxLampFaults
    /\ lampFaults' = lampFaults + 1
    /\ \E r \in waitingFor[m] :
         /\ IsNext(m, r)
         /\ result' = [result EXCEPT ![r][m] = "unreachable"]
         /\ waitingFor' = [waitingFor EXCEPT ![m] = @ \ {r}]
    /\ ordersDue' = [ordersDue EXCEPT ![m] = "any"]
    /\ UNCHANGED <<power, news, reported, sentOn, reachable, active, doing, orders, answer, touched,
                   left, dark, walls, blind>>

LampNext ==
    \/ \E k \in Keys : GroupCommand(k) \/ DeviceCommand(k)
    \/ \E r \in 1..MaxOrders : Answers(r)
    \/ \E m \in Lamps : \/ WallSwitch(m) \/ ReportArrives(m) \/ SourceStops(m) \/ Removed(m)
                        \/ Starts(m) \/ Sends(m) \/ NotSent(m) \/ Acknowledged(m) \/ TimesOut(m)
                        \/ \E taken \in BOOLEAN : Fails(m, taken)

LampSpec == LampInit /\ [][LampNext]_lampVars

-----------------------------------------------------------------------------
(* Correctness. *)

LampTypeOK ==
    /\ power \in [Lamps -> BOOLEAN] /\ reported \in [Lamps -> {"none", "on", "off"}]
    /\ sentOn \in [Lamps -> {"none", "on", "off"}]
    /\ \A m \in Lamps : doing[m].order \in 0..Len(orders) /\ waitingFor[m] \subseteq Numbers
    /\ \A r \in Numbers : result[r] \in
           [Lamps -> {"none", "pending", "ok", "replaced", "unreachable", "unconfigured"}]

\* A brightness above 0 never finds its lamp off - a lamp that comes on by it
\* is dim - unless it went off at the wall and the report of that is still on
\* its way, or it went off between the On and the brightness.
LampFoundOn == dark = {}

\* The answer waits for every member, and says "ok" only if each took its
\* calls or has a newer value coming.
AnswerIsTrue ==
    \A r \in Numbers : orders[r].route = "ui" /\ answer[r] # "none" =>
        /\ \A m \in Asked(r) : result[r][m] # "pending" /\ doing[m].order # r
        /\ answer[r] = "ok" => \A m \in Asked(r) : result[r][m] \in {"ok", "replaced"}
        /\ answer[r] = "not configured" => \A m \in touched[r] : m \in left[r]

\* Each request is in one place: it waits, it runs, or it has ended.
OnePlace ==
    \A m \in Lamps : \A r \in Numbers :
        result[r][m] = "pending" <=>
            (doing[m].order = r \/ r \in waitingFor[m])

\* When nothing is on its way any more, the lamp does what its last command
\* said: no value that was replaced took an on or off with it.
LastWordCounts ==
    \A m \in Lamps : doing[m] = Nobody /\ waitingFor[m] = {} /\ ordersDue[m] # "any" =>
        power[m] = (ordersDue[m] = "on")

\* Commands on their way: what the lamp does in the end, what the caller is
\* told, and the On before a brightness.
LampsSafe == LampTypeOK /\ LampFoundOn /\ AnswerIsTrue /\ OnePlace /\ LastWordCounts

\* What api/control.py says of the answer 503: nothing was asked of the device.
UnconfiguredWasNotAsked ==
    \A r \in Numbers : answer[r] = "not configured" => touched[r] = {}

\* What api/control.py says of the key of a removed device: the gap is closed.
RemovedIsNotCalled == [][\A m \in Lamps : \A r \in Numbers' : ~active[m] => ~(r \notin Numbers
                            /\ result'[r][m] = "pending")]_lampVars
=============================================================================
