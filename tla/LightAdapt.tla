----------------------------- MODULE LightAdapt ------------------------------
(***************************************************************************)
(* commands/adapt.py and commands/translate.py: which calls one light gets *)
(* for one command and value.  A light is a set of rows per endpoint - the *)
(* commands it carries - and the named command need not be among them: a   *)
(* group takes a brightness to a lamp as a level and to a relay as on/off. *)
(*                                                                         *)
(* A value is a number, a percentage, or what decode_loxone_colour reads   *)
(* from it: white or a colour, and a brightness.  The conversions of       *)
(* colours (commands/color.py, real numbers) keep which colour it is.      *)
(***************************************************************************)
EXTENDS Integers, Sequences, FiniteSets, SequencesExt

CONSTANTS
    Endpoints,   \* endpoint numbers of a light; 0 is the root node's own
    LastEndpoint,   \* the highest number an endpoint may have
    RowsOf,      \* [Endpoints -> the sets of rows an endpoint may carry]
    Percents     \* the percentages a Miniserver may send

ASSUME AdaptAssumption ==
    /\ LastEndpoint \in Nat \ {0} /\ Endpoints \subseteq 1..LastEndpoint /\ Percents \subseteq Int
    /\ RowsOf \in [Endpoints -> SUBSET SUBSET
         {"off", "on", "toggle", "level", "levelOnOff", "hs", "xy", "white", "lumitech"}]

AllPairs == {"off", "on", "toggle", "level", "levelOnOff", "hs", "xy", "white", "lumitech"}
Levels == {"level", "levelOnOff"}
Decoded == {"hs", "xy", "lumitech"}

\* round(percent * LEVEL_MAX / 100) of Python, which rounds a half to even,
\* within 0..LEVEL_MAX.
LevelMax == 254
RoundedDiv(a, b) == LET q == a \div b
                        r == a % b
                    IN IF 2 * r > b \/ (2 * r = b /\ q % 2 = 1) THEN q + 1 ELSE q
LevelFromPercent(percent) ==
    LET dim == RoundedDiv(percent * LevelMax, 100)
    IN IF dim < 0 THEN 0 ELSE IF dim > LevelMax THEN LevelMax ELSE dim

Call(e, pair, arg) == [endpoint |-> e, pair |-> pair, arg |-> arg]
Plain == "-"

-----------------------------------------------------------------------------
(* commands/translate.py *)

\* A call for the command itself; white on a colour command is its own
\* command, and the brightness follows the colour - or is all there is.
ToDeviceCalls(e, pair, value) ==
    LET dim == LevelFromPercent(value.percent) IN
    CASE pair \in {"off", "on", "toggle"} -> <<Call(e, pair, Plain)>>
      [] pair \in Levels -> <<Call(e, pair, dim)>>
      [] pair = "white" -> <<Call(e, "white", "white")>>
      [] pair \in {"hs", "xy"} ->
           (IF dim = 0 THEN <<>>
            ELSE <<Call(e, IF value.colour = "white" THEN "white" ELSE pair, value.colour)>>)
           \o <<Call(e, "levelOnOff", dim)>>
      [] OTHER -> <<>>

-----------------------------------------------------------------------------
(* commands/adapt.py *)

\* Mutant: a relay beside a lamp that dims is switched with it.
BrightnessOnRelays(e, here, percent, dims) ==
    LET dim == LevelFromPercent(percent) IN
    CASE "levelOnOff" \in here -> <<Call(e, "levelOnOff", dim)>>
      [] "level" \in here /\ dim = 0 ->
           <<IF "off" \in here THEN Call(e, "off", Plain) ELSE Call(e, "level", 0)>>
      [] "level" \in here /\ dim > 0 ->
           (IF "on" \in here THEN <<Call(e, "on", Plain)>> ELSE <<>>) \o <<Call(e, "level", dim)>>
      [] OTHER -> IF {"on", "off"} \subseteq here
                  THEN <<Call(e, IF dim > 0 THEN "on" ELSE "off", Plain)>> ELSE <<>>

\* _brightness
Brightness(e, here, percent, dims) ==
    LET dim == LevelFromPercent(percent) IN
    CASE "levelOnOff" \in here -> <<Call(e, "levelOnOff", dim)>>
      [] "levelOnOff" \notin here /\ "level" \in here /\ dim = 0 ->
           <<IF "off" \in here THEN Call(e, "off", Plain) ELSE Call(e, "level", 0)>>
      [] "levelOnOff" \notin here /\ "level" \in here /\ dim > 0 ->
           (IF "on" \in here THEN <<Call(e, "on", Plain)>> ELSE <<>>) \o <<Call(e, "level", dim)>>
      [] here \cap Levels = {} ->
           IF {"on", "off"} \subseteq here /\ ~dims
           THEN <<Call(e, IF dim > 0 THEN "on" ELSE "off", Plain)>> ELSE <<>>

\* _colour_point: white as a colour, for an endpoint without a temperature.
ColourPoint(e, here) ==
    IF "xy" \in here THEN <<Call(e, "xy", "white")>>
    ELSE IF "hs" \in here THEN <<Call(e, "hs", "white")>> ELSE <<>>

\* _colour
Colour(e, here, named, colour) ==
    IF colour = "white"
    THEN IF "white" \in here THEN <<Call(e, "white", "white")>> ELSE ColourPoint(e, here)
    ELSE IF "xy" \in here /\ (named = "xy" \/ "hs" \notin here) THEN <<Call(e, "xy", colour)>>
    ELSE IF "hs" \in here THEN <<Call(e, "hs", colour)>> ELSE <<>>

\* _endpoint_calls
EndpointCalls(e, pair, here, value, dims) ==
    IF pair \in Decoded
    THEN IF LevelFromPercent(value.percent) = 0 THEN Brightness(e, here, 0, dims)
         ELSE Colour(e, here, pair, value.colour) \o Brightness(e, here, value.percent, dims)
    ELSE IF pair \in here THEN ToDeviceCalls(e, pair, value)
    ELSE IF pair = "white" THEN ColourPoint(e, here)
    ELSE IF pair \in Levels THEN Brightness(e, here, value.percent, dims)
    ELSE <<>>

\* adapt_group_command: endpoint after endpoint.
AdaptGroupCommand(pair, endpointRows, value) ==
    LET dims == \E e \in DOMAIN endpointRows : endpointRows[e] \cap Levels # {}
    IN FlattenSeq([e \in 1..LastEndpoint |->
           IF e \in DOMAIN endpointRows /\ endpointRows[e] # {}
           THEN EndpointCalls(e, pair, endpointRows[e], value, dims) ELSE <<>>])

\* adapt_device_command: the lighting controller's output goes the way of a
\* group, over the rows of its own endpoint.
AdaptDeviceCommand(e, pair, endpointRows, value) ==
    IF pair = "lumitech" THEN AdaptGroupCommand("lumitech", [x \in {e} |-> endpointRows[e]], value)
    ELSE ToDeviceCalls(e, pair, value)

-----------------------------------------------------------------------------
(* What the light does with a call (external): a level above 0 by (8, 4)   *)
(* switches it on and level 0 off, (8, 0) only sets the level of a lamp    *)
(* that is on; a colour is taken in the dark, too (ExecuteIfOff).          *)

Shines(lamp, call) ==
    CASE call.pair = "on" -> [lamp EXCEPT !.on = TRUE]
      [] call.pair = "off" -> [lamp EXCEPT !.on = FALSE]
      [] call.pair = "toggle" -> [lamp EXCEPT !.on = ~@]
      [] call.pair = "levelOnOff" ->
           IF call.arg = 0 THEN [lamp EXCEPT !.on = FALSE] ELSE [lamp EXCEPT !.on = TRUE, !.level = call.arg]
      [] call.pair = "level" -> IF lamp.on THEN [lamp EXCEPT !.level = call.arg] ELSE lamp
      [] OTHER -> [lamp EXCEPT !.colour = call.arg]

\* The lamp behind endpoint e after a list of calls.
After(lamp, e, calls) ==
    LET done[i \in 0..Len(calls)] ==
          IF i = 0 THEN lamp
          ELSE IF calls[i].endpoint = e THEN Shines(done[i - 1], calls[i]) ELSE done[i - 1]
    IN done[Len(calls)]

VARIABLES
    asked,   \* the question has been put
    endpointRows,    \* the light: the rows of each endpoint
    named,   \* the command
    value    \* its value

adaptVars == <<asked, endpointRows, named, value>>

AdaptInit ==
    /\ asked = FALSE /\ named = "on" /\ endpointRows = [e \in Endpoints |-> {}]
    /\ value = [percent |-> 0, colour |-> "white"]

\* Any light, any command, any value.
Asks ==
    /\ ~asked /\ asked' = TRUE
    /\ endpointRows' \in {r \in [Endpoints -> UNION {RowsOf[e] : e \in Endpoints}] :
                     \A e \in Endpoints : r[e] \in RowsOf[e]}
    /\ named' \in AllPairs
    /\ value' \in [percent : Percents, colour : {"white", "red"}]

AdaptNext == Asks
AdaptSpec == AdaptInit /\ [][AdaptNext]_adaptVars

-----------------------------------------------------------------------------
(* Correctness. *)

AdaptTypeOK == asked \in BOOLEAN /\ named \in AllPairs /\ endpointRows \in [Endpoints -> SUBSET AllPairs]

Wanted == LevelFromPercent(value.percent)
Group == AdaptGroupCommand(named, endpointRows, value)
LampOn(on) == [on |-> on, level |-> 1, colour |-> "green"]

\* A light is never sent a command it does not carry.
OnlyCarried == \A i \in DOMAIN Group : Group[i].pair \in endpointRows[Group[i].endpoint]

\* The command carries a brightness with switching in it: not a plain level
\* that the endpoint itself was named for.
Switches(e) == named \in Decoded \cup {"levelOnOff"} \/ (named = "level" /\ "level" \notin endpointRows[e])
Dims(e) == "levelOnOff" \in endpointRows[e] \/ {"level", "on", "off"} \subseteq endpointRows[e]
Relay(e) == endpointRows[e] \cap Levels = {} /\ {"on", "off"} \subseteq endpointRows[e]

\* Whether the lamp was on or off: a brightness leaves a lamp that dims on at
\* that level, or off for 0; a relay follows it only where nothing dims.
BrightnessArrives ==
    \A e \in Endpoints : \A on \in BOOLEAN : LET end == After(LampOn(on), e, Group) IN
        /\ Switches(e) /\ Dims(e) => end.on = (Wanted > 0) /\ (Wanted > 0 => end.level = Wanted)
        /\ Switches(e) /\ Relay(e) =>
               end.on = (IF \E x \in Endpoints : endpointRows[x] \cap Levels # {} THEN on ELSE Wanted > 0)

\* The colour is there when the light comes on, and a light that is switched
\* off does not change colour before (the white flash of translate.py).
ColourArrives ==
    \A e \in Endpoints : \A on \in BOOLEAN : LET end == After(LampOn(on), e, Group) IN
        named \in Decoded =>
            /\ Wanted = 0 => end.colour = "green"
            /\ Wanted > 0 /\ endpointRows[e] \cap {"hs", "xy"} # {} => end.colour = value.colour

\* A light that comes on does so in its new colour: no colour after the level.
ColourFirst ==
    \A i, j \in DOMAIN Group : i < j /\ Group[i].endpoint = Group[j].endpoint
        /\ Group[i].pair \in Levels \cup {"on"} => Group[j].pair \in Levels

\* A lamp that carries all of it gets the same calls for its own command as
\* for the command of a group it is in, one after the other.
SameCallsAlone ==
    \A e \in Endpoints : {named, "white", "levelOnOff"} \subseteq endpointRows[e] =>
        \E i, j \in 0..Len(Group) :
            /\ SubSeq(Group, i + 1, j) = AdaptDeviceCommand(e, named, endpointRows, value)
            /\ \A k \in DOMAIN Group : Group[k].endpoint = e <=> i < k /\ k <= j

\* Rounding: only what rounds to 0 switches off, and more is never darker.
LevelsAreMonotone ==
    /\ \A p, q \in Percents : p <= q => LevelFromPercent(p) <= LevelFromPercent(q)
    /\ \A p \in Percents : (p <= 0 => LevelFromPercent(p) = 0) /\ (p >= 1 => LevelFromPercent(p) > 0)

\* The calls of one command for any light: carried, in the order a lamp
\* needs, with the brightness and the colour the value asks for.
AdaptSafe ==
    /\ AdaptTypeOK
    /\ asked => OnlyCarried /\ BrightnessArrives /\ ColourArrives /\ ColourFirst
                /\ SameCallsAlone /\ LevelsAreMonotone
=============================================================================
