------------------------------- MODULE MCAsked -------------------------------
(***************************************************************************)
(* What is asked of the bridge, side by side: the gate in front of a       *)
(* device, the translation of a light command, its way to the lamps, the   *)
(* pages that watch, the move of devices from Home Assistant, the removal  *)
(* of a device, and who is let in.  A behaviour runs one of these parts,   *)
(* which is chosen at the start, while the others stand still in their     *)
(* first state.                                                            *)
(***************************************************************************)
EXTENDS MCCommandGate, LightAdapt, LampCommands, Streams, HomeAssistant, DeviceRemoval, Login

\* A lamp with every light command on one endpoint and a relay's on another.
LightRows == {"off", "on", "level", "levelOnOff", "hs", "xy", "white", "lumitech"}
MCRows == (1 :> SUBSET LightRows)
            @@ (2 :> {{}, {"on", "off"}, {"on", "off", "toggle", "levelOnOff"}})
MCPercents == {0, 25, 130}

\* A dimmable lamp with colours, a relay, and what is ordered of them.
LampRows == [d |-> {"on", "off", "toggle", "level", "levelOnOff", "hs", "white"},
             r |-> {"on", "off", "toggle"}]
Order(p, n, c) == [pair |-> p, percent |-> n, colour |-> c]
MCOrders == {Order("off", 0, "white"), Order("toggle", 0, "white"), Order("hs", 100, "red"),
             Order("levelOnOff", 100, "white"), Order("level", 100, "white")}
ToCall(o, to, route) == [order |-> o, to |-> to, route |-> route]
MCKeys == {ToCall(Order("levelOnOff", 100, "white"), "group", "ui"),
           ToCall(Order("hs", 100, "red"), "d", "ui"),
           ToCall(Order("toggle", 0, "white"), "d", "loxone"),
           ToCall(Order("level", 100, "white"), "d", "loxone")}
MCPlan == [o \in MCOrders |-> [m \in Lamps |->
             AdaptGroupCommand(o.pair, 1 :> LampRows[m],
                               [percent |-> o.percent, colour |-> o.colour])]]

\* A Matter device that two requests want removed, and a Zigbee device.
MCTechnology == [d \in Removable |-> IF d = "bulb" THEN "matter" ELSE "zigbee"]
MCTarget == [r \in Deletes |-> IF r = 1 THEN "plug" ELSE "bulb"]

VARIABLE part

askedVars == <<part, vars, adaptVars, lampVars, streamVars, homeVars, removalVars, loginVars>>

\* A part that stands still has one state to do so in.
AskedInit ==
    /\ part \in {"gate", "adapt", "lamps", "streams", "home", "removal", "login"}
    /\ Init /\ StreamsInit /\ AdaptInit /\ HomeInit /\ LoginInit
    /\ RemovalInit /\ (part # "removal" => joined = Removable)
    /\ LampInit /\ (part # "lamps" => \A m \in Lamps : ~power[m])

Resting(p) ==
    /\ p # "gate" => UNCHANGED vars
    /\ p # "adapt" => UNCHANGED adaptVars
    /\ p # "lamps" => UNCHANGED lampVars
    /\ p # "streams" => UNCHANGED streamVars
    /\ p # "home" => UNCHANGED homeVars
    /\ p # "removal" => UNCHANGED removalVars
    /\ p # "login" => UNCHANGED loginVars
    /\ UNCHANGED part

GateRuns   == part = "gate" /\ Next /\ Resting("gate")
AdaptRuns  == part = "adapt" /\ AdaptNext /\ Resting("adapt")
LampsRun   == part = "lamps" /\ LampNext /\ Resting("lamps")
StreamsRun == part = "streams" /\ StreamsNext /\ Resting("streams")
HomeRuns   == part = "home" /\ HomeNext /\ Resting("home")
RemovalRuns == part = "removal" /\ RemovalNext /\ Resting("removal")
LoginRuns  == part = "login" /\ LoginNext /\ Resting("login")

AskedNext == GateRuns \/ AdaptRuns \/ LampsRun \/ StreamsRun \/ HomeRuns \/ RemovalRuns \/ LoginRuns

AskedSpec == AskedInit /\ [][AskedNext]_askedVars
=============================================================================
