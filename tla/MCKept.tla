------------------------------- MODULE MCKept -------------------------------
(***************************************************************************)
(* What the bridge keeps, side by side: its database and the versions of   *)
(* its schema, the requests to the updater's sidecar, the Thread network,  *)
(* and what it writes into the project file the user brings.  A behaviour  *)
(* runs one of these parts, which is chosen at the start, while the others *)
(* stand still in their first state.                                       *)
(***************************************************************************)
EXTENDS Store, StoreSchema, Sidecar, ThreadNetwork, MCProjectSync, TLC

CONSTANTS t1, t2

\* A sensor or a button, a lamp, a Zigbee sensor.
MCKindSets == {{"reading", "counter"}, {"reading", "counter", "feedback"}, {"reading", "management"}}

\* Two releases of clusters.yaml: the second gives each device a command more
\* and renames two, one of them to the other's old name, so that a group can be
\* offered two commands under one key.
MCOffers == <<(t1 :> {} @@ t2 :> {"lock"}),
              (t1 :> {"color"} @@ t2 :> {"level", "lock"})>>
MCSlug == <<[p \in CommandPairs |-> p],
            [p \in CommandPairs |->
               CASE p = "color" -> "lock" [] p = "lock" -> "bolt" [] OTHER -> p]>>

VARIABLE part

keptVars == <<part, storeVars, schemaVars, sidecarVars, threadVars, syncVars>>

\* A part that stands still has one state to do so in.
KeptInit ==
    /\ part \in {"store", "schema", "sidecar", "thread", "sync"}
    /\ StoreInit /\ SidecarInit
    /\ SchemaInit /\ (part # "schema" => /\ original = CHOOSE o \in Originals : TRUE
                                         /\ seen.kinds["first"] = {"reading", "counter"})
    /\ ThreadInit /\ (part # "thread" => net = 0 /\ handedOver = 0)
    /\ SyncInit /\ (part # "sync" => file = CHOOSE f \in Files : TRUE)

Resting(p) ==
    /\ p # "store" => UNCHANGED storeVars
    /\ p # "schema" => UNCHANGED schemaVars
    /\ p # "sidecar" => UNCHANGED sidecarVars
    /\ p # "thread" => UNCHANGED threadVars
    /\ p # "sync" => UNCHANGED syncVars
    /\ UNCHANGED part

StoreRuns   == part = "store" /\ StoreNext /\ Resting("store")
SchemaRuns  == part = "schema" /\ SchemaNext /\ Resting("schema")
SidecarRuns == part = "sidecar" /\ SidecarNext /\ Resting("sidecar")
ThreadRuns  == part = "thread" /\ ThreadNext /\ Resting("thread")
SyncRuns    == part = "sync" /\ SyncNext /\ Resting("sync")

KeptNext == StoreRuns \/ SchemaRuns \/ SidecarRuns \/ ThreadRuns \/ SyncRuns

KeptSpec == KeptInit /\ [][KeptNext]_keptVars
=============================================================================
