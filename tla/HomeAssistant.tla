--------------------------- MODULE HomeAssistant ---------------------------
(* The migration from Home Assistant: homeassistant/migration.py with the   *)
(* client, the store and the routes it is reached through.                  *)
(*                                                                          *)
(* Requests of the web UI and the task of a job share one sign-in, one      *)
(* cached inventory, one job and the stored results, and every question to  *)
(* Home Assistant is an await between two of them.  A caller is one such    *)
(* request, or the item of the job that is being worked on; what it read    *)
(* before an await is kept in its own variables.  Only pausing ZHA holds    *)
(* the lock.  Reading the inventory takes several questions, which are one  *)
(* action here: Home Assistant does not change under it.                    *)
EXTENDS Naturals, FiniteSets

CONSTANTS Matter, Zigbee,   \* the devices Home Assistant knows
          InFabric,         \* Matter devices that are in this bridge's fabric already
          MaxSignIns, MaxHomeCalls, MaxHomeFaults, MaxUser

ASSUME HomeAssumption ==
    /\ Matter \intersect Zigbee = {} /\ InFabric \subseteq Matter
    /\ {MaxSignIns, MaxHomeCalls, MaxHomeFaults, MaxUser} \subseteq Nat

HomeDevices == Matter \union Zigbee
Callers == {"look", "pause", "clean", "start", "item"}

VARIABLES
    conn,       \* the stored sign-in, counted; 0 is none
    retryDue,        \* its access token is about to expire, and can be renewed
    signIns, signing,       \* sign-ins begun; the one whose exchange is on its way
    zhaBackup,     \* the saved ZHA network
    forgot,     \* the user signed out since it was saved
    zha,        \* "runs", "paused" or "removed" in Home Assistant
    stick,      \* the network this bridge's stick runs: "own" or "zha"
    source,     \* which Zigbee source is current, counted
    entered,    \* devices in the source's database
    held,       \* devices in the store
    arrived,    \* devices that ever came into the store
    inHome,     \* devices Home Assistant has
    results,    \* the stored results, with `cleaned_up`
    cache,      \* the inventory last read: the devices that were ready
    moveJob,    \* the job the page shows
    tasks,      \* how many job tasks are alive
    at, using, done,        \* of each caller: where it is, its sign-in, its Capabilities
    wantedMove,     \* of a start: the kind, the devices and the source it was asked with
    cleaning,   \* of a clean-up: the results it read, what is left, whether ZHA goes
    misplaced,  \* devices imported into another network than ZHA's
    haCalls, haFaults, user

homeVars == <<conn, retryDue, signIns, signing, zhaBackup, forgot, zha, stick, source, entered, held,
              arrived, inHome, results, cache, moveJob, tasks, at, using, done, wantedMove, cleaning,
              misplaced, haCalls, haFaults, user>>

signedIn == <<conn, retryDue, signIns, signing>>
radio == <<stick, source, entered, misplaced>>
devices == <<held, arrived, inHome, results>>
bridge == <<moveJob, tasks>>
requests == <<wantedMove, cleaning>>

NoResult == [state |-> "none", cleaned |-> FALSE]
NoInventory == [known |-> FALSE, ready |-> {}, paused |-> FALSE]
NoJob == [kind |-> "none", items |-> [d \in {} |-> "done"], running |-> FALSE, source |-> 0]
NoWish == [kind |-> "none", devices |-> {}, source |-> 0]
NoCleaning == [results |-> [d \in HomeDevices |-> NoResult], left |-> {}, zha |-> FALSE]

HomeInit ==
    /\ conn = 0 /\ retryDue = FALSE /\ signIns = 0 /\ signing = 0
    /\ zhaBackup = FALSE /\ forgot = FALSE /\ zha = "runs" /\ stick = "own" /\ source = 1
    /\ entered = {} /\ held = {} /\ arrived = {} /\ inHome = HomeDevices
    /\ results = [d \in HomeDevices |-> NoResult]
    /\ cache = NoInventory /\ moveJob = NoJob /\ tasks = 0
    /\ at = [c \in Callers |-> "off"] /\ using = [c \in Callers |-> 0]
    /\ done = [c \in Callers |-> {}] /\ wantedMove = NoWish /\ cleaning = NoCleaning
    /\ misplaced = {} /\ haCalls = 0 /\ haFaults = 0 /\ user = 0
-----------------------------------------------------------------------------
(* Sign-in and sign-out *)

(* start_sign_in and the browser's way back: finish_sign_in pops the state   *)
(* and awaits the exchange.  A pasted long-lived token awaits a connection.  *)
SignsIn ==
    /\ signing = 0 /\ signIns < MaxSignIns
    /\ signIns' = signIns + 1 /\ signing' = signIns + 1
    /\ UNCHANGED <<conn, retryDue, zhaBackup, forgot, zha, radio, devices, cache, bridge, at, using, done,
                   requests, haCalls, haFaults, user>>

SignedIn ==
    /\ signing # 0 /\ signing' = 0
    /\ \/ conn' = signing /\ retryDue' = FALSE /\ cache' = NoInventory /\ UNCHANGED haFaults
       \/ haFaults < MaxHomeFaults /\ haFaults' = haFaults + 1 /\ UNCHANGED <<conn, retryDue, cache>>
    /\ UNCHANGED <<signIns, zhaBackup, forgot, zha, radio, devices, bridge, at, using, done,
                   requests, haCalls, user>>

(* HomeAssistantStore.forget: the sign-in and the backup, never the results. *)
ForgetsHome == conn' = 0 /\ retryDue' = FALSE /\ zhaBackup' = FALSE /\ forgot' = TRUE

SignsOut ==
    /\ user < MaxUser /\ user' = user + 1 /\ ForgetsHome /\ cache' = NoInventory
    /\ UNCHANGED <<signIns, signing, zha, radio, devices, bridge, at, using, done, requests,
                   haCalls, haFaults>>

TokenAges ==
    /\ user < MaxUser /\ user' = user + 1 /\ conn # 0 /\ ~retryDue /\ retryDue' = TRUE
    /\ UNCHANGED <<conn, signIns, signing, zhaBackup, forgot, zha, radio, devices, cache, bridge, at,
                   using, done, requests, haCalls, haFaults>>
-----------------------------------------------------------------------------
(* _api and _capabilities: every caller's way to Home Assistant *)

DoneDevices == {d \in HomeDevices : results[d].state = "done"}
ItemsIn(state) == {d \in DOMAIN moveJob.items : moveJob.items[d] = state}
Goes(c, place) == at' = [at EXCEPT ![c] = place]

(* An item of the job that fails is recorded as failed; a request that      *)
(* fails is answered.                                                       *)
Recorded(d, state) == [results EXCEPT ![d] = [state |-> state, cleaned |-> FALSE]]
HomeCallFails(c) ==
    /\ Goes(c, "off")
    /\ IF c # "item" THEN UNCHANGED <<moveJob, results>>
       ELSE \E d \in ItemsIn("running") :
                moveJob' = [moveJob EXCEPT !.items[d] = "failed"] /\ results' = Recorded(d, "failed")

(* The capabilities are read before the inventory is. *)
Connected(c) == Goes(c, "reads") /\ done' = [done EXCEPT ![c] = DoneDevices]

Opens(c) ==
    /\ at[c] = "opens" /\ using' = [using EXCEPT ![c] = conn]
    /\ \/ conn = 0 /\ HomeCallFails(c) /\ UNCHANGED done
       \/ conn # 0 /\ retryDue /\ Goes(c, "refreshes") /\ UNCHANGED <<done, moveJob, results>>
       \/ conn # 0 /\ ~retryDue /\ Connected(c) /\ UNCHANGED <<moveJob, results>>
    /\ UNCHANGED <<signedIn, zhaBackup, forgot, zha, radio, held, arrived, inHome, cache, tasks,
                   requests, haCalls, haFaults, user>>

(* The renewed tokens are saved over whatever is stored by then. *)
RefreshAnswers(c) ==
    /\ at[c] = "refreshes"
    /\ \/ Connected(c) /\ conn' = using[c] /\ retryDue' = FALSE
          /\ UNCHANGED <<zhaBackup, forgot, moveJob, results, haFaults>>
       \/ haFaults < MaxHomeFaults /\ haFaults' = haFaults + 1 /\ HomeCallFails(c) /\ UNCHANGED done
          /\ (ForgetsHome \/ UNCHANGED <<conn, retryDue, zhaBackup, forgot>>)
    /\ UNCHANGED <<signIns, signing, zha, radio, held, arrived, inHome, cache, tasks, using,
                   requests, haCalls, user>>

(* Home Assistant does not answer, refuses the token, or is no admin's. *)
AnswerFails(c) ==
    /\ at[c] \in {"reads", "backsUp", "disables", "removes"}
    /\ at[c] = "removes" => cleaning.left = {} /\ cleaning.zha
    /\ haFaults < MaxHomeFaults /\ haFaults' = haFaults + 1 /\ HomeCallFails(c)
    /\ UNCHANGED <<signedIn, zhaBackup, forgot, zha, radio, held, arrived, inHome, cache, tasks, using,
                   done, requests, haCalls, user>>

(* read_inventory: a device that came over already is "done", a Zigbee one  *)
(* is there while ZHA is, and a paused ZHA lists its devices no more.       *)
Ready(c) == {d \in inHome : d \notin done[c] /\ (d \in Zigbee => zha = "runs")}
Inventory(c) == [known |-> TRUE, ready |-> Ready(c), paused |-> zha = "paused"]

AsksHome(c) ==
    /\ at[c] = "off" /\ haCalls < MaxHomeCalls /\ haCalls' = haCalls + 1 /\ Goes(c, "opens")
    /\ UNCHANGED <<signedIn, zhaBackup, forgot, zha, radio, devices, cache, bridge, using, done,
                   haFaults, user>>

Looks ==
    /\ at["look"] = "reads" /\ Goes("look", "off") /\ cache' = Inventory("look")
    /\ UNCHANGED <<signedIn, zhaBackup, forgot, zha, radio, devices, bridge, using, done, requests,
                   haCalls, haFaults, user>>
-----------------------------------------------------------------------------
(* pause_zha: the backup, then the disabled ZHA *)

PauseReads ==
    /\ at["pause"] = "reads" /\ cache' = Inventory("pause")
    /\ Goes("pause", IF zha = "runs" THEN "backsUp" ELSE "off")
    /\ UNCHANGED <<signedIn, zhaBackup, forgot, zha, radio, devices, bridge, using, done, requests,
                   haCalls, haFaults, user>>

(* Mutant: ZHA is disabled first. *)
PauseBacksUpNothing ==
    /\ at["pause"] = "backsUp" /\ Goes("pause", "disables")
    /\ UNCHANGED <<signedIn, zhaBackup, forgot, zha, radio, devices, cache, bridge, using, done,
                   requests, haCalls, haFaults, user>>

PauseBacksUp ==
    /\ at["pause"] = "backsUp" /\ Goes("pause", "disables") /\ zhaBackup' = TRUE /\ forgot' = FALSE
    /\ UNCHANGED <<signedIn, zha, radio, devices, cache, bridge, using, done, requests, haCalls,
                   haFaults, user>>

PauseDisables ==
    /\ at["pause"] = "disables" /\ Goes("pause", "off")
    /\ zha' = (IF zha = "runs" THEN "paused" ELSE zha)
    /\ cache' = [cache EXCEPT !.paused = TRUE]
    /\ UNCHANGED <<signedIn, zhaBackup, forgot, radio, devices, bridge, using, done, requests, haCalls,
                   haFaults, user>>
-----------------------------------------------------------------------------
(* restore_zigbee_network, and another stick in the settings *)

RestoresBackup ==
    /\ zhaBackup /\ stick' = "zha" /\ stick # "zha"
    /\ UNCHANGED <<signedIn, zhaBackup, forgot, zha, source, entered, misplaced, devices, cache,
                   bridge, at, using, done, requests, haCalls, haFaults, user>>

StickChanges ==
    /\ user < MaxUser /\ user' = user + 1 /\ stick' \in {"own", "zha"}
    /\ source' = source + 1 /\ entered' = {}
    /\ UNCHANGED <<signedIn, zhaBackup, forgot, zha, misplaced, devices, cache, bridge, at, using,
                   done, requests, haCalls, haFaults>>
-----------------------------------------------------------------------------
(* start_matter, start_zigbee and the task of the job *)

JobOf(wish, ready) ==
    LET kin == IF wish.kind = "matter" THEN Matter ELSE Zigbee
    IN [kind |-> wish.kind, items |-> [d \in wish.devices \intersect ready \intersect kin |-> "waiting"],
        running |-> TRUE, source |-> wish.source]

(* Mutant: a job is started beside one that runs. *)
BeginsBeside(wish, ready) == moveJob' = JobOf(wish, ready) /\ tasks' = tasks + 1

(* _start refuses a second job, after the await of the inventory. *)
Begins(wish, ready) ==
    IF moveJob.running THEN UNCHANGED <<moveJob, tasks>>
    ELSE moveJob' = JobOf(wish, ready) /\ tasks' = tasks + 1

SameNetwork == zhaBackup /\ stick = "zha"

Wish(kind, chosen) == [kind |-> kind, devices |-> chosen, source |-> source]
Wishes ==
    {Wish("matter", some) : some \in {{d} : d \in Matter} \union {Matter}}
        \union (IF SameNetwork THEN {Wish("zigbee", Zigbee)} ELSE {})

(* The Zigbee path takes the inventory that is there, also beside a start   *)
(* that awaits one; both take the source they find before.                  *)
StartAsked ==
    /\ haCalls < MaxHomeCalls /\ haCalls' = haCalls + 1
    /\ \E wish \in Wishes :
          IF wish.kind = "zigbee" /\ cache.known
          THEN Begins(wish, cache.ready) /\ UNCHANGED <<at, wantedMove>>
          ELSE /\ at["start"] = "off" /\ Goes("start", "opens") /\ wantedMove' = wish
               /\ UNCHANGED <<moveJob, tasks>>
    /\ UNCHANGED <<signedIn, zhaBackup, forgot, zha, radio, devices, cache, using, done, cleaning,
                   haFaults, user>>

StartReads ==
    /\ at["start"] = "reads" /\ Goes("start", "off")
    /\ cache' = Inventory("start") /\ Begins(wantedMove, cache'.ready)
    /\ UNCHANGED <<signedIn, zhaBackup, forgot, zha, radio, devices, using, done, requests, haCalls,
                   haFaults, user>>

AtWork(kind) == tasks > 0 /\ moveJob.kind = kind /\ ItemsIn("running") = {} /\ at["item"] = "off"
Enters(d) == held' = held \union {d} /\ arrived' = arrived \union {d}
Finishes(d, state) == moveJob' = [moveJob EXCEPT !.items[d] = state] /\ results' = Recorded(d, state)

(* A device in this bridge's fabric is only registered; another one needs a *)
(* commissioning window from Home Assistant.                                *)
TakesMatter ==
    /\ AtWork("matter")
    /\ \E d \in ItemsIn("waiting") :
          /\ moveJob' = [moveJob EXCEPT !.items[d] = "running"]
          /\ Goes("item", IF d \in InFabric THEN "pairs" ELSE "opens")
    /\ UNCHANGED <<signedIn, zhaBackup, forgot, zha, radio, devices, cache, tasks, using, done,
                   requests, haCalls, haFaults, user>>

WindowOpens ==
    /\ at["item"] = "reads" /\ Goes("item", "pairs")
    /\ UNCHANGED <<signedIn, zhaBackup, forgot, zha, radio, devices, cache, bridge, using, done,
                   requests, haCalls, haFaults, user>>

(* commission or register_node: done, or failed and recorded either way.     *)
PairsAgain ==
    /\ at["item"] = "pairs" /\ Goes("item", "off")
    /\ \E d \in ItemsIn("running") :
          \/ Enters(d) /\ Finishes(d, "done") /\ UNCHANGED haFaults
          \/ haFaults < MaxHomeFaults /\ haFaults' = haFaults + 1 /\ Finishes(d, "failed")
             /\ UNCHANGED <<held, arrived>>
    /\ UNCHANGED <<signedIn, zhaBackup, forgot, zha, radio, inHome, cache, tasks, using, done,
                   requests, haCalls, user>>

(* import_devices, in one go before the first item: a source that was       *)
(* replaced raises, and every item has failed without a record.             *)
Imports ==
    /\ AtWork("zigbee") /\ at["item"] = "off" /\ ItemsIn("waiting") # {}
    /\ \A d \in DOMAIN moveJob.items : moveJob.items[d] = "waiting"
    /\ IF moveJob.source # source
       THEN /\ moveJob' = [moveJob EXCEPT !.items = [d \in DOMAIN @ |-> "failed"]]
            /\ UNCHANGED <<entered, misplaced, at>>
       ELSE /\ \E some \in SUBSET DOMAIN moveJob.items : entered' = entered \union some
            /\ misplaced' = IF stick = "zha" THEN misplaced ELSE misplaced \union DOMAIN moveJob.items
            /\ Goes("item", "imported") /\ UNCHANGED moveJob
    /\ UNCHANGED <<signedIn, zhaBackup, forgot, zha, stick, source, devices, cache, tasks, using,
                   done, requests, haCalls, haFaults, user>>

(* A device zigpy refused, or one that never gives a snapshot, has failed.  *)
TakesZigbee ==
    /\ at["item"] = "imported" /\ ItemsIn("running") = {}
    /\ \E d \in ItemsIn("waiting") :
          \/ d \in entered /\ Enters(d) /\ moveJob' = [moveJob EXCEPT !.items[d] = "running"]
             /\ UNCHANGED <<results, haFaults>>
          \/ d \notin entered /\ Finishes(d, "failed") /\ UNCHANGED <<held, arrived, haFaults>>
          \/ d \in entered /\ haFaults < MaxHomeFaults /\ haFaults' = haFaults + 1
             /\ Finishes(d, "failed") /\ UNCHANGED <<held, arrived>>
    /\ UNCHANGED <<signedIn, zhaBackup, forgot, zha, radio, inHome, cache, tasks, at, using, done,
                   requests, haCalls, user>>

(* follow() is follow-up work only: the device is done whatever it does. *)
ZigbeeDone ==
    /\ at["item"] = "imported" /\ \E d \in ItemsIn("running") : Finishes(d, "done")
    /\ UNCHANGED <<signedIn, zhaBackup, forgot, zha, radio, held, arrived, inHome, cache, tasks, at,
                   using, done, requests, haCalls, haFaults, user>>

JobEnds ==
    /\ tasks > 0 /\ moveJob.running /\ ItemsIn("running") \union ItemsIn("waiting") = {}
    /\ moveJob' = [moveJob EXCEPT !.running = FALSE] /\ tasks' = tasks - 1 /\ Goes("item", "off")
    /\ UNCHANGED <<signedIn, zhaBackup, forgot, zha, radio, devices, cache, using, done, requests,
                   haCalls, haFaults, user>>

(* Mutant: an exception ends the task and nothing else. *)
JobRaisesQuietly ==
    /\ tasks > 0 /\ moveJob.running /\ haFaults < MaxHomeFaults /\ haFaults' = haFaults + 1
    /\ moveJob' = [moveJob EXCEPT !.running = FALSE] /\ tasks' = tasks - 1 /\ Goes("item", "off")
    /\ UNCHANGED <<signedIn, zhaBackup, forgot, zha, radio, devices, cache, using, done, requests,
                   haCalls, user>>

(* An exception nobody expected: what was not finished has failed, without  *)
(* a record.                                                                *)
JobRaises ==
    /\ tasks > 0 /\ moveJob.running /\ haFaults < MaxHomeFaults /\ haFaults' = haFaults + 1
    /\ moveJob' = [moveJob EXCEPT !.running = FALSE,
                          !.items = [d \in DOMAIN @ |-> IF @[d] = "done" THEN "done" ELSE "failed"]]
    /\ tasks' = tasks - 1 /\ Goes("item", "off")
    /\ UNCHANGED <<signedIn, zhaBackup, forgot, zha, radio, devices, cache, using, done, requests,
                   haCalls, user>>
-----------------------------------------------------------------------------
(* clean_up *)

CleanAsked ==
    /\ AsksHome("clean") /\ UNCHANGED wantedMove
    /\ \E goes \in BOOLEAN :
          cleaning' = [results |-> results, left |-> HomeDevices, zha |-> goes]

CleanReads ==
    /\ at["clean"] = "reads" /\ Goes("clean", "removes") /\ cache' = Inventory("clean")
    /\ UNCHANGED <<signedIn, zhaBackup, forgot, zha, radio, devices, bridge, using, done, requests,
                   haCalls, haFaults, user>>

(* Mutant: a device that failed is taken out of Home Assistant as well. *)
ArrivedOrFailed(d) == cleaning.results[d].state # "none" /\ d \in Matter

(* What the results said before the first await. *)
Arrived(d) == cleaning.results[d].state = "done" /\ d \in Matter

CleanRemoves ==
    /\ at["clean"] = "removes"
    /\ \E d \in cleaning.left :
          /\ cleaning' = [cleaning EXCEPT !.left = @ \ {d}]
          /\ \/ Arrived(d) /\ inHome' = inHome \ {d} /\ UNCHANGED haFaults
                /\ results' = [results EXCEPT ![d] = [state |-> "done", cleaned |-> TRUE]]
             \/ Arrived(d) /\ haFaults < MaxHomeFaults /\ haFaults' = haFaults + 1
                /\ UNCHANGED <<inHome, results>>
             \/ ~Arrived(d) /\ UNCHANGED <<inHome, results, haFaults>>
    /\ UNCHANGED <<signedIn, zhaBackup, forgot, zha, radio, held, arrived, cache, bridge, at, using,
                   done, wantedMove, haCalls, user>>

CleanEnds ==
    /\ at["clean"] = "removes" /\ cleaning.left = {} /\ Goes("clean", "off")
    /\ IF cleaning.zha /\ zha # "removed"
       THEN /\ zha' = "removed" /\ inHome' = inHome \ Zigbee
            /\ results' = [d \in HomeDevices |->
                             IF d \in Zigbee /\ cleaning.results[d].state = "done"
                             THEN [state |-> "done", cleaned |-> TRUE] ELSE results[d]]
       ELSE UNCHANGED <<zha, inHome, results>>
    /\ cleaning' = NoCleaning
    /\ UNCHANGED <<signedIn, zhaBackup, forgot, radio, held, arrived, cache, bridge, using, done,
                   wantedMove, haCalls, haFaults, user>>
-----------------------------------------------------------------------------
(* The device is deleted from the bridge; its result stays. *)
DeviceDeleted ==
    /\ user < MaxUser /\ user' = user + 1
    /\ \E d \in held : held' = held \ {d} /\ entered' = entered \ {d}
    /\ UNCHANGED <<signedIn, zhaBackup, forgot, zha, stick, source, misplaced, arrived, inHome, results,
                   cache, bridge, at, using, done, requests, haCalls, haFaults>>

MigrationRestarts ==
    /\ user < MaxUser /\ user' = user + 1
    /\ signing' = 0 /\ cache' = NoInventory /\ moveJob' = NoJob /\ tasks' = 0
    /\ at' = [c \in Callers |-> "off"] /\ wantedMove' = NoWish /\ cleaning' = NoCleaning
    /\ UNCHANGED <<conn, retryDue, signIns, zhaBackup, forgot, zha, radio, devices, using, done, haCalls,
                   haFaults>>

Page == SignsIn \/ SignedIn \/ SignsOut \/ TokenAges \/ RestoresBackup \/ StickChanges \/ DeviceDeleted
Client == \E c \in Callers : Opens(c) \/ RefreshAnswers(c) \/ AnswerFails(c)
Pausing == PauseReads \/ PauseBacksUp \/ PauseDisables
Working ==
    \/ StartReads \/ TakesMatter \/ WindowOpens \/ PairsAgain \/ Imports \/ TakesZigbee
    \/ ZigbeeDone \/ JobEnds \/ JobRaises
Cleaning == CleanAsked \/ CleanReads \/ CleanRemoves \/ CleanEnds
HomeNext ==
    \/ Page \/ Client \/ (\E c \in {"look", "pause"} : AsksHome(c) /\ UNCHANGED requests) \/ Looks
    \/ Pausing \/ StartAsked \/ Working \/ Cleaning \/ MigrationRestarts

HomeSpec == HomeInit /\ [][HomeNext]_homeVars
-----------------------------------------------------------------------------
(* A start whose inventory comes while another one has its job makes none. *)
OneJob == tasks <= 1

(* A job the page is told is over has no item left that it waits for. *)
JobTellsTheEnd == ~moveJob.running => ItemsIn("waiting") \union ItemsIn("running") = {}

(* Home Assistant loses a Matter device only after it came over             *)
(* (migration.py:596, "devices ... that arrived here - only those").        *)
OnlyArrivedAreRemoved == Matter \ inHome \subseteq arrived

(* Whoever paused ZHA has its network saved, unless the user signed out     *)
(* since the backup was made.                                               *)
PausedAfterBackup == zha = "paused" => zhaBackup \/ forgot

(* A device is entered only where it can answer: into ZHA's own network     *)
(* (migration.py:531), however long the inventory took.                     *)
EnteredWhereTheyLive == misplaced = {}

HomeTypeOK ==
    /\ conn \in 0..MaxSignIns /\ held \subseteq arrived /\ DoneDevices \subseteq arrived
    /\ results \in [HomeDevices -> [state : {"none", "done", "failed"}, cleaned : BOOLEAN]]

HomeSafe ==
    /\ HomeTypeOK /\ OneJob /\ JobTellsTheEnd /\ OnlyArrivedAreRemoved
    /\ PausedAfterBackup /\ EnteredWhereTheyLive

(* "Both in this order: a disabled ZHA cannot make a backup any more"       *)
(* (migration.py:487): ZHA is disabled with its backup in the store.        *)
DisabledWithBackup == [][zha' = "paused" => zha = "paused" \/ zhaBackup]_homeVars

(* The sign-in of the user is the newest one, or none after a sign-out: a   *)
(* renewed token never brings an older one back.                            *)
SignInGoesForward == [][conn' = 0 \/ conn' = conn \/ (conn' > conn /\ signing = conn')]_homeVars
=============================================================================
