--------------------------- MODULE ThreadNetwork ---------------------------
(* The Thread network of the border router, and who hands it to             *)
(* matter-server: matter/thread_network.py and matter/otbr.py, with the     *)
(* dataset step of commissioning/run.py.                                    *)
(*                                                                          *)
(* Three coroutines share a border router and a matter-server without a     *)
(* lock: the keeper's passes (one task per process, which ends for good     *)
(* with its first successful hand-over), ThreadNetworkKeeper.adopt (the     *)
(* Home Assistant migration) and a commissioning run that hands over the    *)
(* dataset it fetched.  Every request is one action: what the server does   *)
(* with it, then the code up to the next request.  A request may fail, and  *)
(* one that changes something may fail after it did.  A hand-over is two    *)
(* actions, because `_handover_owed` is cleared only after its answer.      *)
(*                                                                          *)
(* A network is a number: 0 none, Older one of an earlier installation,     *)
(* Home Assistant's, and the ones the border router made up, in order.      *)
EXTENDS Naturals

CONSTANTS MaxThreadFaults,     \* requests that fail
          MaxJoins,      \* adoptions the user asks for
          MaxRestarts,   \* restarts of the bridge
          MaxLosses      \* data directories of a server that are removed

ASSUME ThreadAssumption == {MaxThreadFaults, MaxJoins, MaxRestarts, MaxLosses} \subseteq Nat

Older == 1
Home == 2

VARIABLES net,      \* the border router's active dataset
          role,     \* "disabled", or "leader" for every role of a running agent
          made,     \* how many networks the border router made up
          handedOver,    \* the dataset matter-server holds
          known,    \* the client's thread_dataset_set
          lives,    \* the networks matter-server's Thread devices live in
          owed,     \* the keeper's _handover_owed
          status,   \* the keeper's ThreadNetworkStatus.state
          keeper, joiner, pairing,   \* where each coroutine is, and what it read
          outcome,  \* how the last adoption ended
          late,     \* networks a device joined after a count that is still used
          stranded, \* networks replaced while a device lived in them
          excuses,  \* why matter-server may hold another network
          threadFaults, joins, restarts, losses

threadVars == <<net, role, made, handedOver, known, lives, owed, status, keeper, joiner,
                pairing, outcome, late, stranded, excuses, threadFaults, joins, restarts, losses>>

bounds == <<threadFaults, joins, restarts, losses>>
server == <<handedOver, known, lives>>
router == <<net, role, made>>
ghosts == <<late, stranded, excuses>>

At(place, read) == [at |-> place, read |-> read]
NoStep == At("off", 0)
Waits == At("waits", 0)

ThreadInit ==
    /\ net \in {0, Older} /\ role = IF net = 0 THEN "disabled" ELSE "leader"
    /\ made = 0
    /\ handedOver \in {0, Older} /\ known = (handedOver # 0)
    /\ lives \in IF handedOver = 0 THEN {{}} ELSE {{}, {Older}}
    /\ owed = TRUE /\ status = "unknown"
    /\ keeper = Waits /\ joiner = NoStep /\ pairing = NoStep /\ outcome = "none"
    /\ late = {} /\ stranded = {} /\ excuses = {}
    /\ threadFaults = 0 /\ joins = 0 /\ restarts = 0 /\ losses = 0

(* A request that fails: unreachable, a timeout, a status it does not expect. *)
Faulty == threadFaults < MaxThreadFaults /\ threadFaults' = threadFaults + 1 /\ UNCHANGED <<joins, restarts, losses>>

(* The border router's network changes: whoever still holds a dataset it    *)
(* read earlier will hand over the wrong one, and an answer to a hand-over  *)
(* that is still on its way clears the debt of another network.             *)
NetBecomes(n) ==
    /\ net' = n
    /\ excuses' = IF joiner.at = "enables"
                     \/ \E who \in {keeper, joiner, pairing} : who.at \in {"hands", "paid"}
                  THEN excuses \union {"crossed"} ELSE excuses

(* matter-server takes a dataset: set_thread_operational_dataset.  With the *)
(* network that is on the air, what went wrong before is put right - unless *)
(* somebody else still holds another one.                                   *)
Stale ==
    \/ joiner.at = "enables" /\ net # Home
    \/ \E who \in {keeper, joiner, pairing} : who.at = "hands" /\ who.read # net
ServerTakes(dataset) ==
    /\ handedOver' = dataset
    /\ excuses' = IF dataset # net THEN excuses ELSE IF Stale THEN {"crossed"} ELSE {}
    /\ UNCHANGED <<lives, late, stranded>>

(* The devices of a network the bridge gives up or forms another one beside. *)
Strands(networks) == stranded' = stranded \union (networks \ late)
-----------------------------------------------------------------------------
(* ThreadNetworkKeeper.run_pass *)

KeeperKeeps == UNCHANGED <<joiner, pairing, outcome, joins, restarts, losses>>

(* _hand_over with the dataset just read: without force, a matter-server    *)
(* that says it has one is left alone, and the keeper has ended.            *)
HandsNext(force) == keeper' = IF ~force /\ known THEN At("done", 0) ELSE At("hands", net)

KeeperReads ==
    /\ keeper.at = "waits"
    /\ \/ /\ Faulty /\ keeper' = Waits
          /\ status' = IF status = "missing" THEN status ELSE "unknown"
       \/ net # 0 /\ status' = "formed" /\ HandsNext(owed) /\ UNCHANGED threadFaults
       \/ net = 0 /\ keeper' = At("asksRole", 0) /\ UNCHANGED <<status, threadFaults>>
    /\ KeeperKeeps /\ UNCHANGED <<router, server, owed, ghosts>>

KeeperAsksRole ==
    /\ keeper.at = "asksRole"
    /\ \/ Faulty /\ keeper' = Waits
       \/ keeper' = (IF role = "disabled" THEN At("asksNodes", 0) ELSE Waits) /\ UNCHANGED threadFaults
    /\ KeeperKeeps /\ UNCHANGED <<router, server, owed, status, ghosts>>

KeeperAsksNodes ==
    /\ keeper.at = "asksNodes"
    /\ \/ Faulty /\ keeper' = Waits /\ UNCHANGED status
       \/ lives # {} /\ status' = "missing" /\ keeper' = Waits /\ UNCHANGED threadFaults
       \/ lives = {} /\ status' = "forming" /\ keeper' = At("creates", 0) /\ UNCHANGED threadFaults
    /\ KeeperKeeps /\ UNCHANGED <<router, server, owed, ghosts>>

Creates == NetBecomes(Home + made + 1) /\ made' = made + 1 /\ Strands(lives)

(* create_network_if_absent: 412 beside a network, 409 beside a running agent. *)
KeeperCreates ==
    /\ keeper.at = "creates"
    /\ \/ Faulty /\ keeper' = Waits /\ status' = "unknown" /\ UNCHANGED owed
          /\ \/ UNCHANGED <<net, made, excuses, stranded>>
             \/ net = 0 /\ role = "disabled" /\ net' = Home + made + 1 /\ made' = made + 1
                /\ Strands(lives) /\ excuses' = excuses \union {"torn"}
       \/ (net # 0 \/ role # "disabled") /\ keeper' = Waits
          /\ UNCHANGED <<net, made, excuses, stranded, owed, status, threadFaults>>
       \/ net = 0 /\ role = "disabled" /\ Creates /\ owed' = TRUE
          /\ keeper' = At("enables", 0) /\ UNCHANGED <<status, threadFaults>>
    /\ KeeperKeeps /\ UNCHANGED <<role, server, late>>

KeeperEnables ==
    /\ keeper.at = "enables"
    /\ \/ Faulty /\ keeper' = Waits /\ status' = "unknown" /\ role' \in {role, "leader"}
       \/ role' = "leader" /\ keeper' = At("rereads", 0) /\ UNCHANGED <<status, threadFaults>>
    /\ KeeperKeeps /\ UNCHANGED <<net, made, server, owed, ghosts>>

KeeperRereads ==
    /\ keeper.at = "rereads"
    /\ \/ Faulty /\ keeper' = Waits /\ status' = "unknown"
       \/ net = 0 /\ keeper' = Waits /\ UNCHANGED <<status, threadFaults>>
       \/ net # 0 /\ status' = "formed" /\ HandsNext(TRUE) /\ UNCHANGED threadFaults
    /\ KeeperKeeps /\ UNCHANGED <<router, server, owed, ghosts>>

KeeperHands ==
    /\ keeper.at = "hands"
    /\ \/ Faulty /\ keeper' = Waits /\ (ServerTakes(keeper.read) \/ UNCHANGED <<handedOver, lives, ghosts>>)
          /\ UNCHANGED known
       \/ ServerTakes(keeper.read) /\ known' = TRUE /\ keeper' = At("paid", 0) /\ UNCHANGED threadFaults
    /\ KeeperKeeps /\ UNCHANGED <<router, owed, status>>

KeeperPaid ==
    /\ keeper.at = "paid" /\ keeper' = At("done", 0) /\ owed' = FALSE
    /\ KeeperKeeps /\ UNCHANGED <<router, server, status, ghosts, threadFaults>>
-----------------------------------------------------------------------------
(* ThreadNetworkKeeper.adopt, with replace_active_dataset *)

JoinerKeeps == UNCHANGED <<keeper, pairing, joins, restarts, losses>>
JoinFails == Faulty /\ joiner' = NoStep /\ outcome' = "failed"
JoinGoesOn(place) == joiner' = At(place, 0) /\ UNCHANGED <<outcome, threadFaults>>

(* Same network: nothing is replaced, matter-server is handed it all the same. *)
AdoptReads ==
    /\ joiner.at = "off" /\ joins < MaxJoins /\ joins' = joins + 1
    /\ \/ threadFaults < MaxThreadFaults /\ threadFaults' = threadFaults + 1 /\ outcome' = "failed"
          /\ UNCHANGED <<joiner, status>>
       \/ net = Home /\ status' = "formed" /\ joiner' = At("hands", net) /\ outcome' = "same"
          /\ UNCHANGED threadFaults
       \/ net # Home /\ joiner' = At(IF net = 0 THEN "asksRole" ELSE "asksNodes", 0)
          /\ UNCHANGED <<status, outcome, threadFaults>>
    /\ UNCHANGED <<router, server, owed, ghosts, keeper, pairing, restarts, losses>>

(* Mutant: the devices of the border router's own network are not counted. *)
AdoptCountsNobody ==
    /\ joiner.at = "asksNodes"
    /\ JoinFails \/ JoinGoesOn("asksRole")
    /\ JoinerKeeps /\ UNCHANGED <<router, server, owed, status, ghosts>>

AdoptAsksNodes ==
    /\ joiner.at = "asksNodes"
    /\ \/ JoinFails
       \/ lives # {} /\ joiner' = NoStep /\ outcome' = "inUse" /\ UNCHANGED threadFaults
       \/ lives = {} /\ JoinGoesOn("asksRole")
    /\ JoinerKeeps /\ UNCHANGED <<router, server, owed, status, ghosts>>

AdoptAsksRole ==
    /\ joiner.at = "asksRole"
    /\ JoinFails \/ JoinGoesOn(IF role = "disabled" THEN "puts" ELSE "disables")
    /\ JoinerKeeps /\ UNCHANGED <<router, server, owed, status, ghosts>>

AdoptDisables ==
    /\ joiner.at = "disables"
    /\ \/ JoinFails /\ role' \in {role, "disabled"}
       \/ role' = "disabled" /\ JoinGoesOn("puts")
    /\ JoinerKeeps /\ UNCHANGED <<net, made, server, owed, status, ghosts>>

(* The border router refuses an active dataset while its agent runs. *)
AdoptPuts ==
    /\ joiner.at = "puts"
    /\ \/ JoinFails /\ UNCHANGED <<net, excuses, stranded>>
       \/ JoinFails /\ role = "disabled" /\ net' = Home /\ Strands(lives \intersect {net})
          /\ excuses' = excuses \union {"torn"}
       \/ role # "disabled" /\ joiner' = NoStep /\ outcome' = "failed"
          /\ UNCHANGED <<net, excuses, stranded, threadFaults>>
       \/ role = "disabled" /\ NetBecomes(Home) /\ Strands(lives \intersect {net})
          /\ JoinGoesOn("enables")
    /\ JoinerKeeps /\ UNCHANGED <<role, made, server, owed, status, late>>

(* What a failure leaves here: the new network, which nobody is owed. *)
AdoptEnables ==
    /\ joiner.at = "enables"
    /\ \/ JoinFails /\ role' \in {role, "leader"} /\ excuses' = excuses \union {"torn"}
          /\ UNCHANGED <<owed, status>>
       \/ role' = "leader" /\ status' = "formed" /\ owed' = TRUE /\ outcome' = "adopted"
          /\ joiner' = At("hands", Home) /\ UNCHANGED <<excuses, threadFaults>>
    /\ JoinerKeeps /\ UNCHANGED <<net, made, server, late, stranded>>

AdoptHands ==
    /\ joiner.at = "hands"
    /\ \/ JoinFails /\ UNCHANGED known
          /\ \/ ServerTakes(joiner.read)
             \/ excuses' = excuses \union {"torn"} /\ UNCHANGED <<handedOver, lives, late, stranded>>
       \/ ServerTakes(joiner.read) /\ known' = TRUE /\ joiner' = At("paid", 0)
          /\ UNCHANGED <<outcome, threadFaults>>
    /\ JoinerKeeps /\ UNCHANGED <<router, owed, status>>

AdoptPaid ==
    /\ joiner.at = "paid" /\ joiner' = NoStep /\ owed' = FALSE
    /\ JoinerKeeps /\ UNCHANGED <<router, server, status, ghosts, outcome, threadFaults>>
-----------------------------------------------------------------------------
(* commissioning/run.py, the dataset before the pairing *)

PairingKeeps == UNCHANGED <<router, owed, status, keeper, joiner, outcome, joins, restarts, losses>>

(* No abort when the border router has none: a Wi-Fi device needs none. *)
PairingFetches ==
    /\ pairing.at = "off" /\ ~known
    /\ net # 0 /\ pairing' = At("hands", net)
    /\ PairingKeeps /\ UNCHANGED <<server, ghosts, threadFaults>>

PairingHands ==
    /\ pairing.at = "hands" /\ pairing' = NoStep
    /\ \/ Faulty /\ UNCHANGED known /\ (ServerTakes(pairing.read) \/ UNCHANGED <<handedOver, lives, ghosts>>)
       \/ ServerTakes(pairing.read) /\ known' = TRUE /\ UNCHANGED threadFaults
    /\ PairingKeeps

(* The dataset the user typed goes to matter-server as it is. *)
TypedIn ==
    /\ pairing.at = "off" /\ "typed" \notin excuses
    /\ handedOver' = Older /\ known' = TRUE
    /\ excuses' = excuses \union {"typed"}
    /\ PairingKeeps /\ UNCHANGED <<pairing, lives, late, stranded, threadFaults>>

(* A Thread device is paired into the network matter-server knows, which    *)
(* has to be the one on the air.                                            *)
DeviceJoins ==
    /\ handedOver = net /\ net # 0 /\ role = "leader" /\ net \notin lives
    /\ lives' = lives \union {net}
    /\ late' = IF joiner.at \in {"asksRole", "disables", "puts"} \/ keeper.at = "creates"
               THEN late \union {net} ELSE late
    /\ PairingKeeps /\ UNCHANGED <<handedOver, known, pairing, stranded, excuses, threadFaults>>
-----------------------------------------------------------------------------
(* The servers lose what they held, and the bridge restarts *)

RouterLoses ==
    /\ losses < MaxLosses /\ losses' = losses + 1 /\ net # 0
    /\ NetBecomes(0) /\ role' = "disabled"
    /\ UNCHANGED <<made, server, owed, status, keeper, joiner, pairing, outcome, late, stranded,
                   threadFaults, joins, restarts>>

(* The client reconnects and reads the flag anew. *)
ServerLoses ==
    /\ losses < MaxLosses /\ losses' = losses + 1 /\ handedOver # 0
    /\ handedOver' = 0 /\ known' = FALSE /\ lives' = {}
    /\ UNCHANGED <<router, owed, status, keeper, joiner, pairing, outcome, ghosts,
                   threadFaults, joins, restarts>>

(* Mutant: a keeper that starts anew trusts what matter-server says it has. *)
BridgeRestartsTrusting ==
    /\ restarts < MaxRestarts /\ restarts' = restarts + 1
    /\ keeper' = Waits /\ joiner' = NoStep /\ pairing' = NoStep /\ outcome' = "none"
    /\ owed' = FALSE /\ status' = "unknown" /\ known' = (handedOver # 0) /\ excuses' = {}
    /\ UNCHANGED <<router, handedOver, lives, late, stranded, threadFaults, joins, losses>>

(* Whatever matter-server held before is handed over anew, so no excuse is left. *)
BridgeRestarts ==
    /\ restarts < MaxRestarts /\ restarts' = restarts + 1
    /\ keeper' = Waits /\ joiner' = NoStep /\ pairing' = NoStep /\ outcome' = "none"
    /\ owed' = TRUE /\ status' = "unknown" /\ known' = (handedOver # 0) /\ excuses' = {}
    /\ UNCHANGED <<router, handedOver, lives, late, stranded, threadFaults, joins, losses>>
-----------------------------------------------------------------------------
KeeperSteps ==
    \/ KeeperReads \/ KeeperAsksRole \/ KeeperAsksNodes \/ KeeperCreates
    \/ KeeperEnables \/ KeeperRereads \/ KeeperHands \/ KeeperPaid
AdoptSteps ==
    \/ AdoptReads \/ AdoptAsksNodes \/ AdoptAsksRole \/ AdoptDisables
    \/ AdoptPuts \/ AdoptEnables \/ AdoptHands \/ AdoptPaid
ThreadNext ==
    \/ KeeperSteps \/ AdoptSteps \/ PairingFetches \/ PairingHands \/ TypedIn
    \/ DeviceJoins \/ RouterLoses \/ ServerLoses \/ BridgeRestarts

ThreadSpec == ThreadInit /\ [][ThreadNext]_threadVars
-----------------------------------------------------------------------------
Settled == keeper.at = "done" /\ joiner.at = "off" /\ pairing.at = "off"

(* Once nobody is at work any more, matter-server holds the border router's *)
(* network - or none, and the bridge knows that it has none, so that the    *)
(* next commissioning hands it over.  Excused are what the code leaves      *)
(* open: a network replaced under a hand-over that had read the old one, an *)
(* adoption that failed half-way, and a dataset the user typed.             *)
ServerHasTheNetwork ==
    Settled /\ excuses = {} /\ net # 0 => handedOver = net \/ (handedOver = 0 /\ ~known)

(* "The one thing it must never do" (thread_network.py:26) is replace a     *)
(* network devices live in: nothing the keeper forms and nothing an         *)
(* adoption puts in its place strands a device that was paired before       *)
(* matter-server was asked for its nodes.                                   *)
NobodyIsStranded == stranded = {}

ThreadTypeOK ==
    /\ net \in Nat /\ role \in {"disabled", "leader"} /\ handedOver \in Nat
    /\ known \in BOOLEAN /\ owed \in BOOLEAN
    /\ status \in {"unknown", "formed", "forming", "missing"}

ThreadSafe == ThreadTypeOK /\ ServerHasTheNetwork /\ NobodyIsStranded

(* "A network devices live in is never replaced" (thread_network.py:272),   *)
(* also one that gets its first device while the adoption is under way.     *)
NeverReplacedUnderDevices == [][net \notin lives \/ net' = net \/ net' = 0]_threadVars

(* "True until a hand-over actually succeeds" (thread_network.py:154): a    *)
(* hand-over that is owed has somebody left to make it.                     *)
OwedIsPaidByAPass == owed => keeper.at # "done" \/ joiner.at # "off"
=============================================================================
