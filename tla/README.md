# loxmatter in TLA+: models, checks and proofs

loxmatter is a bridge between Matter and Zigbee devices and a Loxone
Miniserver. It runs as one Python process on one asyncio event loop, next to a
matter-server (a websocket), a Zigbee radio, a border router and an updater
container. Values travel to the Miniserver as UDP datagrams; commands come from
it as HTTP requests; a web UI shows and changes everything else.

This directory holds models of the parts of that program whose correctness
depends on the order of steps, the runs in which TLC checks them, and proofs
that TLAPS checks. All paths below are relative to `src/loxmatter/` of the
repository. `PROJECT.json` is the index: components, runs, the code lines each
definition stands for, the hazards and the theorems.

    tlc -workers 2 -config RuntimeValues.cfg MCRuntimeValues     # one run
    tlapm RuntimeValuesProofs.tla                                # one proof

## 1. The system

### Components, state, operations

| Component | Code | State it keeps | Operations |
|---|---|---|---|
| UDP sender | `loxone/sender.py` | target address, socket, debounce cache `_last_sent`, the lock, time of the last datagram | `send`, `set_target`, `close` |
| Runtime | `loxone/runtime.py` | `_last_values`, `_counters`, `_pulses_high`, heartbeat phase, tasks | `on_attribute`, `set_online`, `on_event`, `on_node_snapshot`, `seed_from_snapshot`, `resend_all`, `resend_marked`, heartbeat and resend loops, `stop` |
| HTTP towards Loxone | `loxone/server.py` | none | commands, resync |
| Command gate | `commands/coalesce.py` | per device one lane: waiting requests, a worker, the time of the last value | `run`, `submit` |
| Fan-out, switching on first, translation | `commands/{fanout,switch_on,translate,color,adapt}.py` | none of their own | one command to the calls of one or several devices |
| Matter connection | `matter/client.py` | upstream, subscriptions, queue of updates, `_seed_pending` | `connect`, `disconnect`, `subscribe`, `follow`, commands |
| Supervisor | `sources/supervisor.py` | the state of its loop | `attach`, `supervise` |
| Zigbee | `zigbee/*.py` | radio application, link, reported availability, pending configuration | join, configure, sweep, reconnect |
| Commissioning | `commissioning/{session,run,identify}.py` | cards, adverts, codes, queue, naming line, radio lock, worker, who blinks | scan, add code, start, force, remove, name |
| Firmware updates | `firmware/*.py`, `model/firmware_status_store.py` | offers, job states, queue, halt reason (SQLite); one follow task, one queue task | check, install, follow, resume, enqueue, clear |
| Thread | `matter/{thread_network,otbr}.py` | the dataset | form the network, hand its dataset over |
| Store | `model/store.py` and settings stores | SQLite: devices, signals, keys, rooms, groups | register, remove, export flags |
| Updates of the bridge | `update.py`, `deploy/updater/*.sh` | files in a shared volume | request, accept, back up, pull, recreate, roll back |
| Radios | `radios/*.py`, `deploy/updater/radios-once.sh` | files in a shared volume, `/sys` | assign a stick, restart a container |
| Project sync, export | `projectsync/*.py`, `export/*.py` | none | diff and patch of a Loxone project, templates |
| Login | `auth/*.py`, `api/auth.py`, `model/auth_store.py` | password and sessions (SQLite), failures and locks per address | set-up, login, logout, change, `set-password` |
| Removal of devices | `api/devices.py` | the running removals, the reasons of the failed ones | `DELETE /devices/{id}`, its task |
| Web UI and its API | the rest of `api/*.py`, `web/*` | a bounded queue per browser | routes |
| Home Assistant migration | `homeassistant/*.py` | a plan | copy devices over |

### How they interact

* **Up.** matter-server or the radio reports to the source's subscription; the
  source's dispatch task awaits the Runtime handler; the handler caches the
  value and awaits `UdpSender.send`. The sender is shared by every dispatcher,
  every resend, the pulses, the heartbeat and `stop()`.
* **Down.** A request of the Miniserver or the UI becomes calls for devices and
  passes the gate of its device; the gate's worker calls the source.
* **Sideways.** A lost link wakes the supervisor, which disconnects, connects,
  subscribes, seeds the Runtime from snapshots and resends everything. The
  commissioning worker registers a device in the store and asks the source to
  follow it, as the end of a firmware update does. Firmware offers, jobs and the
  queue are read and written by the checks, the follow task and the queue task.

### What is hard here

Everything runs on one event loop, so the interleavings are those of the
`await`s: what was read before one may be stale after it. The recurring shapes
are a comparison before a lock (sender, labels of adverts, reported
availability), a state written after the call it describes (counters, debts),
a queue whose head is read before an await and popped after it, one failing
step among several, restarts with half of the state in SQLite, and links that
go down in the middle of any of these. `PROJECT.json` lists them one by one,
each with its line and with the property that would catch it.

## 2. The modules

| Module | Models | Extends / composes |
|---|---|---|
| `UdpSender` | `send`, `set_target`, `close`: debounce cache, FIFO lock | |
| `ValueFeed` | what the value path promises the Miniserver (abstract) | |
| `RuntimeValues` | values, snapshots, all resends, shutdown | `UdpSender`; implements `ValueFeed` |
| `RuntimeEvents` | pulses, counters, heartbeat, `stop()` | `UdpSender` |
| `CommandGate` | the gate in front of a device | |
| `LightAdapt` | which calls a light gets for a command and a value | |
| `LampCommands` | a command on its way to one or several lamps | |
| `MatterLink` | Matter: subscriptions, delivery, debts, supervisor | |
| `ZigbeeRadio` | the stick: change, connection, supervisor, join window | |
| `ZigbeeAvailability` | whether a Zigbee device is shown online | |
| `ZigbeeConfigure` | binding and reporting of a new device, its debts, polling | |
| `ZigbeeDelivery` | what a Zigbee device reports, its adoption and removal | |
| `CommissioningSession` | scan, codes, cards, worker, naming line | |
| `CommissioningAttempt` | one commissioning and the tracker the pages read | |
| `Identify` | which device blinks | |
| `FirmwareUpdates` | checks, one install, the queue, restarts | |
| `Store`, `StoreSchema` | the database: devices, commands, groups, export marks; its migrations | |
| `Sidecar` | the mailbox between bridge and updater container, on both sides | |
| `ThreadNetwork` | the Thread network between keeper, adoption, commissioning | |
| `HomeAssistant` | the move of devices from Home Assistant | |
| `ProjectSync` | comparison and patching of a Loxone project file | |
| `Streams` | pages that watch values and logs | |
| `DeviceRemoval` | the removal of a device from source and store | |
| `Login` | password, sessions, throttle | |
| `SenderProofs` | lemmas about sequences and about the sender's line | `UdpSender` |
| `RuntimeValuesProofs`, `RuntimeEventsProofs` | theorems, with the lemmas of `SenderProofs` | the module they are named for |
| `FirmwareUpdatesProofs` | theorems | the module it is named for |
| `SourcesProofs` | theorems | `MatterLink`, `ZigbeeRadio`, `ZigbeeConfigure`, `ZigbeeDelivery`, `ZigbeeAvailability` |
| `AskedProofs` | theorems | `CommandGate`, `LightAdapt`, `LampCommands`, `DeviceRemoval`, `Login`, `HomeAssistant`, `Streams` |
| `JoiningProofs` | theorems about `MCJoining` | `CommissioningSession`, `CommissioningAttempt`, `Identify` |
| `KeptProofs` | theorems | `ThreadNetwork`, `Store`, `StoreSchema`, `Sidecar`, `ProjectSync` |
| `MCServed`, `MCAsked`, `MCJoining`, `MCSources`, `MCAnswered`, `MCSeen`, `MCKept` | several of the above in one run, see section 3 | |
| the other `MC...` | values of the constants for TLC | the module of the same name |

Three conventions. The code between two awaits is one action, since nothing else
runs meanwhile; a handler with several awaits is several actions. Each module
has, next to a definition, the operators called *Mutant*: the same definition
with a plausible bug in it, which shows that a property notices it. And where the
code does not keep what it says, the property that does hold excuses exactly the
case, mostly with a history variable (`cut`, `stray`, `torn`, `crossed`,
`lapsed`, `late`, `left`, `forgotten`, `excuses`, ...), and the one without the excuse stands
beside it under a name of its own.

### The value path: UdpSender, RuntimeValues, ValueFeed

`line` is the `asyncio.Lock` of `send()`: its head holds the lock, the others
wait in order. `SendCall` is the part of `send()` before the lock (no target, or
the text sent last), `SendTo` the part under it (socket, address, `sendto`,
cache), `CloseCall` and `CloseSocket` are `close()`. The rate limit is the time
the head stays, and may be any time.

`RuntimeValues` adds the cache and the tasks: one dispatcher per source, which delivers one
update at a time, and the resenders, which are the supervisor's reconnect, `/resync`, the
periodic timer and the task of the settings route. Each loop takes its keys in any order
(`rest`, `NextKey`) and reads the cache when a key's turn comes. A value carries its place in
the history of its key (`ver`), which the code does not have; it is what "newer" means in the
properties. `d<id>_online` and `zigbee_connected` are keys like the others, except that a
snapshot caches the keys in `Online` without sending them (the checked instance has one key,
which is sent; the theorems hold for any `Online`). Failing sends, a changed or cleared address,
a restarted Miniserver, cancelled resends and shutdown are actions.

### RuntimeEvents

`on_event` in its awaits (`OnEvent`, `Rose`, `SendCount`, `Counted`), the release
of a pulse by a task of its own, the heartbeat with its link check, `stop()` with
its two halves, and one kind of resend, because the counter is what a resend
restores.

### Commands: CommandGate, LightAdapt, LampCommands

The gate has one device, since devices share nothing in it. A lane is named by the
request that created it, so that an old worker and a new lane of one device can
be told apart. `Enqueue` is `submit` with the replacement of waiting values,
`Wake` the worker's pause and its next request, `NextCall`, `Finish` and
`CallFails` the calls, `Expire` the wait bound, `CallerGoes` and `CancelWorker`
the cancellations. Time is in ticks, and a timer may be handled late.

`LightAdapt` is `commands/adapt.py` and the light half of `commands/translate.py`
as operators over the rows of a light; its one action asks for a command and a
value, and `After` says what the calls do to a lamp. Colours are names.
`LampCommands` puts these calls in front of two lamps and gives them to the
fan-out: the four routes, the On before a brightness, what the bridge remembers
of a lamp, reports that lag behind, a lamp switched at the wall. A lamp's queue is
the gate of `CommandGate` once more, with the slots and strengths that calls really
have (`slot_of`, `_strength_of`): a level with switching in it may replace a plain
level that waits, a plain level never one that would have switched the lamp.

### The Matter source: MatterLink

`AttributeUpdated` and `NodeUpdated` are what matter-server reports, `updates` is what the
dispatch task has not delivered, `seedPending` is `_seed_pending`. A follow has two steps:
`FollowNode` goes up to the first await inside `on_node_snapshot` (subscribe, look the node up,
note the debt, cache the snapshot), `Followed` is what comes after the sends. `Disconnects`,
`Attach`, `AttachFails`, `ConnectFails` and `Awake` are one round of the supervisor. Between
`Disconnects` and `Attach` other tasks run and find no subscription; the subscription and the
seeding are one step, since nothing in between gives the loop away. The resend at the end of
`attach()` is in `RuntimeValues`. Removed nodes and events are left out. `lapsed` are the nodes
a call that raised kept something from, with no note of the debt (`resolve_device_id` reads
SQLite before it is noted, and before an update is handed over), or with a note that an older
follow under way takes for its own; the next snapshot of the node makes good for it.

### The Zigbee source: ZigbeeRadio, ZigbeeAvailability, ZigbeeConfigure, ZigbeeDelivery

`ZigbeeRadio` numbers the applications (zigpy's `ControllerApplication`) in the order they are
built. `swap` is a radio change between its awaits, `keeper` the supervisor's task, `air` what
the sticks hold: open ports, ports whose shutdown failed, the join window. A cancelled
`connect()` leaves a build on a worker thread behind, as the code does. `air.late` are links
that had died before their `startup()` succeeded, `air.left` windows left over from a link that
was given up while it stood, because `attach()` failed on it. zigpy and the stick are external.

`ZigbeeAvailability` has the periodic sweep (`sweep`), `mark_all_offline`
(`marking`) and the reconnect that seeds (`binding`) interleave over `online`, what
the bridge says, and `told`, what the checker believes it has said.

`ZigbeeConfigure` has one device with two clusters, both of which refuse to report; passes and
retries are tasks that outlive the object they began with (`stray`), a pass may be killed
(`cut`), and a restart, or a tick of the polling loop that goes on while `connect()` has no
application, forgets which cluster refused (`amnesia`). `ZigbeeDelivery` has one device with two
paths: `cache` is zigpy's, `calls` are the three callers of `_deliver`, `delivered` is
`_delivered`; `torn` and `crossed` mark a handler that raised half-way and two overlapping
deliveries. A path in `Detecting` (a detector's occupancy) may be reported and told again with
the same value. A removal has three ends: `ForgetFails`, or `Dropped` - zigpy drops the device
and says so within `app.remove()`, and the source forgets it - and then `Forgotten`, the store's
half; the device may rejoin in between. That zigpy drops a device at the end of `remove()`, not
long before it, is assumed of zigpy.

### How a device comes in: CommissioningSession, CommissioningAttempt, Identify

`CommissioningSession`: cards with their states; `stage` is the await each task stands at. A
scan gives the radio back before it takes its results, so a second one may begin (`Scans`); who
takes results queues at their lock. A code looks at each of the removed devices it fits when its
turn comes (`TakeAdvert`), since awaits lie between. `loop` names a task that has not come to
its next await, so that a handler written as several actions is not interrupted. Radio and
results are the two locks. The worker scans again before a card, tries a second time after a
lost connection, and sleeps while matter-server is away. A device that changes its Bluetooth
address is two addresses one code fits.

`CommissioningAttempt` is `commission` for several requests at once (two of the
route, or one beside the queue), each with its sampling task and its `NODE_ADDED`
listener, around the one tracker. `shown` is the attempt whose token the tracker
holds. `own` is what the request's own device was seen to do, against which phase
and reason are judged. `alone` are the requests during which no other was under
way. A request cancelled at shutdown is not modelled.

`Identify`: the coordinator, its lock with the calls that wait for it
(`coord.calls`), the keeper that renews, the naming line that hands the blinking on,
the clicks. Time goes in ticks of `RENEW_EVERY`.

### FirmwareUpdates

The rows of the store are variables that a crash keeps; the follow task, the start of a transfer
and the queue task are lost with it. `Enqueue` puts what is new where the clock says, which may
have been set back. `DrainFails` is an error of the store before or between the writes of a
round (`StartedOnly`, `TakenOutOnly`); that the queue cannot even write why it halts is left
out. `Stops` also covers a crash between the two commits of one step. `Starts` runs
`resume_all()` only against a matter-server that knows updates (schema 10). The transfer itself
is an environment action, since matter-server goes on with it whatever loxmatter does.

### What is kept: Store, StoreSchema, Sidecar, ThreadNetwork, ProjectSync

`Store` has the database twice: `rows`, what the connection sees, and `kept`, what is on the
disk; a commit copies, a rollback copies back, a kill falls back to `kept`. A failing commit
outside the rollback guard leaves its writes in `rows` for the next commit to carry along.
`regroup` are the groups a method has still to recompute, each in a commit of its own, `marking`
the devices an export has still to mark. Ticking a group's command is two writes with no
rollback of their own, and either may be the last. `StoreSchema` runs the migrations step by
step with SQLite's implicit transactions, and may be stopped at every one. Which kinds of
signals a device has is chosen when it is commissioned, out of `KindSets`: a sensor or a button
has no feedback value. `silent` is history, and part of the database so that a rollback takes it
back.

`Sidecar` has both sides of the shared volume: the bridge's handlers (`call`) and the
container's pass, file by file, with kills between any two of its steps and
resets of the state file. `ThreadNetwork` has one action per request to the
border router or to matter-server for its three coroutines. `HomeAssistant` has
requests of the UI and the job, each await a question to Home Assistant.

`ProjectSync` has the file as sequences of Miniservers, captions, boxes and
commands; `SyncPlan` is `build_plan`, `ApplyPlan` is `apply_plan`, and between two
syncs the user edits the file and the house changes. `Patched` is a function of the
captions alone, so that what it does to them can be said (and proved) without the
file. `SyncSafe` compares places in the captions (`BoxesAt`, `CmdsAt`) before and
after: `KeepsWhatStood`, `WritesOnce`, `NextObjCounts`, `RoomsOnce`,
`AskedMiniserverOnly`, and the state that a second sync finds,
`SecondPassIsCleanInOne`.

### Streams

Rings and pages with their bounded queues. `LogBufferHandler.emit` runs in any
thread, so its steps (`ThreadCopies`, `ThreadCalls`) fall between any two
statements of a page that opens; `ready` is what `call_soon_threadsafe` has
handed to the loop.

### DeviceRemoval and Login

`DeviceRemoval` follows one request from the page to both places that hold a
device. The removal is a task (`removal`) that outlives its request: the request
waits for it a moment (`reply`), a second request joins it. `call` is the task's
call into the source: `told`, or `leaving` once the source has let go and asks the
device to leave. A call that is cut off may still do its work (`late`). The answer
that matter-server gives of a node it does not hold is no refusal. matter-server
reports a removed node before it answers on the same connection, so what the
client has cached of the node is the same as what matter-server holds. Three
requests, so that two join and one comes later; one outage, one fault.

`Login`: hashing a password takes a thread, so set-ups, logins and changes of
several browsers overlap; `attempt` is a request between its two ends, with the
hash it is compared with (`against`, read before). The throttle books a failure
before the hashing and takes it back after a success. `set-password` of the
command line is a process of its own that writes password and sessions in one
commit; a login that began before it still opens its session, as in the code.
Time is in ticks of a day; `unused` counts them per session and `tries` the
attempts per address, which the code does not keep. Three requests of two
browsers, a limit of two, a session of two ticks that is extended after one: the
least in which a lock, an extension and an expiry all happen.

## 3. The runs

Parts that share nothing are checked in one run: the part is chosen in the
initial state and the others stand still, so that the space is the sum of theirs
and not the product. What each part's property says is at its definition.

| Run | Parts and questions | Bounds and why they are enough |
|---|---|---|
| `values` | Are values never shown in the wrong order, does a resend restore all, does it end, is a closed sender silent? | one key, one source, two resends, three reports, one failing send. The debounce, the lock and the order are per key; two resends are the least that overlap |
| `served` | `RuntimeEvents`: is what is high known to `stop()`, does every pulse fall, does the heartbeat alternate? `CommandGate`: is every request answered in the end? `Streams`: is every logged line shown? | two events of one key (the least that overlap), one resend, one failing send, a stop; three requests of one call, a caller that goes away, a cancelled worker; a page, two entries, a queue of one |
| `asked` | `CommandGate`: one worker per device, nothing lost, one answer each, values spaced. `LightAdapt`, `LampCommands`: the right calls, in the right order, with a true answer. `Streams`: order, completeness, bounds. `HomeAssistant`: one job, nothing removed that did not arrive. `DeviceRemoval`: nothing left behind, true answers. `Login`: who is let in, how often one may try | the gate: three requests of up to two calls, one running, one waiting, one that replaces it or hides a toggle. All sets of light commands on one endpoint and three kinds of relay on another, all values at the boundaries. Two lamps, two orders, one switch at the wall, one failing call. A queue of one and a ring of two, so that both overflow with three entries. One Matter and one Zigbee device, two callers that overlap, one fault, one action of the user. Two devices of two sources, three requests, one fault, one outage; two browsers, three requests that hash, two passwords |
| `session` | `CommissioningSession`: one user of the radio, an exact naming line, one card per advert, no click on the running card? `CommissioningAttempt`: does what is shown end as it was answered? `Identify`: one device blinks, with one task, the front of the line? | two addresses one code fits, so that a device can move or two be confused, two scans, three cards, one removal or clearing (a lost link is in `seen`; the addresses are interchangeable: symmetry, in a run of safety properties only); two requests, another user of matter-server; two devices, one fault, one click, a blink of three ticks with a renewal in each |
| `seen` | Has every queued card a worker, is it tried in the end? Is every request to the updater judged? | two codes (one needs Bluetooth), two cards, one lost link, one removal or clearing; two requests, no kills |
| `firmware` | Is every active job followed, the queue never asleep, its order kept, emptied in the end? | two devices (a queue needs two), one new version, one check at a time, two clicks, one fault. With two faults the run holds, too (1.3 million states) |
| `sources` | `MatterLink`, `ZigbeeRadio`, `ZigbeeAvailability`, `ZigbeeConfigure`, `ZigbeeDelivery`: what holds in every state and step | one Matter node (nodes share only the queue) with two attributes, so that one is new while the other is subscribed; two sticks, one change, two join windows; one device that listens and one that sleeps; two clusters that refuse (a tick must have a second entry), two tasks that overlap (interchangeable: symmetry), one of {removal, loss, restart}; with two of them and a third cluster, in a run of the part alone, 9.5 million states hold, too, and the theorem `ConfigureIsSafe` bounds none of this; two reports, one raising handler |
| `answered` | What must happen in the end in four of them: links come back, availability is shown, debts are paid | the same with less: no join window, one upset, no restart |
| `kept` | `Store`, `StoreSchema`, `Sidecar`, `ThreadNetwork`, `ProjectSync`: what holds in every state and step | two devices, one group, one failing write or commit, a new release that renames two commands so that a group can be offered one key twice; five older versions, three sets of kinds a device may have, two stops; two sticks, two requests, one kill, one reset of the state; one fault, one adoption, one restart, one lost data directory; two syncs with two edits between |
| `stale_after_debounce` (violated) | Does the last datagram carry the last value? | as `values`, without failures |
| `older_speaks_for_newer` (violated) | Is the phase of an attempt what happened to its own device? | two requests, nobody else |
| `synced_twice` (violated) | Is a file the sync wrote clean in the next one? | two devices, a Miniserver without captions |

`CHECK_DEADLOCK FALSE` stands in every run, since the bridge really stops or the
bounds use up all steps. That nobody waits for ever is what the liveness
properties say.

Larger instances that were run and hold: `firmware` with two faults, the gate
with two shapes of requests and a longer wait bound, `MatterLink` with two nodes
of one attribute and with three values and three faults, `ThreadNetwork` with two
faults, two adoptions and two losses, `Store` with two faults (6.1 million states), `HomeAssistant` with two sign-ins, three
callers and two actions of the user (11 million states).

### Where the code and its comments part

Three runs end in a violation of something the repository says of itself, and are
its findings in `PROJECT.json`:

* **A value lost in the debounce** (`ShownIsCurrent`, `loxone/sender.py`): a
  report is compared with the debounce cache before the lock. While an older,
  different value waits in the line, the newest is dropped as a repetition.
* **An attempt that takes another one's device for its own** (`PhaseIsOwn`,
  `commissioning/run.py`): every listener is called for every `NODE_ADDED`, each
  with its own token, so the token keeps nothing apart.
* **A file that is not stable** (`SecondPassIsClean`, `projectsync/patch.py`):
  where the Miniserver has no caption, each new device brings one; the index reads
  the first only, and the next sync creates the others again.

What follows was found the same way. Each line names a property of the module
that the code does not keep, with the configuration in this directory whose
bounds show it, or the change to them that does (the property is added to the
module's own specification). Where such a property says
what a checked one excuses, the checked one is exact otherwise.

| Property | Module | Shown by | What happens |
|---|---|---|---|
| `CardsAreServed` without `forgotten` | `CommissioningSession` | `Seen.cfg` | a card removed during the scan before its turn makes the worker pop the next one and drop it, or end with the queue left |
| `CodeOnOneCard` | `CommissioningSession` | two adders, one code, no removal | the duplicate check is older than the lookup of the label |
| `RemovedStaysAway` | `CommissioningSession` | two removals | `_take_advert` does not look in `_dismissed` again |
| `OneCardPerDevice` | `CommissioningSession` | two devices, `MCSharedFits` | a device with two addresses is on two cards |
| `RestartFollowsTransfer` | `FirmwareUpdates` | `FirmwareUpdates.cfg`, two faults | a check answered during an install takes away the offer the restart looks for |
| `DebtRemembered` | `MatterLink` | `Sources.cfg` | the debt is noted after a lookup that may raise (`client.py:1050`), for which its docstring (`client.py:1008-1016`) promises self-healing; an update whose lookup raises is discarded; an older follow pays a newer one's |
| `NothingLeftHigh` | `RuntimeEvents` | `CanStop = TRUE`, one event, no failure | an event during `stop()` leaves its key at 1 |
| `EveryEventAnEdge`, `CounterNeverGoesBack` | `RuntimeEvents` | `CanStop = FALSE`, two events | two pulses make one edge; a counter goes back during a resend |
| `KilledRunIsOwed` | `ZigbeeConfigure` | `Sources.cfg` | a pass killed before it reached a cluster leaves no row for it |
| `RefusalOutlivesRestart` | `ZigbeeConfigure` | `Sources.cfg` | a lamp that refused to report is not polled after a restart |
| `RefusalOutlivesReconnect` | `ZigbeeConfigure` | `Sources.cfg` | `_poll_due` asks for the link once per tick (`configure.py:333`); a tick whose read was under way when the link was lost finds no device while `connect()` has no application, and drops the rest of its list for good, which its docstring (`configure.py:323-332`) rules out |
| `NotParkedOnDeadLink` without `late` | `ZigbeeRadio` | `Sources.cfg` | a link that dies inside a `startup()` that still succeeds is not the source's yet, its loss is ignored, and the supervisor waits on it |
| `WindowIsTheRadios` without `left` | `ZigbeeRadio` | `Sources.cfg` | an `attach()` that fails on a live link makes the next attempt drop it, and the join window is still shown |
| `NextUpdateCatchesUp` | `ZigbeeDelivery` | `Sources.cfg`, three reports | after a handler that raised half-way the next update catches up only what changed |
| `OfflineWithTheLink` | `ZigbeeAvailability` | `Answered.cfg` | a device seeded online behind a checker that has said offline stays online |
| `ShownAsHeard` | `ZigbeeAvailability` | `Answered.cfg`, `SweepRaises = TRUE` | a sweep that raises is over for good |
| `NeverTwice` | `Streams` | `Asked.cfg` | a line that is between ring and observers while a page registers is shown twice |
| `MarkedIsDelivered` | `Store` | `Kept.cfg` | marking is a commit per device: a later one fails, the earlier stay marked |
| `MigrationIsAllOrNothing` | `StoreSchema` | `Kept.cfg` | `executescript` commits the migration's transaction |
| `UntickedIsShown` without `silent` | `StoreSchema` | `Kept.cfg` | the third migration (`store.py:606-638`) rewrites every tick and stamps nothing; the twelfth stamps devices with a feedback value only, the fourteenth Zigbee's: a sensor exported under version 2 is called unchanged although its counters were unticked |
| `NeverOneStick` | `Sidecar` | `Kept.cfg` | in the window between marker and phase of a radio change, Zigbee may choose the Thread stick |
| `NeverReplacedUnderDevices` | `ThreadNetwork` | `MaxJoins = 1`, no faults | a device paired between the count and the replacement loses its network |
| `OwedIsPaidByAPass` | `ThreadNetwork` | one fault | a hand-over is owed and nobody is left to make it |
| `DisabledWithBackup` | `HomeAssistant` | `Asked.cfg`, `MaxUser = 2` | a sign-out between backup and disabling drops the backup |
| `SignInGoesForward` | `HomeAssistant` | the same | a renewed token is saved over a newer sign-in, or after a sign-out |
| `UnconfiguredWasNotAsked`, `RemovedIsNotCalled` | `LampCommands` | `Asked.cfg` | a 503 after other members have been called; a command that waited calls a removed lamp |
| `NamedStopsBlinking` | `Identify` | `Joining.cfg` | a device that is named while it is being started blinks on, renewed |
| `ReasonIsOwn` | `CommissioningAttempt` | `OlderSpeaksForNewer.cfg` | a request whose attempt was replaced has no phase to be judged by: it is called `not_found` although its device had connected |

Two more in the same places: a sample compares the token before its awaits only, and
then advances whichever attempt is shown (`commissioning_progress.py:298`); an
update killed in a running phase is ended by no later pass of the container, which
is why `GivenIsLooked` is checked without kills.

### Fairness

* Tasks: asyncio runs every ready task in turn, so each task's own steps are
  weakly fair. In `CommissioningSession` the step that holds the loop disables
  the others over and over; being run in turn is strong fairness there.
* Locks are first come, first served (`asyncio.Lock`), and are in the state.
* Timers expire. Calls to devices, matter-server and BlueZ end in an answer or an error,
  because the code bounds them (`SOURCE_CALL_TIMEOUT_SECONDS`, the three hours of
  `_follow`) or because the connection's loss does.
* The links: matter-server and the stick come back in the end (the number of
  failed attempts is bounded, their order is not); in `FirmwareUpdates` nobody has
  to mend it, and the property allows a halt.
* A Zigbee device that stays, is heard and is asked again and again answers once
  (`SF` of `Succeeds`): `OwedIsPaid` is about devices that answer.
* Threads and the container's loop go on; `MCAnswered`, `MCServed` and `MCSeen`
  state the fairness of each part as its own module does.
* Nothing a user may do is fair.

## 4. The proofs

Every theorem below holds for all values of the constants that the module's own
assumption admits (`SenderAssumption`, `ValuesAssumption`, `EventsAssumption`, `GateAssumption`, ...:
disjoint names, natural bounds), which TLC evaluates in the runs. No theorem has
hypotheses of its own; where the code breaks a property, the property excuses the case
(section 3). Each invariant was first checked by TLC
beside the property, on bounds at least those of the run.

| Theorem | Module | States |
|---|---|---|
| `TypeCorrect`, `LineAlwaysInOrder`, `ValuesImplementFeed`, `ResendsRestore`, `ClosedIsSilent` | `RuntimeValuesProofs` | `TypeOK` of `RuntimeValues` (in no run), `LineInOrder`, `FeedSpec`, `ResendRestores`, `SilentOnceClosed` |
| `EventsAreSafe`, `BeatsAlternate` | `RuntimeEventsProofs` | `EventsSafe`, `HeartbeatAlternates` |
| `GateIsSafe`, `RequestsAreServed` | `AskedProofs` | `GateSafe`, `RequestSteps` |
| `LampsAreSafe`, `AdaptIsSafe` | `AskedProofs` | `LampsSafe`, `AdaptSafe` |
| `DebtsAreKept`, `OnePortAlways`, `RadioIsSafe`, `ConfigureIsSafe`, `DeliveryIsSafe`, `AvailabilityIsSafe` | `SourcesProofs` | `LinkSafe`; `OnePort` and `AppliedIsSupervised` of `ZigbeeRadio`; `RadioSafe`; `ConfigureSafe`; `DeliverySafe`; `AvailabilitySafe` |
| `FirmwareIsSafe`, `OrderIsKept` | `FirmwareUpdatesProofs` | `FirmwareSafe`, `QueueKeepsOrder` |
| `RemovalHolds` (from `RemovalIsSafe`, `RemovalsAreOrdered`), `LoginHolds` (from `LoginIsSafe`, `LoginsAreEarned`), `HomeIsSafe`, `StreamsAreSafe` | `AskedProofs` | `RemovalIsRight`, `LoginIsRight`, `HomeSafe`, `StreamsSafe` |
| `JoiningIsSafe`, `RunningCardsAreTheWorkers`, `QueuedCardsHaveAWorker` | `JoiningProofs` | `JoiningSafe`, `RunningIsTheWorkers`, `CardsAreServed` |
| `ThreadIsSafe`, `StoreIsSafe`, `KeysStay`, `SchemaIsSafe`, `SidecarIsSafe`, `SyncIsSafe` | `KeptProofs` | `ThreadSafe`, `StoreSafe`, `KeysAreKept`, `SchemaSafe`, `SidecarSafe`, `SyncSafe` |

**The value path.** `LineAlwaysInOrder` is the inductive half of the feed's promise:
`shown` alone says nothing about what is still waiting in the sender's line, so
the invariant says that the calls of one key in the line carry ever newer values,
none older than the one shown and none newer than the one cached. Each action does
one of few things to the line: a call joins at the end, the head leaves, one leaves
from the middle; one lemma for each (`OrderAppended`, `OrderHeadGone`,
`OrderOneGone`), resting on `SenderProofs`. `ValuesImplementFeed` is the refinement:
every step is a `Report`, a `Show`, a `Restart` of `ValueFeed` or a stutter; that
`Show` never goes back is `LineInOrder` at the head of the line. `ResendsRestore`
needs, beside the order, that no goal lies ahead of the reports and that a resender's
own call carries what its goal asks for (`GoalsWithinReach`): the invariant `Owing`
of the three survives the same few things a step does to the line.

**Events.** `HighIsTracked` speaks of the wire, and what reaches the wire are calls
made before. `EventsInv` adds what each call in the line is and whose it is
(`CallsAreKnown`, `OneCallEach`), and the value the next beat has (`BeatIsNew`, as
long as no send failed); the action property follows from it.

**The gate.** One inductive invariant, `GateInv`, holds all parts of `GateSafe`. `NothingLost`
alone is not inductive: that a request is covered by a later one must survive the
later one being replaced in turn, and that no toggle lies between must survive
toggles expiring. The invariant adds that requests of a lane wait in the order of
their numbers behind the running one, that a lane with requests has a worker, that
only values are replaced, and that numbers not yet handed in are unborn.
`RequestsAreServed` needs the clocks as well (`ClocksAgree`): no request has waited
longer than the device has been silent.

**The lamps.** `LampInv` says for each lamp what it will do in the end (`DueAt`): the
last waiting request that switches leads to what is due, else the calls that are left
of the one at work, else the lamp is there already. For that to survive a replacement,
what is replaced may not switch where its replacement does not (`CoveredLeads`);
the proof needs that a level with switching in it is stronger than a plain one, which
an earlier form of the model had left out. That no brightness finds its lamp off rests on
`LightAt`: a lamp that was switched on and is off now went off at the wall, and the
last report on its way, or the one that arrived, says so. `TouchedIn` carries the
answer 503: a member that took a call and failed for want of a source lost the source
on the way. One lemma per action says what it does to its own lamp, one that it
touches no other (`Elsewhere`).

**One light.** `AdaptIsSafe` has no steps to speak of; it is about what the operators
return. Two recursions are in them, the joining of the endpoints' lists and the lamp
after a list (`After`), and the library's induction is out of reach; but both run over
the positions of a list, and for such a function `FoldExists` builds the values one by
one, with the least position that has none as the contradiction. Then each endpoint's
calls are a `Segment` of the group's (`EndpointAfterEndpoint`): together, in their
order, and all there is for it. So a lamp ends where its own calls leave it
(`AfterIsLeft`), of which there are at most three: the colour, which never switches,
before the brightness, which is never a colour, before that an On. The rounding is by
itself (`LevelsRoundRight`): a level lies within half a step of the percentage, and a
percent is more than two steps.

**Matter.** `DebtsAreKept` holds whatever raises; what it excuses is a node in
`lapsed`. The invariant says where the newest value of each path is (`QueueIsNew`,
`FollowedShown`), that a path which nobody has subscribed is announced by an update in
the queue (`NewPathsAnnounced`), and that the supervisor does not watch a link that is
down.
The attempt found an error in an earlier form of the model, in which a reconnect
could bring back arbitrary values.

**The Zigbee stick.** `OnePortAlways` holds whatever fails. `PortsHeld` says that an open port
is held by the link, by the supervisor's attempt or by the swap, and by one of them only, each
handing it to the next; `SwapKnown` that a swap goes on only once the supervisor it cancelled
has ended, and that the changes still waiting end with the stored setting. `RadioIsSafe` holds
of the same failures: a link that counts as held is alive unless it died late, and nobody opens
another (`LinkKnown`). What the source believes of the window lags behind the radio by the
answer that is on its way, so `WindowsKnown` speaks of that answer, and `PermitsKnown` says that
there is at most one: the request that holds its source's lock (`HolderIsOne`).

**The configuration of a Zigbee device.** A pass in the middle says nothing of the
clusters it has not come to, so `ConfigureSafe` is about devices at rest and the
invariant about those that are not. `AllAhead`: what is neither configured nor owed is
ahead of some pass, and what that pass is asking now is owed already, so that its
failure leaves the row. `DebtsWatched`: what is owed is watched, or a pass that
deferred or has yet to ask will see to the watcher when it ends. Both need that a
retry has a watcher and that, unless something is astray, everyone at work belongs to
the object of now (`WorkIsMine`). `GoneIsBare` is why a tick may drop what it does not
find: a device that is really gone has nothing configured. Preparing this proof found
an error in the model: a tick dropped entries only of devices that were gone, while
the code drops those of a lost link as well (`RefusalOutlivesReconnect`).

**What a Zigbee device reports.** `NewestIsSomewhere` says where the newest values
are: somebody has yet to read them (an entry of the queue, a caller before its
snapshot), one delivery has them in its snapshot and tells what is not shown yet, or
they are shown. That suffices only with `ToldIsShown` - what a delivery compares
against is shown, or will be once the delivery that wrote it ends - and with `Apart`:
as long as no two deliveries overlapped there is one under way at most. `RowsAgree`
ties the three places that know of a device, so that no report of a ready row is
dropped for want of a listener. `NoneKept` and the check before the adoption
follow from it.

**Availability.** What counts against a device are the misses of `_check_one`, and
`MissesAreEarned` bounds them by the pings that really failed, plus the one whose
failure is booked before it is sent. A dead link swallows pings, so the counters must
be clear when it returns: `DownForgets` says that `mark_all_offline` clears them with
its first device, and that no sweep counts before the link is up.

**The commissioning session.** A card is seen by three tasks at once, so `SessionInv` says what
each stage of a task still relies on. `WorkInv`: from the scan before a card until its turn
(`PreRun`) the worker's card is the head of the queue or has been removed, and who is being
commissioned (`Running`) is the worker's card and no other. `CardsInv`: the queue holds queued
cards, each once, and every card that can be started has a code. `NamingInv` says both
directions of the naming line, with no double. A snapshot of adverts changes many cards in one
step; `SnapshotMoves` reduces it, by an induction over the cards (`StepByStep`), to what it may
do to one (`CardMoves`) and to the head of the queue (`HeadKept`). `QueuedCardsHaveAWorker`
holds whatever is removed, and when: a queued card that is not in `forgotten` is in the queue,
and a queue with such a card has a worker (`Served`), so that a worker ends only over a queue of
forgotten cards; `Displaced` is what one step of it adds to them. A task that takes results
waits at their lock, and the one that looks is its head (`ResultsInv`). Codes, devices and tasks
are any, and so are the bounds.

**One attempt and its tracker.** `OwnInv` is what holds of every request and its
attempt, `ShownInv` of the one the tracker shows: its phase is past searching once its
own device was seen, and it ends as its request was answered. `AloneInv` is exact:
while no other request is under way the phase shown is the one its own device reached.

**Blinking.** `Shining` names the devices that may be lit: the one that blinks, the one
the lock's holder is just stopping or starting. `KeptInv` counts: a renewed device is
lit for the whole time less what was not answered, which is why one lost renewal does
not put it out (`BlinkTicks >= 3`, as a renewal comes every third of the time). That the
front of the line blinks is promised ahead of time (`FrontInv`): a turn that is still to
be handed on, a start of the front that waits for the lock with nothing but idle starts
behind it, or the front that blinks already.

**Firmware.** `FirmwareInv` adds that nothing runs while the bridge is down and that
a device the queue is at exists. `OrderIsKept` needs lemmas that a part, an
extension and a rest of a sequence keep its order, since a removal from the queue
picks its positions by the least one that matches.

**Removal, login.** For the removal, that a call into the source belongs to a task
that waits for it, and that a task that ended well has made the store forget the
device. For the login, `FreeTries`: what an address still has open is bounded by
what was booked before the hashing; and `LastsAsItShould`: the ticks a session
lasts and those since its last use together exceed the window in which it is not
extended.

**The move from Home Assistant.** `HomeInv` says that what a clean-up read before
its first await is still true of who arrived (`ArrivalsHold`), that there is one
task exactly while a job runs, and that a start or a job that holds the current
Zigbee source was asked for while that source ran ZHA's network
(`AskedInTheNetwork`). The last conjunct found an error in an earlier form of the
model: there a job took the source when it began, in the code it takes it before
it awaits the inventory, and with two sign-ins only the code's order is safe.

**The pages that watch.** `StreamsInv` counts what is on its way to a connection to
what it was given: the loop's callbacks come after all lines its queue ever got
(`LinesAfter`), and the line a thread is in `emit()` with is the newest of the log
(`EmitInv`), so that it comes after both. It comes twice only to a page that registered
while the line was between ring and observers (`DoubledInv`). A queue is the end of all that was put into it,
whichever entries it lost (`RoomIs`), and a ring lacks nothing of its kind that is
newer than its oldest (`RingGrows`).

**Thread.** `ThreadInv` has two halves. Who has counted the devices and is still to
act knows of every device but the late ones, and a network the border router makes
up is a new one (`CountedOrLate`, `NetworksAreKnown`). And while nothing excuses
it, nobody hands over a network other than the border router's, and until
matter-server has that one somebody is left to hand it over (`ReadIsCurrent`,
`SomebodyHands`).

**The store.** `StoreInv` says the same of the open transaction and of the disk
(`Good`: types, one command per key, groups that fit what their members have, an
export tab that tells the truth), since a commit that raises leaves one and a kill
returns to the other. Each write of a method is a function of the rows alone, so
that the lemmas named `...Good` do not know where the method fails; those named
`...Inv` say what each of the three ends, committed, left open, rolled back, makes of
it. `KeysStay` needs `Carried`: a transaction that was left open has lost no key of
the disk's, because whatever the next method commits carries it there. And
`DownloadHolds`: the archive that is being marked still says what the rows say, row
after row. Preparing this proof found an error in the model: a recomputation that
two commands under one key refuse could not happen there, and the tables of the run
now reach it.

**The migrations.** `LeadsTo` says, in closed form, what is left of a database when the
migrations from the v-th on have run over it. Two lemmas carry the proof: one migration
further on, the rest leads to the same end (`LeadsOn`), and a migration that ran before
a stop changes nothing of where the whole chain leads (`LeadsAgain`). So `SchemaLeads`
holds of what the connection sees and of the disk, whatever `executescript` had
committed; the only migration whose column could be on the disk without its fill, the
fourth, always runs in the transaction (`SchemaRunOK`). `MigratedAll` is recursive, but
over the fixed chain, and is unrolled. `TicksFit` (nothing is ticked that a device has
no signal of) is what lets `LeadsAgain` tell a lamp from a sensor. `ShownIn` is about
the marks, and holds of every database on the way: each migration but the third marks
whom it unticks, and whom the third unticks unmarked is in `silent`.

**The updater's mailbox.** A handler reads in two or three steps, and the container
works between them. `NamedIsJudged` says that whatever a state, a marker or a
handler's older reading names has been judged, so that the request it lets be
replaced is not lost. `WorkIsMarked`: an update that works has its marker, and one
that ended without a kill had it before. `SticksKnown` keeps Zigbee's stick apart
not only from Thread's, but from the one that waits in the mailbox, that a pass works
on, and that a failed pass puts back.

**The project file.** Most of the proof is about one caption's patch. `Extends` says what
is left of the captions that were there: every box and command at its place, the outdated
ones with their managed value put right; and `Puts` that the rest of the places hold
each new command of the plan, once. Three things make that hard. The new commands of a
box are joined from all owners and reversed, and the new boxes stand in reverse order;
`Comes` names where a joined sequence has each part, built one part at a time. An owner's
commands go to one box only (`GoTo`), although the file may have it in several. And the
captions may be full, closed or missing, in which case each box brings a caption.
`KeepsWhatStood`, `WritesOnce` and `RoomsOnce` follow from the two; `NextObjCounts`
needs that the fresh places are as many as the plan's new entries, a bijection by their
keys. The clean second pass is an invariant (`CleanIn`), since what was written must
still be the index's choice among commands of one key: what was not in the first
caption's index before is there once. Preparing this proof found an error in the model:
`RoomsOnce` demanded the owner's room even where the file has none of that name and none
can be created, and all rooms of the run had one key, which hid it. There the code
copies the neighbour's place; the property now says so, and the run has two keys.

**Only model-checked.** Everything under fairness: the provers have no rule for
`ENABLED` here.

## 5. What is not modelled

The components without a module are listed in `PROJECT.json` with the reason.
Two kinds: tables and renderings (device profiles, templates, texts, the browser),
and thin routes over modelled parts. Within the modelled parts:

* texts, logs, the rate limit's length, delays between attempts and units of values
  are abstracted; so are the conversions of colours (real numbers).
* **Zigbee**: a start without a stick that works from a cached inventory, the grouping of
  the inventory, the migration of an old network database, device quirks.
* **Updates**: the upkeep of the border router's container, and the check for new
  releases (`update_check.py` and the digest cache). A result stays "done" after
  its device is deleted on the bridge.
* **Home Assistant**: its own side is external. That a paused ZHA lists its devices no
  more is assumed. `HomeAssistantMigration.aclose` is never called at shutdown.
* **Project sync**: the scanner of the text, drawn identifiers, the save date and a
  `NextObj` that is no number; an `IoData` is assumed to carry a place. Entries
  reported as possible duplicates or conflicts are left alone, as the code does.
* **Commissioning**: the decoding of setup codes and adverts, edits of a card's name and
  room, the hand-entered Thread dataset of a card, `aclose`, a request that is
  cancelled (its attempt stays open). A card's phase is read from the tracker,
  whichever attempt that shows.
* **Store**: rooms, titles, the single-row settings stores. A group that lost its
  last member is never recomputed, and the model leaves it so.

## 6. The plan

Models: the removal of nodes in `MatterLink`; a composition of `ZigbeeDelivery` with
`RuntimeValues`, so that the feed of section 4 reaches from the device to the datagram.
