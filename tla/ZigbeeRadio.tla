----------------------------- MODULE ZigbeeRadio -----------------------------
(***************************************************************************)
(* The Zigbee stick: ZigbeeRuntime (zigbee/runtime.py), which swaps the    *)
(* source when another stick is chosen, the connection half of             *)
(* ZigbeeSource (zigbee/source.py), its supervisor (sources/supervisor.py) *)
(* and the join window.  One action is the code between two awaits.        *)
(*                                                                         *)
(* An application (zigpy's ControllerApplication) is numbered in the order *)
(* it is built; its serial port is open from startup() to the end of its   *)
(* shutdown.                                                               *)
(***************************************************************************)
EXTENDS Naturals, Sequences, FiniteSets

CONSTANTS
  Sticks,       \* serial paths the user can choose
  NoStick,      \* the stored setting of a bridge without Zigbee
  MaxApplies,   \* bound: changes of the setting
  MaxFailures,  \* bound: attempts, shutdowns and permits that fail
  MaxLosses,    \* bound: links that die by themselves, and restores
  MaxPermits    \* bound: permit requests

ASSUME RadioAssumption ==
  /\ NoStick \notin Sticks
  /\ {MaxApplies, MaxFailures, MaxLosses, MaxPermits} \subseteq Nat

VARIABLES
  setting,   \* store.zigbee_settings: the stick that was chosen last
  applies,   \* tasks of apply(), in the order they reach the `_swapping` lock
  swap,      \* how far the task that holds the lock is: pc, app being shut
  source,    \* ZigbeeRuntime._source, as the registry has it: number, stick
  keeper,    \* its supervisor: pc, the application under way, cancel()led?
  link,      \* the source's _app, _connected, _link_lost, _permit_until
  air,       \* the world: open ports, dead links, ports a failed shutdown
             \* left behind, the window the coordinator holds open; history:
             \* links that had died late, when startup() succeeded, and windows
             \* left over from a link that was given up while it stood
  permits,   \* permit() and close_window_ending() under way, oldest first
  restoring, \* restore_network(): the source it was asked of, or 0
  spent      \* how much of each bound is used; built: applications so far

radioVars == <<setting, applies, swap, source, keeper, link, air, permits, restoring, spent>>

NoSource == [number |-> 0, stick |-> NoStick]
NoKeeper == [pc |-> "none", app |-> 0, cancelled |-> FALSE]
NoLink   == [app |-> 0, connected |-> FALSE, lost |-> FALSE, window |-> 0]
Unsure   == MaxPermits + 1    \* a window the radio may or may not have changed

RadioInit ==
  /\ setting \in Sticks \cup {NoStick}
  /\ applies = <<setting>>
  /\ swap = [pc |-> "free", app |-> 0]
  /\ source = NoSource
  /\ keeper = NoKeeper
  /\ link = NoLink
  /\ air = [open |-> {}, dead |-> {}, stuck |-> {}, window |-> 0, late |-> {}, left |-> {}]
  /\ permits = <<>>
  /\ restoring = 0
  /\ spent = [applies |-> 0, failures |-> 0, losses |-> 0, permits |-> 0, built |-> 0]

MayFail == spent.failures < MaxFailures
Failed  == [spent EXCEPT !.failures = @ + 1]

-----------------------------------------------------------------------------
(* Applying a radio change *)

\* PUT /api/zigbee/radio stores the setting and schedules the change in one step.
PutRadio(s) ==
  /\ spent.applies < MaxApplies
  /\ setting' = s
  /\ applies' = Append(applies, s)
  /\ spent' = [spent EXCEPT !.applies = @ + 1]
  /\ UNCHANGED <<swap, source, keeper, link, air, permits, restoring>>

\* _release begins: the supervisor is cancelled before anything else.
SwapBegins ==
  /\ swap.pc = "free"
  /\ applies # <<>>
  /\ swap' = [swap EXCEPT !.pc = "stopping"]
  /\ keeper' = [keeper EXCEPT !.cancelled = keeper.pc # "none"]
  /\ UNCHANGED <<setting, applies, source, link, air, permits, restoring, spent>>

\* The supervisor has ended.  The source leaves the registry, and disconnect()
\* lets go of its application and of its join window before it awaits.
SwapReleases ==
  /\ swap.pc = "stopping"
  /\ keeper.pc = "none"
  /\ swap' = [pc |-> "releasing", app |-> link.app]
  /\ source' = NoSource
  /\ link' = [NoLink EXCEPT !.lost = TRUE]
  /\ UNCHANGED <<setting, applies, keeper, air, permits, restoring, spent>>

\* The application is shut down and its port closed.
SwapReleased ==
  /\ swap.pc = "releasing"
  /\ swap' = [pc |-> "building", app |-> 0]
  /\ air' = [air EXCEPT !.open = @ \ {swap.app}]
  /\ UNCHANGED <<setting, applies, source, keeper, link, permits, restoring, spent>>

\* Mutant: a release that fails ends the swap.
SwapReleaseFailsHard ==
  /\ swap.pc = "releasing"
  /\ swap.app # 0
  /\ MayFail
  /\ swap' = [pc |-> "free", app |-> 0]
  /\ applies' = Tail(applies)
  /\ air' = [air EXCEPT !.stuck = @ \cup {swap.app}]
  /\ spent' = Failed
  /\ UNCHANGED <<setting, source, keeper, link, permits, restoring>>

\* disconnect() raises: the port may still be held, and the swap goes on.
SwapReleaseFails ==
  /\ swap.pc = "releasing"
  /\ swap.app # 0
  /\ MayFail
  /\ swap' = [pc |-> "building", app |-> 0]
  /\ air' = [air EXCEPT !.stuck = @ \cup {swap.app}]
  /\ spent' = Failed
  /\ UNCHANGED <<setting, applies, source, keeper, link, permits, restoring>>

\* The source the setting names is built, registered and supervised, in one step.
SwapBuilds ==
  LET s == Head(applies) IN
  /\ swap.pc = "building"
  /\ swap' = [swap EXCEPT !.pc = "free"]
  /\ applies' = Tail(applies)
  /\ link' = NoLink
  /\ IF s = NoStick
     THEN UNCHANGED <<source, keeper>>
     ELSE /\ source' = [number |-> spent.applies + 2 - Len(applies), stick |-> s]
          /\ keeper' = [NoKeeper EXCEPT !.pc = "looking"]
  /\ UNCHANGED <<setting, air, permits, restoring, spent>>

-----------------------------------------------------------------------------
(* The supervisor and connect() *)

\* wait_for_link_loss returns at once without a link, or waits for the event.
Looks ==
  /\ keeper.pc = "looking"
  /\ ~keeper.cancelled
  /\ keeper' = [keeper EXCEPT !.pc = IF link.connected THEN "parked" ELSE "connecting"]
  /\ UNCHANGED <<setting, applies, swap, source, link, air, permits, restoring, spent>>

Woken ==
  /\ keeper.pc = "parked"
  /\ ~keeper.cancelled
  /\ link.lost
  /\ keeper' = [keeper EXCEPT !.pc = "connecting"]
  /\ UNCHANGED <<setting, applies, swap, source, link, air, permits, restoring, spent>>

\* Mutant: the previous application is dropped without a shutdown.
ConnectForgets ==
  /\ keeper.pc \in {"connecting", "backoff"}
  /\ ~keeper.cancelled
  /\ keeper' = [keeper EXCEPT !.pc = "preparing"]
  /\ link' = [link EXCEPT !.app = 0, !.connected = FALSE]
  /\ UNCHANGED <<setting, applies, swap, source, air, permits, restoring, spent>>

\* connect() begins, at once or after the backoff: an application of the
\* connection before is taken off and shut down first.
ConnectBegins ==
  /\ keeper.pc \in {"connecting", "backoff"}
  /\ ~keeper.cancelled
  /\ keeper' = [keeper EXCEPT !.pc = IF link.app = 0 THEN "preparing" ELSE "shutting",
                              !.app = link.app]
  /\ link' = [link EXCEPT !.app = 0, !.connected = link.app = 0 /\ link.connected]
  /\ air' = [air EXCEPT !.left = (@ \cup {link.window}) \ {0}]
  /\ UNCHANGED <<setting, applies, swap, source, permits, restoring, spent>>

\* The Thread guard refuses the stick, or a step before startup() fails.
ConnectRefused ==
  /\ keeper.pc = "preparing"
  /\ ~keeper.cancelled
  /\ MayFail
  /\ keeper' = [keeper EXCEPT !.pc = "backoff"]
  /\ spent' = Failed
  /\ UNCHANGED <<setting, applies, swap, source, link, air, permits, restoring>>

\* The Thread channel is known and the quirks are loaded: the application is built.
Prepared ==
  /\ keeper.pc = "preparing"
  /\ ~keeper.cancelled
  /\ keeper' = [keeper EXCEPT !.pc = "building"]
  /\ UNCHANGED <<setting, applies, swap, source, link, air, permits, restoring, spent>>

\* It has been built.  A cancelled attempt shuts it down, the guard is asked
\* again, and only then startup() opens the port.
Built ==
  LET a == spent.built + 1 IN
  /\ keeper.pc = "building"
  /\ \/ /\ ~keeper.cancelled
        /\ keeper' = [keeper EXCEPT !.pc = "starting", !.app = a]
        /\ air' = [air EXCEPT !.open = @ \cup {a}]
        /\ spent' = [spent EXCEPT !.built = a]
     \/ /\ keeper.cancelled
        /\ keeper' = [keeper EXCEPT !.pc = "failing", !.app = a]
        /\ spent' = [spent EXCEPT !.built = a]
        /\ UNCHANGED air
     \/ /\ ~keeper.cancelled
        /\ MayFail
        /\ keeper' = [keeper EXCEPT !.pc = "failing", !.app = a]
        /\ spent' = [Failed EXCEPT !.built = a]
        /\ UNCHANGED air
  /\ UNCHANGED <<setting, applies, swap, source, link, permits, restoring>>

\* startup() returned.  The link counts as held from here on, also when it has
\* died late in startup(): that loss was no link's the source had.
Started ==
  /\ keeper.pc = "starting"
  /\ ~keeper.cancelled
  /\ link' = [app |-> keeper.app, connected |-> TRUE, lost |-> FALSE, window |-> link.window]
  /\ air' = [air EXCEPT !.window = 0, !.late = @ \cup (air.dead \cap {keeper.app})]
  /\ keeper' = [keeper EXCEPT !.pc = "attaching", !.app = 0]
  /\ UNCHANGED <<setting, applies, swap, source, permits, restoring, spent>>

\* startup() raised or was cancelled: its application is shut down, whatever comes.
StartFails ==
  /\ keeper.pc = "starting"
  /\ \/ keeper.cancelled /\ UNCHANGED spent
     \/ keeper.app \in air.dead /\ UNCHANGED spent
     \/ ~keeper.cancelled /\ MayFail /\ spent' = Failed
  /\ keeper' = [keeper EXCEPT !.pc = "failing"]
  /\ UNCHANGED <<setting, applies, swap, source, link, air, permits, restoring>>

\* A shutdown under way in connect(): carried to its end even when cancelled.
ShutDown ==
  /\ keeper.pc \in {"shutting", "failing"}
  /\ air' = [air EXCEPT !.open = @ \ {keeper.app}]
  /\ keeper' = IF keeper.cancelled THEN NoKeeper
               ELSE [keeper EXCEPT !.app = 0,
                       !.pc = IF keeper.pc = "shutting" THEN "preparing" ELSE "backoff"]
  /\ UNCHANGED <<setting, applies, swap, source, link, permits, restoring, spent>>

\* A shutdown that raises leaves its port behind and the attempt failed.
ShutDownFails ==
  /\ keeper.pc \in {"shutting", "failing"}
  /\ MayFail
  /\ air' = [air EXCEPT !.stuck = @ \cup {keeper.app}]
  /\ keeper' = IF keeper.cancelled THEN NoKeeper
               ELSE [keeper EXCEPT !.app = 0, !.pc = "backoff"]
  /\ spent' = Failed
  /\ UNCHANGED <<setting, applies, swap, source, link, permits, restoring>>

\* on_connection_change(True) and attach(): done, or failed and tried again,
\* whether the link holds or not.
Attached ==
  /\ keeper.pc = "attaching"
  /\ ~keeper.cancelled
  /\ \/ keeper' = [keeper EXCEPT !.pc = "looking"] /\ UNCHANGED spent
     \/ /\ MayFail
        /\ keeper' = [keeper EXCEPT !.pc = "backoff"]
        /\ spent' = Failed
  /\ UNCHANGED <<setting, applies, swap, source, link, air, permits, restoring>>

\* The cancellation reaches the supervisor at an await that lets it through.
KeeperEnds ==
  /\ keeper.cancelled
  /\ keeper.pc \in {"looking", "parked", "connecting", "preparing", "attaching", "backoff"}
  /\ keeper' = NoKeeper
  /\ UNCHANGED <<setting, applies, swap, source, link, air, permits, restoring, spent>>

-----------------------------------------------------------------------------
(* The link *)

\* Mutant: any application's event counts.
LinkDiesAnyApp(a) ==
  /\ a \in air.open \ air.dead
  /\ spent.losses < MaxLosses
  /\ spent' = [spent EXCEPT !.losses = @ + 1]
  /\ air' = [air EXCEPT !.dead = @ \cup {a}]
  /\ link' = [link EXCEPT !.connected = FALSE, !.window = 0]
  /\ UNCHANGED <<setting, applies, swap, source, keeper, permits, restoring>>

\* connection_lost: an event of any application but the current one is ignored.
LinkDies(a) ==
  /\ a \in air.open \ air.dead
  /\ spent.losses < MaxLosses
  /\ spent' = [spent EXCEPT !.losses = @ + 1]
  /\ air' = [air EXCEPT !.dead = @ \cup {a}]
  /\ link' = IF a # link.app THEN link
             ELSE [link EXCEPT !.connected = FALSE, !.lost = TRUE, !.window = 0]
  /\ UNCHANGED <<setting, applies, swap, source, keeper, permits, restoring>>

Linked == link.app # 0 /\ link.connected

\* restore_network asks the radio to take over a network ...
RestoreBegins ==
  /\ Linked
  /\ restoring = 0
  /\ spent.losses < MaxLosses
  /\ restoring' = source.number
  /\ spent' = [spent EXCEPT !.losses = @ + 1]
  /\ UNCHANGED <<setting, applies, swap, source, keeper, link, air, permits>>

\* ... and counts the link as lost, restored or not, so that it is built anew.
RestoreEnds ==
  /\ restoring # 0
  /\ restoring' = 0
  /\ link' = IF restoring = source.number
             THEN [link EXCEPT !.connected = FALSE, !.lost = TRUE, !.window = 0]
             ELSE link
  /\ UNCHANGED <<setting, applies, swap, source, keeper, air, permits, spent>>

-----------------------------------------------------------------------------
(* The join window *)

WithoutPermit(i) == SubSeq(permits, 1, i - 1) \o SubSeq(permits, i + 1, Len(permits))

\* POST /api/zigbee/permit: open a window (numbered by its request), stop any,
\* or close the one a page that is left had opened.
PermitCalled(kind, window) ==
  /\ source.number # 0
  /\ spent.permits < MaxPermits
  /\ spent' = [spent EXCEPT !.permits = @ + 1]
  /\ permits' = Append(permits,
       [kind |-> kind, source |-> source.number, pc |-> "queued", app |-> 0,
        window |-> IF kind = "open" THEN spent.permits + 1 ELSE window])
  /\ UNCHANGED <<setting, applies, swap, source, keeper, link, air, restoring>>

\* The lock of a source goes to the oldest of its requests.
HasPermitLock(i) == \A j \in 1..(i - 1) : permits[j].source # permits[i].source

\* Mutant: a page's window is not compared.
PermitTakesBlindly(i) ==
  /\ HasPermitLock(i)
  /\ permits[i].pc = "queued"
  /\ permits' = IF Linked /\ permits[i].source = source.number
                THEN [permits EXCEPT ![i].pc = "asked", ![i].app = link.app]
                ELSE WithoutPermit(i)
  /\ UNCHANGED <<setting, applies, swap, source, keeper, link, air, restoring, spent>>

\* Under the lock: the window is compared, the link required, the radio asked.
PermitTakes(i) ==
  /\ HasPermitLock(i)
  /\ permits[i].pc = "queued"
  /\ permits' = IF /\ Linked /\ permits[i].source = source.number
                   /\ permits[i].kind = "close" => link.window = permits[i].window
                THEN [permits EXCEPT ![i].pc = "asked", ![i].app = link.app]
                ELSE WithoutPermit(i)
  /\ UNCHANGED <<setting, applies, swap, source, keeper, link, air, restoring, spent>>

WindowOf(p) == IF p.kind = "open" THEN p.window ELSE 0

\* The coordinator has done what was asked, and answers.
RadioPermits(i) ==
  /\ permits[i].pc = "asked"
  /\ permits[i].app \in air.open \ air.dead
  /\ air' = IF permits[i].app = link.app
            THEN [air EXCEPT !.window = WindowOf(permits[i])] ELSE air
  /\ permits' = [permits EXCEPT ![i].pc = "answered"]
  /\ UNCHANGED <<setting, applies, swap, source, keeper, link, restoring, spent>>

\* Mutant: the end of the window is written without another look at the link.
PermitReturnsBlindly(i) ==
  /\ permits[i].pc = "answered"
  /\ link' = [link EXCEPT !.window = WindowOf(permits[i])]
  /\ permits' = WithoutPermit(i)
  /\ UNCHANGED <<setting, applies, swap, source, keeper, air, restoring, spent>>

\* One turn of the loop later: the link is looked at again.
PermitReturns(i) ==
  /\ permits[i].pc = "answered"
  /\ link' = IF permits[i].app = link.app /\ link.connected
             THEN [link EXCEPT !.window = WindowOf(permits[i])] ELSE link
  /\ permits' = WithoutPermit(i)
  /\ UNCHANGED <<setting, applies, swap, source, keeper, air, restoring, spent>>

\* The call times out or is refused; the radio may have acted on it.
PermitFails(i) ==
  /\ permits[i].pc = "asked"
  /\ MayFail \/ permits[i].app \notin air.open \ air.dead
  /\ spent' = IF permits[i].app \in air.open \ air.dead THEN Failed ELSE spent
  /\ air' = IF permits[i].app = link.app THEN [air EXCEPT !.window = Unsure] ELSE air
  /\ permits' = WithoutPermit(i)
  /\ UNCHANGED <<setting, applies, swap, source, keeper, link, restoring>>

\* The time of an open window is over, on the radio and for the page.
WindowRunsOut ==
  /\ air.window # 0 \/ link.window # 0
  /\ air' = [air EXCEPT !.window = 0]
  /\ link' = [link EXCEPT !.window = 0]
  /\ \A i \in 1..Len(permits) : permits[i].pc # "answered"
  /\ UNCHANGED <<setting, applies, swap, source, keeper, permits, restoring, spent>>

-----------------------------------------------------------------------------
SwapStep == SwapBegins \/ SwapReleases \/ SwapReleased \/ SwapReleaseFails \/ SwapBuilds

KeeperStep ==
  \/ Looks \/ Woken \/ ConnectBegins \/ ConnectRefused \/ Prepared \/ Built
  \/ Started \/ StartFails \/ ShutDown \/ ShutDownFails \/ Attached \/ KeeperEnds

PermitStep ==
  \E i \in 1..Len(permits) : \/ PermitTakes(i) \/ RadioPermits(i)
                             \/ PermitReturns(i) \/ PermitFails(i)

RadioNext ==
  \/ \E s \in Sticks \cup {NoStick} : PutRadio(s)
  \/ SwapStep
  \/ KeeperStep
  \/ \E a \in air.open : LinkDies(a)
  \/ RestoreBegins \/ RestoreEnds
  \/ \E kind \in {"open", "stop"} : PermitCalled(kind, 0)
  \/ \E window \in 1..MaxPermits : PermitCalled("close", window)
  \/ PermitStep
  \/ WindowRunsOut

RadioSpec == RadioInit /\ [][RadioNext]_radioVars

\* The event loop runs every task that can go on.
RadioFairSpec == RadioSpec /\ WF_radioVars(SwapStep) /\ WF_radioVars(KeeperStep)

-----------------------------------------------------------------------------
(* Properties *)

Requests == [kind : {"open", "stop", "close"}, source : 1..(MaxApplies + 1),
             pc : {"queued", "asked", "answered"}, app : Nat, window : 0..MaxPermits]

RadioTypeOK ==
  /\ setting \in Sticks \cup {NoStick}
  /\ applies \in Seq(Sticks \cup {NoStick})
  /\ swap \in [pc : {"free", "stopping", "releasing", "building"}, app : Nat]
  /\ source \in [number : 0..(MaxApplies + 1), stick : Sticks \cup {NoStick}]
  /\ keeper \in [pc : {"none", "looking", "parked", "connecting", "preparing", "building",
                       "starting", "shutting", "failing", "attaching", "backoff"},
                 app : Nat, cancelled : BOOLEAN]
  /\ link \in [app : Nat, connected : BOOLEAN, lost : BOOLEAN, window : 0..MaxPermits]
  /\ air \in [open : SUBSET Nat, dead : SUBSET Nat, stuck : SUBSET Nat, window : 0..Unsure,
             late : SUBSET Nat, left : SUBSET (1..MaxPermits)]
  /\ permits \in Seq(Requests)
  /\ restoring \in 0..(MaxApplies + 1)

\* One serial port is open at a time, through every radio change, cancelled
\* attempt and reconnect - but for a port whose shutdown itself failed
\* (_release, _shutdown_even_if_cancelled).
OnePort == Cardinality(air.open \ air.stuck) <= 1

\* Once every change has been applied the source is that of the stored setting
\* and somebody is connecting it; without a stick nothing is held (apply, _swap).
AppliedIsSupervised ==
  (swap.pc = "free" /\ applies = <<>>) =>
    /\ source.stick = setting
    /\ IF setting = NoStick THEN keeper.pc = "none" /\ air.open \subseteq air.stuck
                            ELSE keeper.pc # "none" /\ ~keeper.cancelled

\* The supervisor never sleeps on a link that is gone: while it is parked the
\* link holds, or the event that wakes it is set (wait_for_link_loss).  Only a
\* link that died late, inside the startup() that succeeded, it does not miss.
NotParkedOnDeadLink ==
  (keeper.pc = "parked" /\ ~link.lost) =>
    link.connected /\ link.app \in air.open /\ link.app \notin air.dead \ air.late

\* A join window on the page is one that the connected radio holds: never one
\* of a radio that is gone, and not another than the radio's own
\* (_permit_holding_the_lock, _close_window).  Only a window left over from a
\* link that was given up while it stood may be shown, over a closed one.
LeftOver == link.window \in air.left

WindowIsTheRadios ==
  /\ link.window # 0 => LeftOver \/ (Linked /\ link.app \notin air.dead)
  /\ (Linked /\ \A i \in 1..Len(permits) : permits[i].pc # "answered") =>
       air.window \in {link.window, Unsure} \/ (LeftOver /\ air.window = 0)

\* A page that is left closes no window but its own (close_window_ending).
ClosesOnlyItsOwn ==
  \A i \in 1..Len(permits) :
    (permits[i].kind = "close" /\ permits[i].pc = "asked" /\ permits[i].app = link.app)
      => air.window \in {permits[i].window, 0, Unsure}

\* A chosen stick is connected in the end, whatever was applied, lost or
\* restored before (supervise, which never gives up).
StickIsConnected == <>[](setting # NoStick => Linked)

\* One port, one source, one supervisor and one window: what holds of the
\* stick in every state (ZigbeeRuntime, ZigbeeSource).
RadioSafe ==
  /\ RadioTypeOK /\ OnePort /\ AppliedIsSupervised /\ NotParkedOnDeadLink
  /\ WindowIsTheRadios /\ ClosesOnlyItsOwn

=============================================================================
