---------------------------- MODULE ZigbeeDelivery ----------------------------
(***************************************************************************)
(* What one Zigbee device reports, on its way to the runtime               *)
(* (zigbee/source.py): zigpy's events and the device object they come      *)
(* from, the queue and the dispatch task, the three callers of _deliver,   *)
(* the pairing row; and the routes that adopt and remove the device        *)
(* (api/zigbee.py), whose awaits zigpy's callbacks interrupt.              *)
(***************************************************************************)
EXTENDS Naturals

CONSTANTS
  Paths,          \* the device's attribute paths
  Readings,       \* values a path can have
  Detecting,      \* paths on which a repeated value is news: a detector's occupancy
  MaxReports,     \* bound: values that change, or are read for the first time
  MaxRowEvents,   \* bound: joined, interviewing, ready, failed, reinterviewed
  MaxTellFailures,\* bound: deliveries whose handler raises
  MaxAdoptions,   \* bound: times the device is named
  MaxForgets      \* bound: removals

Unread == 0

ASSUME DeliveryAssumption ==
  /\ Readings \subseteq Nat \ {Unread}
  /\ Detecting \subseteq Paths
  /\ {MaxReports, MaxRowEvents, MaxTellFailures, MaxAdoptions, MaxForgets} \subseteq Nat

VARIABLES
  cache,     \* zigpy's attribute cache: path -> value, or Unread
  pairing,   \* the pairing row's state, "none" without one
  listening, \* whose clusters the listeners are on: "nobody", "this", "former"
  backlog,   \* entries of the queue
  stored,    \* the store knows the device
  shown,     \* what the runtime shows
  delivered, \* `_delivered`: what was told last, or none
  calls,     \* the runs of _deliver: dispatch task, join path, naming route
  naming,    \* PATCH /zigbee/pairing/{ieee}
  forgetting,\* DELETE /zigbee/pairing/{ieee}: zigpy was asked, or has dropped the device
  torn,      \* history: a delivery raised after it had told something
  crossed,   \* history: two deliveries overlapped
  limits      \* how much of each bound is used

deliveryVars == <<cache, pairing, listening, backlog, stored, shown, delivered, calls,
                  naming, forgetting, torn, crossed, limits>>

Callers == {"dispatch", "join", "name"}
Nothing == [p \in Paths |-> Unread]
NoCall  == [at |-> "none", force |-> FALSE, snap |-> Nothing, todo |-> {}]
NoBase  == [known |-> FALSE, values |-> Nothing]

DeliveryInit ==
  /\ cache = Nothing
  /\ pairing = "none" /\ listening = "nobody"
  /\ backlog = 0
  /\ stored = FALSE
  /\ shown = Nothing
  /\ delivered = NoBase
  /\ calls = [c \in Callers |-> NoCall]
  /\ naming = "none" /\ forgetting = "no"
  /\ torn = FALSE /\ crossed = FALSE
  /\ limits = [reports |-> 0, events |-> 0, failures |-> 0, adoptions |-> 0, forgets |-> 0]

Spends(what, bnd) == /\ limits[what] < bnd
                     /\ limits' = [limits EXCEPT ![what] = @ + 1]

Read(values) == {p \in Paths : values[p] # Unread}

-----------------------------------------------------------------------------
(* zigpy's side *)

\* An attribute is read or reported - a renewed detection with the value it
\* had; the listener only puts the address on the queue.
ReportArrives(p, v) ==
  /\ pairing # "none"
  /\ cache[p] # v \/ p \in Detecting
  /\ Spends("reports", MaxReports)
  /\ cache' = [cache EXCEPT ![p] = v]
  /\ backlog' = IF listening = "this" THEN backlog + 1 ELSE backlog
  /\ UNCHANGED <<pairing, listening, stored, shown, delivered, calls, naming, forgetting, torn, crossed>>

\* Mutant: the guard compares the address.
ListensByAddress(whose) == listening' = IF whose = "nobody" THEN "this" ELSE whose

\* _listen_to_device: the guard compares the object.
Listens(whose) == listening' = "this"

\* joined, interviewing, failed: the row says so, and nothing else happens.
RowChanges(state) ==
  /\ state \in {"joined", "interviewing", "failed"}
  /\ Spends("events", MaxRowEvents)
  /\ pairing' = state
  /\ UNCHANGED <<cache, listening, backlog, stored, shown, delivered, calls, naming, forgetting, torn, crossed>>

\* ready: the device is listened to, and configured and announced by a task.
BecomesReady ==
  /\ Spends("events", MaxRowEvents)
  /\ calls["join"] = NoCall
  /\ pairing' = "ready"
  /\ Listens(listening)
  /\ calls' = [calls EXCEPT !["join"].at = "configuring"]
  /\ UNCHANGED <<cache, backlog, stored, shown, delivered, naming, forgetting, torn, crossed>>

\* A second interview replaces the object: its clusters are new and some of
\* what they had read is not read again; the event counts as "ready".
IsReinterviewed ==
  /\ pairing # "none"
  /\ Spends("events", MaxRowEvents)
  /\ calls["join"] = NoCall
  /\ \E kept \in SUBSET Paths :
       cache' = [p \in Paths |-> IF p \in kept THEN cache[p] ELSE Unread]
  /\ pairing' = "ready"
  /\ Listens(IF listening = "nobody" THEN "nobody" ELSE "former")
  /\ calls' = [calls EXCEPT !["join"].at = "configuring"]
  /\ UNCHANGED <<backlog, stored, shown, delivered, naming, forgetting, torn, crossed>>

-----------------------------------------------------------------------------
(* _deliver, for each of its callers *)

\* The dispatch task takes an entry, the join path is through with the
\* configuration, the naming route follows.  A device zigpy or the store does
\* not know is left.
Others(c) == \E d \in Callers \ {c} : calls[d].at \in {"reading", "telling"}

Delivers(c, force) ==
  IF pairing # "none" /\ stored
  THEN /\ calls' = [calls EXCEPT ![c] = [NoCall EXCEPT !.at = "reading", !.force = force]]
       /\ crossed' = (crossed \/ Others(c))
  ELSE /\ calls' = [calls EXCEPT ![c] = NoCall]
       /\ UNCHANGED crossed

Dispatches ==
  /\ backlog > 0
  /\ calls["dispatch"] = NoCall
  /\ backlog' = backlog - 1
  /\ Delivers("dispatch", FALSE)
  /\ UNCHANGED <<cache, pairing, listening, stored, shown, delivered, naming, forgetting, torn, limits>>

Configured ==
  /\ calls["join"].at = "configuring"
  /\ Delivers("join", FALSE)
  /\ UNCHANGED <<cache, pairing, listening, backlog, stored, shown, delivered, naming, forgetting, torn, limits>>

NewPaths(c) == ~delivered.known \/ calls[c].force \/ ~(Read(cache) \subseteq Read(delivered.values))

\* The snapshot is taken.  With a path nobody was told of it goes out whole;
\* otherwise each path that differs is told, one after the other, in an order
\* that nothing depends on - and a detector's although it does not, if a
\* detection was noted (`_detected`; whether it was is left open).
Takes(c) ==
  /\ calls[c].at = "reading"
  /\ IF NewPaths(c)
     THEN /\ shown' = [p \in Paths |-> IF cache[p] = Unread THEN shown[p] ELSE cache[p]]
          /\ calls' = [calls EXCEPT ![c].at = "telling", ![c].snap = cache]
     ELSE /\ UNCHANGED shown
          /\ \E renewed \in SUBSET (Detecting \cap Read(cache)) :
               calls' = [calls EXCEPT ![c].at = "telling", ![c].snap = cache,
                 ![c].todo = renewed \cup {p \in Read(cache) : cache[p] # delivered.values[p]}]
  /\ UNCHANGED <<cache, pairing, listening, backlog, stored, delivered, naming, forgetting, torn, crossed, limits>>

TellsOne(c) ==
  /\ calls[c].at = "telling"
  /\ \E p \in calls[c].todo :
       /\ shown' = [shown EXCEPT ![p] = calls[c].snap[p]]
       /\ calls' = [calls EXCEPT ![c].todo = @ \ {p}]
  /\ UNCHANGED <<cache, pairing, listening, backlog, stored, delivered, naming, forgetting, torn, crossed, limits>>

\* What is remembered as told: what was told, not what is true by now.
Told(c) == [known |-> TRUE, values |-> calls[c].snap]

CallEnds(c) ==
  /\ calls[c].at = "telling"
  /\ calls[c].todo = {}
  /\ delivered' = Told(c)
  /\ calls' = [calls EXCEPT ![c] = NoCall]
  /\ UNCHANGED <<cache, pairing, listening, backlog, stored, shown, naming, forgetting, torn, crossed, limits>>

\* The handler raises: nothing is remembered, whatever was told.
CallRaises(c) ==
  /\ calls[c].at = "telling"
  /\ Spends("failures", MaxTellFailures)
  /\ calls' = [calls EXCEPT ![c] = NoCall]
  /\ torn' = TRUE
  /\ UNCHANGED <<cache, pairing, listening, backlog, stored, shown, delivered, naming, forgetting, crossed>>

-----------------------------------------------------------------------------
(* The routes *)

NameCalled ==
  /\ naming = "none"
  /\ pairing = "ready"
  /\ Spends("adoptions", MaxAdoptions)
  /\ naming' = "reading"
  /\ UNCHANGED <<cache, pairing, listening, backlog, stored, shown, delivered, calls, forgetting, torn, crossed>>

\* Mutant: the row is not looked at again after the snapshot was read.
AdoptsUnchecked ==
  /\ naming = "reading"
  /\ calls["name"] = NoCall
  /\ stored' = TRUE
  /\ Delivers("name", TRUE)
  /\ naming' = "following"
  /\ UNCHANGED <<cache, pairing, listening, backlog, shown, delivered, forgetting, torn, limits>>

\* The snapshot is read; the row must still be there and ready, and from here
\* to the store's last write nothing is awaited.
Adopts ==
  /\ naming = "reading"
  /\ calls["name"] = NoCall
  /\ IF pairing = "ready"
     THEN /\ stored' = TRUE
          /\ calls' = [calls EXCEPT !["name"] = [NoCall EXCEPT !.at = "reading", !.force = TRUE]]
          /\ crossed' = (crossed \/ Others("name"))
          /\ naming' = "following"
     ELSE /\ naming' = "none"
          /\ UNCHANGED <<stored, calls, crossed>>
  /\ UNCHANGED <<cache, pairing, listening, backlog, shown, delivered, forgetting, torn, limits>>

NameAnswers ==
  /\ naming = "following"
  /\ calls["name"] = NoCall
  /\ naming' = "none"
  /\ UNCHANGED <<cache, pairing, listening, backlog, stored, shown, delivered, calls, forgetting, torn, crossed, limits>>

ForgetCalled ==
  /\ pairing # "none"
  /\ forgetting = "no"
  /\ Spends("forgets", MaxForgets)
  /\ forgetting' = "asked"
  /\ UNCHANGED <<cache, pairing, listening, backlog, stored, shown, delivered, calls, naming, torn, crossed>>

\* The radio cannot be reached, or the route's patience ends: 502.
ForgetFails ==
  /\ forgetting = "asked"
  /\ forgetting' = "no"
  /\ UNCHANGED <<cache, pairing, listening, backlog, stored, shown, delivered, calls, naming,
                 torn, crossed, limits>>

\* zigpy drops the device and says so within app.remove(): the source forgets
\* it too (_handle_device_removed, _forget).
Dropped ==
  /\ forgetting = "asked"
  /\ forgetting' = "dropped"
  /\ cache' = Nothing /\ pairing' = "none" /\ listening' = "nobody"
  /\ delivered' = NoBase
  /\ UNCHANGED <<backlog, stored, shown, calls, naming, torn, crossed, limits>>

\* Mutant: whether the device is stored was asked before the radio.
ForgottenHalf ==
  /\ forgetting = "dropped"
  /\ forgetting' = "no"
  /\ stored' = (stored /\ naming = "following")
  /\ UNCHANGED <<cache, pairing, listening, backlog, shown, delivered, calls, naming, torn, crossed, limits>>

\* The route goes on, and the store forgets the device.
Forgotten ==
  /\ forgetting = "dropped"
  /\ forgetting' = "no"
  /\ stored' = FALSE
  /\ UNCHANGED <<cache, pairing, listening, backlog, shown, delivered, calls, naming, torn, crossed, limits>>

-----------------------------------------------------------------------------
DeliveryNext ==
  \/ \E p \in Paths, v \in Readings : ReportArrives(p, v)
  \/ \E state \in {"joined", "interviewing", "failed"} : RowChanges(state)
  \/ BecomesReady \/ IsReinterviewed
  \/ Dispatches \/ Configured
  \/ \E c \in Callers : Takes(c) \/ TellsOne(c) \/ CallEnds(c) \/ CallRaises(c)
  \/ NameCalled \/ Adopts \/ NameAnswers
  \/ ForgetCalled \/ ForgetFails \/ Dropped \/ Forgotten

DeliverySpec == DeliveryInit /\ [][DeliveryNext]_deliveryVars

-----------------------------------------------------------------------------
(* Properties *)

Caches == [Paths -> Readings \cup {Unread}]

DeliveryTypeOK ==
  /\ cache \in Caches /\ shown \in Caches
  /\ pairing \in {"none", "joined", "interviewing", "ready", "failed"}
  /\ listening \in {"nobody", "former", "this"}
  /\ backlog \in 0..MaxReports
  /\ delivered \in [known : BOOLEAN, values : Caches]
  /\ calls \in [Callers -> [at : {"none", "configuring", "reading", "telling"},
                            force : BOOLEAN, snap : Caches, todo : SUBSET Paths]]
  /\ naming \in {"none", "reading", "following"}
  /\ forgetting \in {"no", "asked", "dropped"}
  /\ {stored, torn, crossed} \subseteq BOOLEAN

Quiet == backlog = 0 /\ naming = "none" /\ \A c \in Callers : calls[c] = NoCall

\* Once everything queued is delivered, the runtime shows what the device has
\* reported last - however its reports fell between the awaits of a
\* delivery, unless two deliveries overlapped or one was torn by a raising
\* handler (_listen_to_device, _deliver).
ShownIsReported ==
  Quiet /\ stored /\ pairing = "ready" /\ ~torn /\ ~crossed
    => \A p \in Read(cache) : shown[p] = cache[p]

\* The same with a raising handler: the comment on `_delivered` says that the
\* next update catches it up.
NextUpdateCatchesUp ==
  [][\A c \in Callers :
       calls[c].at = "telling" /\ calls'[c] = NoCall /\ limits' = limits /\ ~crossed
         => \A p \in Read(calls[c].snap) : shown'[p] = calls[c].snap[p]]_deliveryVars

\* A device becomes one of the bridge's own only while its row is ready, though
\* it may be removed or fall back while its snapshot is read (name_pairing).
AdoptedWhileReady == [][~stored /\ stored' => pairing = "ready"]_deliveryVars

\* A device that zigpy has dropped is not kept by the store once the route is
\* through, even if it was adopted while zigpy was asked to let it go
\* (remove_pairing).
NoneKept == stored /\ forgetting # "dropped" => pairing # "none"

\* What is shown, adopted and kept agrees with the device, in every state and
\* step (ZigbeeSource, api/zigbee.py).
DeliverySafe == [](DeliveryTypeOK /\ ShownIsReported /\ NoneKept) /\ AdoptedWhileReady

=============================================================================
