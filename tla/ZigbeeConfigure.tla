---------------------------- MODULE ZigbeeConfigure ----------------------------
(***************************************************************************)
(* Configure-on-join for one Zigbee device (zigbee/configure.py): the pass *)
(* a "ready" event starts, the rows of zigbee_pending_config that say what *)
(* is still owed (model/zigbee_pending_store.py), the watcher that retries *)
(* them whenever the device is heard, and the polling of clusters that     *)
(* refuse to report.  Passes outlive the device object they began with: a  *)
(* reconnect, a second interview and a removal replace it under them.      *)
(***************************************************************************)
EXTENDS Naturals, Sequences, FiniteSets

CONSTANTS
  ClusterOrder, \* the clusters of the device that are configured, in order
  Refusing,     \* those that refuse a reporting configuration
  Tasks,        \* passes and retries that can be under way at once
  MaxReadies,   \* bound: "ready" events: pairings, rejoins, interviews
  MaxRemovals,  \* bound: removals
  MaxLinks,     \* bound: losses of the coordinator
  MaxRestarts,  \* bound: restarts of the bridge
  MaxUpsets,    \* bound: the last three together
  PassMayRaise  \* fast_poll_mode or the quirk's own hook raises

Clusters == {ClusterOrder[i] : i \in DOMAIN ClusterOrder}

ASSUME ConfigureAssumption ==
  /\ ClusterOrder \in Seq(Clusters)
  /\ Refusing \subseteq Clusters
  /\ {MaxReadies, MaxRemovals, MaxLinks, MaxRestarts, MaxUpsets} \subseteq Nat
  /\ PassMayRaise \in BOOLEAN

VARIABLES
  member,   \* the device is in zigpy's catalogue
  radio,    \* the link to the coordinator is up
  bound,    \* clusters that are configured on the device itself
  owed,     \* its rows of zigbee_pending_config, which are on disk
  due,      \* clusters the PollingSchedule holds
  ripe,     \* those whose time has come
  watched,  \* the device object of now carries a _WakeUpWatcher
  work,     \* passes and retries under way
  polling,  \* a tick of the PollingLoop: a read, and what is still to be read
  leaving,  \* a removal waits for zigpy
  cut,      \* history: a pass never got to all its clusters
  stray,    \* history: a pass or a retry outlived its device object
  amnesia,  \* history: the schedule lost entries of a device that is there
  counts    \* how much of each bound is used

cfgVars == <<member, radio, bound, owed, due, ripe, watched, work, polling, leaving,
             cut, stray, amnesia, counts>>

NoWork == [kind |-> "none", at |-> "next", todo |-> {}, deferred |-> FALSE, mine |-> TRUE]
NoTick == [at |-> "asleep", todo |-> {}]
Pass   == [NoWork EXCEPT !.kind = "pass", !.todo = Clusters]

\* A pass takes the clusters in their order.
Position(c) == CHOOSE i \in DOMAIN ClusterOrder : ClusterOrder[i] = c
First(todo) == CHOOSE c \in todo : \A d \in todo : Position(c) <= Position(d)

ConfigureInit ==
  /\ member = FALSE /\ radio = TRUE
  /\ bound = {} /\ owed = {} /\ due = {} /\ ripe = {}
  /\ watched = FALSE
  /\ work = [t \in Tasks |-> NoWork]
  /\ polling = NoTick
  /\ leaving = FALSE
  /\ cut = FALSE /\ stray = FALSE /\ amnesia = FALSE
  /\ counts = [readies |-> 0, removals |-> 0, links |-> 0, restarts |-> 0]

Counted(what, bnd) == /\ counts[what] < bnd
                      /\ what # "readies" => counts.removals + counts.links + counts.restarts < MaxUpsets
                      /\ counts' = [counts EXCEPT ![what] = @ + 1]

\* Whoever works with the object that is being replaced goes on with it.
Orphaned(w) == [t \in Tasks |-> [w[t] EXCEPT !.mine = @ /\ w[t].kind = "none"]]
Busy == \E t \in Tasks : work[t].kind = "pass"
AtWork == \E t \in Tasks : work[t].kind # "none"

-----------------------------------------------------------------------------
(* "ready" events: _handle_device_event spawns a pass, whatever is under way *)

\* A new member, or one that was reset and rejoins: its bindings are gone.
Joins ==
  \E t \in Tasks :
    /\ radio
    /\ ~leaving
    /\ work[t] = NoWork
    /\ Counted("readies", MaxReadies)
    /\ member' = TRUE
    /\ bound' = {}
    /\ work' = [work EXCEPT ![t] = Pass]
    /\ UNCHANGED <<radio, owed, due, ripe, watched, polling, leaving, cut, stray, amnesia>>

\* A second interview: another object under the same address.
Reinterviewed ==
  \E t \in Tasks :
    /\ radio /\ member
    /\ ~leaving
    /\ work[t] = NoWork
    /\ Counted("readies", MaxReadies)
    /\ watched' = FALSE
    /\ work' = [Orphaned(work) EXCEPT ![t] = Pass]
    /\ stray' = (stray \/ AtWork)
    /\ UNCHANGED <<member, radio, bound, owed, due, ripe, polling, leaving, cut, amnesia>>

-----------------------------------------------------------------------------
(* One cluster: the row is written first and cleared last *)

\* Mutant: the row is left to the failure.
AsksUnmarked(t) ==
  /\ work[t].kind # "none"
  /\ work[t].at = "next"
  /\ work[t].todo # {}
  /\ work' = [work EXCEPT ![t].at = "asking"]
  /\ UNCHANGED <<member, radio, bound, owed, due, ripe, watched, polling, leaving,
                 cut, stray, amnesia, counts>>

Asks(t) ==
  /\ work[t].kind # "none"
  /\ work[t].at = "next"
  /\ work[t].todo # {}
  /\ owed' = owed \cup {First(work[t].todo)}
  /\ work' = [work EXCEPT ![t].at = "asking"]
  /\ UNCHANGED <<member, radio, bound, due, ripe, watched, polling, leaving,
                 cut, stray, amnesia, counts>>

Further(t) == [work EXCEPT ![t].at = "next", ![t].todo = @ \ {First(@)}]

\* Mutant: a refusal is taken for a success.
SucceedsUnpolled(t) ==
  LET c == First(work[t].todo) IN
  /\ work[t].at = "asking"
  /\ work[t].mine /\ radio /\ member
  /\ bound' = bound \cup {c}
  /\ owed' = owed \ {c}
  /\ work' = Further(t)
  /\ UNCHANGED <<member, radio, due, ripe, watched, polling, leaving, cut, stray, amnesia, counts>>

\* Bound, and reporting - or refusing to, and polled from then on.
Succeeds(t) ==
  LET c == First(work[t].todo) IN
  /\ work[t].at = "asking"
  /\ work[t].mine /\ radio /\ member
  /\ bound' = bound \cup {c}
  /\ owed' = owed \ {c}
  /\ due' = IF c \in Refusing THEN due \cup {c} ELSE due
  /\ ripe' = IF c \in Refusing THEN ripe \ {c} ELSE ripe
  /\ work' = Further(t)
  /\ UNCHANGED <<member, radio, watched, polling, leaving, cut, stray, amnesia, counts>>

\* Asleep, out of reach, gone - or a bug in a quirk: the next cluster is tried.
Fails(t) ==
  /\ work[t].at = "asking"
  /\ work' = [Further(t) EXCEPT ![t].deferred = TRUE]
  /\ UNCHANGED <<member, radio, bound, owed, due, ripe, watched, polling, leaving,
                 cut, stray, amnesia, counts>>

\* The pass is through: a device that deferred anything is watched.
PassEnds(t) ==
  /\ work[t].kind = "pass"
  /\ work[t].at = "next" /\ work[t].todo = {}
  /\ watched' = (watched \/ (work[t].deferred /\ work[t].mine))
  /\ work' = [work EXCEPT ![t] = NoWork]
  /\ UNCHANGED <<member, radio, bound, owed, due, ripe, polling, leaving, cut, stray, amnesia, counts>>

\* The hook or fast_poll_mode raises on the way in or on the way out.
PassRaises(t) ==
  /\ PassMayRaise
  /\ work[t].kind = "pass"
  /\ work[t].at = "next" /\ work[t].todo \in {{}, Clusters}
  /\ work' = [work EXCEPT ![t] = NoWork]
  /\ cut' = TRUE
  /\ UNCHANGED <<member, radio, bound, owed, due, ripe, watched, polling, leaving,
                 stray, amnesia, counts>>

-----------------------------------------------------------------------------
(* The watcher: one retry at a time, of what the table says is owed *)

Retrying == \E t \in Tasks : work[t].kind = "retry" /\ work[t].mine

Heard ==
  \E t \in Tasks :
    /\ watched /\ radio /\ member
    /\ ~Retrying
    /\ work[t] = NoWork
    /\ owed # {}
    /\ work' = [work EXCEPT ![t] = [NoWork EXCEPT !.kind = "retry", !.todo = owed]]
    /\ UNCHANGED <<member, radio, bound, owed, due, ripe, watched, polling, leaving,
                   cut, stray, amnesia, counts>>

\* Mutant: one retry, and the watcher is done.
RetryEndsUnwatched(t) ==
  /\ work[t].kind = "retry"
  /\ work[t].at = "next" /\ work[t].todo = {}
  /\ work' = [work EXCEPT ![t] = NoWork]
  /\ watched' = FALSE
  /\ UNCHANGED <<member, radio, bound, owed, due, ripe, polling, leaving,
                 cut, stray, amnesia, counts>>

RetryEnds(t) ==
  /\ work[t].kind = "retry"
  /\ work[t].at = "next" /\ work[t].todo = {}
  /\ work' = [work EXCEPT ![t] = NoWork]
  /\ UNCHANGED <<member, radio, bound, owed, due, ripe, watched, polling, leaving,
                 cut, stray, amnesia, counts>>

-----------------------------------------------------------------------------
(* The polling loop *)

Ripens ==
  \E c \in due \ ripe :
    /\ ripe' = ripe \cup {c}
    /\ UNCHANGED <<member, radio, bound, owed, due, watched, work, polling, leaving,
                   cut, stray, amnesia, counts>>

\* The next of todo is put off, and then read.  If the device is not to be
\* found the tick drops all of todo from the schedule.
PollsNext(todo, found) ==
  IF found /\ todo # {}
  THEN \E c \in todo :
         /\ due' = due \cup {c} /\ ripe' = ripe \ {c}
         /\ polling' = [at |-> "reading", todo |-> todo \ {c}]
  ELSE /\ due' = due \ todo /\ ripe' = ripe \ todo
       /\ polling' = NoTick

\* A tick takes the list of what is due; without a link it takes none.
Ticks ==
  /\ polling = NoTick
  /\ radio
  /\ ripe # {}
  /\ PollsNext(ripe, member)
  /\ UNCHANGED <<member, radio, bound, owed, watched, work, leaving, cut, stray, amnesia, counts>>

\* Mutant: an entry that a removal has taken meanwhile raises, and ends the loop.
PolledStrictly ==
  /\ polling.at = "reading"
  /\ IF member \/ polling.todo \subseteq due THEN PollsNext(polling.todo, member)
     ELSE polling' = [at |-> "dead", todo |-> {}] /\ UNCHANGED <<due, ripe>>
  /\ UNCHANGED <<member, radio, bound, owed, watched, work, leaving, cut, stray, amnesia, counts>>

\* Answered or not.  Whether there is a link is not asked again: connect() has
\* no application for a while, and a device that is there is not found in it.
Polled ==
  \E found \in {member, member /\ radio} :
    /\ polling.at = "reading"
    /\ PollsNext(polling.todo, found)
    /\ amnesia' = (amnesia \/ (member /\ ~found /\ polling.todo # {}))
    /\ UNCHANGED <<member, radio, bound, owed, watched, work, leaving, cut, stray, counts>>

-----------------------------------------------------------------------------
(* The link, the bridge, and the user who removes the device *)

RadioLost ==
  /\ radio
  /\ Counted("links", MaxLinks)
  /\ radio' = FALSE
  /\ leaving' = FALSE
  /\ UNCHANGED <<member, bound, owed, due, ripe, watched, work, polling, cut, stray, amnesia>>

\* Mutant: subscribe() does not look at the pending table.
RadioBackUnresumed ==
  /\ ~radio
  /\ radio' = TRUE
  /\ watched' = FALSE
  /\ work' = Orphaned(work)
  /\ stray' = (stray \/ AtWork)
  /\ polling' = NoTick
  /\ UNCHANGED <<member, bound, owed, due, ripe, leaving, cut, amnesia, counts>>

\* A new application: new objects, of which those with rows are watched, and a
\* new polling loop.
RadioBack ==
  /\ ~radio
  /\ radio' = TRUE
  /\ watched' = (member /\ owed # {})
  /\ work' = Orphaned(work)
  /\ stray' = (stray \/ AtWork)
  /\ polling' = NoTick
  /\ UNCHANGED <<member, bound, owed, due, ripe, leaving, cut, amnesia, counts>>

\* The bridge stops at any point, and is started again.
Restarts ==
  /\ Counted("restarts", MaxRestarts)
  /\ radio' = TRUE
  /\ work' = [t \in Tasks |-> NoWork]
  /\ polling' = NoTick
  /\ due' = {} /\ ripe' = {}
  /\ watched' = (member /\ owed # {})
  /\ leaving' = FALSE
  /\ cut' = (cut \/ Busy)
  /\ amnesia' = TRUE
  /\ UNCHANGED <<member, bound, owed, stray>>

RemoveCalled ==
  /\ radio /\ member /\ ~leaving
  /\ Counted("removals", MaxRemovals)
  /\ leaving' = TRUE
  /\ UNCHANGED <<member, radio, bound, owed, due, ripe, watched, work, polling, cut, stray, amnesia>>

\* Mutant: the rows of a device that was never named are left.
RemovedHalf ==
  /\ leaving
  /\ leaving' = FALSE
  /\ member' = FALSE
  /\ bound' = {} /\ due' = {} /\ ripe' = {}
  /\ watched' = FALSE
  /\ work' = Orphaned(work)
  /\ stray' = (stray \/ AtWork)
  /\ UNCHANGED <<radio, owed, polling, cut, amnesia, counts>>

\* zigpy has let go of it, the source forgets it, and the store its rows.
Removed ==
  /\ leaving
  /\ leaving' = FALSE
  /\ member' = FALSE
  /\ bound' = {} /\ owed' = {} /\ due' = {} /\ ripe' = {}
  /\ watched' = FALSE
  /\ work' = Orphaned(work)
  /\ stray' = (stray \/ AtWork)
  /\ UNCHANGED <<radio, polling, cut, amnesia, counts>>

-----------------------------------------------------------------------------
WorkStep(t) == Asks(t) \/ Fails(t) \/ PassEnds(t) \/ RetryEnds(t)
PollStep    == Ticks \/ Polled

ConfigureNext ==
  \/ Joins \/ Reinterviewed
  \/ \E t \in Tasks : WorkStep(t) \/ Succeeds(t) \/ PassRaises(t)
  \/ Heard
  \/ Ripens \/ PollStep
  \/ RadioLost \/ RadioBack \/ Restarts
  \/ RemoveCalled \/ Removed

ConfigureSpec == ConfigureInit /\ [][ConfigureNext]_cfgVars

\* What is under way goes on; the link comes back, the device is heard now and
\* then, and what it is asked again and again it answers in the end.
ConfigureFair ==
  /\ \A t \in Tasks : WF_cfgVars(WorkStep(t) \/ Succeeds(t)) /\ SF_cfgVars(Succeeds(t))
  /\ WF_cfgVars(Heard) /\ WF_cfgVars(RadioBack)
  /\ WF_cfgVars(PollStep) /\ WF_cfgVars(Removed)

ConfigureFairSpec == ConfigureSpec /\ ConfigureFair

-----------------------------------------------------------------------------
(* Properties *)

ConfigureTypeOK ==
  /\ {member, radio, watched, leaving, cut, stray, amnesia} \subseteq BOOLEAN
  /\ bound \subseteq Clusters /\ owed \subseteq Clusters
  /\ ripe \subseteq due /\ due \subseteq Refusing
  /\ work \in [Tasks -> [kind : {"none", "pass", "retry"}, at : {"next", "asking"},
                         todo : SUBSET Clusters, deferred : BOOLEAN, mine : BOOLEAN]]
  /\ polling \in [at : {"asleep", "reading"}, todo : SUBSET Refusing]

Settled == member /\ ~Busy

\* Once no pass is under way, every cluster of a paired device is configured
\* or its row says that it is not - unless a pass was cut short
\* (_configure_cluster).
ConfiguredOrOwed == Settled /\ ~cut => Clusters \subseteq bound \cup owed

\* The same without the exception: what the pending table is said to make
\* true of a run that was killed halfway through.
KilledRunIsOwed ==
  Settled /\ (owed # {} \/ bound # {}) => Clusters \subseteq bound \cup owed

\* What is owed is waited for: the device object of now is watched - unless a
\* task outlived the object it began with (watch_for_wakeups, subscribe).
OwedIsWatched == Settled /\ radio /\ owed # {} /\ ~stray /\ ~cut => watched

\* A configured cluster that refused to report is polled - unless a restart
\* has forgotten that it did, or a tick that went on while connect() had no
\* application (_bind_and_report, PollingSchedule, _poll_due).
RefusedIsPolled == Settled /\ ~amnesia => bound \cap Refusing \subseteq due

\* The same without the exception: a lamp that refuses reporting is polled.
RefusalOutlivesRestart == Settled => bound \cap Refusing \subseteq due

\* The same without the second exception: a loss of the link, which _poll_due
\* is said to tell from a removal, does not drop what is to be polled.
RefusalOutlivesReconnect == Settled /\ counts.restarts = 0 => bound \cap Refusing \subseteq due

\* A device that is gone leaves no debt for the next one that is paired under
\* its address - unless something was under way with it (ZigbeePendingStore.forget).
NotInherited == ~member /\ ~stray => owed = {}

\* In the end nothing is owed by a device that stays, is heard and answers
\* (_WakeUpWatcher, retry_pending).
OwedIsPaid == <>[](member /\ ~stray /\ ~cut) => <>[](owed = {})

\* A poll whose time has come is made, or the device is gone
\* (PollingLoop: the loop outlives a removal under its feet).
DueIsPolled == \A c \in Refusing : [](c \in ripe => <>(c \notin ripe))

\* Debts, watchers and polls agree with what is configured in every state,
\* and debts are paid and polls made in the end (configure.py).
ConfigureSafe ==
  ConfigureTypeOK /\ ConfiguredOrOwed /\ OwedIsWatched /\ RefusedIsPolled /\ NotInherited
ConfigurePaid == OwedIsPaid /\ DueIsPolled

=============================================================================
