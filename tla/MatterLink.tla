----------------------------- MODULE MatterLink -----------------------------
(***************************************************************************)
(* matter/client.py and sources/supervisor.py: the connection to           *)
(* matter-server, the subscriptions, the task that delivers what they      *)
(* report, the snapshots a node is owed, and the supervisor that rebuilds  *)
(* all of it after a loss.                                                 *)
(*                                                                         *)
(* A value is the number of its changes, 0 is a path the node does not     *)
(* have.  The reachability of a node is a path like the others, but comes  *)
(* with the node and needs no subscription; a node without it is not in    *)
(* the cache.  Events, which nobody remembers, are left out.               *)
(***************************************************************************)
EXTENDS Naturals, Sequences

CONSTANTS
    MatterNodes, Attributes,
    OnlinePath,
    FollowCallers,     \* of follow(): commissioning and the end of a firmware update
    MaxNodeChanges,  \* bound: changes of a value
    MaxUpdates,    \* bound: updates waiting to be delivered
    MaxLinkFaults,   \* bound: losses, failed attempts, calls that raise
    NoPath

Followers == FollowCallers \cup {"dispatch"}
NodePaths == Attributes \cup {OnlinePath}
NodeValues == 0..MaxNodeChanges

ASSUME LinkAssumption ==
    /\ OnlinePath \notin Attributes /\ "dispatch" \notin FollowCallers
    /\ NoPath \notin MatterNodes \cup NodePaths
    /\ MaxNodeChanges \in Nat \ {0} /\ {MaxUpdates, MaxLinkFaults} \subseteq Nat

VARIABLES
    nodeCache,    \* the client's copy of matter-server's nodes
    registered,   \* the nodes the store knows
    matterLink,   \* "up", "lost" (the listener has ended) or "down"
    subs,         \* `_subscribed_paths`
    seedPending,  \* `_seed_pending`
    updates,      \* what the subscriptions reported
    runtimeKnows, \* Runtime: the value last cached per node and path
    calling,      \* per caller, the new device it is about to follow
    following,    \* per task, the node whose snapshot it is sending
    supervisor,   \* what supervise() does
    lapsed,       \* history: nodes a call that raised kept something from, with no debt noted for it
    linkFaults    \* history: used up of MaxLinkFaults

linkVars == <<nodeCache, registered, matterLink, subs, seedPending, updates, runtimeKnows,
              calling, following, supervisor, lapsed, linkFaults>>

Present(n) == nodeCache[n][OnlinePath] # 0
Has(n) == {p \in Attributes : nodeCache[n][p] # 0}
Attributed(c) == {x \in MatterNodes \X Attributes : c[x[1]][x[2]] # 0}

ValueItem(n, p, v) == [node |-> n, path |-> p, value |-> v]
FollowItem(n) == [node |-> n, path |-> NoPath, value |-> 0]

LinkTypeOK ==
    /\ nodeCache \in [MatterNodes -> [NodePaths -> NodeValues]] /\ runtimeKnows \in [MatterNodes -> [NodePaths -> NodeValues]]
    /\ registered \subseteq MatterNodes /\ seedPending \subseteq MatterNodes
    /\ matterLink \in {"up", "lost", "down"} /\ subs \subseteq MatterNodes \X Attributes
    /\ updates \in Seq([node : MatterNodes, path : NodePaths \cup {NoPath}, value : NodeValues])
    /\ calling \in [FollowCallers -> MatterNodes \cup {NoPath}]
    /\ following \in [Followers -> MatterNodes \cup {NoPath}]
    /\ supervisor \in {"watching", "rebuilding", "asleep"}
    /\ lapsed \subseteq MatterNodes /\ linkFaults \in 0..MaxLinkFaults
    /\ matterLink = "down" => subs = {} /\ seedPending = {} /\ updates = <<>> /\ following["dispatch"] = NoPath

(* The start of loxmatter has connected and attached. *)
LinkInit ==
    /\ registered \in SUBSET MatterNodes
    /\ nodeCache = [n \in MatterNodes |-> [p \in NodePaths |-> IF n \in registered THEN 1 ELSE 0]]
    /\ runtimeKnows = nodeCache
    /\ matterLink = "up" /\ subs = Attributed(nodeCache)
    /\ seedPending = {} /\ updates = <<>>
    /\ calling = [t \in FollowCallers |-> NoPath] /\ following = [t \in Followers |-> NoPath]
    /\ supervisor = "watching" /\ lapsed = {} /\ linkFaults = 0

-----------------------------------------------------------------------------
(* matter-server reports. *)

(* A value changes: it is queued if somebody subscribed to its path. *)
AttributeUpdated(n, p) ==
    LET v == nodeCache[n][p] + 1 IN
    /\ matterLink = "up" /\ nodeCache[n][p] \in 1..MaxNodeChanges - 1 /\ Len(updates) < MaxUpdates
    /\ nodeCache' = [nodeCache EXCEPT ![n][p] = v]
    /\ updates' = IF <<n, p>> \in subs THEN Append(updates, ValueItem(n, p, v)) ELSE updates
    /\ UNCHANGED <<registered, matterLink, subs, seedPending, runtimeKnows, calling, following, supervisor,
                   lapsed, linkFaults>>

(* NODE_ADDED and NODE_UPDATED: a node appears, its reachability changes or *)
(* it has new paths.  The handler of node events queues two things.         *)
NodeUpdated(n, new) ==
    LET v == IF Present(n) /\ new # {} THEN nodeCache[n][OnlinePath] ELSE nodeCache[n][OnlinePath] + 1 IN
    /\ matterLink = "up" /\ v \in NodeValues /\ new \subseteq Attributes \ Has(n)
    /\ Len(updates) + 1 < MaxUpdates
    /\ nodeCache' = [nodeCache EXCEPT ![n] = [p \in NodePaths |-> IF p = OnlinePath THEN v
                                                      ELSE IF p \in new THEN 1 ELSE @[p]]]
    /\ updates' = updates \o <<ValueItem(n, OnlinePath, v), FollowItem(n)>>
    /\ UNCHANGED <<registered, matterLink, subs, seedPending, runtimeKnows, calling, following, supervisor,
                   lapsed, linkFaults>>

-----------------------------------------------------------------------------
(* _follow_node() up to its first await, and the handler's                  *)
(* on_node_snapshot(): the values of a node the store knows are cached at   *)
(* once and the changed ones sent then.                                     *)

Learnt(n) == [runtimeKnows EXCEPT ![n] = [p \in NodePaths |-> IF nodeCache[n][p] # 0 THEN nodeCache[n][p] ELSE @[p]]]

Raises == linkFaults < MaxLinkFaults /\ linkFaults' = linkFaults + 1

(* What a call that raised leaves behind is owed only if the node is noted  *)
(* and no follow of it is under way, which will take the note for its own.  *)
Lapses(t, n, noted) ==
    lapsed' = IF noted /\ \A u \in Followers \ {t} : following[u] # n THEN lapsed \ {n} ELSE lapsed \cup {n}

(* Writing the store, before or after the values are cached, may raise. *)
Seed(t, n) ==
    \/ /\ runtimeKnows' = Learnt(n) /\ lapsed' = lapsed \ {n}
       /\ \/ following' = [following EXCEPT ![t] = n] /\ UNCHANGED linkFaults
          \/ Raises /\ UNCHANGED following
    \/ Raises /\ Lapses(t, n, TRUE) /\ UNCHANGED <<runtimeKnows, following>>

Wanted(n, forced) == forced \/ n \in seedPending \/ \E p \in Has(n) : <<n, p>> \notin subs

(* Mutant: the debt is not noted before the snapshot is handed over. *)
FollowNodeUnnoted(t, n, forced) ==
    /\ subs' = subs \cup ({n} \X Has(n))
    /\ \/ ~Wanted(n, forced) /\ UNCHANGED <<seedPending, runtimeKnows, following, lapsed, linkFaults>>
       \/ /\ Wanted(n, forced) /\ n \notin registered /\ seedPending' = seedPending \cup {n}
          /\ UNCHANGED <<runtimeKnows, following, lapsed, linkFaults>>
       \/ /\ Wanted(n, forced) /\ n \in registered
          /\ Seed(t, n) /\ UNCHANGED seedPending
       \/ /\ Wanted(n, forced) /\ Raises /\ Lapses(t, n, n \in seedPending)
          /\ UNCHANGED <<seedPending, runtimeKnows, following>>

FollowNode(t, n, forced) ==
    /\ subs' = subs \cup ({n} \X Has(n))
    /\ \/ ~Wanted(n, forced) /\ UNCHANGED <<seedPending, runtimeKnows, following, lapsed, linkFaults>>
       \/ /\ Wanted(n, forced) /\ n \notin registered /\ seedPending' = seedPending \cup {n}
          /\ UNCHANGED <<runtimeKnows, following, lapsed, linkFaults>>
       \/ /\ Wanted(n, forced) /\ n \in registered
          /\ Seed(t, n) /\ seedPending' = seedPending \cup {n}
       \/ /\ Wanted(n, forced) /\ Raises /\ Lapses(t, n, n \in seedPending)
          /\ UNCHANGED <<seedPending, runtimeKnows, following>>

(* The changed values are sent: the debt is paid. *)
Followed(t) ==
    /\ following[t] # NoPath
    /\ seedPending' = seedPending \ {following[t]}
    /\ following' = [following EXCEPT ![t] = NoPath]
    /\ UNCHANGED <<nodeCache, registered, matterLink, subs, updates, runtimeKnows, calling, supervisor, lapsed,
                   linkFaults>>

(* A send raised, or the call was cancelled: the debt stays. *)
FollowRaises(t) ==
    /\ following[t] # NoPath /\ Raises
    /\ following' = [following EXCEPT ![t] = NoPath]
    /\ UNCHANGED <<nodeCache, registered, matterLink, subs, seedPending, updates, runtimeKnows, calling, supervisor, lapsed>>

(* Finding the node in the store reads it, which may raise: before a        *)
(* snapshot its debt is not noted yet, and an update is discarded, as that  *)
(* of an unknown node is.                                                   *)
Dispatch ==
    LET item == Head(updates) IN
    /\ matterLink # "down" /\ following["dispatch"] = NoPath /\ updates # <<>>
    /\ updates' = Tail(updates)
    /\ \/ /\ item.path = NoPath /\ Present(item.node)
          /\ FollowNode("dispatch", item.node, FALSE)
       \/ /\ item.path # NoPath
          /\ runtimeKnows' = IF item.node \in registered
                      THEN [runtimeKnows EXCEPT ![item.node][item.path] = item.value] ELSE runtimeKnows
          /\ UNCHANGED <<subs, seedPending, following, lapsed, linkFaults>>
       \/ /\ item.path # NoPath /\ Raises /\ Lapses("dispatch", item.node, item.node \in seedPending)
          /\ UNCHANGED <<subs, seedPending, runtimeKnows, following>>
    /\ UNCHANGED <<nodeCache, registered, matterLink, calling, supervisor>>

(* Commissioning: a new device gets its row in the store and its            *)
(* reachability; then, after sending it, it is followed.                    *)
Register(t, n) ==
    /\ calling[t] = NoPath /\ following[t] = NoPath /\ n \notin registered /\ Present(n)
    /\ registered' = registered \cup {n}
    /\ runtimeKnows' = [runtimeKnows EXCEPT ![n][OnlinePath] = nodeCache[n][OnlinePath]]
    /\ calling' = [calling EXCEPT ![t] = n]
    /\ UNCHANGED <<nodeCache, matterLink, subs, seedPending, updates, following, supervisor, lapsed, linkFaults>>

(* follow(), of a new device or of one whose firmware is new: without a     *)
(* subscription, or without the node, it does nothing.                      *)
Follow(t, n) ==
    /\ following[t] = NoPath /\ n \in registered /\ calling[t] \in {NoPath, n}
    /\ calling' = [calling EXCEPT ![t] = NoPath]
    /\ IF matterLink # "down" /\ Present(n) THEN FollowNode(t, n, TRUE)
       ELSE UNCHANGED <<subs, seedPending, runtimeKnows, following, lapsed, linkFaults>>
    /\ UNCHANGED <<nodeCache, registered, matterLink, updates, supervisor>>

-----------------------------------------------------------------------------
(* The link and its supervisor. *)

LinkLost ==
    /\ matterLink = "up" /\ linkFaults < MaxLinkFaults
    /\ matterLink' = "lost" /\ linkFaults' = linkFaults + 1
    /\ UNCHANGED <<nodeCache, registered, subs, seedPending, updates, runtimeKnows, calling, following, supervisor,
                   lapsed>>

(* wait_for_link_loss() returns. *)
Noticed ==
    /\ supervisor = "watching" /\ matterLink = "lost"
    /\ supervisor' = "rebuilding"
    /\ UNCHANGED <<nodeCache, registered, matterLink, subs, seedPending, updates, runtimeKnows, calling, following,
                   lapsed, linkFaults>>

(* Mutant: a link that is up again after a failed attempt is left alone. *)
DisconnectsLostOnly ==
    /\ supervisor = "rebuilding" /\ matterLink = "lost"
    /\ matterLink' = "down" /\ subs' = {} /\ seedPending' = {} /\ updates' = <<>>
    /\ following' = [following EXCEPT !["dispatch"] = NoPath]
    /\ UNCHANGED <<nodeCache, registered, runtimeKnows, calling, supervisor, lapsed, linkFaults>>

(* Mutant: the debts of the old connection are kept. *)
DisconnectsKeepsDebts ==
    /\ supervisor = "rebuilding" /\ matterLink # "down"
    /\ matterLink' = "down" /\ subs' = {} /\ updates' = <<>>
    /\ following' = [following EXCEPT !["dispatch"] = NoPath]
    /\ UNCHANGED <<nodeCache, registered, seedPending, runtimeKnows, calling, supervisor, lapsed, linkFaults>>

(* connect() starts with disconnect() of what there is: the dispatch task   *)
(* is cancelled, a follow of another task goes on.                          *)
Disconnects ==
    /\ supervisor = "rebuilding" /\ matterLink # "down"
    /\ matterLink' = "down" /\ subs' = {} /\ seedPending' = {} /\ updates' = <<>>
    /\ following' = [following EXCEPT !["dispatch"] = NoPath]
    /\ UNCHANGED <<nodeCache, registered, runtimeKnows, calling, supervisor, lapsed, linkFaults>>

ConnectFails ==
    /\ supervisor = "rebuilding" /\ matterLink = "down" /\ linkFaults < MaxLinkFaults
    /\ supervisor' = "asleep" /\ linkFaults' = linkFaults + 1
    /\ UNCHANGED <<nodeCache, registered, matterLink, subs, seedPending, updates, runtimeKnows, calling, following,
                   lapsed>>

(* What matter-server may report after a gap: values and reachability have  *)
(* changed, nodes and paths are new.                                        *)
Later ==
    {c \in [MatterNodes -> [NodePaths -> NodeValues]] :
       \A n \in MatterNodes :
           /\ \A p \in NodePaths : c[n][p] \in {nodeCache[n][p], nodeCache[n][p] + 1}
           /\ c[n][OnlinePath] = 0 => \A p \in Attributes : c[n][p] = 0}

SeededFrom(c, nodes) ==
    [n \in MatterNodes |-> IF n \in nodes \cap registered
                     THEN [p \in NodePaths |-> IF c[n][p] # 0 THEN c[n][p] ELSE runtimeKnows[n][p]]
                     ELSE runtimeKnows[n]]

(* connect(), then attach() up to its resend, which is RuntimeValues'. *)
Attach ==
    /\ supervisor = "rebuilding" /\ matterLink = "down"
    /\ nodeCache' \in Later
    /\ matterLink' = "up" /\ subs' = Attributed(nodeCache')
    /\ runtimeKnows' = SeededFrom(nodeCache', MatterNodes)
    /\ supervisor' = "watching" /\ lapsed' = {}
    /\ UNCHANGED <<registered, seedPending, updates, calling, following, linkFaults>>

(* The store raises during the seeding or a backfill: the subscription      *)
(* stands, the supervisor will try again.                                   *)
AttachFails ==
    /\ supervisor = "rebuilding" /\ matterLink = "down" /\ linkFaults < MaxLinkFaults
    /\ nodeCache' \in Later
    /\ matterLink' = "up" /\ subs' = Attributed(nodeCache')
    /\ \E nodes \in SUBSET MatterNodes : runtimeKnows' = SeededFrom(nodeCache', nodes)
    /\ supervisor' = "asleep" /\ linkFaults' = linkFaults + 1
    /\ UNCHANGED <<registered, seedPending, updates, calling, following, lapsed>>

Awake ==
    /\ supervisor = "asleep" /\ supervisor' = "rebuilding"
    /\ UNCHANGED <<nodeCache, registered, matterLink, subs, seedPending, updates, runtimeKnows, calling, following,
                   lapsed, linkFaults>>

-----------------------------------------------------------------------------
Supervise == Noticed \/ Disconnects \/ ConnectFails \/ Attach \/ AttachFails \/ Awake

LinkNext ==
    \/ \E n \in MatterNodes, p \in Attributes : AttributeUpdated(n, p)
    \/ \E n \in MatterNodes, new \in SUBSET Attributes : NodeUpdated(n, new)
    \/ Dispatch
    \/ \E t \in FollowCallers, n \in MatterNodes : Register(t, n) \/ Follow(t, n)
    \/ \E t \in Followers : Followed(t) \/ FollowRaises(t)
    \/ LinkLost
    \/ Supervise

LinkSpec == LinkInit /\ [][LinkNext]_linkVars

(* The supervisor is a task of its own, its waits have an end, and          *)
(* matter-server, absent for a while, comes back.                           *)
LinkFairSpec == LinkSpec /\ WF_linkVars(Supervise)

-----------------------------------------------------------------------------
(* The entries of a queue that are values of a path, and what the newest of *)
(* them says.                                                              *)
Concerns(item, n, p) == item.node = n /\ item.path = p
Mentions(queue, n, p) == \E i \in 1..Len(queue) : Concerns(queue[i], n, p)
NewestIs(queue, n, p, v) ==
    \A i \in 1..Len(queue) :
        Concerns(queue[i], n, p) /\ (\A j \in i + 1..Len(queue) : ~Concerns(queue[j], n, p))
            => queue[i].value = v

(* The value of a path comes from the queue: the newest waiting update has  *)
(* it, or it has been taken over.                                           *)
Delivered(n, p) ==
    /\ NewestIs(updates, n, p, nodeCache[n][p])
    /\ Mentions(updates, n, p) \/ runtimeKnows[n][p] = nodeCache[n][p]

Announced(queue, n) == \E i \in 1..Len(queue) : queue[i] = FollowItem(n)

(* A value the runtime does not show is on its way in the queue, or the      *)
(* node's snapshot is owed or about to be taken.                            *)
Remembered(n) ==
    \A p \in NodePaths :
        nodeCache[n][p] # 0 =>
            \/ Delivered(n, p)
            \/ n \in seedPending
            \/ Announced(updates, n)
            \/ \E t \in FollowCallers : calling[t] = n

(* "The bridge remembers every node it still owes a snapshot"               *)
(* (_seed_pending in matter/client.py), while the link stands.              *)
DebtRemembered == supervisor = "watching" => \A n \in registered : Remembered(n)

(* The same of every node but one that has lapsed: a call that raised found *)
(* the debt not noted yet, or left it to an older follow that pays it       *)
(* without what is new.  The next snapshot of the node makes good for it.   *)
DebtKept == supervisor = "watching" => \A n \in registered \ lapsed : Remembered(n)

(* After a loss the supervisor brings the link back, however many attempts  *)
(* fail (supervise(): "without a give-up limit").                           *)
Reconnects == matterLink = "lost" ~> matterLink = "up" /\ supervisor = "watching"

(* The variables keep their types - nothing is owed, queued or subscribed   *)
(* without a link - and every debt is kept (BridgeMatterClient).            *)
LinkSafe == LinkTypeOK /\ DebtKept

=============================================================================
