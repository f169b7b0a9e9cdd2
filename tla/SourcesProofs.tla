---------------------------- MODULE SourcesProofs ----------------------------
(***************************************************************************)
(* Proofs about the two device sources.  Matter, for any nodes,            *)
(* paths, callers and bounds: its types, and that every value the runtime  *)
(* does not show is on its way or owed.  The Zigbee stick, for any sticks  *)
(* and bounds: one port, and a link and a join window that are what they   *)
(* are believed to be.  The configuration of a Zigbee device: no debt is   *)
(* forgotten and no refusal left without a poll.  What it reports: shown   *)
(* once it is delivered.  Whether it is there: written off only when two   *)
(* pings have failed.                                                      *)
(***************************************************************************)
EXTENDS MatterLink, ZigbeeRadio, ZigbeeConfigure, ZigbeeDelivery, ZigbeeAvailability,
        SequenceTheorems, FiniteSetTheorems, WellFoundedInduction, TLAPS

----------------------------------------
(* Matter: what the queue of updates holds. *)

Items == [node : MatterNodes, path : NodePaths \cup {NoPath}, value : NodeValues]

LEMMA QueueGrows ==
    ASSUME NEW q \in Seq(Items), NEW item \in Items
    PROVE  /\ Append(q, item) \in Seq(Items)
           /\ \A n \in MatterNodes, p \in NodePaths :
                Mentions(Append(q, item), n, p) <=> Mentions(q, n, p) \/ Concerns(item, n, p)
           /\ \A n \in MatterNodes :
                Announced(Append(q, item), n) <=> Announced(q, n) \/ item = FollowItem(n)
           /\ \A n \in MatterNodes, p \in NodePaths, v \in NodeValues :
                (IF Concerns(item, n, p) THEN item.value = v ELSE NewestIs(q, n, p, v))
                   => NewestIs(Append(q, item), n, p, v)
<1> DEFINE after == Append(q, item)
<1>1. /\ after \in Seq(Items) /\ Len(after) = Len(q) + 1 /\ Len(q) \in Nat
      /\ after[Len(q) + 1] = item /\ \A i \in 1..Len(q) : after[i] = q[i]
  OBVIOUS
<1> HIDE DEF after
<1>2. \A n \in MatterNodes, p \in NodePaths :
        Mentions(after, n, p) <=> Mentions(q, n, p) \/ Concerns(item, n, p)
  <2> SUFFICES ASSUME NEW n \in MatterNodes, NEW p \in NodePaths
               PROVE  Mentions(after, n, p) <=> Mentions(q, n, p) \/ Concerns(item, n, p)
    OBVIOUS
  <2>1. \A i \in 1..Len(after) : i \in 1..Len(q) \/ i = Len(q) + 1 BY <1>1
  <2>2. \A i \in 1..Len(q) : i \in 1..Len(after) BY <1>1
  <2>3. Len(q) + 1 \in 1..Len(after) BY <1>1
  <2> QED BY <1>1, <2>1, <2>2, <2>3 DEF Mentions
<1>3. \A n \in MatterNodes : Announced(after, n) <=> Announced(q, n) \/ item = FollowItem(n)
  <2>1. \A i \in 1..Len(after) : i \in 1..Len(q) \/ i = Len(q) + 1 BY <1>1
  <2>2. \A i \in 1..Len(q) : i \in 1..Len(after) BY <1>1
  <2>3. Len(q) + 1 \in 1..Len(after) BY <1>1
  <2> QED BY <1>1, <2>1, <2>2, <2>3 DEF Announced
<1>4. ASSUME NEW n \in MatterNodes, NEW p \in NodePaths, NEW v \in NodeValues,
             IF Concerns(item, n, p) THEN item.value = v ELSE NewestIs(q, n, p, v),
             NEW i \in 1..Len(after), Concerns(after[i], n, p),
             \A j \in i + 1..Len(after) : ~Concerns(after[j], n, p)
      PROVE  after[i].value = v
  <2>1. CASE i = Len(q) + 1 BY <1>1, <1>4, <2>1
  <2>2. CASE i # Len(q) + 1
    <3>1. i \in 1..Len(q) /\ Len(q) + 1 \in i + 1..Len(after) BY <1>1, <2>2
    <3>2. ~Concerns(item, n, p) BY <1>1, <1>4, <3>1
    <3>3. \A j \in i + 1..Len(q) : j \in i + 1..Len(after) /\ after[j] = q[j] BY <1>1, <3>1
    <3>4. Concerns(q[i], n, p) /\ \A j \in i + 1..Len(q) : ~Concerns(q[j], n, p)
      BY <1>1, <1>4, <3>1, <3>3
    <3>5. q[i].value = v BY <1>4, <3>1, <3>2, <3>4 DEF NewestIs
    <3> QED BY <1>1, <3>1, <3>5
  <2> QED BY <2>1, <2>2
<1>5. \A n \in MatterNodes, p \in NodePaths, v \in NodeValues :
        (IF Concerns(item, n, p) THEN item.value = v ELSE NewestIs(q, n, p, v))
           => NewestIs(after, n, p, v)
  BY <1>4 DEF NewestIs
<1> QED BY <1>1, <1>2, <1>3, <1>5 DEF after

LEMMA QueueShrinks ==
    ASSUME NEW q \in Seq(Items), q # <<>>
    PROVE  /\ Tail(q) \in Seq(Items) /\ Head(q) \in Items
           /\ \A n \in MatterNodes, p \in NodePaths :
                Mentions(q, n, p) <=> Concerns(Head(q), n, p) \/ Mentions(Tail(q), n, p)
           /\ \A n \in MatterNodes :
                Announced(q, n) => Head(q) = FollowItem(n) \/ Announced(Tail(q), n)
           /\ \A n \in MatterNodes, p \in NodePaths, v \in NodeValues :
                NewestIs(q, n, p, v) =>
                   /\ NewestIs(Tail(q), n, p, v)
                   /\ Concerns(Head(q), n, p) => Head(q).value = v \/ Mentions(Tail(q), n, p)
<1> DEFINE rest == Tail(q)
<1>1. /\ rest \in Seq(Items) /\ Len(rest) = Len(q) - 1 /\ Len(q) \in Nat \ {0}
      /\ Head(q) = q[1] /\ q[1] \in Items
      /\ \A i \in 1..Len(rest) : i + 1 \in 1..Len(q) /\ rest[i] = q[i + 1]
  OBVIOUS
<1> HIDE DEF rest
<1>2. \A i \in 1..Len(q) : i = 1 \/ (i - 1 \in 1..Len(rest) /\ rest[i - 1] = q[i]) BY <1>1
<1>3. 1 \in 1..Len(q) BY <1>1
<1>4. \A n \in MatterNodes, p \in NodePaths :
        Mentions(q, n, p) <=> Concerns(Head(q), n, p) \/ Mentions(rest, n, p)
  BY <1>1, <1>2, <1>3 DEF Mentions
<1>5. \A n \in MatterNodes : Announced(q, n) => Head(q) = FollowItem(n) \/ Announced(rest, n)
  BY <1>1, <1>2, <1>3 DEF Announced
<1>6. ASSUME NEW n \in MatterNodes, NEW p \in NodePaths, NEW v \in NodeValues,
             NewestIs(q, n, p, v)
      PROVE  /\ NewestIs(rest, n, p, v)
             /\ Concerns(Head(q), n, p) => Head(q).value = v \/ Mentions(rest, n, p)
  <2>1. ASSUME NEW i \in 1..Len(rest), Concerns(rest[i], n, p),
               \A j \in i + 1..Len(rest) : ~Concerns(rest[j], n, p)
        PROVE  rest[i].value = v
    <3>1. i + 1 \in 1..Len(q) /\ rest[i] = q[i + 1] /\ i \in Nat BY <1>1, <2>1
    <3>2. \A j \in i + 1 + 1..Len(q) : j - 1 \in i + 1..Len(rest) /\ rest[j - 1] = q[j]
      BY <1>1, <1>2, <3>1
    <3>3. \A j \in i + 1 + 1..Len(q) : ~Concerns(q[j], n, p) BY <2>1, <3>2
    <3> QED BY <1>6, <2>1, <3>1, <3>3 DEF NewestIs
  <2>2. ASSUME Concerns(Head(q), n, p), ~Mentions(rest, n, p) PROVE Head(q).value = v
    <3>1. \A j \in 1 + 1..Len(q) : j - 1 \in 1..Len(rest) /\ rest[j - 1] = q[j] BY <1>1, <1>2
    <3>2. \A j \in 1 + 1..Len(q) : ~Concerns(q[j], n, p) BY <2>2, <3>1 DEF Mentions
    <3> QED BY <1>1, <1>3, <1>6, <2>2, <3>2 DEF NewestIs
  <2> QED BY <2>1, <2>2 DEF NewestIs
<1> QED BY <1>1, <1>4, <1>5, <1>6 DEF rest

LEMMA NothingQueued ==
    /\ <<>> \in Seq(Items)
    /\ \A n \in MatterNodes, p \in NodePaths :
         ~Mentions(<<>>, n, p) /\ \A v \in NodeValues : NewestIs(<<>>, n, p, v)
  BY DEF Mentions, NewestIs

----------------------------------------
(* The inductive invariant.  A path the subscription covers is shown once *)
(* its value is queued or taken over; a path it does not cover yet comes *)
(* with an announced node. *)

NodesHavePaths == \A n \in MatterNodes : Present(n) \/ Has(n) = {}
SubscribedExist == subs \subseteq Attributed(nodeCache)
QueueIsNew ==
    \A n \in MatterNodes, p \in NodePaths :
        /\ NewestIs(updates, n, p, nodeCache[n][p])
        /\ Mentions(updates, n, p) => p = OnlinePath \/ <<n, p>> \in subs
NewPathsAnnounced ==
    matterLink # "down" =>
        \A n \in MatterNodes, p \in Attributes :
            nodeCache[n][p] # 0 => <<n, p>> \in subs \/ Announced(updates, n)
WatchesLink == supervisor = "watching" => matterLink # "down"
FollowsKnown == \A t \in Followers : following[t] # NoPath => following[t] \in registered
Reported(n) == {p \in NodePaths : nodeCache[n][p] # 0 /\ (p = OnlinePath \/ <<n, p>> \in subs)}
Shown(n) == \A p \in Reported(n) : Mentions(updates, n, p) \/ runtimeKnows[n][p] = nodeCache[n][p]
DebtsHold ==
    \A n \in registered \ lapsed : Shown(n) \/ n \in seedPending \/ \E t \in FollowCallers : calling[t] = n
FollowedShown == \A t \in Followers : following[t] # NoPath => following[t] \in lapsed \/ Shown(following[t])
LinkInv ==
    /\ LinkTypeOK /\ NodesHavePaths /\ SubscribedExist /\ QueueIsNew
    /\ NewPathsAnnounced /\ WatchesLink /\ FollowsKnown
    /\ supervisor = "watching" => DebtsHold /\ FollowedShown

LEMMA LinkTyped == LinkTypeOK =>
    /\ updates \in Seq(Items)
    /\ \A n \in MatterNodes, p \in NodePaths : nodeCache[n][p] \in NodeValues
  BY DEF LinkTypeOK, Items

LEMMA InitLink == LinkInit => LinkInv
<1> SUFFICES ASSUME LinkInit PROVE LinkInv OBVIOUS
<1> USE DEF LinkInit
<1>1. 0 \in NodeValues /\ 1 \in NodeValues /\ 0 \in 0..MaxLinkFaults
  BY LinkAssumption DEF NodeValues
<1>2. LinkTypeOK
  <2>1. nodeCache \in [MatterNodes -> [NodePaths -> NodeValues]] BY <1>1
  <2>2. subs \subseteq MatterNodes \X Attributes BY DEF Attributed
  <2>3. updates \in Seq(Items) BY NothingQueued
  <2>4. calling \in [FollowCallers -> MatterNodes \cup {NoPath}]
        /\ following \in [Followers -> MatterNodes \cup {NoPath}]
    OBVIOUS
  <2> QED BY <1>1, <2>1, <2>2, <2>3, <2>4 DEF LinkTypeOK, Items
<1>3. \A n \in MatterNodes : \A p \in NodePaths :
        nodeCache[n][p] = IF n \in registered THEN 1 ELSE 0
  OBVIOUS
<1>4. NodesHavePaths /\ SubscribedExist
  BY <1>3 DEF NodesHavePaths, SubscribedExist, Present, Has, NodePaths
<1>5. QueueIsNew /\ NewPathsAnnounced /\ WatchesLink /\ FollowsKnown
  <2>1. QueueIsNew BY <1>2, NothingQueued, LinkTyped DEF QueueIsNew
  <2>2. NewPathsAnnounced BY DEF NewPathsAnnounced, Attributed
  <2> QED BY <2>1, <2>2 DEF WatchesLink, FollowsKnown
<1>6. DebtsHold /\ FollowedShown BY DEF DebtsHold, FollowedShown, Shown, Reported, LinkTypeOK
<1> QED BY <1>2, <1>4, <1>5, <1>6 DEF LinkInv
----------------------------------------
(* What keeps a node shown. *)

LEMMA Unmentioned ==
    ASSUME NEW q, NEW n, NEW p, NEW v, ~Mentions(q, n, p)
    PROVE  NewestIs(q, n, p, v)
  BY DEF Mentions, NewestIs

LEMMA ShownStays ==
    ASSUME NEW n \in MatterNodes, Shown(n),
           \A p \in NodePaths : p \in Reported(n)' =>
              \/ Mentions(updates', n, p)
              \/ /\ p \in Reported(n)
                 /\ nodeCache'[n][p] = nodeCache[n][p] /\ runtimeKnows'[n][p] = runtimeKnows[n][p]
                 /\ Mentions(updates, n, p) => Mentions(updates', n, p)
    PROVE  Shown(n)'
<1> SUFFICES ASSUME NEW p \in NodePaths, p \in Reported(n)'
             PROVE  Mentions(updates', n, p) \/ runtimeKnows'[n][p] = nodeCache'[n][p]
  BY DEF Shown, Reported
<1> QED BY DEF Shown

(* A step that only ends follows, or moves the supervisor away from its watch. *)
LEMMA QuietLink ==
    ASSUME LinkInv, LinkTypeOK',
           UNCHANGED <<nodeCache, registered, subs, seedPending, updates, runtimeKnows, calling>>,
           lapsed \subseteq lapsed', supervisor' = "watching" => supervisor = "watching",
           matterLink' = "down" <=> matterLink = "down",
           \A t \in Followers : following'[t] \in {following[t], NoPath}
    PROVE  LinkInv'
<1>1. NodesHavePaths' /\ SubscribedExist' /\ QueueIsNew'
  BY DEF LinkInv, NodesHavePaths, SubscribedExist, QueueIsNew, Present, Has, Attributed
<1>2. NewPathsAnnounced' /\ WatchesLink' /\ FollowsKnown'
  BY DEF LinkInv, NewPathsAnnounced, WatchesLink, FollowsKnown
<1>3. \A n \in MatterNodes : Shown(n) => Shown(n)' BY DEF Shown, Reported
<1>4. registered \subseteq MatterNodes /\ \A t \in Followers :
        following[t] # NoPath => following[t] \in MatterNodes
  BY DEF LinkInv, LinkTypeOK, FollowsKnown
<1>5. ASSUME supervisor' = "watching" PROVE DebtsHold' /\ FollowedShown'
  <2>1. DebtsHold /\ FollowedShown BY <1>5 DEF LinkInv
  <2>2. DebtsHold' BY <1>3, <1>4, <2>1 DEF DebtsHold
  <2>3. FollowedShown' BY <1>3, <1>4, <2>1 DEF FollowedShown
  <2> QED BY <2>2, <2>3
<1> QED BY <1>1, <1>2, <1>5 DEF LinkInv

----------------------------------------
(* One lemma per kind of step. *)

LEMMA AttributeUpdatedStep ==
    ASSUME LinkInv, NEW n \in MatterNodes, NEW p \in Attributes, AttributeUpdated(n, p)
    PROVE  LinkInv'
<1> DEFINE v == nodeCache[n][p] + 1
           item == ValueItem(n, p, v)
<1>0. p \in NodePaths /\ p # OnlinePath /\ MaxNodeChanges \in Nat BY LinkAssumption DEF NodePaths
<1>1. /\ v \in NodeValues /\ v # 0 /\ nodeCache[n][p] # 0 /\ item \in Items
  BY <1>0 DEF AttributeUpdated, NodeValues, Items, ValueItem
<1>2. /\ nodeCache' \in [MatterNodes -> [NodePaths -> NodeValues]]
      /\ \A m \in MatterNodes : \A q \in NodePaths :
           nodeCache'[m][q] = IF m = n /\ q = p THEN v ELSE nodeCache[m][q]
  BY <1>0, <1>1 DEF AttributeUpdated, LinkInv, LinkTypeOK
<1>3. \A m \in MatterNodes : \A q \in NodePaths : nodeCache'[m][q] # 0 <=> nodeCache[m][q] # 0
  BY <1>1, <1>2
<1>4. updates \in Seq(Items) /\ (\A m \in MatterNodes, q \in NodePaths : nodeCache[m][q] \in NodeValues)
  BY LinkTyped DEF LinkInv
<1>5. \A m \in MatterNodes, q \in NodePaths : Concerns(item, m, q) <=> m = n /\ q = p
  BY DEF Concerns, ValueItem
<1>6. item.value = v BY DEF ValueItem
<1>7. item # FollowItem(n) BY <1>0, LinkAssumption DEF ValueItem, FollowItem
<1> HIDE DEF item, v
<1>8. /\ UNCHANGED <<registered, matterLink, subs, seedPending, runtimeKnows, calling, following,
                     supervisor, lapsed, linkFaults>>
      /\ matterLink = "up"
      /\ updates' = IF <<n, p>> \in subs THEN Append(updates, item) ELSE updates
  BY DEF AttributeUpdated, item, v
<1>9. /\ updates' \in Seq(Items)
      /\ \A m \in MatterNodes, q \in NodePaths : Mentions(updates, m, q) => Mentions(updates', m, q)
      /\ \A m \in MatterNodes, q \in NodePaths :
           Mentions(updates', m, q) =>
              Mentions(updates, m, q) \/ (m = n /\ q = p /\ <<n, p>> \in subs)
      /\ <<n, p>> \in subs => Mentions(updates', n, p)
      /\ \A m \in MatterNodes : Announced(updates, m) => Announced(updates', m)
  BY <1>0, <1>1, <1>4, <1>5, <1>8, QueueGrows
<1>10. LinkTypeOK' BY <1>2, <1>8, <1>9 DEF LinkInv, LinkTypeOK, Items
<1>11. NodesHavePaths' /\ SubscribedExist'
  BY <1>3, <1>8 DEF LinkInv, LinkTypeOK, NodesHavePaths, SubscribedExist, Present, Has, Attributed, NodePaths
<1>12. QueueIsNew'
  <2> SUFFICES ASSUME NEW m \in MatterNodes, NEW q \in NodePaths
               PROVE  /\ NewestIs(updates', m, q, nodeCache'[m][q])
                      /\ Mentions(updates', m, q) => q = OnlinePath \/ <<m, q>> \in subs
    BY <1>8 DEF QueueIsNew
  <2>1. NewestIs(updates, m, q, nodeCache[m][q])
        /\ (Mentions(updates, m, q) => q = OnlinePath \/ <<m, q>> \in subs)
    BY DEF LinkInv, QueueIsNew
  <2>2. nodeCache'[m][q] \in NodeValues BY <1>2
  <2>3. CASE m = n /\ q = p /\ <<n, p>> \in subs
    <3>1. Concerns(item, m, q) /\ item.value = nodeCache'[m][q] BY <1>2, <1>5, <1>6, <2>3
    <3> QED BY <1>1, <1>4, <1>8, <2>2, <2>3, <3>1, QueueGrows
  <2>4. CASE m = n /\ q = p /\ <<n, p>> \notin subs BY <1>0, <1>8, <2>1, <2>4, Unmentioned
  <2>5. CASE ~(m = n /\ q = p)
    <3>1. ~Concerns(item, m, q) /\ nodeCache'[m][q] = nodeCache[m][q] BY <1>2, <1>5, <2>5
    <3> QED BY <1>1, <1>4, <1>8, <2>1, <2>2, <3>1, QueueGrows
  <2> QED BY <2>3, <2>4, <2>5
<1>13. NewPathsAnnounced' BY <1>3, <1>8, <1>9 DEF LinkInv, NewPathsAnnounced, NodePaths
<1>14. WatchesLink' /\ FollowsKnown' BY <1>8 DEF LinkInv, WatchesLink, FollowsKnown
<1>15. \A m \in MatterNodes : Shown(m) => Shown(m)'
  <2> SUFFICES ASSUME NEW m \in MatterNodes, Shown(m) PROVE Shown(m)' OBVIOUS
  <2>1. \A q \in NodePaths : q \in Reported(m)' => q \in Reported(m) BY <1>3, <1>8 DEF Reported
  <2>2. \A q \in NodePaths : q \in Reported(m)' =>
          Mentions(updates', m, q) \/ nodeCache'[m][q] = nodeCache[m][q]
    BY <1>0, <1>2, <1>9, <2>1 DEF Reported
  <2> QED BY <1>8, <1>9, <2>1, <2>2, ShownStays
<1>16. (supervisor' = "watching" => DebtsHold' /\ FollowedShown')
  BY <1>8, <1>15 DEF LinkInv, LinkTypeOK, DebtsHold, FollowedShown, FollowsKnown
<1> QED BY <1>10, <1>11, <1>12, <1>13, <1>14, <1>16 DEF LinkInv
LEMMA NodeUpdatedStep ==
    ASSUME LinkInv, NEW n \in MatterNodes, NEW new \in SUBSET Attributes, NodeUpdated(n, new)
    PROVE  LinkInv'
<1> DEFINE v == IF Present(n) /\ new # {} THEN nodeCache[n][OnlinePath] ELSE nodeCache[n][OnlinePath] + 1
           item == ValueItem(n, OnlinePath, v)
           first == Append(updates, item)
<1>0. /\ OnlinePath \in NodePaths /\ NoPath \notin NodePaths /\ Attributes \subseteq NodePaths
      /\ OnlinePath \notin Attributes /\ MaxNodeChanges \in Nat \ {0}
  BY LinkAssumption DEF NodePaths
<1>1. updates \in Seq(Items) /\ (\A m \in MatterNodes, q \in NodePaths : nodeCache[m][q] \in NodeValues)
  BY LinkTyped DEF LinkInv
<1>2. v \in NodeValues /\ v # 0
  <2>1. v \in NodeValues BY DEF NodeUpdated
  <2>2. nodeCache[n][OnlinePath] \in Nat BY <1>0, <1>1 DEF NodeValues
  <2> QED BY <2>1, <2>2 DEF Present
<1>3. /\ UNCHANGED <<registered, matterLink, subs, seedPending, runtimeKnows, calling, following,
                     supervisor, lapsed, linkFaults>>
      /\ matterLink = "up" /\ new \subseteq Attributes \ Has(n)
      /\ updates' = updates \o <<item, FollowItem(n)>>
      /\ nodeCache' = [nodeCache EXCEPT ![n] = [p \in NodePaths |-> IF p = OnlinePath THEN v
                                                    ELSE IF p \in new THEN 1 ELSE @[p]]]
  BY DEF NodeUpdated
<1>4. item \in Items /\ FollowItem(n) \in Items /\ item.value = v
  BY <1>0, <1>2 DEF Items, ValueItem, FollowItem, NodeValues
<1>5. \A m \in MatterNodes, q \in NodePaths :
        /\ Concerns(item, m, q) <=> m = n /\ q = OnlinePath
        /\ ~Concerns(FollowItem(n), m, q)
  BY <1>0 DEF Concerns, ValueItem, FollowItem
<1> HIDE DEF v, item
<1>6. updates' = Append(first, FollowItem(n)) BY <1>1, <1>3, <1>4
<1>7. /\ first \in Seq(Items)
      /\ \A m \in MatterNodes, q \in NodePaths :
           Mentions(first, m, q) <=> Mentions(updates, m, q) \/ (m = n /\ q = OnlinePath)
      /\ \A m \in MatterNodes : Announced(updates, m) => Announced(first, m)
      /\ \A m \in MatterNodes, q \in NodePaths, w \in NodeValues :
           (IF m = n /\ q = OnlinePath THEN w = v ELSE NewestIs(updates, m, q, w))
              => NewestIs(first, m, q, w)
  BY <1>1, <1>4, <1>5, QueueGrows
<1> HIDE DEF first
<1>8. /\ updates' \in Seq(Items)
      /\ \A m \in MatterNodes, q \in NodePaths :
           Mentions(updates', m, q) <=> Mentions(updates, m, q) \/ (m = n /\ q = OnlinePath)
      /\ \A m \in MatterNodes : Announced(updates, m) \/ m = n => Announced(updates', m)
      /\ \A m \in MatterNodes, q \in NodePaths, w \in NodeValues :
           (IF m = n /\ q = OnlinePath THEN w = v ELSE NewestIs(updates, m, q, w))
              => NewestIs(updates', m, q, w)
  BY <1>4, <1>5, <1>6, <1>7, QueueGrows
<1>9. /\ nodeCache' \in [MatterNodes -> [NodePaths -> NodeValues]]
      /\ \A m \in MatterNodes : \A q \in NodePaths :
           nodeCache'[m][q] = IF m # n THEN nodeCache[m][q] ELSE
                              IF q = OnlinePath THEN v ELSE IF q \in new THEN 1 ELSE nodeCache[n][q]
  <2>1. 1 \in NodeValues BY <1>0 DEF NodeValues
  <2>2. nodeCache \in [MatterNodes -> [NodePaths -> NodeValues]] BY DEF LinkInv, LinkTypeOK
  <2>3. [p \in NodePaths |-> IF p = OnlinePath THEN v ELSE IF p \in new THEN 1 ELSE nodeCache[n][p]]
          \in [NodePaths -> NodeValues]
    BY <1>1, <1>2, <2>1
  <2> QED BY <1>3, <2>2, <2>3
<1>10. LinkTypeOK' BY <1>3, <1>8, <1>9 DEF LinkInv, LinkTypeOK, Items
<1>11. \A m \in MatterNodes : \A q \in NodePaths : nodeCache[m][q] # 0 => nodeCache'[m][q] # 0
  BY <1>2, <1>9
<1>12. NodesHavePaths' /\ SubscribedExist'
  <2>1. \A m \in MatterNodes : m = n => nodeCache'[m][OnlinePath] # 0 BY <1>0, <1>2, <1>9
  <2>2. NodesHavePaths' BY <1>0, <1>9, <2>1 DEF LinkInv, NodesHavePaths, Present, Has
  <2>3. SubscribedExist' BY <1>0, <1>3, <1>11 DEF LinkInv, SubscribedExist, Attributed
  <2> QED BY <2>2, <2>3
<1>13. QueueIsNew'
  <2> SUFFICES ASSUME NEW m \in MatterNodes, NEW q \in NodePaths
               PROVE  /\ NewestIs(updates', m, q, nodeCache'[m][q])
                      /\ Mentions(updates', m, q) => q = OnlinePath \/ <<m, q>> \in subs
    BY <1>3 DEF QueueIsNew
  <2>1. NewestIs(updates, m, q, nodeCache[m][q])
        /\ (Mentions(updates, m, q) => q = OnlinePath \/ <<m, q>> \in subs)
    BY DEF LinkInv, QueueIsNew
  <2>2. nodeCache'[m][q] \in NodeValues BY <1>9
  <2>3. CASE m = n /\ q \in new
    <3>1. ~Mentions(updates, m, q) /\ q # OnlinePath
      BY <1>0, <1>3, <2>1, <2>3 DEF LinkInv, SubscribedExist, Attributed, Has
    <3> QED BY <1>8, <3>1, Unmentioned
  <2>4. CASE ~(m = n /\ q \in new) BY <1>8, <1>9, <2>1, <2>2, <2>4
  <2> QED BY <2>3, <2>4
<1>14. NewPathsAnnounced' BY <1>0, <1>3, <1>8, <1>9 DEF LinkInv, NewPathsAnnounced
<1>15. WatchesLink' /\ FollowsKnown' BY <1>3 DEF LinkInv, WatchesLink, FollowsKnown
<1>16. \A m \in MatterNodes : Shown(m) => Shown(m)'
  <2> SUFFICES ASSUME NEW m \in MatterNodes, Shown(m) PROVE Shown(m)' OBVIOUS
  <2>1. ASSUME NEW q \in NodePaths, q \in Reported(m)'
        PROVE  Mentions(updates', m, q) \/ (q \in Reported(m) /\ nodeCache'[m][q] = nodeCache[m][q])
    <3>1. CASE m = n /\ q = OnlinePath BY <1>8, <3>1
    <3>2. CASE m = n /\ q \in new
      <4>1. <<n, q>> \notin subs /\ q # OnlinePath
        BY <1>0, <1>3, <3>2 DEF LinkInv, SubscribedExist, Attributed, Has
      <4> QED BY <1>3, <2>1, <3>2, <4>1 DEF Reported
    <3>3. CASE ~(m = n /\ (q = OnlinePath \/ q \in new)) BY <1>3, <1>9, <2>1, <3>3 DEF Reported
    <3> QED BY <3>1, <3>2, <3>3
  <2> QED BY <1>3, <1>8, <2>1, ShownStays
<1>17. (supervisor' = "watching" => DebtsHold' /\ FollowedShown')
  BY <1>3, <1>16 DEF LinkInv, LinkTypeOK, DebtsHold, FollowedShown, FollowsKnown
<1> QED BY <1>10, <1>12, <1>13, <1>14, <1>15, <1>17 DEF LinkInv

(* The start of a follow.  The rest of the step takes no value out of the *)
(* queue, and nobody who was about to follow another node gives up. *)
LEMMA FollowNodeKeeps ==
    ASSUME LinkInv,
           NEW t \in Followers, NEW n \in MatterNodes, NEW forced \in BOOLEAN, FollowNode(t, n, forced),
           matterLink # "down", following[t] = NoPath,
           UNCHANGED <<nodeCache, registered, matterLink, supervisor>>,
           updates' \in Seq(Items), calling' \in [FollowCallers -> MatterNodes \cup {NoPath}],
           \A m \in MatterNodes, p \in NodePaths :
              /\ Mentions(updates', m, p) <=> Mentions(updates, m, p)
              /\ NewestIs(updates, m, p, nodeCache[m][p]) => NewestIs(updates', m, p, nodeCache[m][p]),
           \A m \in MatterNodes : m # n /\ Announced(updates, m) => Announced(updates', m),
           \A m \in MatterNodes : m # n \/ ~forced =>
              ((\E u \in FollowCallers : calling[u] = m) => \E u \in FollowCallers : calling'[u] = m),
           forced => n \in registered
    PROVE  LinkInv'
<1>0. /\ NoPath \notin MatterNodes /\ Attributes \subseteq NodePaths /\ OnlinePath \notin Attributes
      /\ OnlinePath \in NodePaths
  BY LinkAssumption DEF NodePaths
<1>1. /\ subs' = subs \cup ({n} \X Has(n)) /\ Has(n) \subseteq Attributes
      /\ subs' \subseteq MatterNodes \X Attributes
  BY DEF FollowNode, Has, LinkInv, LinkTypeOK
<1>2. LinkTypeOK BY DEF LinkInv
<1>3. Learnt(n) \in [MatterNodes -> [NodePaths -> NodeValues]]
      /\ (\A m \in MatterNodes : m # n => Learnt(n)[m] = runtimeKnows[m])
      /\ \A p \in NodePaths : nodeCache[n][p] # 0 => Learnt(n)[n][p] = nodeCache[n][p]
  BY <1>2 DEF LinkTypeOK, Learnt
<1> DEFINE Idles  == ~Wanted(n, forced) /\ UNCHANGED <<seedPending, runtimeKnows, following, lapsed, linkFaults>>
           Owes   == n \notin registered /\ seedPending' = seedPending \cup {n}
                       /\ UNCHANGED <<runtimeKnows, following, lapsed, linkFaults>>
           Starts == n \in registered /\ seedPending' = seedPending \cup {n}
                       /\ runtimeKnows' = Learnt(n) /\ lapsed' = lapsed \ {n}
                       /\ \/ following' = [following EXCEPT ![t] = n] /\ UNCHANGED linkFaults
                          \/ Raises /\ UNCHANGED following
           Breaks == n \in registered /\ seedPending' = seedPending \cup {n} /\ Raises /\ Lapses(t, n, TRUE)
                       /\ UNCHANGED <<runtimeKnows, following>>
           Blinds == Raises /\ Lapses(t, n, n \in seedPending) /\ UNCHANGED <<seedPending, runtimeKnows, following>>
<1>4. Idles \/ Owes \/ Starts \/ Breaks \/ Blinds BY DEF FollowNode, Seed
<1>5. /\ seedPending \subseteq seedPending' /\ seedPending' \subseteq MatterNodes
      /\ runtimeKnows' \in [MatterNodes -> [NodePaths -> NodeValues]]
      /\ \A m \in MatterNodes : m # n => runtimeKnows'[m] = runtimeKnows[m]
      /\ following' \in [Followers -> MatterNodes \cup {NoPath}]
      /\ \A u \in Followers : following'[u] = following[u] \/ (following'[u] = n /\ n \in registered)
  <2>1. CASE Idles \/ Owes \/ Breaks \/ Blinds BY <1>2, <2>1 DEF LinkTypeOK
  <2>2. CASE Starts
    <3>1. following' \in {following, [following EXCEPT ![t] = n]} BY <2>2
    <3> QED BY <1>2, <1>3, <2>2, <3>1 DEF LinkTypeOK
  <2> QED BY <1>4, <2>1, <2>2
<1>6. /\ lapsed' \subseteq MatterNodes /\ linkFaults' \in 0..MaxLinkFaults
      /\ \A m \in MatterNodes : m # n => (m \in lapsed <=> m \in lapsed')
  <2>1. lapsed \subseteq MatterNodes /\ linkFaults \in 0..MaxLinkFaults BY <1>2 DEF LinkTypeOK
  <2>2. lapsed' \subseteq MatterNodes /\ \A m \in MatterNodes : m # n => (m \in lapsed <=> m \in lapsed')
    BY <1>4, <2>1 DEF Lapses
  <2>3. linkFaults' \in 0..MaxLinkFaults
    <3>1. linkFaults' = linkFaults \/ Raises BY <1>4
    <3> QED BY <2>1, <3>1, LinkAssumption DEF Raises
  <2> QED BY <2>2, <2>3
<1> HIDE DEF Idles, Owes, Starts, Breaks, Blinds
<1>7. LinkTypeOK' BY <1>1, <1>2, <1>5, <1>6 DEF LinkTypeOK, Items
<1>8. NodesHavePaths' /\ SubscribedExist' /\ WatchesLink' /\ FollowsKnown'
  <2>1. NodesHavePaths' /\ WatchesLink' BY DEF LinkInv, NodesHavePaths, WatchesLink, Present, Has
  <2>2. SubscribedExist' BY <1>1 DEF LinkInv, SubscribedExist, Attributed, Has
  <2>3. FollowsKnown' BY <1>5 DEF LinkInv, FollowsKnown
  <2> QED BY <2>1, <2>2, <2>3
<1>9. QueueIsNew' BY <1>1 DEF LinkInv, QueueIsNew
<1>10. NewPathsAnnounced'
  <2> SUFFICES ASSUME NEW m \in MatterNodes, NEW p \in Attributes, nodeCache[m][p] # 0
               PROVE  <<m, p>> \in subs' \/ Announced(updates', m)
    BY DEF NewPathsAnnounced
  <2>1. CASE m = n BY <1>1, <2>1 DEF Has
  <2>2. CASE m # n BY <1>1, <2>2 DEF LinkInv, NewPathsAnnounced
  <2> QED BY <2>1, <2>2
<1>11. \A m \in MatterNodes : m # n /\ Shown(m) => Shown(m)'
  <2> SUFFICES ASSUME NEW m \in MatterNodes, m # n, Shown(m) PROVE Shown(m)' OBVIOUS
  <2>1. \A p \in NodePaths : p \in Reported(m)' => p \in Reported(m) BY <1>1 DEF Reported
  <2> QED BY <1>5, <2>1, ShownStays
<1>12. runtimeKnows' = Learnt(n) => Shown(n)' BY <1>3 DEF Shown, Reported
<1>13. registered \subseteq MatterNodes BY <1>2 DEF LinkTypeOK
<1>14. ASSUME supervisor' = "watching" PROVE DebtsHold' /\ FollowedShown'
  <2>1. DebtsHold /\ FollowedShown BY <1>14 DEF LinkInv
  <2>2. CASE Idles
    <3>1. n \notin seedPending /\ subs' = subs /\ ~forced BY <1>1, <2>2 DEF Idles, Wanted
    <3>2. \A m \in MatterNodes : Shown(m) => Shown(m)' BY <2>2, <3>1 DEF Idles, Shown, Reported
    <3>3. DebtsHold' BY <1>13, <2>1, <2>2, <3>1, <3>2 DEF DebtsHold, Idles
    <3>4. FollowedShown' BY <1>2, <2>1, <2>2, <3>2 DEF FollowedShown, Idles, LinkTypeOK
    <3> QED BY <3>3, <3>4
  <2>3. CASE Owes
    <3>1. DebtsHold' BY <1>5, <1>6, <1>11, <1>13, <2>1, <2>3 DEF DebtsHold, Owes
    <3>2. \A u \in Followers : following'[u] = following[u] /\ following[u] # n
      BY <1>0, <2>3 DEF Owes, LinkInv, FollowsKnown
    <3>3. FollowedShown' BY <1>2, <1>6, <1>11, <2>1, <3>2 DEF FollowedShown, LinkTypeOK
    <3> QED BY <3>1, <3>3
  \* What the node is owed afterwards: it has the values, or its note stands
  \* and nobody takes it for another snapshot's, or it has lapsed.
  <2>4. CASE Starts \/ Breaks \/ Blinds
    <3>1. \/ Shown(n)' \/ n \in lapsed'
          \/ n \in seedPending' /\ \A u \in Followers : following'[u] # n
      <4>1. CASE Starts BY <1>12, <4>1 DEF Starts
      <4>2. CASE Breaks \/ Blinds
        <5>1. following' = following /\ following[t] # n /\ n \in seedPending' \cup lapsed'
          BY <1>0, <4>2 DEF Breaks, Blinds, Lapses
        <5>2. n \notin lapsed' => \A u \in Followers \ {t} : following[u] # n
          BY <4>2 DEF Breaks, Blinds, Lapses
        <5> QED BY <5>1, <5>2
      <4> QED BY <2>4, <4>1, <4>2
    <3>2. DebtsHold' BY <1>5, <1>6, <1>11, <1>13, <2>1, <3>1 DEF DebtsHold
    <3>3. FollowedShown' BY <1>5, <1>6, <1>7, <1>11, <2>1, <3>1 DEF FollowedShown, LinkTypeOK
    <3> QED BY <3>2, <3>3
  <2> QED BY <1>4, <2>2, <2>3, <2>4
<1> QED BY <1>7, <1>8, <1>9, <1>10, <1>14 DEF LinkInv
LEMMA DispatchStep == ASSUME LinkInv, Dispatch PROVE LinkInv'
<1> DEFINE item == Head(updates)
<1>0. NoPath \notin NodePaths /\ "dispatch" \in Followers BY LinkAssumption DEF Followers
<1>1. updates \in Seq(Items) /\ updates # <<>> /\ updates' = Tail(updates)
      /\ (\A m \in MatterNodes, q \in NodePaths : nodeCache[m][q] \in NodeValues)
  BY LinkTyped DEF LinkInv, Dispatch
<1>2. item \in Items /\ updates' \in Seq(Items)
      /\ \A m \in MatterNodes, q \in NodePaths :
           /\ Mentions(updates, m, q) <=> Concerns(item, m, q) \/ Mentions(updates', m, q)
           /\ NewestIs(updates, m, q, nodeCache[m][q]) =>
                 /\ NewestIs(updates', m, q, nodeCache[m][q])
                 /\ Concerns(item, m, q) => item.value = nodeCache[m][q] \/ Mentions(updates', m, q)
  BY <1>1, QueueShrinks
<1>3. \A m \in MatterNodes : Announced(updates, m) => item = FollowItem(m) \/ Announced(updates', m)
  BY <1>1, QueueShrinks
<1> HIDE DEF item
<1>4. CASE item.path = NoPath
  <2>1. /\ matterLink # "down" /\ following["dispatch"] = NoPath
        /\ UNCHANGED <<nodeCache, registered, matterLink, calling, supervisor>>
        /\ FollowNode("dispatch", item.node, FALSE)
    BY <1>4 DEF Dispatch, item
  <2>2. item.node \in MatterNodes /\ calling \in [FollowCallers -> MatterNodes \cup {NoPath}]
    BY <1>2 DEF Items, LinkInv, LinkTypeOK
  <2>3. \A m \in MatterNodes, q \in NodePaths : ~Concerns(item, m, q) BY <1>0, <1>4 DEF Concerns
  <2>4. \A m \in MatterNodes : m # item.node /\ Announced(updates, m) => Announced(updates', m)
    BY <1>3 DEF FollowItem
  <2> QED BY <1>0, <1>2, <2>1, <2>2, <2>3, <2>4, FollowNodeKeeps
<1> DEFINE Blind == /\ Raises /\ Lapses("dispatch", item.node, item.node \in seedPending)
                    /\ UNCHANGED <<subs, seedPending, runtimeKnows, following>>
\* Only the end of a follow pays a debt, and none of this node is under way.
<1>5. CASE item.path # NoPath /\ Blind
  <2>1. /\ UNCHANGED <<nodeCache, registered, matterLink, calling, supervisor,
                       subs, seedPending, runtimeKnows, following>>
        /\ matterLink # "down" /\ item.node \in MatterNodes
    BY <1>2, <1>5 DEF Dispatch, Items
  <2>2. /\ lapsed \in SUBSET MatterNodes /\ linkFaults' \in 0..MaxLinkFaults
        /\ lapsed' = lapsed \cup {item.node}
           \/ /\ lapsed' = lapsed \ {item.node} /\ item.node \in seedPending
              /\ following["dispatch"] = NoPath
              /\ \A u \in Followers \ {"dispatch"} : following[u] # item.node
    BY <1>5, LinkAssumption DEF Raises, Lapses, LinkInv, LinkTypeOK, Dispatch
  <2>3. LinkTypeOK' BY <1>2, <2>1, <2>2 DEF LinkInv, LinkTypeOK, Items
  <2>4. NodesHavePaths' /\ SubscribedExist' /\ WatchesLink' /\ FollowsKnown'
    BY <2>1 DEF LinkInv, NodesHavePaths, SubscribedExist, WatchesLink, FollowsKnown, Present, Has,
       Attributed
  <2>5. QueueIsNew' BY <1>2, <2>1 DEF LinkInv, QueueIsNew
  <2>6. NewPathsAnnounced'
    <3>1. \A m \in MatterNodes : item # FollowItem(m) BY <1>5 DEF FollowItem
    <3> QED BY <1>3, <2>1, <3>1 DEF LinkInv, NewPathsAnnounced
  <2>7. \A m \in MatterNodes : m # item.node /\ Shown(m) => Shown(m)'
    <3>1. \A m \in MatterNodes, q \in NodePaths : m # item.node /\ Mentions(updates, m, q) => Mentions(updates', m, q)
      BY <1>2 DEF Concerns
    <3> QED BY <2>1, <3>1 DEF Shown, Reported
  <2>8. NoPath \notin MatterNodes /\ registered \subseteq MatterNodes BY LinkAssumption DEF LinkInv, LinkTypeOK
  <2>9. supervisor' = "watching" => DebtsHold' /\ FollowedShown'
    BY <2>1, <2>2, <2>7, <2>8 DEF LinkInv, DebtsHold, FollowedShown, FollowsKnown, Followers
  <2> QED BY <2>3, <2>4, <2>5, <2>6, <2>9 DEF LinkInv
<1>6. CASE item.path # NoPath /\ ~Blind
  <2>1. /\ UNCHANGED <<nodeCache, registered, matterLink, calling, supervisor,
                       subs, seedPending, following, lapsed, linkFaults>>
        /\ runtimeKnows' = IF item.node \in registered
                           THEN [runtimeKnows EXCEPT ![item.node][item.path] = item.value]
                           ELSE runtimeKnows
        /\ matterLink # "down"
    BY <1>6 DEF Dispatch, item
  <2>2. item.node \in MatterNodes /\ item.path \in NodePaths /\ item.value \in NodeValues
    BY <1>2, <1>6 DEF Items
  <2>3. /\ runtimeKnows' \in [MatterNodes -> [NodePaths -> NodeValues]]
        /\ \A m \in MatterNodes : \A q \in NodePaths :
             runtimeKnows'[m][q] = IF m \in registered /\ Concerns(item, m, q) THEN item.value
                                   ELSE runtimeKnows[m][q]
    BY <2>1, <2>2 DEF LinkInv, LinkTypeOK, Concerns
  <2>4. LinkTypeOK' BY <1>2, <2>1, <2>3 DEF LinkInv, LinkTypeOK, Items
  <2>5. NodesHavePaths' /\ SubscribedExist' /\ WatchesLink' /\ FollowsKnown'
    BY <2>1 DEF LinkInv, NodesHavePaths, SubscribedExist, WatchesLink, FollowsKnown, Present, Has,
       Attributed
  <2>6. QueueIsNew' BY <1>2, <2>1 DEF LinkInv, QueueIsNew
  <2>7. NewPathsAnnounced'
    <3>1. \A m \in MatterNodes : item # FollowItem(m) BY <1>6 DEF FollowItem
    <3> QED BY <1>3, <2>1, <3>1 DEF LinkInv, NewPathsAnnounced
  <2>8. \A m \in registered : Shown(m) => Shown(m)'
    <3> SUFFICES ASSUME NEW m \in registered, Shown(m), NEW q \in NodePaths, q \in Reported(m)
                 PROVE  Mentions(updates', m, q) \/ runtimeKnows'[m][q] = nodeCache[m][q]
      BY <2>1 DEF Shown, Reported
    <3>1. m \in MatterNodes BY DEF LinkInv, LinkTypeOK
    <3>2. NewestIs(updates, m, q, nodeCache[m][q]) BY <3>1 DEF LinkInv, QueueIsNew
    <3>3. Mentions(updates, m, q) \/ runtimeKnows[m][q] = nodeCache[m][q] BY DEF Shown
    <3> QED BY <1>2, <2>3, <3>1, <3>2, <3>3
  <2>9. (supervisor' = "watching" => DebtsHold' /\ FollowedShown')
    BY <2>1, <2>8 DEF LinkInv, DebtsHold, FollowedShown, FollowsKnown
  <2> QED BY <2>4, <2>5, <2>6, <2>7, <2>9 DEF LinkInv
<1> QED BY <1>4, <1>5, <1>6

LEMMA RegisterStep ==
    ASSUME LinkInv, NEW t \in FollowCallers, NEW n \in MatterNodes, Register(t, n)
    PROVE  LinkInv'
<1>0. NoPath \notin MatterNodes /\ OnlinePath \in NodePaths BY LinkAssumption DEF NodePaths
<1>1. /\ calling[t] = NoPath /\ n \notin registered /\ registered' = registered \cup {n}
      /\ runtimeKnows' = [runtimeKnows EXCEPT ![n][OnlinePath] = nodeCache[n][OnlinePath]]
      /\ calling' = [calling EXCEPT ![t] = n]
      /\ UNCHANGED <<nodeCache, matterLink, subs, seedPending, updates, following, supervisor,
                     lapsed, linkFaults>>
  BY DEF Register
<1>2. /\ runtimeKnows' \in [MatterNodes -> [NodePaths -> NodeValues]]
      /\ \A m \in MatterNodes : m # n => runtimeKnows'[m] = runtimeKnows[m]
  BY <1>0, <1>1 DEF LinkInv, LinkTypeOK
<1>3. LinkTypeOK' BY <1>1, <1>2 DEF LinkInv, LinkTypeOK
<1>4. NodesHavePaths' /\ SubscribedExist' /\ QueueIsNew'
  BY <1>1 DEF LinkInv, NodesHavePaths, SubscribedExist, QueueIsNew, Present, Has, Attributed
<1>5. NewPathsAnnounced' /\ WatchesLink' /\ FollowsKnown'
  BY <1>1 DEF LinkInv, NewPathsAnnounced, WatchesLink, FollowsKnown
<1>6. \A m \in MatterNodes : m # n /\ Shown(m) => Shown(m)' BY <1>1, <1>2 DEF Shown, Reported
<1>7. /\ calling'[t] = n
      /\ \A m \in MatterNodes : (\E u \in FollowCallers : calling[u] = m) =>
                                   \E u \in FollowCallers : calling'[u] = m
  BY <1>0, <1>1 DEF LinkInv, LinkTypeOK
<1>8. registered \subseteq MatterNodes BY DEF LinkInv, LinkTypeOK
<1>9. ASSUME supervisor' = "watching" PROVE DebtsHold' /\ FollowedShown'
  <2>1. DebtsHold /\ FollowedShown BY <1>1, <1>9 DEF LinkInv
  <2>2. DebtsHold' BY <1>1, <1>6, <1>7, <1>8, <2>1 DEF DebtsHold
  <2>3. FollowedShown' BY <1>1, <1>6, <1>8, <2>1 DEF FollowedShown, LinkInv, FollowsKnown
  <2> QED BY <2>2, <2>3
<1> QED BY <1>3, <1>4, <1>5, <1>9 DEF LinkInv

LEMMA FollowStep ==
    ASSUME LinkInv, NEW t \in FollowCallers, NEW n \in MatterNodes, Follow(t, n)
    PROVE  LinkInv'
<1>0. NoPath \notin MatterNodes /\ t \in Followers BY LinkAssumption DEF Followers
<1>1. /\ following[t] = NoPath /\ n \in registered /\ calling[t] \in {NoPath, n}
      /\ calling' = [calling EXCEPT ![t] = NoPath]
      /\ UNCHANGED <<nodeCache, registered, matterLink, updates, supervisor>>
  BY DEF Follow
<1>2. /\ calling' \in [FollowCallers -> MatterNodes \cup {NoPath}]
      /\ \A m \in MatterNodes : m # n =>
           ((\E u \in FollowCallers : calling[u] = m) => \E u \in FollowCallers : calling'[u] = m)
  BY <1>0, <1>1 DEF LinkInv, LinkTypeOK
<1>3. CASE matterLink # "down" /\ Present(n)
  <2>1. FollowNode(t, n, TRUE) BY <1>3 DEF Follow
  <2>2. updates \in Seq(Items) BY LinkTyped DEF LinkInv
  <2> QED BY <1>0, <1>1, <1>2, <1>3, <2>1, <2>2, FollowNodeKeeps
<1>4. CASE ~(matterLink # "down" /\ Present(n))
  <2>1. UNCHANGED <<subs, seedPending, runtimeKnows, following, lapsed, linkFaults>>
    BY <1>4 DEF Follow
  <2>2. LinkTypeOK' BY <1>1, <1>2, <2>1 DEF LinkInv, LinkTypeOK
  <2>3. NodesHavePaths' /\ SubscribedExist' /\ QueueIsNew'
    BY <1>1, <2>1 DEF LinkInv, NodesHavePaths, SubscribedExist, QueueIsNew, Present, Has, Attributed
  <2>4. NewPathsAnnounced' /\ WatchesLink' /\ FollowsKnown'
    BY <1>1, <2>1 DEF LinkInv, NewPathsAnnounced, WatchesLink, FollowsKnown
  <2>5. \A m \in MatterNodes : Shown(m) => Shown(m)' BY <1>1, <2>1 DEF Shown, Reported
  <2>6. ASSUME supervisor' = "watching" PROVE DebtsHold' /\ FollowedShown'
    <3>1. DebtsHold /\ FollowedShown /\ matterLink # "down" /\ registered \subseteq MatterNodes
      BY <1>1, <2>1, <2>6 DEF LinkInv, WatchesLink, LinkTypeOK
    <3>2. Shown(n)' BY <1>1, <1>4, <2>1, <3>1
         DEF LinkInv, NodesHavePaths, Shown, Reported, Present, Has, NodePaths
    <3>3. DebtsHold' BY <1>1, <1>2, <2>1, <2>5, <3>1, <3>2 DEF DebtsHold
    <3>4. FollowedShown' BY <2>1, <2>5, <3>1 DEF FollowedShown, LinkInv, FollowsKnown
    <3> QED BY <3>3, <3>4
  <2> QED BY <2>2, <2>3, <2>4, <2>6 DEF LinkInv
<1> QED BY <1>3, <1>4

LEMMA FollowedStep ==
    ASSUME LinkInv, NEW t \in Followers, Followed(t)
    PROVE  LinkInv'
<1> DEFINE n == following[t]
<1>1. /\ n # NoPath /\ n \in registered /\ seedPending' = seedPending \ {n}
      /\ following' = [following EXCEPT ![t] = NoPath]
      /\ UNCHANGED <<nodeCache, registered, matterLink, subs, updates, runtimeKnows, calling,
                     supervisor, lapsed, linkFaults>>
  BY DEF Followed, LinkInv, FollowsKnown
<1>2. /\ following' \in [Followers -> MatterNodes \cup {NoPath}]
      /\ \A u \in Followers : following'[u] \in {following[u], NoPath}
  BY <1>1 DEF LinkInv, LinkTypeOK
<1>3. LinkTypeOK' BY <1>1, <1>2 DEF LinkInv, LinkTypeOK
<1>4. NodesHavePaths' /\ SubscribedExist' /\ QueueIsNew'
  BY <1>1 DEF LinkInv, NodesHavePaths, SubscribedExist, QueueIsNew, Present, Has, Attributed
<1>5. NewPathsAnnounced' /\ WatchesLink' /\ FollowsKnown'
  BY <1>1, <1>2 DEF LinkInv, NewPathsAnnounced, WatchesLink, FollowsKnown
<1>6. \A m \in MatterNodes : Shown(m) => Shown(m)' BY <1>1 DEF Shown, Reported
<1>7. ASSUME supervisor' = "watching" PROVE DebtsHold' /\ FollowedShown'
  <2>1. DebtsHold /\ FollowedShown /\ registered \subseteq MatterNodes
    BY <1>1, <1>7 DEF LinkInv, LinkTypeOK
  <2>2. n \in lapsed \/ Shown(n) BY <1>1, <2>1 DEF FollowedShown
  <2>3. DebtsHold' BY <1>1, <1>6, <2>1, <2>2 DEF DebtsHold
  <2>4. FollowedShown' BY <1>1, <1>2, <1>6, <2>1 DEF FollowedShown, LinkInv, FollowsKnown
  <2> QED BY <2>3, <2>4
<1> QED BY <1>3, <1>4, <1>5, <1>7 DEF LinkInv

LEMMA FollowRaisesStep ==
    ASSUME LinkInv, NEW t \in Followers, FollowRaises(t)
    PROVE  LinkInv'
<1>1. /\ following' = [following EXCEPT ![t] = NoPath] /\ Raises
      /\ UNCHANGED <<nodeCache, registered, matterLink, subs, seedPending, updates, runtimeKnows,
                     calling, supervisor, lapsed>>
  BY DEF FollowRaises
<1>2. \A u \in Followers : following'[u] \in {following[u], NoPath}
  BY <1>1 DEF LinkInv, LinkTypeOK
<1>3. linkFaults \in 0..MaxLinkFaults BY DEF LinkInv, LinkTypeOK
<1>5. linkFaults' \in 0..MaxLinkFaults BY <1>1, <1>3, LinkAssumption DEF Raises
<1>6. LinkTypeOK' BY <1>1, <1>5 DEF LinkInv, LinkTypeOK
<1> QED BY <1>1, <1>2, <1>6, QuietLink

LEMMA SupervisorStep ==
    ASSUME LinkInv, LinkLost \/ Noticed \/ ConnectFails \/ Awake
    PROVE  LinkInv'
<1>1. /\ UNCHANGED <<nodeCache, registered, subs, seedPending, updates, runtimeKnows, calling,
                     following, lapsed>>
      /\ supervisor' \in {"watching", "rebuilding", "asleep"}
      /\ supervisor' = "watching" => supervisor = "watching"
      /\ matterLink' \in {"up", "lost", "down"}
      /\ matterLink' = "down" <=> matterLink = "down"
  BY DEF LinkLost, Noticed, ConnectFails, Awake, LinkInv, LinkTypeOK
<1>2. linkFaults' \in 0..MaxLinkFaults
  BY LinkAssumption DEF LinkLost, Noticed, ConnectFails, Awake, LinkInv, LinkTypeOK
<1>3. LinkTypeOK' BY <1>1, <1>2 DEF LinkInv, LinkTypeOK
<1> QED BY <1>1, <1>3, QuietLink

LEMMA DisconnectsStep == ASSUME LinkInv, Disconnects PROVE LinkInv'
<1>0. "dispatch" \in Followers BY DEF Followers
<1>1. /\ supervisor = "rebuilding" /\ matterLink' = "down"
      /\ subs' = {} /\ seedPending' = {} /\ updates' = <<>>
      /\ following' = [following EXCEPT !["dispatch"] = NoPath]
      /\ UNCHANGED <<nodeCache, registered, runtimeKnows, calling, supervisor, lapsed, linkFaults>>
  BY DEF Disconnects
<1>2. /\ following' \in [Followers -> MatterNodes \cup {NoPath}] /\ following'["dispatch"] = NoPath
      /\ \A u \in Followers : following'[u] \in {following[u], NoPath}
  BY <1>0, <1>1 DEF LinkInv, LinkTypeOK
<1>3. LinkTypeOK' BY <1>1, <1>2, NothingQueued DEF LinkInv, LinkTypeOK, Items
<1>4. QueueIsNew' BY <1>1, NothingQueued, LinkTyped DEF LinkInv, QueueIsNew
<1>5. NodesHavePaths' /\ SubscribedExist' /\ NewPathsAnnounced' /\ WatchesLink' /\ FollowsKnown'
  BY <1>1, <1>2 DEF LinkInv, NodesHavePaths, SubscribedExist, NewPathsAnnounced, WatchesLink,
     FollowsKnown, Present, Has
<1> QED BY <1>1, <1>3, <1>4, <1>5 DEF LinkInv

(* Both kinds of attach: what is new is seeded into the runtime, for all *)
(* nodes or for those before the store raised. *)
LEMMA AttachStep == ASSUME LinkInv, Attach \/ AttachFails PROVE LinkInv'
<1>0. OnlinePath \in NodePaths /\ Attributes \subseteq NodePaths BY DEF NodePaths
<1>1. /\ matterLink = "down" /\ nodeCache' \in Later /\ matterLink' = "up"
      /\ subs' = Attributed(nodeCache')
      /\ UNCHANGED <<registered, seedPending, updates, calling, following>> /\ lapsed' \in {lapsed, {}}
      /\ supervisor' \in {"watching", "asleep"}
      /\ supervisor' = "watching" => runtimeKnows' = SeededFrom(nodeCache', MatterNodes)
  BY DEF Attach, AttachFails
<1>2. updates = <<>> /\ seedPending = {} /\ registered \subseteq MatterNodes
  BY <1>1 DEF LinkInv, LinkTypeOK
<1>3. /\ nodeCache' \in [MatterNodes -> [NodePaths -> NodeValues]]
      /\ \A n \in MatterNodes :
           nodeCache'[n][OnlinePath] = 0 => \A p \in Attributes : nodeCache'[n][p] = 0
  BY <1>1 DEF Later
<1>4. runtimeKnows' \in [MatterNodes -> [NodePaths -> NodeValues]]
  <2>1. \A nodes \in SUBSET MatterNodes :
          SeededFrom(nodeCache', nodes) \in [MatterNodes -> [NodePaths -> NodeValues]]
    BY <1>3 DEF SeededFrom, LinkInv, LinkTypeOK
  <2> QED BY <2>1 DEF Attach, AttachFails
<1>5. linkFaults' \in 0..MaxLinkFaults
  BY LinkAssumption DEF Attach, AttachFails, LinkInv, LinkTypeOK
<1>6. subs' \subseteq MatterNodes \X Attributes BY <1>1 DEF Attributed
<1>7. LinkTypeOK' BY <1>1, <1>3, <1>4, <1>5, <1>6 DEF LinkInv, LinkTypeOK
<1>8. NodesHavePaths' /\ SubscribedExist'
  BY <1>1, <1>3 DEF NodesHavePaths, SubscribedExist, Present, Has
<1>9. QueueIsNew' BY <1>1, <1>2, <1>3, NothingQueued DEF QueueIsNew
<1>10. NewPathsAnnounced' BY <1>1 DEF NewPathsAnnounced, Attributed
<1>11. WatchesLink' /\ FollowsKnown' BY <1>1 DEF LinkInv, WatchesLink, FollowsKnown
<1>12. ASSUME supervisor' = "watching" PROVE DebtsHold' /\ FollowedShown'
  <2>1. \A n \in registered : \A p \in NodePaths :
          nodeCache'[n][p] # 0 => runtimeKnows'[n][p] = nodeCache'[n][p]
    BY <1>1, <1>2, <1>12 DEF SeededFrom
  <2>2. \A n \in registered : Shown(n)' BY <2>1 DEF Shown, Reported
  <2> QED BY <1>1, <2>2 DEF LinkInv, FollowsKnown, DebtsHold, FollowedShown
<1> QED BY <1>7, <1>8, <1>9, <1>10, <1>11, <1>12 DEF LinkInv

LEMMA NextKeepsLink == LinkInv /\ [LinkNext]_linkVars => LinkInv'
<1> SUFFICES ASSUME LinkInv, [LinkNext]_linkVars PROVE LinkInv' OBVIOUS
<1>1. ASSUME NEW n \in MatterNodes, NEW p \in Attributes, AttributeUpdated(n, p) PROVE LinkInv'
  BY <1>1, AttributeUpdatedStep
<1>2. ASSUME NEW n \in MatterNodes, NEW new \in SUBSET Attributes, NodeUpdated(n, new) PROVE LinkInv'
  BY <1>2, NodeUpdatedStep
<1>3. CASE Dispatch BY <1>3, DispatchStep
<1>4. ASSUME NEW t \in FollowCallers, NEW n \in MatterNodes, Register(t, n) PROVE LinkInv'
  BY <1>4, RegisterStep
<1>5. ASSUME NEW t \in FollowCallers, NEW n \in MatterNodes, Follow(t, n) PROVE LinkInv'
  BY <1>5, FollowStep
<1>6. ASSUME NEW t \in Followers, Followed(t) PROVE LinkInv' BY <1>6, FollowedStep
<1>7. ASSUME NEW t \in Followers, FollowRaises(t) PROVE LinkInv' BY <1>7, FollowRaisesStep
<1>8. CASE LinkLost \/ Supervise
  BY <1>8, SupervisorStep, DisconnectsStep, AttachStep DEF Supervise
<1>9. CASE UNCHANGED linkVars
  <2>1. LinkTypeOK' BY <1>9 DEF linkVars, LinkInv, LinkTypeOK
  <2> QED BY <1>9, <2>1, QuietLink DEF linkVars
<1> QED BY <1>1, <1>2, <1>3, <1>4, <1>5, <1>6, <1>7, <1>8, <1>9 DEF LinkNext

(* What the parts of the invariant say together of a registered node. *)
LEMMA InvKeepsDebts == LinkInv => LinkSafe
<1> SUFFICES ASSUME LinkInv, supervisor = "watching",
                    NEW n \in registered \ lapsed, NEW p \in NodePaths, nodeCache[n][p] # 0
             PROVE  \/ Delivered(n, p) \/ n \in seedPending \/ Announced(updates, n)
                    \/ \E t \in FollowCallers : calling[t] = n
  BY DEF LinkInv, LinkSafe, DebtKept, Remembered
<1>1. n \in MatterNodes /\ matterLink # "down" BY DEF LinkInv, LinkTypeOK, WatchesLink
<1>2. CASE p \in Reported(n)
  <2>1. Shown(n) => Delivered(n, p) BY <1>1, <1>2 DEF LinkInv, QueueIsNew, Shown, Delivered
  <2> QED BY <2>1 DEF LinkInv, DebtsHold
<1>3. CASE p \notin Reported(n) BY <1>1, <1>3 DEF Reported, NodePaths, LinkInv, NewPathsAnnounced
<1> QED BY <1>2, <1>3

----------------------------------------
(* Nothing is owed, queued or subscribed without a link, and a value the *)
(* runtime does not show is on its way or owed, whatever raises: only a *)
(* node that has lapsed waits for its next snapshot *)
(* (BridgeMatterClient._follow_node, _dispatch_loop). *)
THEOREM DebtsAreKept == LinkSpec => []LinkSafe
<1>1. LinkInv /\ [LinkNext]_linkVars => LinkInv' BY NextKeepsLink
<1> QED BY InitLink, <1>1, InvKeepsDebts, PTL DEF LinkSpec

----------------------------------------
(* The Zigbee stick (ZigbeeRadio): the parts of the invariant, lemmas about *)
(* the requests for a join window, and each part step by step. *)

\* The types, one set for each variable.
Swaps   == [pc : {"free", "stopping", "releasing", "building"}, app : Nat]
Sources == [number : 0..(MaxApplies + 1), stick : Sticks \cup {NoStick}]
Keepers == [pc : {"none", "looking", "parked", "connecting", "preparing", "building",
                  "starting", "shutting", "failing", "attaching", "backoff"},
            app : Nat, cancelled : BOOLEAN]
Links   == [app : Nat, connected : BOOLEAN, lost : BOOLEAN, window : 0..MaxPermits]
Airs    == [open : SUBSET Nat, dead : SUBSET Nat, stuck : SUBSET Nat, window : 0..Unsure,
            late : SUBSET Nat, left : SUBSET (1..MaxPermits)]
Spents  == [applies : 0..MaxApplies, failures : Nat, losses : Nat,
            permits : 0..MaxPermits, built : Nat]

RadioTyped ==
  /\ setting \in Sticks \cup {NoStick} /\ applies \in Seq(Sticks \cup {NoStick})
  /\ swap \in Swaps /\ source \in Sources /\ keeper \in Keepers /\ link \in Links
  /\ air \in Airs /\ permits \in Seq(Requests) /\ restoring \in 0..(MaxApplies + 1)
  /\ spent \in Spents /\ Len(applies) <= spent.applies + 1

\* Ports open in the order the applications are built, and whoever may close
\* one that is open, or has left it to somebody who will, is one of three.
PortsHeld ==
  /\ air.open \subseteq 1..spent.built
  /\ air.open \ air.stuck \subseteq {link.app, keeper.app, swap.app}
  /\ keeper.app # 0 => link.app = 0
  /\ keeper.pc \notin {"starting", "shutting", "failing"} => keeper.app = 0
  /\ keeper.pc \in {"preparing", "building", "starting", "shutting", "failing"} => link.app = 0
  /\ swap.pc # "releasing" => swap.app = 0
  /\ keeper.pc = "starting" => keeper.app \in air.open
  /\ swap.pc \in {"releasing", "building"} => link.app = 0 /\ keeper.pc = "none"

\* The changes end with the one to the stored setting, and a source is
\* registered and supervised unless it is being exchanged.
SwapKnown ==
  /\ swap.pc # "free" => applies # <<>>
  /\ swap.pc \in {"releasing", "building"} => source = NoSource
  /\ IF applies = <<>> THEN source.stick = setting ELSE applies[Len(applies)] = setting
  /\ keeper.cancelled => swap.pc = "stopping" /\ keeper.pc # "none"
  /\ swap.pc = "free" => IF source.stick = NoStick THEN keeper.pc = "none" /\ link.app = 0
                                                   ELSE keeper.pc # "none"

RadioInv == RadioTyped /\ PortsHeld /\ SwapKnown

\* The request has been put to the radio.
Asked(i) == permits[i].pc # "queued"

\* A link that is held is held by an open port whose far end lives, unless it
\* died late; a supervisor that waits has a link or news of its loss.
LinkKnown ==
  /\ link.connected => /\ link.app \in air.open /\ link.app # 0 /\ ~link.lost
                       /\ link.app \notin air.dead \ air.late
  /\ keeper.pc = "parked" => link.connected \/ link.lost
  /\ link.window # 0 => LeftOver \/ link.connected

\* A request that was put to the radio names the application it was put to,
\* which its source holds or has held, and it alone has the lock of the source.
PermitsKnown ==
  /\ link.app <= spent.built
  /\ \A i \in 1..Len(permits) :
       /\ permits[i].app <= spent.built
       /\ Asked(i) => permits[i].app # 0 /\ HasPermitLock(i)
       /\ ~Asked(i) => permits[i].app = 0
       /\ keeper.pc = "starting" => permits[i].app # keeper.app
       /\ link.app # 0 /\ permits[i].app = link.app => permits[i].source = source.number

\* The radio has answered, and the application it answered is still in use.
Answered(i) == permits[i].pc = "answered" /\ permits[i].app = link.app

\* What the source believes of the window: the coordinator has it, or nobody
\* can tell, or it is one left over; only such a one is shown over a dead link.
Believed == air.window \in {link.window, Unsure} \/ (LeftOver /\ air.window = 0)
Shows == link.window # 0 => LeftOver \/ link.app \notin air.dead

\* What an answer on its way will tell it.  A link that died late gives none.
SaysSo(p) == air.window \in {WindowOf(p), Unsure} /\ link.app \notin air.dead

\* While the link stands, the source believes what is so, or is about to be told.
WindowsKnown ==
  link.connected => /\ (\A i \in 1..Len(permits) : ~Answered(i)) => Believed
                    /\ Shows /\ \A i \in 1..Len(permits) : Answered(i) => SaysSo(permits[i])

\* The constants are numbers, and no stick is the empty setting.
LEMMA RadioBounds ==
  /\ MaxApplies \in Nat /\ MaxPermits \in Nat /\ Unsure \in Nat /\ NoStick \notin Sticks
  /\ 0 \in 0..MaxPermits /\ 0 \in 0..Unsure /\ Unsure \in 0..Unsure /\ 0 \in 0..(MaxApplies + 1)
  /\ \A n \in 0..MaxPermits : n \in 0..Unsure
<1>1. MaxApplies \in Nat /\ MaxPermits \in Nat /\ NoStick \notin Sticks BY RadioAssumption
<1> QED BY <1>1 DEF Unsure

\* No source, no stick.
LEMMA NoSourceStick == NoSource.stick = NoStick
  BY DEF NoSource

\* Spending within the bounds keeps what is spent of its type.
LEMMA SpentGrows ==
  ASSUME NEW s \in Spents
  PROVE  /\ [s EXCEPT !.failures = @ + 1] \in Spents
         /\ [s EXCEPT !.losses = @ + 1] \in Spents
         /\ s.applies < MaxApplies => [s EXCEPT !.applies = @ + 1] \in Spents
         /\ s.permits < MaxPermits => [s EXCEPT !.permits = @ + 1] \in Spents
         /\ [s EXCEPT !.built = s.built + 1] \in Spents
         /\ [[s EXCEPT !.failures = @ + 1] EXCEPT !.built = s.built + 1] \in Spents
         /\ s.built \in Nat /\ s.built + 1 \in Nat
<1>1. MaxApplies \in Nat /\ MaxPermits \in Nat BY RadioBounds
<1>2. [s EXCEPT !.failures = @ + 1] \in Spents /\ [s EXCEPT !.losses = @ + 1] \in Spents
  BY DEF Spents
<1>3. s.applies < MaxApplies => [s EXCEPT !.applies = @ + 1] \in Spents BY <1>1 DEF Spents
<1>4. s.permits < MaxPermits => [s EXCEPT !.permits = @ + 1] \in Spents BY <1>1 DEF Spents
<1>5. s.built \in Nat /\ s.built + 1 \in Nat BY DEF Spents
<1>6. \A t \in Spents : [t EXCEPT !.built = s.built + 1] \in Spents BY <1>5 DEF Spents
<1> QED BY <1>2, <1>3, <1>4, <1>5, <1>6

\* Where the requests are after one of them has left.
LEMMA PermitLeaves ==
  ASSUME permits \in Seq(Requests), NEW i \in 1..Len(permits)
  PROVE  /\ WithoutPermit(i) \in Seq(Requests) /\ Len(WithoutPermit(i)) = Len(permits) - 1
         /\ \A j \in 1..Len(WithoutPermit(i)) :
              WithoutPermit(i)[j] = permits[IF j < i THEN j ELSE j + 1]
<1> DEFINE a == SubSeq(permits, 1, i - 1)
           b == SubSeq(permits, i + 1, Len(permits))
<1>0. Len(permits) \in Nat /\ i \in Nat /\ 1 <= i /\ i <= Len(permits) OBVIOUS
<1>1. a \in Seq(Requests) /\ Len(a) = i - 1 /\ \A j \in 1..(i - 1) : a[j] = permits[j] BY <1>0
<1>2. b \in Seq(Requests) /\ Len(b) = Len(permits) - i
        /\ \A j \in 1..(Len(permits) - i) : b[j] = permits[i + j]
  BY <1>0
<1>3. WithoutPermit(i) = a \o b BY DEF WithoutPermit
<1> HIDE DEF a, b
<1>4. a \o b \in Seq(Requests) /\ Len(a \o b) = Len(permits) - 1
  <2>1. a \o b \in Seq(Requests) /\ Len(a \o b) = Len(a) + Len(b) BY <1>1, <1>2, ConcatProperties
  <2>2. Len(a) + Len(b) = Len(permits) - 1 BY <1>0, <1>1, <1>2
  <2> QED BY <2>1, <2>2
<1>5. ASSUME NEW j \in 1..(Len(permits) - 1)
      PROVE  (a \o b)[j] = permits[IF j < i THEN j ELSE j + 1]
  <2>1. CASE j < i BY <1>0, <1>1, <1>2, <2>1, ConcatProperties
  <2>2. CASE ~(j < i)
    <3>1. (a \o b)[j] = b[j - Len(a)] /\ j - Len(a) \in 1..(Len(permits) - i)
      BY <1>0, <1>1, <1>2, <2>2, ConcatProperties
    <3>2. i + (j - (i - 1)) = j + 1 BY <1>0
    <3> QED BY <1>0, <1>1, <1>2, <2>2, <3>1, <3>2
  <2> QED BY <2>1, <2>2
<1> QED BY <1>0, <1>3, <1>4, <1>5

\* The requests, one of them marked and its application noted.
Changed(after, i, pc, app) ==
  /\ Len(after) = Len(permits)
  /\ \A j \in 1..Len(permits) : j # i => after[j] = permits[j]
  /\ after[i].pc = pc /\ after[i].app = app /\ after[i].kind = permits[i].kind
  /\ after[i].source = permits[i].source /\ after[i].window = permits[i].window

\* Marking a request changes that one, and to a request.
LEMMA PermitChanges ==
  ASSUME permits \in Seq(Requests), NEW i \in 1..Len(permits),
         NEW x \in {"asked", "answered"}, NEW a \in Nat
  PROVE  /\ permits[i] \in Requests /\ WindowOf(permits[i]) \in 0..MaxPermits
         /\ [permits EXCEPT ![i].pc = x] \in Seq(Requests)
         /\ [permits EXCEPT ![i].pc = x, ![i].app = a] \in Seq(Requests)
         /\ Changed([permits EXCEPT ![i].pc = x], i, x, permits[i].app)
         /\ Changed([permits EXCEPT ![i].pc = x, ![i].app = a], i, x, a)
<1>1. permits[i] \in Requests OBVIOUS
<1>2. WindowOf(permits[i]) \in 0..MaxPermits BY <1>1, RadioBounds DEF WindowOf, Requests
<1>3. [permits[i] EXCEPT !.pc = x] \in Requests BY <1>1 DEF Requests
<1>4. [permits[i] EXCEPT !.pc = x, !.app = a] \in Requests BY <1>1 DEF Requests
<1>5. \A r \in Requests : [permits EXCEPT ![i] = r] \in Seq(Requests) OBVIOUS
<1>6. /\ [permits EXCEPT ![i].pc = x] = [permits EXCEPT ![i] = [permits[i] EXCEPT !.pc = x]]
      /\ [permits EXCEPT ![i].pc = x, ![i].app = a]
           = [permits EXCEPT ![i] = [permits[i] EXCEPT !.pc = x, !.app = a]]
  OBVIOUS
<1>7. Changed([permits EXCEPT ![i].pc = x], i, x, permits[i].app)
  <2>1. /\ [permits[i] EXCEPT !.pc = x].pc = x
        /\ [permits[i] EXCEPT !.pc = x].app = permits[i].app
        /\ [permits[i] EXCEPT !.pc = x].kind = permits[i].kind
        /\ [permits[i] EXCEPT !.pc = x].source = permits[i].source
        /\ [permits[i] EXCEPT !.pc = x].window = permits[i].window
    BY <1>1 DEF Requests
  <2> DEFINE r == [permits[i] EXCEPT !.pc = x]
  <2> HIDE DEF r
  <2>2. /\ Len([permits EXCEPT ![i] = r]) = Len(permits) /\ [permits EXCEPT ![i] = r][i] = r
        /\ \A j \in 1..Len(permits) : j # i => [permits EXCEPT ![i] = r][j] = permits[j]
    OBVIOUS
  <2> QED BY <1>6, <2>1, <2>2 DEF Changed, r
<1>8. Changed([permits EXCEPT ![i].pc = x, ![i].app = a], i, x, a)
  <2>1. /\ [permits[i] EXCEPT !.pc = x, !.app = a].pc = x
        /\ [permits[i] EXCEPT !.pc = x, !.app = a].app = a
        /\ [permits[i] EXCEPT !.pc = x, !.app = a].kind = permits[i].kind
        /\ [permits[i] EXCEPT !.pc = x, !.app = a].source = permits[i].source
        /\ [permits[i] EXCEPT !.pc = x, !.app = a].window = permits[i].window
    BY <1>1 DEF Requests
  <2> DEFINE r == [permits[i] EXCEPT !.pc = x, !.app = a]
  <2> HIDE DEF r
  <2>2. /\ Len([permits EXCEPT ![i] = r]) = Len(permits) /\ [permits EXCEPT ![i] = r][i] = r
        /\ \A j \in 1..Len(permits) : j # i => [permits EXCEPT ![i] = r][j] = permits[j]
    OBVIOUS
  <2> QED BY <1>6, <2>1, <2>2 DEF Changed, r
<1> QED BY <1>1, <1>2, <1>3, <1>4, <1>5, <1>6, <1>7, <1>8

\* PermitsKnown survives the three things a step does to the requests: one
\* joins, one leaves, one is marked under the lock.
LEMMA JoiningKeeps ==
  ASSUME RadioInv, PermitsKnown, NEW r, r.app = 0, r.pc = "queued",
         permits' = Append(permits, r), UNCHANGED <<link, source, keeper>>,
         spent'.built = spent.built
  PROVE  PermitsKnown'
<1>1. permits \in Seq(Requests) /\ spent.built \in Nat /\ keeper.app \in Nat /\ link.app \in Nat
  BY DEF RadioInv, RadioTyped, Spents, Keepers, Links
<1>2. /\ Len(permits') = Len(permits) + 1 /\ Len(permits) \in Nat
      /\ permits'[Len(permits) + 1] = r /\ \A j \in 1..Len(permits) : permits'[j] = permits[j]
  BY <1>1
<1>3. keeper.pc = "starting" => keeper.app # 0 BY <1>1 DEF RadioInv, PortsHeld
<1> SUFFICES ASSUME NEW j \in 1..Len(permits')
    PROVE  /\ permits'[j].app <= spent.built
           /\ Asked(j)' => permits'[j].app # 0 /\ HasPermitLock(j)'
           /\ ~Asked(j)' => permits'[j].app = 0
           /\ keeper.pc = "starting" => permits'[j].app # keeper.app
           /\ link.app # 0 /\ permits'[j].app = link.app => permits'[j].source = source.number
  BY DEF PermitsKnown
<1>4. CASE j \in 1..Len(permits) BY <1>2, <1>4 DEF PermitsKnown, Asked, HasPermitLock
<1>5. CASE j = Len(permits) + 1 BY <1>1, <1>2, <1>3, <1>5 DEF Asked
<1> QED BY <1>2, <1>4, <1>5

\* (One leaves.)
LEMMA LeavingKeeps ==
  ASSUME RadioInv, PermitsKnown, NEW i \in 1..Len(permits), permits' = WithoutPermit(i),
         UNCHANGED <<source, keeper>>, link'.app = link.app, spent'.built = spent.built
  PROVE  PermitsKnown'
<1> DEFINE kept(j) == IF j < i THEN j ELSE j + 1
<1>1. permits \in Seq(Requests) BY DEF RadioInv, RadioTyped
<1>2. /\ Len(permits') = Len(permits) - 1 /\ Len(permits) \in Nat
      /\ \A j \in 1..Len(permits') : permits'[j] = permits[kept(j)]
  <2>1. Len(permits) \in Nat BY <1>1
  <2>2. /\ Len(WithoutPermit(i)) = Len(permits) - 1
        /\ \A j \in 1..Len(WithoutPermit(i)) : WithoutPermit(i)[j] = permits[kept(j)]
    BY ONLY <1>1, i \in 1..Len(permits), PermitLeaves
  <2> HIDE DEF kept
  <2> QED BY ONLY <2>1, <2>2, permits' = WithoutPermit(i)
<1>3. ASSUME NEW j \in 1..Len(permits')
      PROVE  /\ kept(j) \in 1..Len(permits)
             /\ \A k \in 1..(j - 1) : k \in 1..Len(permits') /\ kept(k) \in 1..(kept(j) - 1)
  <2> DEFINE n == Len(permits)
             m == Len(permits')
  <2>1. n \in Nat /\ m = n - 1 /\ i \in 1..n /\ j \in 1..m BY <1>2
  <2> HIDE DEF n, m
  <2>2. kept(j) \in 1..n BY ONLY <2>1
  <2>3. ASSUME NEW k \in 1..(j - 1) PROVE k \in 1..m /\ kept(k) \in 1..(kept(j) - 1)
    BY ONLY <2>1, k \in 1..(j - 1)
  <2> QED BY <2>2, <2>3 DEF n, m
<1> HIDE DEF kept
<1>4. ASSUME NEW j \in 1..Len(permits'), HasPermitLock(kept(j)) PROVE HasPermitLock(j)'
  BY <1>2, <1>3, <1>4 DEF HasPermitLock
<1> SUFFICES ASSUME NEW j \in 1..Len(permits')
    PROVE  /\ permits'[j].app <= spent.built
           /\ Asked(j)' => permits'[j].app # 0 /\ HasPermitLock(j)'
           /\ ~Asked(j)' => permits'[j].app = 0
           /\ keeper.pc = "starting" => permits'[j].app # keeper.app
           /\ link.app # 0 /\ permits'[j].app = link.app => permits'[j].source = source.number
  BY DEF PermitsKnown
<1> QED BY <1>2, <1>3, <1>4 DEF PermitsKnown, Asked

\* (One is marked: put to the radio, or answered by it.)
LEMMA MarkingKeeps ==
  ASSUME RadioInv, PermitsKnown, NEW i \in 1..Len(permits), HasPermitLock(i),
         NEW x \in {"asked", "answered"}, NEW a, Changed(permits', i, x, a),
         \/ a = permits[i].app /\ Asked(i)
         \/ a = link.app /\ link.app # 0 /\ permits[i].source = source.number,
         UNCHANGED <<link, source, keeper, spent>>
  PROVE  PermitsKnown'
<1>1. keeper.pc = "starting" => link.app = 0 BY DEF RadioInv, PortsHeld
<1>2. \A j \in 1..Len(permits) : permits'[j].source = permits[j].source BY DEF Changed
<1>3. Len(permits) \in Nat BY DEF RadioInv, RadioTyped
<1>4. \A j \in 1..Len(permits) : HasPermitLock(j) => HasPermitLock(j)'
  BY <1>2, <1>3 DEF HasPermitLock
<1> SUFFICES ASSUME NEW j \in 1..Len(permits)
    PROVE  /\ permits'[j].app <= spent.built
           /\ Asked(j)' => permits'[j].app # 0 /\ HasPermitLock(j)'
           /\ ~Asked(j)' => permits'[j].app = 0
           /\ keeper.pc = "starting" => permits'[j].app # keeper.app
           /\ link.app # 0 /\ permits'[j].app = link.app => permits'[j].source = source.number
  BY DEF PermitsKnown, Changed
<1>5. CASE j = i BY <1>1, <1>4, <1>5 DEF PermitsKnown, Asked, Changed
<1>6. CASE j # i BY <1>4, <1>6 DEF PermitsKnown, Asked, Changed
<1> QED BY <1>5, <1>6

\* Whoever is left was there, and whoever was there and did not leave is left.
LEMMA LeavingRest ==
  ASSUME RadioInv, NEW i \in 1..Len(permits), permits' = WithoutPermit(i)
  PROVE  /\ \A j \in 1..Len(permits') :
              \E k \in 1..Len(permits) : k # i /\ permits'[j] = permits[k]
         /\ \A k \in 1..Len(permits) :
              k # i => \E j \in 1..Len(permits') : permits'[j] = permits[k]
<1>1. permits \in Seq(Requests) BY DEF RadioInv, RadioTyped
<1>2. /\ Len(permits') = Len(permits) - 1 /\ Len(permits) \in Nat
      /\ \A j \in 1..Len(permits') : permits'[j] = permits[IF j < i THEN j ELSE j + 1]
  BY <1>1, PermitLeaves
<1>3. ASSUME NEW j \in 1..Len(permits')
      PROVE  \E k \in 1..Len(permits) : k # i /\ permits'[j] = permits[k]
  <2>1. CASE j < i BY <1>2, <2>1
  <2>2. CASE ~(j < i)
    <3>1. j + 1 \in 1..Len(permits) /\ j + 1 # i /\ permits'[j] = permits[j + 1] BY <1>2, <2>2
    <3> QED BY <3>1
  <2> QED BY <2>1, <2>2
<1>4. ASSUME NEW k \in 1..Len(permits), k # i
      PROVE  \E j \in 1..Len(permits') : permits'[j] = permits[k]
  <2>1. CASE k < i BY <1>2, <2>1
  <2>2. CASE ~(k < i)
    <3>1. k - 1 \in 1..Len(permits') /\ ~(k - 1 < i) /\ (k - 1) + 1 = k BY <1>2, <1>4, <2>2
    <3> QED BY <1>2, <3>1
  <2> QED BY <2>1, <2>2
<1> QED BY <1>3, <1>4

\* The lock's holder is the only request that has been put to the application
\* in use: another one would hold the lock of the same source.
LEMMA HolderIsOne ==
  ASSUME RadioInv, PermitsKnown, link.app # 0,
         NEW i \in 1..Len(permits), HasPermitLock(i), permits[i].source = source.number,
         NEW j \in 1..Len(permits), permits[j].app = link.app
  PROVE  i = j
<1>1. HasPermitLock(j) /\ permits[j].source = source.number BY DEF PermitsKnown
<1>2. Len(permits) \in Nat BY DEF RadioInv, RadioTyped
<1>3. ~(i < j) /\ ~(j < i) BY <1>1, <1>2 DEF HasPermitLock
<1> QED BY <1>2, <1>3

\* Each part of the invariant, step by step: the types.
LEMMA RadioTypedStep ==
  ASSUME RadioInv, [RadioNext]_radioVars
  PROVE  RadioTyped'
<1> USE RadioBounds DEF RadioInv, RadioTyped
<1>1. CASE \E s \in Sticks \cup {NoStick} : PutRadio(s)
  <2>1. setting' \in Sticks \cup {NoStick} BY <1>1 DEF PutRadio
  <2>2. applies' \in Seq(Sticks \cup {NoStick}) /\ Len(applies') <= spent'.applies + 1
    <3>1. applies' \in Seq(Sticks \cup {NoStick}) /\ Len(applies') = Len(applies) + 1
      BY <1>1 DEF PutRadio
    <3>2. spent'.applies = spent.applies + 1 /\ spent.applies \in Nat BY <1>1 DEF PutRadio, Spents
    <3> QED BY <3>1, <3>2
  <2>3. spent' \in Spents BY <1>1, SpentGrows DEF PutRadio
  <2> QED BY <1>1, <2>1, <2>2, <2>3 DEF PutRadio
<1>2. CASE SwapBegins
  <2>1. swap' \in Swaps BY <1>2 DEF SwapBegins, Swaps, Keepers, Links
  <2>2. keeper' \in Keepers BY <1>2 DEF SwapBegins, Keepers, NoKeeper, Links, Spents
  <2> QED BY <1>2, <2>1, <2>2 DEF SwapBegins
<1>3. CASE SwapReleases
  <2>1. swap' \in Swaps BY <1>3 DEF SwapReleases, Swaps, Keepers, Links
  <2>2. source' \in Sources BY <1>3 DEF SwapReleases, Sources, NoSource, Spents
  <2>3. link' \in Links BY <1>3 DEF SwapReleases, Links, NoLink, Keepers, WindowOf, Requests
  <2> QED BY <1>3, <2>1, <2>2, <2>3 DEF SwapReleases
<1>4. CASE SwapReleased
  <2>1. swap' \in Swaps BY <1>4 DEF SwapReleased, Swaps, Keepers, Links
  <2>2. air' \in Airs
    BY <1>4 DEF SwapReleased, Airs, Unsure, WindowOf, Requests, Spents, Swaps, Keepers
  <2> QED BY <1>4, <2>1, <2>2 DEF SwapReleased
<1>5. CASE SwapReleaseFails
  <2>1. swap' \in Swaps BY <1>5 DEF SwapReleaseFails, MayFail, Failed, Swaps, Keepers, Links
  <2>2. air' \in Airs BY <1>5 DEF SwapReleaseFails, MayFail, Failed, Airs, Unsure, WindowOf,
         Requests, Spents, Swaps, Keepers
  <2>3. spent' \in Spents BY <1>5, SpentGrows DEF SwapReleaseFails, MayFail, Failed
  <2>4. Len(applies') <= spent'.applies + 1 BY <1>5 DEF SwapReleaseFails, MayFail, Failed, Spents
  <2> QED BY <1>5, <2>1, <2>2, <2>3, <2>4 DEF SwapReleaseFails, MayFail, Failed
<1>6. CASE SwapBuilds
  <2>1. applies # <<>> BY <1>6 DEF SwapBuilds, SwapKnown
  <2>2. /\ Tail(applies) \in Seq(Sticks \cup {NoStick}) /\ Head(applies) \in Sticks \cup {NoStick}
        /\ Len(applies) \in Nat \ {0} /\ Len(Tail(applies)) = Len(applies) - 1
    BY <2>1
  <2>3. spent.applies \in Nat /\ spent.applies <= MaxApplies BY DEF Spents
  <2>4. applies' \in Seq(Sticks \cup {NoStick}) /\ Len(applies') <= spent'.applies + 1
    BY <1>6, <2>2, <2>3 DEF SwapBuilds
  <2>5. swap' \in Swaps BY <1>6 DEF SwapBuilds, Swaps
  <2>6. link' \in Links BY <1>6 DEF SwapBuilds, Links, NoLink
  <2>7. source' \in Sources
    <3>1. spent.applies + 2 - Len(applies) \in 0..(MaxApplies + 1) BY <2>2, <2>3
    <3> QED BY <1>6, <2>2, <3>1 DEF SwapBuilds, Sources
  <2>8. keeper' \in Keepers
    <3>1. [NoKeeper EXCEPT !.pc = "looking"] \in Keepers BY DEF NoKeeper, Keepers
    <3> QED BY <1>6, <3>1 DEF SwapBuilds
  <2> QED BY <1>6, <2>4, <2>5, <2>6, <2>7, <2>8 DEF SwapBuilds
<1>7. CASE Looks
  <2>1. keeper' \in Keepers BY <1>7 DEF Looks, Keepers, NoKeeper, Links, Spents
  <2> QED BY <1>7, <2>1 DEF Looks
<1>8. CASE Woken
  <2>1. keeper' \in Keepers BY <1>8 DEF Woken, Keepers, NoKeeper, Links, Spents
  <2> QED BY <1>8, <2>1 DEF Woken
<1>9. CASE ConnectBegins
  <2>1. keeper' \in Keepers BY <1>9 DEF ConnectBegins, Keepers, NoKeeper, Links, Spents
  <2>2. link' \in Links BY <1>9 DEF ConnectBegins, Links, NoLink, Keepers, WindowOf, Requests
  <2>3. air' \in Airs
    <3>1. link.window \in 0..MaxPermits /\ air.left \subseteq 1..MaxPermits BY DEF Links, Airs
    <3>2. (air.left \cup {link.window}) \ {0} \subseteq 1..MaxPermits BY ONLY <3>1, RadioBounds
    <3>3. air' = [air EXCEPT !.left = (air.left \cup {link.window}) \ {0}] BY <1>9 DEF ConnectBegins
    <3>4. air \in Airs OBVIOUS
    <3> QED BY ONLY <3>2, <3>3, <3>4 DEF Airs
  <2> QED BY <1>9, <2>1, <2>2, <2>3 DEF ConnectBegins
<1>10. CASE ConnectRefused
  <2>1. keeper' \in Keepers
    BY <1>10 DEF ConnectRefused, MayFail, Failed, Keepers, NoKeeper, Links, Spents
  <2>2. spent' \in Spents BY <1>10, SpentGrows DEF ConnectRefused, MayFail, Failed
  <2>3. Len(applies') <= spent'.applies + 1 BY <1>10 DEF ConnectRefused, MayFail, Failed, Spents
  <2> QED BY <1>10, <2>1, <2>2, <2>3 DEF ConnectRefused, MayFail, Failed
<1>11. CASE Prepared
  <2>1. keeper' \in Keepers BY <1>11 DEF Prepared, Keepers, NoKeeper, Links, Spents
  <2> QED BY <1>11, <2>1 DEF Prepared
<1>12. CASE Built
  <2>1. spent' \in Spents BY <1>12, SpentGrows DEF Built, MayFail, Failed
  <2>2. spent.built + 1 \in Nat /\ spent'.applies = spent.applies
    BY <1>12, SpentGrows DEF Built, MayFail, Failed, Spents
  <2>3. keeper' \in Keepers
    <3>1. \A a \in Nat, p \in {"starting", "failing"} : [keeper EXCEPT !.pc = p, !.app = a] \in Keepers
      BY DEF Keepers
    <3> QED BY <1>12, <2>2, <3>1 DEF Built, MayFail, Failed
  <2>4. air' \in Airs
    <3>1. \A a \in Nat : [air EXCEPT !.open = @ \cup {a}] \in Airs BY DEF Airs
    <3> QED BY <1>12, <2>2, <3>1 DEF Built, MayFail, Failed
  <2> QED BY <1>12, <2>1, <2>2, <2>3, <2>4 DEF Built, MayFail, Failed
<1>13. CASE Started
  <2>1. link' \in Links BY <1>13 DEF Started, Links, NoLink, Keepers, WindowOf, Requests
  <2>2. air' \in Airs
    BY <1>13 DEF Started, Airs, Unsure, WindowOf, Requests, Spents, Swaps, Keepers
  <2>3. keeper' \in Keepers BY <1>13 DEF Started, Keepers, NoKeeper, Links, Spents
  <2> QED BY <1>13, <2>1, <2>2, <2>3 DEF Started
<1>14. CASE StartFails
  <2>1. keeper' \in Keepers
    BY <1>14 DEF StartFails, MayFail, Failed, Keepers, NoKeeper, Links, Spents
  <2>2. spent' \in Spents BY <1>14, SpentGrows DEF StartFails, MayFail, Failed
  <2>3. Len(applies') <= spent'.applies + 1 BY <1>14 DEF StartFails, MayFail, Failed, Spents
  <2> QED BY <1>14, <2>1, <2>2, <2>3 DEF StartFails, MayFail, Failed
<1>15. CASE ShutDown
  <2>1. air' \in Airs
    BY <1>15 DEF ShutDown, Airs, Unsure, WindowOf, Requests, Spents, Swaps, Keepers
  <2>2. keeper' \in Keepers BY <1>15 DEF ShutDown, Keepers, NoKeeper, Links, Spents
  <2> QED BY <1>15, <2>1, <2>2 DEF ShutDown
<1>16. CASE ShutDownFails
  <2>1. air' \in Airs
    BY <1>16 DEF ShutDownFails, MayFail, Failed, Airs, Unsure, WindowOf, Requests, Spents, Swaps,
       Keepers
  <2>2. keeper' \in Keepers
    BY <1>16 DEF ShutDownFails, MayFail, Failed, Keepers, NoKeeper, Links, Spents
  <2>3. spent' \in Spents BY <1>16, SpentGrows DEF ShutDownFails, MayFail, Failed
  <2>4. Len(applies') <= spent'.applies + 1
    <3>1. applies' = applies /\ spent'.applies = spent.applies
      BY <1>16 DEF ShutDownFails, MayFail, Failed, Spents
    <3> QED BY <3>1
  <2> QED BY <1>16, <2>1, <2>2, <2>3, <2>4 DEF ShutDownFails, MayFail, Failed
<1>17. CASE Attached
  <2>1. keeper' \in Keepers
    <3>1. \/ keeper' = [keeper EXCEPT !.pc = "looking"]
          \/ keeper' = [keeper EXCEPT !.pc = "backoff"]
      BY ONLY <1>17 DEF Attached
    <3>2. keeper \in Keepers OBVIOUS
    <3> QED BY ONLY <3>1, <3>2 DEF Keepers
  <2>2. spent' \in Spents BY <1>17, SpentGrows DEF Attached, MayFail, Failed
  <2>3. Len(applies') <= spent'.applies + 1 BY <1>17 DEF Attached, MayFail, Failed, Spents
  <2> QED BY <1>17, <2>1, <2>2, <2>3 DEF Attached, MayFail, Failed
<1>18. CASE KeeperEnds
  <2>1. keeper' \in Keepers BY <1>18 DEF KeeperEnds, Keepers, NoKeeper, Links, Spents
  <2> QED BY <1>18, <2>1 DEF KeeperEnds
<1>19. CASE \E a \in air.open : LinkDies(a)
  <2>1. PICK a \in air.open : LinkDies(a) BY <1>19
  <2>2. a \in Nat BY DEF Airs
  <2>3. spent' \in Spents /\ Len(applies') <= spent'.applies + 1
    BY <2>1, SpentGrows DEF LinkDies, Spents
  <2>4. air' \in Airs BY <2>1, <2>2 DEF LinkDies, Airs
  <2>5. link' \in Links BY <2>1 DEF LinkDies, Links
  <2> QED BY <2>1, <2>3, <2>4, <2>5 DEF LinkDies
<1>20. CASE RestoreBegins
  <2>1. restoring' \in 0..(MaxApplies + 1) BY <1>20 DEF RestoreBegins, Linked, Sources
  <2>2. spent' \in Spents BY <1>20, SpentGrows DEF RestoreBegins, Linked
  <2>3. Len(applies') <= spent'.applies + 1 BY <1>20 DEF RestoreBegins, Linked, Spents
  <2> QED BY <1>20, <2>1, <2>2, <2>3 DEF RestoreBegins, Linked
<1>21. CASE RestoreEnds
  <2>1. restoring' \in 0..(MaxApplies + 1) BY <1>21 DEF RestoreEnds, Sources
  <2>2. link' \in Links BY <1>21 DEF RestoreEnds, Links, NoLink, Keepers, WindowOf, Requests
  <2> QED BY <1>21, <2>1, <2>2 DEF RestoreEnds
<1>22. CASE \E kind \in {"open", "stop"} : PermitCalled(kind, 0)
  <2>1. PICK kind \in {"open", "stop"} : PermitCalled(kind, 0) BY <1>22
  <2>2. spent' \in Spents /\ Len(applies') <= spent'.applies + 1
    <3>1. spent' \in Spents BY <2>1, SpentGrows DEF PermitCalled
    <3>2. applies' = applies /\ spent'.applies = spent.applies BY <2>1 DEF PermitCalled, Spents
    <3> QED BY <3>1, <3>2
  <2>3. source.number \in 1..(MaxApplies + 1) BY <2>1 DEF PermitCalled, Sources
  <2>4. (IF kind = "open" THEN spent.permits + 1 ELSE 0) \in 0..MaxPermits
    <3>1. spent.permits < MaxPermits BY ONLY <2>1 DEF PermitCalled
    <3>2. spent.permits \in 0..MaxPermits /\ MaxPermits \in Nat BY DEF Spents
    <3> QED BY ONLY <3>1, <3>2
  <2>5. \A n \in 1..(MaxApplies + 1), w \in 0..MaxPermits :
          [kind |-> kind, source |-> n, pc |-> "queued", app |-> 0, window |-> w] \in Requests
    BY DEF Requests
  <2>6. permits' \in Seq(Requests)
    <3> DEFINE r == [kind |-> kind, source |-> source.number, pc |-> "queued", app |-> 0,
                     window |-> IF kind = "open" THEN spent.permits + 1 ELSE 0]
    <3>1. r \in Requests BY ONLY <2>3, <2>4, <2>5
    <3>2. permits' = Append(permits, r) /\ permits \in Seq(Requests) BY <2>1 DEF PermitCalled
    <3> HIDE DEF r
    <3> QED BY ONLY <3>1, <3>2
  <2> QED BY <2>1, <2>2, <2>6 DEF PermitCalled
<1>23. CASE \E window \in 1..MaxPermits : PermitCalled("close", window)
  <2>1. PICK window \in 1..MaxPermits : PermitCalled("close", window) BY <1>23
  <2>2. spent' \in Spents /\ Len(applies') <= spent'.applies + 1
    <3>1. spent' \in Spents BY <2>1, SpentGrows DEF PermitCalled
    <3>2. applies' = applies /\ spent'.applies = spent.applies BY <2>1 DEF PermitCalled, Spents
    <3> QED BY <3>1, <3>2
  <2>3. source.number \in 1..(MaxApplies + 1) BY <2>1 DEF PermitCalled, Sources
  <2>4. (IF "close" = "open" THEN spent.permits + 1 ELSE window) \in 0..MaxPermits
    BY <2>1 DEF PermitCalled, Spents
  <2>5. \A n \in 1..(MaxApplies + 1), w \in 0..MaxPermits :
          [kind |-> "close", source |-> n, pc |-> "queued", app |-> 0, window |-> w] \in Requests
    BY DEF Requests
  <2>6. permits' \in Seq(Requests) BY <2>1, <2>3, <2>4, <2>5 DEF PermitCalled
  <2> QED BY <2>1, <2>2, <2>6 DEF PermitCalled
<1>24. CASE \E i \in 1..Len(permits) : PermitTakes(i)
  <2>1. PICK i \in 1..Len(permits) : PermitTakes(i) BY <1>24
  <2>2. permits' \in Seq(Requests) BY <2>1, PermitChanges, PermitLeaves DEF PermitTakes, Links
  <2> QED BY <2>1, <2>2 DEF PermitTakes
<1>25. CASE \E i \in 1..Len(permits) : RadioPermits(i)
  <2>1. PICK i \in 1..Len(permits) : RadioPermits(i) BY <1>25
  <2>2. permits' \in Seq(Requests) BY <2>1, PermitChanges DEF RadioPermits
  <2>3. WindowOf(permits[i]) \in 0..Unsure BY <2>1, PermitChanges, RadioBounds
  <2>4. air' \in Airs BY <2>1, <2>3 DEF RadioPermits, Airs
  <2> QED BY <2>1, <2>2, <2>4 DEF RadioPermits
<1>26. CASE \E i \in 1..Len(permits) : PermitReturns(i)
  <2>1. PICK i \in 1..Len(permits) : PermitReturns(i) BY <1>26
  <2>2. permits' \in Seq(Requests) BY <2>1, PermitLeaves DEF PermitReturns
  <2>3. WindowOf(permits[i]) \in 0..MaxPermits BY <2>1, PermitChanges
  <2>4. link' \in Links BY <2>1, <2>3 DEF PermitReturns, Links
  <2> QED BY <2>1, <2>2, <2>4 DEF PermitReturns
<1>27. CASE \E i \in 1..Len(permits) : PermitFails(i)
  <2>1. PICK i \in 1..Len(permits) : PermitFails(i) BY <1>27
  <2>2. permits' \in Seq(Requests) BY <2>1, PermitLeaves DEF PermitFails
  <2>3. spent' \in Spents /\ spent'.applies = spent.applies
    BY <2>1, SpentGrows DEF PermitFails, Failed, Spents
  <2>4. air' \in Airs BY <2>1 DEF PermitFails, Airs
  <2> QED BY <2>1, <2>2, <2>3, <2>4 DEF PermitFails
<1>28. CASE WindowRunsOut
  <2>1. air' \in Airs
    BY <1>28 DEF WindowRunsOut, Airs, Unsure, WindowOf, Requests, Spents, Swaps, Keepers
  <2>2. link' \in Links BY <1>28 DEF WindowRunsOut, Links, NoLink, Keepers, WindowOf, Requests
  <2> QED BY <1>28, <2>1, <2>2 DEF WindowRunsOut
<1>29. CASE UNCHANGED radioVars BY <1>29 DEF radioVars
<1> QED BY <1>1, <1>2, <1>3, <1>4, <1>5, <1>6, <1>7, <1>8, <1>9, <1>10, <1>11, <1>12,
       <1>13, <1>14, <1>15, <1>16, <1>17, <1>18, <1>19, <1>20, <1>21, <1>22, <1>23,
       <1>24, <1>25, <1>26, <1>27, <1>28, <1>29
     DEF RadioNext, SwapStep, KeeperStep, PermitStep

\* The ports, whoever opens, drops, shuts or leaves one.
LEMMA PortsStep ==
  ASSUME RadioInv, [RadioNext]_radioVars
  PROVE  PortsHeld'
<1>s. ASSUME link'.app = link.app, keeper' = keeper, swap' = swap, air'.open = air.open,
             air'.stuck = air.stuck, spent'.built = spent.built
      PROVE  PortsHeld'
  BY <1>s DEF RadioInv, PortsHeld
<1>t. /\ spent \in Spents /\ air \in Airs /\ keeper \in Keepers /\ link \in Links
      /\ Failed.built = spent.built
  BY DEF RadioInv, RadioTyped, Failed, Spents
<1> USE DEF RadioInv, RadioTyped, Swaps, Sources, Keepers, Links, Airs, Spents,
     PortsHeld, NoSource, NoKeeper, NoLink
<1>1. CASE \E s \in Sticks \cup {NoStick} : PutRadio(s) BY <1>1 DEF PutRadio
<1>2. CASE SwapBegins BY <1>2 DEF SwapBegins
<1>3. CASE SwapReleases BY <1>3 DEF SwapReleases
<1>4. CASE SwapReleased BY <1>4 DEF SwapReleased
<1>5. CASE SwapReleaseFails BY <1>5 DEF SwapReleaseFails, MayFail, Failed
<1>6. CASE SwapBuilds
  <2>1. link.app = 0 /\ keeper.app = 0 /\ swap.app = 0 BY <1>6 DEF SwapBuilds
  <2>2. UNCHANGED <<air, spent>> /\ link' = NoLink /\ swap'.app = 0 /\ swap'.pc = "free"
    BY <1>6 DEF SwapBuilds
  <2>3. keeper'.app = 0
    <3>1. keeper' = keeper \/ keeper' = [NoKeeper EXCEPT !.pc = "looking"]
      BY ONLY <1>6 DEF SwapBuilds
    <3> QED BY ONLY <2>1, <3>1 DEF NoKeeper
  <2>4. keeper'.pc # "starting"
    <3>1. keeper' = keeper \/ keeper' = [NoKeeper EXCEPT !.pc = "looking"]
      BY ONLY <1>6 DEF SwapBuilds
    <3>2. keeper.pc # "starting" BY <1>6 DEF SwapBuilds
    <3> QED BY ONLY <3>1, <3>2 DEF NoKeeper
  <2> QED BY ONLY <2>1, <2>2, <2>3, <2>4, PortsHeld DEF PortsHeld, NoLink
<1>7. CASE Looks BY <1>7 DEF Looks
<1>8. CASE Woken BY <1>8 DEF Woken
<1>9. CASE ConnectBegins BY <1>9 DEF ConnectBegins
<1>10. CASE ConnectRefused BY <1>10 DEF ConnectRefused, MayFail, Failed
<1>11. CASE Prepared BY <1>11 DEF Prepared
<1>12. CASE Built
  <2>1. spent.built \in Nat /\ spent'.built = spent.built + 1
    <3>1. spent \in Spents OBVIOUS
    <3>2. spent' = [spent EXCEPT !.built = spent.built + 1]
            \/ spent' = [[spent EXCEPT !.failures = @ + 1] EXCEPT !.built = spent.built + 1]
      BY <1>12 DEF Built, MayFail, Failed
    <3> QED BY ONLY <3>1, <3>2 DEF Spents
  <2>2. keeper.app = 0 /\ link.app = 0 /\ swap.pc \notin {"releasing", "building"}
    BY <1>12 DEF Built, MayFail, Failed
  <2>3. UNCHANGED <<link, swap>> /\ air'.stuck = air.stuck BY <1>12 DEF Built, MayFail, Failed
  <2>4. \/ keeper'.pc = "starting" /\ keeper'.app = spent.built + 1
             /\ air'.open = air.open \cup {spent.built + 1}
        \/ keeper'.pc = "failing" /\ keeper'.app = spent.built + 1
             /\ air'.open = air.open
    <3>1. keeper \in Keepers /\ air \in Airs OBVIOUS
    <3> QED BY ONLY <1>12, <3>1 DEF Built, MayFail, Failed, Keepers, Airs
  <2>5. air'.open \subseteq 1..spent'.built
    <3>1. air.open \subseteq 1..spent.built /\ air'.open \subseteq air.open \cup {spent.built + 1}
      BY <2>4
    <3> QED BY ONLY <2>1, <3>1
  <2>6. air'.open \ air'.stuck \subseteq {link'.app, keeper'.app, swap'.app} BY <2>2, <2>3, <2>4
  <2> QED BY <2>2, <2>3, <2>4, <2>5, <2>6
<1>13. CASE Started BY <1>13 DEF Started
<1>14. CASE StartFails
  <2>1. UNCHANGED <<link, swap, air>> /\ spent'.built = spent.built
    BY ONLY <1>14, <1>t DEF StartFails
  <2>2. keeper.pc = "starting" /\ keeper'.pc = "failing" /\ keeper'.app = keeper.app
    BY ONLY <1>14, <1>t DEF StartFails, Keepers
  <2> QED BY ONLY <2>1, <2>2, PortsHeld DEF PortsHeld
<1>15. CASE ShutDown BY <1>15 DEF ShutDown
<1>16. CASE ShutDownFails BY <1>16 DEF ShutDownFails, MayFail, Failed
<1>17. CASE Attached
  <2>1. UNCHANGED <<link, swap, air>> /\ spent'.built = spent.built
    BY ONLY <1>17, <1>t DEF Attached, MayFail
  <2>2. keeper.pc = "attaching" /\ keeper'.pc \in {"looking", "backoff"} /\ keeper'.app = keeper.app
    BY ONLY <1>17, <1>t DEF Attached, Keepers
  <2> QED BY ONLY <2>1, <2>2, PortsHeld DEF PortsHeld
<1>18. CASE KeeperEnds BY <1>18 DEF KeeperEnds
<1>19. CASE \E a \in air.open : LinkDies(a)
  <2>1. PICK a \in air.open : LinkDies(a) BY <1>19
  <2>2. link'.app = link.app BY ONLY <2>1, <1>t DEF LinkDies, Links
  <2>3. air'.open = air.open /\ air'.stuck = air.stuck BY ONLY <2>1, <1>t DEF LinkDies, Airs
  <2>4. keeper' = keeper /\ swap' = swap /\ spent'.built = spent.built
    BY ONLY <2>1, <1>t DEF LinkDies, Spents
  <2> QED BY ONLY <1>s, <2>2, <2>3, <2>4
<1>20. CASE RestoreBegins BY <1>20 DEF RestoreBegins, Linked
<1>21. CASE RestoreEnds BY <1>21 DEF RestoreEnds
<1>22. CASE \E kind \in {"open", "stop"} : PermitCalled(kind, 0) BY <1>22 DEF PermitCalled
<1>23. CASE \E window \in 1..MaxPermits : PermitCalled("close", window) BY <1>23 DEF PermitCalled
<1>24. CASE \E i \in 1..Len(permits) : PermitTakes(i) BY <1>24 DEF PermitTakes, Linked
<1>25. CASE \E i \in 1..Len(permits) : RadioPermits(i)
  <2>1. PICK i \in 1..Len(permits) : RadioPermits(i) BY <1>25
  <2>2. link'.app = link.app BY ONLY <2>1, <1>t DEF RadioPermits, Links
  <2>3. air'.open = air.open /\ air'.stuck = air.stuck BY ONLY <2>1, <1>t DEF RadioPermits, Airs
  <2>4. keeper' = keeper /\ swap' = swap /\ spent'.built = spent.built
    BY ONLY <2>1, <1>t DEF RadioPermits, Failed, Spents
  <2> QED BY ONLY <1>s, <2>2, <2>3, <2>4
<1>26. CASE \E i \in 1..Len(permits) : PermitReturns(i)
  <2>1. PICK i \in 1..Len(permits) : PermitReturns(i) BY <1>26
  <2>2. link'.app = link.app BY ONLY <2>1, <1>t DEF PermitReturns, Links
  <2>3. air'.open = air.open /\ air'.stuck = air.stuck BY ONLY <2>1, <1>t DEF PermitReturns, Airs
  <2>4. keeper' = keeper /\ swap' = swap /\ spent'.built = spent.built
    BY ONLY <2>1, <1>t DEF PermitReturns, Failed, Spents
  <2> QED BY ONLY <1>s, <2>2, <2>3, <2>4
<1>27. CASE \E i \in 1..Len(permits) : PermitFails(i)
  <2>1. PICK i \in 1..Len(permits) : PermitFails(i) BY <1>27
  <2>2. link'.app = link.app BY ONLY <2>1, <1>t DEF PermitFails, Links
  <2>3. air'.open = air.open /\ air'.stuck = air.stuck BY ONLY <2>1, <1>t DEF PermitFails, Airs
  <2>4. keeper' = keeper /\ swap' = swap /\ spent'.built = spent.built
    BY ONLY <2>1, <1>t DEF PermitFails, Failed, Spents
  <2> QED BY ONLY <1>s, <2>2, <2>3, <2>4
<1>28. CASE WindowRunsOut BY <1>28 DEF WindowRunsOut
<1>29. CASE UNCHANGED radioVars BY <1>29 DEF radioVars
<1> QED BY <1>1, <1>2, <1>3, <1>4, <1>5, <1>6, <1>7, <1>8, <1>9, <1>10, <1>11, <1>12,
       <1>13, <1>14, <1>15, <1>16, <1>17, <1>18, <1>19, <1>20, <1>21, <1>22, <1>23,
       <1>24, <1>25, <1>26, <1>27, <1>28, <1>29
     DEF RadioNext, SwapStep, KeeperStep, PermitStep

\* The change of the stick, against the supervisor it cancels.
LEMMA SwapKnownStep ==
  ASSUME RadioInv, [RadioNext]_radioVars
  PROVE  SwapKnown'
<1> USE RadioBounds, NoSourceStick DEF RadioInv, RadioTyped, Swaps, Sources, Keepers,
     Links, Airs, Spents, PortsHeld, SwapKnown, NoKeeper, NoLink
<1>1. CASE \E s \in Sticks \cup {NoStick} : PutRadio(s)
  <2>1. PICK s \in Sticks \cup {NoStick} : PutRadio(s) BY <1>1
  <2>2. applies' # <<>> /\ applies'[Len(applies')] = setting'
    <3>1. applies \in Seq(Sticks \cup {NoStick}) /\ applies' = Append(applies, s) /\ setting' = s
      BY <2>1 DEF PutRadio
    <3> QED BY ONLY <3>1
  <2>3. UNCHANGED <<swap, source, keeper, link>> BY <2>1 DEF PutRadio
  <2> QED BY <2>2, <2>3
<1>2. CASE SwapBegins BY <1>2 DEF SwapBegins
<1>3. CASE SwapReleases
  <2>1. applies # <<>> /\ applies[Len(applies)] = setting /\ UNCHANGED <<applies, setting, keeper>>
    BY <1>3 DEF SwapReleases
  <2>2. swap'.pc = "releasing" /\ source' = NoSource /\ ~keeper.cancelled BY <1>3 DEF SwapReleases
  <2> QED BY <2>1, <2>2
<1>4. CASE SwapReleased BY <1>4 DEF SwapReleased
<1>5. CASE SwapReleaseFails BY <1>5 DEF SwapReleaseFails, MayFail, Failed
<1>6. CASE SwapBuilds
  <2>1. applies # <<>> /\ applies[Len(applies)] = setting /\ source = NoSource /\ keeper.pc = "none"
          /\ ~keeper.cancelled
    BY <1>6 DEF SwapBuilds
  <2>2. applies' = Tail(applies) /\ swap'.pc = "free" /\ setting' = setting /\ link'.app = 0
    BY <1>6 DEF SwapBuilds
  <2>3. IF applies' = <<>> THEN Head(applies) = setting ELSE applies'[Len(applies')] = setting
    <3>1. Len(applies) \in Nat \ {0} /\ Head(applies) = applies[1] /\ Len(applies') = Len(applies) - 1
            /\ \A j \in 1..Len(applies') : applies'[j] = applies[j + 1]
      <4>1. applies \in Seq(Sticks \cup {NoStick}) OBVIOUS
      <4> QED BY ONLY <4>1, <2>1, <2>2
    <3>2. CASE applies' = <<>>
      <4>1. Len(applies) = 1 BY ONLY <3>1, <3>2
      <4> QED BY ONLY <2>1, <3>1, <3>2, <4>1
    <3>3. CASE applies' # <<>>
      <4>0. applies \in Seq(Sticks \cup {NoStick}) OBVIOUS
      <4>1. Len(applies') \in 1..Len(applies') BY ONLY <4>0, <2>1, <2>2, <3>3
      <4>2. Len(applies') + 1 = Len(applies) BY ONLY <3>1
      <4> QED BY ONLY <2>1, <3>1, <3>3, <4>1, <4>2
    <3> QED BY <3>2, <3>3
  <2>4. IF Head(applies) = NoStick THEN source' = NoSource /\ keeper'.pc = "none" /\ ~keeper'.cancelled
        ELSE source'.stick = Head(applies) /\ keeper'.pc = "looking" /\ ~keeper'.cancelled
    BY ONLY <1>6, <2>1 DEF SwapBuilds, NoKeeper
  <2> QED BY <2>2, <2>3, <2>4
<1>7. CASE Looks BY <1>7 DEF Looks
<1>8. CASE Woken BY <1>8 DEF Woken
<1>9. CASE ConnectBegins BY <1>9 DEF ConnectBegins
<1>10. CASE ConnectRefused BY <1>10 DEF ConnectRefused, MayFail, Failed
<1>11. CASE Prepared BY <1>11 DEF Prepared
<1>12. CASE Built
  <2>1. keeper'.cancelled = keeper.cancelled /\ keeper.pc # "none" /\ keeper'.pc # "none"
          /\ UNCHANGED <<setting, applies, swap, source, link>>
    <3>1. keeper \in Keepers OBVIOUS
    <3> QED BY ONLY <1>12, <3>1 DEF Built, MayFail, Failed, Keepers
  <2> QED BY <2>1
<1>13. CASE Started BY <1>13 DEF Started
<1>14. CASE StartFails
  <2>1. keeper'.cancelled = keeper.cancelled /\ keeper.pc # "none" /\ keeper'.pc # "none"
          /\ UNCHANGED <<setting, applies, swap, source, link>>
    <3>1. keeper \in Keepers OBVIOUS
    <3> QED BY ONLY <1>14, <3>1 DEF StartFails, MayFail, Failed, Keepers
  <2> QED BY <2>1
<1>15. CASE ShutDown BY <1>15 DEF ShutDown
<1>16. CASE ShutDownFails BY <1>16 DEF ShutDownFails, MayFail, Failed
<1>17. CASE Attached
  <2>1. keeper'.cancelled = keeper.cancelled /\ keeper.pc # "none" /\ keeper'.pc # "none"
          /\ UNCHANGED <<setting, applies, swap, source, link>>
    <3>1. keeper \in Keepers OBVIOUS
    <3> QED BY ONLY <1>17, <3>1 DEF Attached, MayFail, Failed, Keepers
  <2> QED BY <2>1
<1>18. CASE KeeperEnds BY <1>18 DEF KeeperEnds
<1>19. CASE \E a \in air.open : LinkDies(a) BY <1>19 DEF LinkDies
<1>20. CASE RestoreBegins BY <1>20 DEF RestoreBegins, Linked
<1>21. CASE RestoreEnds BY <1>21 DEF RestoreEnds
<1>22. CASE \E kind \in {"open", "stop"} : PermitCalled(kind, 0) BY <1>22 DEF PermitCalled
<1>23. CASE \E window \in 1..MaxPermits : PermitCalled("close", window) BY <1>23 DEF PermitCalled
<1>24. CASE \E i \in 1..Len(permits) : PermitTakes(i) BY <1>24 DEF PermitTakes, Linked
<1>25. CASE \E i \in 1..Len(permits) : RadioPermits(i) BY <1>25 DEF RadioPermits
<1>26. CASE \E i \in 1..Len(permits) : PermitReturns(i) BY <1>26 DEF PermitReturns
<1>27. CASE \E i \in 1..Len(permits) : PermitFails(i) BY <1>27 DEF PermitFails, MayFail, Failed
<1>28. CASE WindowRunsOut BY <1>28 DEF WindowRunsOut
<1>29. CASE UNCHANGED radioVars BY <1>29 DEF radioVars
<1> QED BY <1>1, <1>2, <1>3, <1>4, <1>5, <1>6, <1>7, <1>8, <1>9, <1>10, <1>11, <1>12,
       <1>13, <1>14, <1>15, <1>16, <1>17, <1>18, <1>19, <1>20, <1>21, <1>22, <1>23,
       <1>24, <1>25, <1>26, <1>27, <1>28, <1>29
     DEF RadioNext, SwapStep, KeeperStep, PermitStep

\* The link.  A startup() that succeeds on a dead link, or an attach() that
\* fails on a live one, would break this part.
LEMMA LinkStep ==
  ASSUME RadioInv, LinkKnown, [RadioNext]_radioVars
  PROVE  LinkKnown'
<1> USE DEF RadioInv, RadioTyped, Swaps, Sources, Keepers, Links, Airs, Spents,
     PortsHeld, LinkKnown, LeftOver, NoSource, NoKeeper, NoLink
<1>1. CASE \E s \in Sticks \cup {NoStick} : PutRadio(s) BY <1>1 DEF PutRadio
<1>2. CASE SwapBegins BY <1>2 DEF SwapBegins
<1>3. CASE SwapReleases BY <1>3 DEF SwapReleases
<1>4. CASE SwapReleased BY <1>4 DEF SwapReleased
<1>5. CASE SwapReleaseFails BY <1>5 DEF SwapReleaseFails, MayFail, Failed
<1>6. CASE SwapBuilds BY <1>6 DEF SwapBuilds
<1>7. CASE Looks BY <1>7 DEF Looks
<1>8. CASE Woken BY <1>8 DEF Woken
<1>9. CASE ConnectBegins BY <1>9 DEF ConnectBegins
<1>10. CASE ConnectRefused BY <1>10 DEF ConnectRefused, MayFail, Failed
<1>11. CASE Prepared BY <1>11 DEF Prepared
<1>12. CASE Built
  <2>1. air'.dead = air.dead /\ air'.late = air.late /\ air'.left = air.left /\ air.open \subseteq air'.open
    <3>1. air \in Airs OBVIOUS
    <3>2. air' = [air EXCEPT !.open = @ \cup {spent.built + 1}] \/ air' = air
      BY ONLY <1>12 DEF Built, MayFail, Failed
    <3> QED BY ONLY <3>1, <3>2 DEF Airs
  <2>2. keeper'.pc \in {"starting", "failing"} /\ link' = link
    <3>1. keeper \in Keepers OBVIOUS
    <3> QED BY ONLY <1>12, <3>1 DEF Built, MayFail, Failed, Keepers
  <2> QED BY <2>1, <2>2
<1>13. CASE Started BY <1>13 DEF Started
<1>14. CASE StartFails BY <1>14 DEF StartFails, MayFail, Failed
<1>15. CASE ShutDown BY <1>15 DEF ShutDown
<1>16. CASE ShutDownFails BY <1>16 DEF ShutDownFails, MayFail, Failed
<1>17. CASE Attached BY <1>17 DEF Attached, MayFail, Failed
<1>18. CASE KeeperEnds BY <1>18 DEF KeeperEnds
<1>19. CASE \E a \in air.open : LinkDies(a) BY <1>19 DEF LinkDies
<1>20. CASE RestoreBegins BY <1>20 DEF RestoreBegins, Linked
<1>21. CASE RestoreEnds BY <1>21 DEF RestoreEnds
<1>22. CASE \E kind \in {"open", "stop"} : PermitCalled(kind, 0) BY <1>22 DEF PermitCalled
<1>23. CASE \E window \in 1..MaxPermits : PermitCalled("close", window) BY <1>23 DEF PermitCalled
<1>24. CASE \E i \in 1..Len(permits) : PermitTakes(i) BY <1>24 DEF PermitTakes, Linked
<1>25. CASE \E i \in 1..Len(permits) : RadioPermits(i) BY <1>25 DEF RadioPermits
<1>26. CASE \E i \in 1..Len(permits) : PermitReturns(i) BY <1>26 DEF PermitReturns
<1>27. CASE \E i \in 1..Len(permits) : PermitFails(i) BY <1>27 DEF PermitFails, MayFail, Failed
<1>28. CASE WindowRunsOut BY <1>28 DEF WindowRunsOut
<1>29. CASE UNCHANGED radioVars BY <1>29 DEF radioVars
<1> QED BY <1>1, <1>2, <1>3, <1>4, <1>5, <1>6, <1>7, <1>8, <1>9, <1>10, <1>11, <1>12,
       <1>13, <1>14, <1>15, <1>16, <1>17, <1>18, <1>19, <1>20, <1>21, <1>22, <1>23,
       <1>24, <1>25, <1>26, <1>27, <1>28, <1>29
     DEF RadioNext, SwapStep, KeeperStep, PermitStep

\* The requests.
LEMMA PermitsStep ==
  ASSUME RadioInv, PermitsKnown, [RadioNext]_radioVars
  PROVE  PermitsKnown'
<1>s. ASSUME UNCHANGED <<permits, link, source>>, spent'.built = spent.built,
             keeper'.app = keeper.app \/ keeper'.pc # "starting",
             keeper'.pc = "starting" => keeper.pc = "starting"
      PROVE  PermitsKnown'
  BY <1>s DEF PermitsKnown, Asked, HasPermitLock
<1>t. spent \in Spents /\ keeper \in Keepers /\ Failed.built = spent.built
  BY DEF RadioInv, RadioTyped, Failed, Spents
<1> USE DEF RadioInv, RadioTyped, Swaps, Sources, Keepers, Links, Airs, Spents,
     PortsHeld, PermitsKnown, Asked, HasPermitLock, NoKeeper, NoLink
<1>1. CASE \E s \in Sticks \cup {NoStick} : PutRadio(s) BY <1>1 DEF PutRadio
<1>2. CASE SwapBegins BY <1>2 DEF SwapBegins
<1>3. CASE SwapReleases BY <1>3 DEF SwapReleases
<1>4. CASE SwapReleased BY <1>4 DEF SwapReleased
<1>5. CASE SwapReleaseFails BY <1>5 DEF SwapReleaseFails, MayFail, Failed
<1>6. CASE SwapBuilds
  <2>1. UNCHANGED <<permits, spent>> /\ link'.app = 0 /\ keeper'.pc # "starting"
    BY <1>6 DEF SwapBuilds
  <2>2. keeper.pc # "starting" /\ spent.built \in Nat BY <1>6 DEF SwapBuilds
  <2> QED BY ONLY <2>1, <2>2, PermitsKnown DEF PermitsKnown, Asked, HasPermitLock
<1>7. CASE Looks
  <2>1. UNCHANGED <<permits, link, source>> /\ spent'.built = spent.built
    BY ONLY <1>7, <1>t DEF Looks
  <2>2. /\ keeper'.app = keeper.app \/ keeper'.pc # "starting"
        /\ keeper'.pc = "starting" => keeper.pc = "starting"
    BY ONLY <1>7, <1>t DEF Looks, Keepers
  <2> QED BY ONLY <1>s, <2>1, <2>2
<1>8. CASE Woken BY <1>8 DEF Woken
<1>9. CASE ConnectBegins BY <1>9 DEF ConnectBegins
<1>10. CASE ConnectRefused
  <2>1. UNCHANGED <<permits, link, source>> /\ spent'.built = spent.built
    BY ONLY <1>10, <1>t DEF ConnectRefused
  <2>2. /\ keeper'.app = keeper.app \/ keeper'.pc # "starting"
        /\ keeper'.pc = "starting" => keeper.pc = "starting"
    BY ONLY <1>10, <1>t DEF ConnectRefused, Keepers
  <2> QED BY ONLY <1>s, <2>1, <2>2
<1>11. CASE Prepared BY <1>11 DEF Prepared
<1>12. CASE Built
  <2>1. keeper'.app = spent.built + 1 /\ UNCHANGED <<permits, link, source>>
    <3>1. keeper \in Keepers OBVIOUS
    <3> QED BY ONLY <1>12, <3>1 DEF Built, MayFail, Failed, Keepers
  <2>2. spent.built \in Nat /\ spent'.built = spent.built + 1
    <3>1. spent \in Spents OBVIOUS
    <3>2. spent' = [spent EXCEPT !.built = spent.built + 1]
            \/ spent' = [[spent EXCEPT !.failures = @ + 1] EXCEPT !.built = spent.built + 1]
      BY <1>12 DEF Built, MayFail, Failed
    <3> QED BY ONLY <3>1, <3>2 DEF Spents
  <2>3. \A j \in 1..Len(permits) : permits[j].app \in Nat
    <3>1. permits \in Seq(Requests) OBVIOUS
    <3>2. \A r \in Requests : r.app \in Nat BY ONLY DEF Requests
    <3>3. \A j \in 1..Len(permits) : permits[j] \in Requests BY ONLY <3>1
    <3> QED BY ONLY <3>2, <3>3
  <2>4. link'.app <= spent'.built BY <2>1, <2>2
  <2>5. ASSUME NEW j \in 1..Len(permits)
        PROVE  permits[j].app <= spent'.built /\ permits[j].app # keeper'.app
    <3>1. permits[j].app <= spent.built /\ permits[j].app \in Nat BY <2>3
    <3> QED BY ONLY <3>1, <2>1, <2>2
  <2>6. \A j \in 1..Len(permits) : (Asked(j)' <=> Asked(j)) /\ (HasPermitLock(j)' <=> HasPermitLock(j))
    BY ONLY <2>1 DEF Asked, HasPermitLock
  <2>7. ASSUME NEW j \in 1..Len(permits)
        PROVE  /\ Asked(j)' => permits[j].app # 0 /\ HasPermitLock(j)'
               /\ ~Asked(j)' => permits[j].app = 0
               /\ link.app # 0 /\ permits[j].app = link.app => permits[j].source = source.number
    BY ONLY <2>6, PermitsKnown DEF PermitsKnown
  <2> QED BY ONLY <2>1, <2>4, <2>5, <2>7 DEF PermitsKnown
<1>13. CASE Started
  <2>1. UNCHANGED <<permits, source, spent>> /\ keeper.pc = "starting" /\ link'.app = keeper.app
    BY ONLY <1>13 DEF Started
  <2>2. keeper'.pc # "starting" BY ONLY <1>13, <1>t DEF Started, Keepers
  <2>3. keeper.app <= spent.built BY <2>1
  <2> QED BY ONLY <2>1, <2>2, <2>3, PermitsKnown DEF PermitsKnown, Asked, HasPermitLock
<1>14. CASE StartFails
  <2>1. UNCHANGED <<permits, link, source>> /\ spent'.built = spent.built
    BY ONLY <1>14, <1>t DEF StartFails
  <2>2. /\ keeper'.app = keeper.app \/ keeper'.pc # "starting"
        /\ keeper'.pc = "starting" => keeper.pc = "starting"
    BY ONLY <1>14, <1>t DEF StartFails, Keepers
  <2> QED BY ONLY <1>s, <2>1, <2>2
<1>15. CASE ShutDown BY <1>15 DEF ShutDown
<1>16. CASE ShutDownFails BY <1>16 DEF ShutDownFails, MayFail, Failed
<1>17. CASE Attached
  <2>1. UNCHANGED <<permits, link, source>> /\ spent'.built = spent.built
    BY ONLY <1>17, <1>t DEF Attached
  <2>2. /\ keeper'.app = keeper.app \/ keeper'.pc # "starting"
        /\ keeper'.pc = "starting" => keeper.pc = "starting"
    BY ONLY <1>17, <1>t DEF Attached, Keepers
  <2> QED BY ONLY <1>s, <2>1, <2>2
<1>18. CASE KeeperEnds BY <1>18 DEF KeeperEnds
<1>19. CASE \E a \in air.open : LinkDies(a) BY <1>19 DEF LinkDies
<1>20. CASE RestoreBegins BY <1>20 DEF RestoreBegins, Linked
<1>21. CASE RestoreEnds BY <1>21 DEF RestoreEnds
<1>22. CASE \E kind \in {"open", "stop"} : PermitCalled(kind, 0)
  <2>1. PICK kind \in {"open", "stop"} : PermitCalled(kind, 0) BY <1>22
  <2>2. \E r : r.app = 0 /\ r.pc = "queued" /\ permits' = Append(permits, r)
    <3> DEFINE r == [kind |-> kind, source |-> source.number, pc |-> "queued", app |-> 0,
                     window |-> IF kind = "open" THEN spent.permits + 1 ELSE 0]
    <3>1. permits' = Append(permits, r) BY ONLY <2>1 DEF PermitCalled
    <3>2. r.app = 0 /\ r.pc = "queued" OBVIOUS
    <3> QED BY ONLY <3>1, <3>2
  <2>3. UNCHANGED <<link, source, keeper>> /\ spent'.built = spent.built BY <2>1 DEF PermitCalled
  <2> QED BY <2>2, <2>3, JoiningKeeps
<1>23. CASE \E window \in 1..MaxPermits : PermitCalled("close", window)
  <2>1. PICK window \in 1..MaxPermits : PermitCalled("close", window) BY <1>23
  <2>2. \E r : r.app = 0 /\ r.pc = "queued" /\ permits' = Append(permits, r)
    <3> DEFINE r == [kind |-> "close", source |-> source.number, pc |-> "queued", app |-> 0,
                     window |-> IF "close" = "open" THEN spent.permits + 1 ELSE window]
    <3>1. permits' = Append(permits, r) BY ONLY <2>1 DEF PermitCalled
    <3>2. r.app = 0 /\ r.pc = "queued" OBVIOUS
    <3> QED BY ONLY <3>1, <3>2
  <2>3. UNCHANGED <<link, source, keeper>> /\ spent'.built = spent.built BY <2>1 DEF PermitCalled
  <2> QED BY <2>2, <2>3, JoiningKeeps
<1>24. CASE \E i \in 1..Len(permits) : PermitTakes(i)
  <2>1. PICK i \in 1..Len(permits) : PermitTakes(i) BY <1>24
  <2>2. UNCHANGED <<link, source, keeper, spent>> BY <2>1 DEF PermitTakes
  <2>3. CASE permits' = WithoutPermit(i) BY <2>1, <2>2, <2>3, LeavingKeeps
  <2>4. CASE permits' = [permits EXCEPT ![i].pc = "asked", ![i].app = link.app] /\ Linked
             /\ permits[i].source = source.number
    <3>1. Changed(permits', i, "asked", link.app) BY <2>4, PermitChanges
    <3> QED BY <2>1, <2>2, <2>4, <3>1, MarkingKeeps DEF PermitTakes, Linked
  <2> QED BY <2>1, <2>3, <2>4 DEF PermitTakes
<1>25. CASE \E i \in 1..Len(permits) : RadioPermits(i)
  <2>1. PICK i \in 1..Len(permits) : RadioPermits(i) BY <1>25
  <2>2. UNCHANGED <<link, source, keeper, spent>> BY <2>1 DEF RadioPermits
  <2>3. Changed(permits', i, "answered", permits[i].app)
    <3>1. 0 \in Nat OBVIOUS
    <3> QED BY <2>1, <3>1, PermitChanges DEF RadioPermits
  <2> QED BY <2>1, <2>2, <2>3, MarkingKeeps DEF RadioPermits
<1>26. CASE \E i \in 1..Len(permits) : PermitReturns(i)
  <2>1. PICK i \in 1..Len(permits) : PermitReturns(i) BY <1>26
  <2>2. UNCHANGED <<source, keeper, spent>> /\ link'.app = link.app /\ permits' = WithoutPermit(i)
    BY <2>1 DEF PermitReturns
  <2> QED BY <2>1, <2>2, LeavingKeeps
<1>27. CASE \E i \in 1..Len(permits) : PermitFails(i)
  <2>1. PICK i \in 1..Len(permits) : PermitFails(i) BY <1>27
  <2>2. UNCHANGED <<source, keeper, link>> /\ spent'.built = spent.built /\ permits' = WithoutPermit(i)
    BY <2>1 DEF PermitFails, Failed
  <2> QED BY <2>1, <2>2, LeavingKeeps
<1>28. CASE WindowRunsOut BY <1>28 DEF WindowRunsOut
<1>29. CASE UNCHANGED radioVars BY <1>29 DEF radioVars
<1> QED BY <1>1, <1>2, <1>3, <1>4, <1>5, <1>6, <1>7, <1>8, <1>9, <1>10, <1>11, <1>12,
       <1>13, <1>14, <1>15, <1>16, <1>17, <1>18, <1>19, <1>20, <1>21, <1>22, <1>23,
       <1>24, <1>25, <1>26, <1>27, <1>28, <1>29
     DEF RadioNext, SwapStep, KeeperStep, PermitStep

\* The window, between the radio's answer and the source that is told of it.
LEMMA WindowsStep ==
  ASSUME RadioInv, LinkKnown, PermitsKnown, WindowsKnown, [RadioNext]_radioVars
  PROVE  WindowsKnown'
<1>a. ASSUME NEW i \in 1..Len(permits), permits' = WithoutPermit(i)
      PROVE  /\ \A j \in 1..Len(permits') :
                  \E k \in 1..Len(permits) : k # i /\ permits'[j] = permits[k]
             /\ \A k \in 1..Len(permits) :
                  k # i => \E j \in 1..Len(permits') : permits'[j] = permits[k]
  BY <1>a, LeavingRest
<1>b. ASSUME link.app # 0, NEW i \in 1..Len(permits), HasPermitLock(i),
             permits[i].source = source.number \/ permits[i].app = link.app
      PROVE  \A j \in 1..Len(permits) : permits[j].app = link.app => j = i
  <2>1. permits[i].source = source.number BY <1>b DEF PermitsKnown
  <2> QED BY <1>b, <2>1, HolderIsOne
<1> USE DEF RadioInv, RadioTyped, Swaps, Sources, Keepers, Links, Airs, Spents,
     PortsHeld, LinkKnown, PermitsKnown, Asked, WindowsKnown, Answered, WindowOf,
     Believed, Shows, SaysSo, LeftOver, NoSource, NoKeeper, NoLink
<1>1. CASE \E s \in Sticks \cup {NoStick} : PutRadio(s) BY <1>1 DEF PutRadio
<1>2. CASE SwapBegins BY <1>2 DEF SwapBegins
<1>3. CASE SwapReleases BY <1>3 DEF SwapReleases
<1>4. CASE SwapReleased BY <1>4 DEF SwapReleased
<1>5. CASE SwapReleaseFails BY <1>5 DEF SwapReleaseFails, MayFail, Failed
<1>6. CASE SwapBuilds BY <1>6 DEF SwapBuilds
<1>7. CASE Looks BY <1>7 DEF Looks
<1>8. CASE Woken BY <1>8 DEF Woken
<1>9. CASE ConnectBegins BY <1>9 DEF ConnectBegins
<1>10. CASE ConnectRefused BY <1>10 DEF ConnectRefused, MayFail, Failed
<1>11. CASE Prepared BY <1>11 DEF Prepared
<1>12. CASE Built
  <2>1. air'.window = air.window /\ air'.left = air.left /\ air'.dead = air.dead
    <3>1. air \in Airs OBVIOUS
    <3>2. air' = [air EXCEPT !.open = @ \cup {spent.built + 1}] \/ air' = air
      BY ONLY <1>12 DEF Built, MayFail, Failed
    <3> QED BY ONLY <3>1, <3>2 DEF Airs
  <2>2. link' = link /\ permits' = permits BY ONLY <1>12 DEF Built, MayFail, Failed
  <2> QED BY ONLY <2>1, <2>2, WindowsKnown DEF WindowsKnown, Believed, Shows, SaysSo, LeftOver, Answered, WindowOf
<1>13. CASE Started BY <1>13 DEF Started
<1>14. CASE StartFails BY <1>14 DEF StartFails, MayFail, Failed
<1>15. CASE ShutDown BY <1>15 DEF ShutDown
<1>16. CASE ShutDownFails BY <1>16 DEF ShutDownFails, MayFail, Failed
<1>17. CASE Attached BY <1>17 DEF Attached, MayFail, Failed
<1>18. CASE KeeperEnds BY <1>18 DEF KeeperEnds
<1>19. CASE \E a \in air.open : LinkDies(a) BY <1>19 DEF LinkDies
<1>20. CASE RestoreBegins BY <1>20 DEF RestoreBegins, Linked
<1>21. CASE RestoreEnds BY <1>21 DEF RestoreEnds
<1>22. CASE \E kind \in {"open", "stop"} : PermitCalled(kind, 0)
  <2>1. PICK kind \in {"open", "stop"} : PermitCalled(kind, 0) BY <1>22
  <2>2. /\ \A j \in 1..Len(permits) : j \in 1..Len(permits') /\ permits'[j] = permits[j]
        /\ \A j \in 1..Len(permits') : j \in 1..Len(permits) \/ permits'[j].pc = "queued"
    <3> DEFINE r == [kind |-> kind, source |-> source.number, pc |-> "queued", app |-> 0,
                     window |-> IF kind = "open" THEN spent.permits + 1 ELSE 0]
    <3>1. permits' = Append(permits, r) BY ONLY <2>1 DEF PermitCalled
    <3>2. r.pc = "queued" /\ permits \in Seq(Requests) OBVIOUS
    <3> HIDE DEF r
    <3> QED BY ONLY <3>1, <3>2
  <2>3. UNCHANGED <<link, air>> BY <2>1 DEF PermitCalled
  <2> QED BY ONLY <2>2, <2>3, WindowsKnown DEF WindowsKnown, Believed, Shows, SaysSo, LeftOver, Answered, WindowOf
<1>23. CASE \E window \in 1..MaxPermits : PermitCalled("close", window)
  <2>1. PICK window \in 1..MaxPermits : PermitCalled("close", window) BY <1>23
  <2>2. /\ \A j \in 1..Len(permits) : j \in 1..Len(permits') /\ permits'[j] = permits[j]
        /\ \A j \in 1..Len(permits') : j \in 1..Len(permits) \/ permits'[j].pc = "queued"
    <3> DEFINE r == [kind |-> "close", source |-> source.number, pc |-> "queued", app |-> 0,
                     window |-> IF "close" = "open" THEN spent.permits + 1 ELSE window]
    <3>1. permits' = Append(permits, r) BY ONLY <2>1 DEF PermitCalled
    <3>2. r.pc = "queued" /\ permits \in Seq(Requests) OBVIOUS
    <3> HIDE DEF r
    <3> QED BY ONLY <3>1, <3>2
  <2>3. UNCHANGED <<link, air>> BY <2>1 DEF PermitCalled
  <2> QED BY ONLY <2>2, <2>3, WindowsKnown DEF WindowsKnown, Believed, Shows, SaysSo, LeftOver, Answered, WindowOf
<1>24. CASE \E i \in 1..Len(permits) : PermitTakes(i)
  <2>1. PICK i \in 1..Len(permits) : PermitTakes(i) BY <1>24
  <2>2. UNCHANGED <<link, air>> /\ permits[i].pc = "queued" BY <2>1 DEF PermitTakes
  <2>3. CASE permits' = WithoutPermit(i)
    <3>1. \A j \in 1..Len(permits') : \E k \in 1..Len(permits) : k # i /\ permits'[j] = permits[k]
      BY ONLY <1>a, <2>3
    <3>2. \A k \in 1..Len(permits) : k # i => \E j \in 1..Len(permits') : permits'[j] = permits[k]
      BY ONLY <1>a, <2>3
    <3>3. link'.connected => Shows' /\ \A j \in 1..Len(permits') : Answered(j)' => SaysSo(permits[j])'
      BY ONLY <2>2, <3>1, WindowsKnown DEF WindowsKnown, Believed, Shows, SaysSo, LeftOver, Answered, WindowOf
    <3>4. link'.connected /\ (\A j \in 1..Len(permits') : ~Answered(j)') => Believed'
      BY ONLY <2>2, <3>2, WindowsKnown DEF WindowsKnown, Believed, Shows, SaysSo, LeftOver, Answered, WindowOf
    <3> QED BY ONLY <3>3, <3>4 DEF WindowsKnown
  <2>4. CASE permits' = [permits EXCEPT ![i].pc = "asked", ![i].app = link.app]
    <3>1. Changed(permits', i, "asked", link.app) BY <2>4, PermitChanges
    <3> QED BY ONLY <2>2, <3>1, WindowsKnown DEF WindowsKnown, Believed, Shows, SaysSo, LeftOver, Answered, WindowOf, Changed
  <2> QED BY <2>1, <2>3, <2>4 DEF PermitTakes
<1>25. CASE \E i \in 1..Len(permits) : RadioPermits(i)
  <2>1. PICK i \in 1..Len(permits) : RadioPermits(i) BY <1>25
  <2>2. Changed(permits', i, "answered", permits[i].app)
    <3>1. 0 \in Nat OBVIOUS
    <3> QED BY <2>1, <3>1, PermitChanges DEF RadioPermits
  <2>3. link' = link /\ permits[i].pc = "asked" BY <2>1 DEF RadioPermits
  <2>4. CASE permits[i].app = link.app /\ link.connected
    <3>1. air'.window = WindowOf(permits[i]) /\ link.app \notin air'.dead
      BY <2>1, <2>4 DEF RadioPermits
    <3>2. \A j \in 1..Len(permits) : permits[j].app = link.app => j = i
      BY <1>b, <2>1, <2>4 DEF RadioPermits
    <3>3. permits'[i].pc = "answered" /\ permits'[i].app = link.app /\ WindowOf(permits[i])' = WindowOf(permits[i])
      BY <2>2, <2>4 DEF Changed, WindowOf
    <3>4. \A j \in 1..Len(permits') : permits'[j].app = link.app => j = i
      BY <2>2, <3>2 DEF Changed
    <3> QED BY ONLY <2>2, <2>3, <3>1, <3>3, <3>4 DEF WindowsKnown, Shows, SaysSo, LeftOver, Answered, Changed
  <2>5. CASE ~(permits[i].app = link.app /\ link.connected)
    <3>1. /\ link.connected => air'.window = air.window
          /\ air'.left = air.left /\ air'.dead = air.dead
      BY <2>1, <2>5 DEF RadioPermits
    <3> QED BY ONLY <2>2, <2>3, <2>5, <3>1, WindowsKnown DEF WindowsKnown, Believed, Shows, SaysSo, LeftOver, Answered, Changed, WindowOf
  <2> QED BY <2>4, <2>5
<1>26. CASE \E i \in 1..Len(permits) : PermitReturns(i)
  <2>1. PICK i \in 1..Len(permits) : PermitReturns(i) BY <1>26
  <2>2. permits' = WithoutPermit(i) BY <2>1 DEF PermitReturns
  <2>2a. air' = air /\ permits[i].pc = "answered"
    BY <2>1 DEF PermitReturns
  <2>3. CASE permits[i].app = link.app /\ link.connected
    <3>1. link'.window = WindowOf(permits[i]) /\ link'.app = link.app /\ link'.connected
      BY <2>1, <2>3 DEF PermitReturns
    <3>2. \A j \in 1..Len(permits') : \E k \in 1..Len(permits) : k # i /\ permits'[j] = permits[k]
      BY ONLY <1>a, <2>2
    <3>3. \A k \in 1..Len(permits) : k # i => \E j \in 1..Len(permits') : permits'[j] = permits[k]
      BY ONLY <1>a, <2>2
    <3>4. link'.connected => Shows' /\ \A j \in 1..Len(permits') : Answered(j)' => SaysSo(permits[j])'
      BY ONLY <2>2a, <2>3, <3>1, <3>2, WindowsKnown DEF WindowsKnown, Believed, Shows, SaysSo, LeftOver, Answered, WindowOf
    <3>5. link'.connected => ((\A j \in 1..Len(permits') : ~Answered(j)') => Believed')
      BY ONLY <2>2a, <2>3, <3>1, <3>3, WindowsKnown DEF WindowsKnown, Believed, Shows, SaysSo, LeftOver, Answered, WindowOf
    <3> QED BY ONLY <3>4, <3>5 DEF WindowsKnown
  <2>4. CASE ~(permits[i].app = link.app /\ link.connected)
    <3>1. link' = link BY <2>1, <2>4 DEF PermitReturns
    <3>2. \A j \in 1..Len(permits') : \E k \in 1..Len(permits) : k # i /\ permits'[j] = permits[k]
      BY ONLY <1>a, <2>2
    <3>3. \A k \in 1..Len(permits) : k # i => \E j \in 1..Len(permits') : permits'[j] = permits[k]
      BY ONLY <1>a, <2>2
    <3>4. link'.connected => Shows' /\ \A j \in 1..Len(permits') : Answered(j)' => SaysSo(permits[j])'
      BY ONLY <2>2a, <2>4, <3>1, <3>2, WindowsKnown DEF WindowsKnown, Believed, Shows, SaysSo, LeftOver, Answered, WindowOf
    <3>5. link'.connected => ((\A j \in 1..Len(permits') : ~Answered(j)') => Believed')
      BY ONLY <2>2a, <2>4, <3>1, <3>3, WindowsKnown DEF WindowsKnown, Believed, Shows, SaysSo, LeftOver, Answered, WindowOf
    <3> QED BY ONLY <3>4, <3>5 DEF WindowsKnown
  <2> QED BY <2>3, <2>4
<1>27. CASE \E i \in 1..Len(permits) : PermitFails(i)
  <2>1. PICK i \in 1..Len(permits) : PermitFails(i) BY <1>27
  <2>2. permits' = WithoutPermit(i) BY <2>1 DEF PermitFails
  <2>2a. link' = link /\ permits[i].pc = "asked"
    BY <2>1 DEF PermitFails
  <2>3. air'.window \in {air.window, Unsure} /\ air'.left = air.left /\ air'.dead = air.dead
    BY <2>1 DEF PermitFails
  <2>4. \A j \in 1..Len(permits') : \E k \in 1..Len(permits) : k # i /\ permits'[j] = permits[k]
    BY ONLY <1>a, <2>2
  <2>5. \A k \in 1..Len(permits) : k # i => \E j \in 1..Len(permits') : permits'[j] = permits[k]
    BY ONLY <1>a, <2>2
  <2>6. link'.connected => Shows' /\ \A j \in 1..Len(permits') : Answered(j)' => SaysSo(permits[j])'
    BY ONLY <2>2a, <2>3, <2>4, WindowsKnown DEF WindowsKnown, Believed, Shows, SaysSo, LeftOver, Answered, WindowOf
  <2>7. link'.connected => ((\A j \in 1..Len(permits') : ~Answered(j)') => Believed')
    BY ONLY <2>2a, <2>3, <2>5, WindowsKnown DEF WindowsKnown, Believed, Shows, SaysSo, LeftOver, Answered, WindowOf
  <2> QED BY ONLY <2>6, <2>7 DEF WindowsKnown
<1>28. CASE WindowRunsOut BY <1>28 DEF WindowRunsOut
<1>29. CASE UNCHANGED radioVars BY <1>29 DEF radioVars
<1> QED BY <1>1, <1>2, <1>3, <1>4, <1>5, <1>6, <1>7, <1>8, <1>9, <1>10, <1>11, <1>12,
       <1>13, <1>14, <1>15, <1>16, <1>17, <1>18, <1>19, <1>20, <1>21, <1>22, <1>23,
       <1>24, <1>25, <1>26, <1>27, <1>28, <1>29
     DEF RadioNext, SwapStep, KeeperStep, PermitStep

\* A window that closes, or that nobody can tell, shuts out nobody else's.
LEMMA OnesLeft ==
  ASSUME ClosesOnlyItsOwn, link'.app = link.app, air'.window \in {air.window, Unsure},
         \A j \in 1..Len(permits') : \E k \in 1..Len(permits) : permits'[j] = permits[k]
  PROVE  ClosesOnlyItsOwn'
<1> SUFFICES ASSUME NEW j \in 1..Len(permits'), permits'[j].kind = "close",
                    permits'[j].pc = "asked", permits'[j].app = link.app
             PROVE  air'.window \in {permits'[j].window, 0, Unsure}
  BY DEF ClosesOnlyItsOwn
<1>1. PICK k \in 1..Len(permits) : permits'[j] = permits[k] OBVIOUS
<1> QED BY <1>1 DEF ClosesOnlyItsOwn

\* The request of a page that is left closes that page's window or none.
LEMMA CloseStep ==
  ASSUME RadioInv, LinkKnown, PermitsKnown, WindowsKnown, ClosesOnlyItsOwn, [RadioNext]_radioVars
  PROVE  ClosesOnlyItsOwn'
<1>a. ASSUME NEW i \in 1..Len(permits), permits' = WithoutPermit(i)
      PROVE  /\ \A j \in 1..Len(permits') :
                  \E k \in 1..Len(permits) : k # i /\ permits'[j] = permits[k]
             /\ \A k \in 1..Len(permits) :
                  k # i => \E j \in 1..Len(permits') : permits'[j] = permits[k]
  BY <1>a, LeavingRest
<1>b. ASSUME link.app # 0, NEW i \in 1..Len(permits), HasPermitLock(i),
             permits[i].source = source.number \/ permits[i].app = link.app
      PROVE  \A j \in 1..Len(permits) : permits[j].app = link.app => j = i
  <2>1. permits[i].source = source.number BY <1>b DEF PermitsKnown
  <2> QED BY <1>b, <2>1, HolderIsOne
<1> USE DEF RadioInv, RadioTyped, Swaps, Sources, Keepers, Links, Airs, Spents,
     PortsHeld, LinkKnown, PermitsKnown, Asked, ClosesOnlyItsOwn, Linked, NoSource,
     NoKeeper, NoLink
<1>1. CASE \E s \in Sticks \cup {NoStick} : PutRadio(s)
  <2>1. UNCHANGED <<link, air, permits>> BY ONLY <1>1 DEF PutRadio
  <2> QED BY ONLY <2>1, ClosesOnlyItsOwn DEF ClosesOnlyItsOwn
<1>2. CASE SwapBegins BY <1>2 DEF SwapBegins
<1>3. CASE SwapReleases BY <1>3 DEF SwapReleases
<1>4. CASE SwapReleased BY <1>4 DEF SwapReleased
<1>5. CASE SwapReleaseFails BY <1>5 DEF SwapReleaseFails, MayFail, Failed
<1>6. CASE SwapBuilds BY <1>6 DEF SwapBuilds
<1>7. CASE Looks BY <1>7 DEF Looks
<1>8. CASE Woken BY <1>8 DEF Woken
<1>9. CASE ConnectBegins BY <1>9 DEF ConnectBegins
<1>10. CASE ConnectRefused BY <1>10 DEF ConnectRefused, MayFail, Failed
<1>11. CASE Prepared BY <1>11 DEF Prepared
<1>12. CASE Built
  <2>1. air'.window = air.window
    <3>1. air \in Airs OBVIOUS
    <3>2. air' = [air EXCEPT !.open = @ \cup {spent.built + 1}] \/ air' = air
      BY ONLY <1>12 DEF Built, MayFail, Failed
    <3> QED BY ONLY <3>1, <3>2 DEF Airs
  <2>2. link' = link /\ permits' = permits BY ONLY <1>12 DEF Built, MayFail, Failed
  <2> QED BY <2>1, <2>2
<1>13. CASE Started BY <1>13 DEF Started
<1>14. CASE StartFails BY <1>14 DEF StartFails, MayFail, Failed
<1>15. CASE ShutDown BY <1>15 DEF ShutDown
<1>16. CASE ShutDownFails BY <1>16 DEF ShutDownFails, MayFail, Failed
<1>17. CASE Attached BY <1>17 DEF Attached, MayFail, Failed
<1>18. CASE KeeperEnds BY <1>18 DEF KeeperEnds
<1>19. CASE \E a \in air.open : LinkDies(a)
  <2>1. PICK a \in air.open : LinkDies(a) BY <1>19
  <2>2. air'.window = air.window /\ link'.app = link.app /\ permits' = permits
    BY <2>1 DEF LinkDies
  <2> QED BY ONLY <2>2, ClosesOnlyItsOwn DEF ClosesOnlyItsOwn
<1>20. CASE RestoreBegins BY <1>20 DEF RestoreBegins, Linked
<1>21. CASE RestoreEnds BY <1>21 DEF RestoreEnds
<1>22. CASE \E kind \in {"open", "stop"} : PermitCalled(kind, 0)
  <2>1. PICK kind \in {"open", "stop"} : PermitCalled(kind, 0) BY <1>22
  <2>2. /\ \A j \in 1..Len(permits) : j \in 1..Len(permits') /\ permits'[j] = permits[j]
        /\ \A j \in 1..Len(permits') : j \in 1..Len(permits) \/ permits'[j].pc = "queued"
    <3> DEFINE r == [kind |-> kind, source |-> source.number, pc |-> "queued", app |-> 0,
                     window |-> IF kind = "open" THEN spent.permits + 1 ELSE 0]
    <3>1. permits' = Append(permits, r) BY ONLY <2>1 DEF PermitCalled
    <3>2. r.pc = "queued" /\ permits \in Seq(Requests) OBVIOUS
    <3> HIDE DEF r
    <3> QED BY ONLY <3>1, <3>2
  <2>3. UNCHANGED <<link, air>> BY <2>1 DEF PermitCalled
  <2> QED BY ONLY <2>2, <2>3, ClosesOnlyItsOwn DEF ClosesOnlyItsOwn
<1>23. CASE \E window \in 1..MaxPermits : PermitCalled("close", window)
  <2>1. PICK window \in 1..MaxPermits : PermitCalled("close", window) BY <1>23
  <2>2. /\ \A j \in 1..Len(permits) : j \in 1..Len(permits') /\ permits'[j] = permits[j]
        /\ \A j \in 1..Len(permits') : j \in 1..Len(permits) \/ permits'[j].pc = "queued"
    <3> DEFINE r == [kind |-> "close", source |-> source.number, pc |-> "queued", app |-> 0,
                     window |-> IF "close" = "open" THEN spent.permits + 1 ELSE window]
    <3>1. permits' = Append(permits, r) BY ONLY <2>1 DEF PermitCalled
    <3>2. r.pc = "queued" /\ permits \in Seq(Requests) OBVIOUS
    <3> HIDE DEF r
    <3> QED BY ONLY <3>1, <3>2
  <2>3. UNCHANGED <<link, air>> BY <2>1 DEF PermitCalled
  <2> QED BY ONLY <2>2, <2>3, ClosesOnlyItsOwn DEF ClosesOnlyItsOwn
<1>24. CASE \E i \in 1..Len(permits) : PermitTakes(i)
  <2>1. PICK i \in 1..Len(permits) : PermitTakes(i) BY <1>24
  <2>2. UNCHANGED <<link, air>> /\ permits[i].pc = "queued" BY <2>1 DEF PermitTakes
  <2>3. CASE permits' = WithoutPermit(i)
    <3>1. \A j \in 1..Len(permits') : \E k \in 1..Len(permits) : k # i /\ permits'[j] = permits[k]
      BY ONLY <1>a, <2>3
    <3>2. air'.window \in {air.window, Unsure} /\ link'.app = link.app BY ONLY <2>2
    <3>3. \A j \in 1..Len(permits') : \E k \in 1..Len(permits) : permits'[j] = permits[k]
      BY ONLY <3>1
    <3> QED BY ONLY <3>2, <3>3, ClosesOnlyItsOwn, OnesLeft
  <2>4. CASE /\ permits' = [permits EXCEPT ![i].pc = "asked", ![i].app = link.app]
             /\ permits[i].source = source.number /\ Linked /\ HasPermitLock(i)
             /\ permits[i].kind = "close" => link.window = permits[i].window
    <3>1. Changed(permits', i, "asked", link.app) BY <2>4, PermitChanges
    <3>2. \A j \in 1..Len(permits) : permits[j].app = link.app => j = i BY <1>b, <2>4
    <3>3. air.window \in {link.window, 0, Unsure}
      BY <2>2, <2>4, <3>2, WindowsKnown DEF WindowsKnown, Believed, Answered
    <3> QED BY ONLY <2>2, <2>4, <3>1, <3>3, ClosesOnlyItsOwn DEF ClosesOnlyItsOwn, Changed
  <2> QED BY <2>1, <2>3, <2>4 DEF PermitTakes
<1>25. CASE \E i \in 1..Len(permits) : RadioPermits(i)
  <2>1. PICK i \in 1..Len(permits) : RadioPermits(i) BY <1>25
  <2>2. Changed(permits', i, "answered", permits[i].app)
    <3>1. 0 \in Nat OBVIOUS
    <3> QED BY <2>1, <3>1, PermitChanges DEF RadioPermits
  <2>3. link' = link /\ permits[i].pc = "asked" BY <2>1 DEF RadioPermits
  <2>4. CASE permits[i].app = link.app
    <3>1. link.app # 0 BY <2>3, <2>4
    <3>2. \A j \in 1..Len(permits) : permits[j].app = link.app => j = i
      BY <1>b, <2>1, <2>3, <2>4, <3>1 DEF RadioPermits
    <3> QED BY ONLY <2>2, <2>3, <3>2 DEF ClosesOnlyItsOwn, Changed
  <2>5. CASE permits[i].app # link.app
    <3>1. air' = air BY <2>1, <2>5 DEF RadioPermits
    <3> QED BY ONLY <2>2, <2>3, <2>5, <3>1, ClosesOnlyItsOwn DEF ClosesOnlyItsOwn, Changed
  <2> QED BY <2>4, <2>5
<1>26. CASE \E i \in 1..Len(permits) : PermitReturns(i)
  <2>1. PICK i \in 1..Len(permits) : PermitReturns(i) BY <1>26
  <2>2. permits' = WithoutPermit(i) BY <2>1 DEF PermitReturns
  <2>3. air' = air /\ link'.app = link.app BY <2>1 DEF PermitReturns
  <2>4. \A j \in 1..Len(permits') : \E k \in 1..Len(permits) : k # i /\ permits'[j] = permits[k]
    BY ONLY <1>a, <2>2
  <2>5. air'.window \in {air.window, Unsure} /\ link'.app = link.app BY ONLY <2>3
  <2>6. \A j \in 1..Len(permits') : \E k \in 1..Len(permits) : permits'[j] = permits[k]
    BY ONLY <2>4
  <2> QED BY ONLY <2>5, <2>6, ClosesOnlyItsOwn, OnesLeft
<1>27. CASE \E i \in 1..Len(permits) : PermitFails(i)
  <2>1. PICK i \in 1..Len(permits) : PermitFails(i) BY <1>27
  <2>2. permits' = WithoutPermit(i) BY <2>1 DEF PermitFails
  <2>3. link' = link /\ air'.window \in {air.window, Unsure} BY <2>1 DEF PermitFails
  <2>4. \A j \in 1..Len(permits') : \E k \in 1..Len(permits) : k # i /\ permits'[j] = permits[k]
    BY ONLY <1>a, <2>2
  <2>5. air'.window \in {air.window, Unsure} /\ link'.app = link.app BY ONLY <2>3
  <2>6. \A j \in 1..Len(permits') : \E k \in 1..Len(permits) : permits'[j] = permits[k]
    BY ONLY <2>4
  <2> QED BY ONLY <2>5, <2>6, ClosesOnlyItsOwn, OnesLeft
<1>28. CASE WindowRunsOut BY <1>28 DEF WindowRunsOut
<1>29. CASE UNCHANGED radioVars BY <1>29 DEF radioVars
<1> QED BY <1>1, <1>2, <1>3, <1>4, <1>5, <1>6, <1>7, <1>8, <1>9, <1>10, <1>11, <1>12,
       <1>13, <1>14, <1>15, <1>16, <1>17, <1>18, <1>19, <1>20, <1>21, <1>22, <1>23,
       <1>24, <1>25, <1>26, <1>27, <1>28, <1>29
     DEF RadioNext, SwapStep, KeeperStep, PermitStep

\* A set within a singleton.
LEMMA AtMostOne ==
  ASSUME NEW S, NEW x, S \subseteq {x}
  PROVE  Cardinality(S) <= 1
<1>1. IsFiniteSet({x}) /\ Cardinality({x}) = 1 BY FS_Singleton
<1>2. Cardinality(S) <= Cardinality({x}) BY <1>1, FS_Subset
<1> QED BY <1>1, <1>2

\* A bridge that starts.
LEMMA RadioInitInv == RadioInit => RadioInv
<1> SUFFICES ASSUME RadioInit PROVE RadioInv OBVIOUS
<1> USE RadioBounds DEF RadioInit
<1>1. PortsHeld BY DEF PortsHeld, NoLink, NoKeeper
<1>2. SwapKnown BY DEF SwapKnown, NoSource, NoKeeper, NoLink
<1>3. RadioTyped
  <2>1. setting \in Sticks \cup {NoStick} /\ applies = <<setting>> OBVIOUS
  <2>2. applies \in Seq(Sticks \cup {NoStick}) /\ Len(applies) <= 1 BY <2>1
  <2>3. swap \in Swaps /\ keeper \in Keepers BY DEF Swaps, Keepers, NoKeeper
  <2>4. source \in Sources BY DEF Sources, NoSource
  <2>5. link \in Links BY DEF Links, NoLink
  <2>6. air \in Airs BY DEF Airs
  <2>7. permits \in Seq(Requests) /\ restoring \in 0..(MaxApplies + 1) OBVIOUS
  <2>8. spent \in Spents /\ spent.applies = 0 BY DEF Spents
  <2> QED BY <2>1, <2>2, <2>3, <2>4, <2>5, <2>6, <2>7, <2>8 DEF RadioTyped
<1> QED BY <1>1, <1>2, <1>3 DEF RadioInv

\* At most one of the three holders is there, so at most one port is open.
LEMMA RadioInvPort == RadioInv => RadioTypeOK /\ OnePort /\ AppliedIsSupervised
<1> SUFFICES ASSUME RadioInv PROVE RadioTypeOK /\ OnePort /\ AppliedIsSupervised OBVIOUS
<1>1. RadioTypeOK BY DEF RadioInv, RadioTyped, RadioTypeOK, Swaps, Sources, Keepers, Links, Airs
<1>2. 0 \notin air.open BY <1>1 DEF RadioInv, PortsHeld, RadioTyped, Spents
<1>3. \E x : air.open \ air.stuck \subseteq {x}
  <2>1. CASE link.app # 0 BY <1>2, <2>1 DEF RadioInv, PortsHeld
  <2>2. CASE link.app = 0 /\ keeper.app # 0 BY <1>2, <2>2 DEF RadioInv, PortsHeld
  <2>3. CASE link.app = 0 /\ keeper.app = 0 BY <1>2, <2>3 DEF RadioInv, PortsHeld
  <2> QED BY <2>1, <2>2, <2>3
<1>4. OnePort BY <1>3, AtMostOne DEF OnePort
<1>5. AppliedIsSupervised BY <1>2 DEF AppliedIsSupervised, RadioInv, PortsHeld, SwapKnown
<1> QED BY <1>1, <1>4, <1>5

(* For any sticks, changes, failures and losses, however they fall between *)
(* the steps of a swap and those of a supervisor: no two ports are open *)
(* unless a shutdown failed on one, and once all changes are applied the *)
(* stick of the setting is supervised and no other (zigbee/runtime.py, *)
(* zigbee/source.py, sources/supervisor.py). *)
THEOREM OnePortAlways == RadioSpec => [](RadioTypeOK /\ OnePort /\ AppliedIsSupervised)
<1>1. RadioInv /\ [RadioNext]_radioVars => RadioInv'
  BY RadioTypedStep, PortsStep, SwapKnownStep DEF RadioInv
<1> QED BY <1>1, RadioInitInv, RadioInvPort, PTL DEF RadioSpec

\* All of it.
RadioInvAll == RadioInv /\ LinkKnown /\ PermitsKnown /\ WindowsKnown /\ ClosesOnlyItsOwn

\* It implies what the run checks.
LEMMA RadioInvSafe == RadioInvAll => RadioSafe
<1> SUFFICES ASSUME RadioInvAll PROVE RadioSafe OBVIOUS
<1>1. RadioTypeOK /\ OnePort /\ AppliedIsSupervised BY RadioInvPort DEF RadioInvAll
<1>2. NotParkedOnDeadLink BY DEF RadioInvAll, LinkKnown, NotParkedOnDeadLink
<1>3. WindowIsTheRadios
  BY DEF RadioInvAll, LinkKnown, WindowsKnown, Believed, Shows, Answered, Linked, LeftOver,
     WindowIsTheRadios
<1> QED BY <1>1, <1>2, <1>3 DEF RadioSafe, RadioInvAll

(* Whatever is lost or fails: the supervisor waits on a dead link only if it *)
(* died late, inside the startup() that succeeded; the source believes in *)
(* the window the coordinator has, or in one left over from a link that was *)
(* given up while it stood; and a page that is left closes no window but its *)
(* own (_watch, connection_lost, permit, close_window_ending of *)
(* zigbee/source.py). *)
THEOREM RadioIsSafe == RadioSpec => []RadioSafe
<1>1. RadioInit => RadioInvAll
  <2> SUFFICES ASSUME RadioInit PROVE RadioInvAll OBVIOUS
  <2>1. LinkKnown /\ WindowsKnown /\ ClosesOnlyItsOwn
    BY DEF RadioInit, LinkKnown, WindowsKnown, ClosesOnlyItsOwn, NoLink, NoKeeper
  <2>2. PermitsKnown BY DEF RadioInit, PermitsKnown, NoLink
  <2> QED BY <2>1, <2>2, RadioInitInv DEF RadioInvAll
<1>2. RadioInvAll /\ [RadioNext]_radioVars => RadioInvAll'
  BY RadioTypedStep, PortsStep, SwapKnownStep, LinkStep, PermitsStep, WindowsStep, CloseStep DEF
     RadioInv, RadioInvAll
<1> QED BY <1>1, <1>2, RadioInvSafe, PTL DEF RadioSpec

----------------------------------------
(* The configuration of a Zigbee device (ZigbeeConfigure). *)

\* What a pass has still to do has a first cluster.
LEMMA FirstFacts ==
    ASSUME NEW todo \in SUBSET Clusters, todo # {}
    PROVE  First(todo) \in todo
<1> DEFINE places == {Position(c) : c \in todo}
<1>1. \A c \in Clusters : Position(c) \in Nat
  <2> SUFFICES ASSUME NEW c \in Clusters PROVE Position(c) \in Nat OBVIOUS
  <2>1. \E i \in DOMAIN ClusterOrder : ClusterOrder[i] = c BY DEF Clusters
  <2>2. Position(c) \in DOMAIN ClusterOrder BY <2>1 DEF Position
  <2>3. DOMAIN ClusterOrder \subseteq Nat BY ConfigureAssumption DEF ConfigureAssumption
  <2> QED BY <2>2, <2>3
<1>2. places \subseteq Nat /\ places # {} BY <1>1
<1>3. PICK x \in places : \A y \in places : ~(<<y, x>> \in OpToRel(<, Nat))
  BY ONLY <1>2, NatLessThanWellFounded, WFMin
<1>4. PICK c \in todo : x = Position(c) BY <1>3
<1>5. \A d \in todo : Position(c) <= Position(d)
  <2> TAKE d \in todo
  <2>1. Position(c) \in Nat /\ Position(d) \in Nat BY <1>1
  <2>2. ~(Position(d) < Position(c)) BY <1>3, <1>4, <2>1 DEF OpToRel
  <2> QED BY <2>1, <2>2
<1> QED BY <1>4, <1>5 DEF First

----------------------------------------
(* The inductive invariant.  Whoever is at work belongs to the object of now *)
(* unless something is astray; a cluster that is neither configured nor owed *)
(* is ahead of a pass, and what is owed is watched or will be by a pass. *)

Works == [kind : {"none", "pass", "retry"}, at : {"next", "asking"},
          todo : SUBSET Clusters, deferred : BOOLEAN, mine : BOOLEAN]

CfgTyped ==
  /\ member \in BOOLEAN /\ radio \in BOOLEAN /\ watched \in BOOLEAN /\ leaving \in BOOLEAN
  /\ cut \in BOOLEAN /\ stray \in BOOLEAN /\ amnesia \in BOOLEAN
  /\ bound \subseteq Clusters /\ owed \subseteq Clusters
  /\ ripe \subseteq due /\ due \subseteq Refusing
  /\ work \in [Tasks -> Works]
  /\ polling \in [at : {"asleep", "reading"}, todo : SUBSET Refusing]

WorkShaped ==
  \A t \in Tasks : /\ work[t].kind = "none" => work[t] = NoWork
                   /\ work[t].at = "asking" => work[t].todo # {}

WorkIsMine ==
  ~stray => \A t \in Tasks : work[t].mine /\ (work[t].kind = "retry" => watched)

PassOf(t) == work[t].kind = "pass"
Ahead(t) ==
  /\ PassOf(t)
  /\ Clusters \subseteq bound \cup owed \cup work[t].todo
  /\ work[t].at = "asking" => First(work[t].todo) \in bound \cup owed
AllAhead == member /\ ~cut => (Clusters \subseteq bound \cup owed \/ \E t \in Tasks : Ahead(t))

WillWatch(c, t) == PassOf(t) /\ (work[t].deferred \/ c \in work[t].todo)
DebtsWatched ==
  member /\ ~stray /\ ~cut => \A c \in owed : watched \/ \E t \in Tasks : WillWatch(c, t)

GoneIsBare ==
  /\ ~member => bound = {}
  /\ ~member /\ ~stray => owed = {} /\ \A t \in Tasks : work[t].kind = "none"

RefusedPolled == ~amnesia => bound \cap Refusing \subseteq due

CfgInv ==
  /\ CfgTyped /\ WorkShaped /\ WorkIsMine /\ AllAhead /\ DebtsWatched
  /\ GoneIsBare /\ RefusedPolled

\* A bridge that starts.
LEMMA CfgInitInv == ConfigureInit => CfgInv
<1> SUFFICES ASSUME ConfigureInit PROVE CfgInv OBVIOUS
<1> USE DEF ConfigureInit
<1>1. CfgTyped BY DEF CfgTyped, Works, NoWork, NoTick
<1>2. WorkShaped /\ WorkIsMine BY DEF WorkShaped, WorkIsMine, NoWork
<1>3. AllAhead /\ DebtsWatched /\ RefusedPolled BY DEF AllAhead, DebtsWatched, RefusedPolled
<1>4. GoneIsBare BY DEF GoneIsBare, NoWork
<1> QED BY <1>1, <1>2, <1>3, <1>4 DEF CfgInv

----------------------------------------
(* "ready" events *)

\* What a pass starts with.
LEMMA PassTyped == Pass \in Works /\ NoWork \in Works
  BY DEF Pass, NoWork, Works

\* (Field by field.)
LEMMA PassFacts ==
  /\ Pass.kind = "pass" /\ Pass.at = "next" /\ Pass.todo = Clusters /\ Pass.mine
  /\ NoWork.kind = "none" /\ NoWork.at = "next" /\ NoWork.mine
  BY DEF Pass, NoWork

\* Whose object is replaced goes on as before.
LEMMA OrphansTyped ==
    ASSUME work \in [Tasks -> Works]
    PROVE  /\ Orphaned(work) \in [Tasks -> Works]
           /\ \A t \in Tasks : /\ Orphaned(work)[t].kind = work[t].kind
                               /\ Orphaned(work)[t].at = work[t].at
                               /\ Orphaned(work)[t].todo = work[t].todo
                               /\ Orphaned(work)[t].deferred = work[t].deferred
                               /\ work[t].kind = "none" => Orphaned(work)[t] = work[t]
<1> SUFFICES ASSUME NEW t \in Tasks
             PROVE  /\ Orphaned(work)[t] \in Works
                    /\ Orphaned(work)[t].kind = work[t].kind
                    /\ Orphaned(work)[t].at = work[t].at
                    /\ Orphaned(work)[t].todo = work[t].todo
                    /\ Orphaned(work)[t].deferred = work[t].deferred
                    /\ work[t].kind = "none" => Orphaned(work)[t] = work[t]
  BY DEF Orphaned
<1>1. work[t] \in Works OBVIOUS
<1> QED BY <1>1 DEF Orphaned, Works

\* A new pass covers everything.
LEMMA ReadyStep == ASSUME CfgInv, Joins \/ Reinterviewed PROVE CfgInv'
<1> USE DEF CfgInv
<1>1. CASE Joins
  <2> PICK t \in Tasks :
        /\ work[t] = NoWork /\ member' = TRUE /\ bound' = {}
        /\ work' = [work EXCEPT ![t] = Pass]
        /\ UNCHANGED <<radio, owed, due, ripe, watched, polling, leaving, cut, stray, amnesia>>
    BY <1>1 DEF Joins
  <2>1. CfgTyped' BY PassTyped DEF CfgTyped
  <2>2. work'[t] = Pass /\ \A u \in Tasks \ {t} : work'[u] = work[u] BY DEF CfgTyped
  <2>3. WorkShaped' BY <2>2 DEF WorkShaped, Pass, NoWork
  <2>4. WorkIsMine' BY <2>2 DEF WorkIsMine, Pass, NoWork
  <2>5. AllAhead'
    <3>1. Ahead(t)' BY ONLY <2>2, PassFacts DEF Ahead, PassOf
    <3> QED BY <3>1 DEF AllAhead
  <2>6. DebtsWatched'
    <3>1. \A c \in Clusters : WillWatch(c, t)' BY ONLY <2>2, PassFacts DEF WillWatch, PassOf
    <3> QED BY <3>1 DEF DebtsWatched, CfgTyped
  <2>7. GoneIsBare' /\ RefusedPolled' BY DEF GoneIsBare, RefusedPolled
  <2> QED BY <2>1, <2>3, <2>4, <2>5, <2>6, <2>7
<1>2. CASE Reinterviewed
  <2> PICK t \in Tasks :
        /\ work[t] = NoWork /\ member /\ watched' = FALSE
        /\ work' = [Orphaned(work) EXCEPT ![t] = Pass]
        /\ stray' = (stray \/ AtWork)
        /\ UNCHANGED <<member, radio, bound, owed, due, ripe, polling, leaving, cut, amnesia>>
    BY <1>2 DEF Reinterviewed
  <2>t. work \in [Tasks -> Works]
    BY DEF CfgTyped
  <2>o. Orphaned(work) \in [Tasks -> Works]
    BY <2>t, OrphansTyped
  <2>w. work' \in [Tasks -> Works]
    BY ONLY <2>o, PassTyped, work' = [Orphaned(work) EXCEPT ![t] = Pass]
  <2>1. CfgTyped' BY <2>w DEF CfgTyped
  <2>2. work'[t] = Pass /\ \A u \in Tasks \ {t} : work'[u] = Orphaned(work)[u] BY <2>o
  <2>f. \A u \in Tasks \ {t} : /\ work'[u].kind = work[u].kind /\ work'[u].at = work[u].at
                               /\ work'[u].todo = work[u].todo
                               /\ work[u].kind = "none" => work'[u] = work[u]
    BY <2>2, <2>t, OrphansTyped
  <2>3. WorkShaped'
    <3>1. work'[t].kind # "none" /\ work'[t].at # "asking" BY ONLY <2>2, PassFacts
    <3>2. \A u \in Tasks \ {t} : /\ work[u].kind = "none" => work[u] = NoWork
                                 /\ work[u].at = "asking" => work[u].todo # {}
      BY DEF WorkShaped
    <3>3. ASSUME NEW u \in Tasks \ {t}
          PROVE  /\ work'[u].kind = "none" => work'[u] = NoWork
                 /\ work'[u].at = "asking" => work'[u].todo # {}
      BY ONLY <3>2, <2>f, u \in Tasks \ {t}
    <3> QED BY ONLY <3>1, <3>3 DEF WorkShaped, NoWork
  <2>4. WorkIsMine'
    <3> SUFFICES ASSUME ~stray', NEW u \in Tasks
                 PROVE  work'[u].mine /\ (work'[u].kind = "retry" => watched')
      BY DEF WorkIsMine
    <3>1. \A v \in Tasks : work[v] = NoWork BY DEF WorkShaped, AtWork
    <3>2. CASE u = t BY ONLY <2>2, <3>2, PassFacts
    <3>3. CASE u # t
      <4>1. work'[u] = NoWork BY <2>f, <3>1, <3>3, PassFacts
      <4> QED BY ONLY <4>1, PassFacts
    <3> QED BY <3>2, <3>3
  <2>5. AllAhead'
    <3>1. Ahead(t)' BY ONLY <2>2, PassFacts DEF Ahead, PassOf
    <3> QED BY <3>1 DEF AllAhead
  <2>6. DebtsWatched'
    <3>1. \A c \in Clusters : WillWatch(c, t)' BY ONLY <2>2, PassFacts DEF WillWatch, PassOf
    <3> QED BY <3>1 DEF DebtsWatched, CfgTyped
  <2>7. GoneIsBare' /\ RefusedPolled' BY DEF GoneIsBare, RefusedPolled
  <2> QED BY <2>1, <2>3, <2>4, <2>5, <2>6, <2>7
<1> QED BY <1>1, <1>2
----------------------------------------
(* Passes and retries *)

\* What is asked of a cluster is owed first.
LEMMA AsksKeeps == ASSUME CfgInv, NEW t \in Tasks, Asks(t) PROVE CfgInv'
<1> DEFINE c == First(work[t].todo)
<1>t. CfgTyped /\ work[t] \in Works
  BY DEF CfgInv, CfgTyped
<1>c. c \in work[t].todo /\ c \in Clusters
  BY <1>t, FirstFacts DEF Asks, Works
<1>a. /\ work[t].kind \in {"pass", "retry"}
      /\ owed' = owed \cup {c}
      /\ work' = [work EXCEPT ![t].at = "asking"]
      /\ UNCHANGED <<member, radio, bound, due, ripe, watched, polling, leaving,
                     cut, stray, amnesia>>
  BY <1>t DEF Asks, Works
<1>w. \A u \in Tasks : /\ work'[u].kind = work[u].kind
                       /\ work'[u].todo = work[u].todo
                       /\ work'[u].deferred = work[u].deferred
                       /\ work'[u].mine = work[u].mine
  BY <1>a, <1>t DEF CfgTyped, Works
<1>u. \A u \in Tasks \ {t} : work'[u] = work[u]
  BY <1>a, <1>t DEF CfgTyped
<1>n. work[t].todo # {}
  BY DEF Asks
<1> HIDE DEF c
<1>1. CfgTyped'
  <2>1. work' \in [Tasks -> Works] BY <1>a, <1>t DEF CfgTyped, Works
  <2> QED BY <2>1, <1>a, <1>c, <1>t DEF CfgTyped
<1>2. WorkShaped'
  <2>1. WorkShaped BY DEF CfgInv
  <2> QED BY <2>1, <1>w, <1>u, <1>a, <1>n DEF WorkShaped, NoWork
<1>3. WorkIsMine' BY <1>w, <1>a DEF CfgInv, WorkIsMine
<1>4. AllAhead'
  <2> SUFFICES ASSUME member, ~cut
               PROVE  Clusters \subseteq bound' \cup owed' \/ \E u \in Tasks : Ahead(u)'
    BY <1>a DEF AllAhead
  <2>1. CASE Clusters \subseteq bound \cup owed BY <2>1, <1>a
  <2>2. CASE \E u \in Tasks : Ahead(u)
    <3> PICK u \in Tasks : Ahead(u) BY <2>2
    <3>1. PassOf(u)' /\ Clusters \subseteq bound' \cup owed' \cup work'[u].todo
      BY <1>a, <1>w DEF Ahead, PassOf
    <3>2. work'[u].at = "asking" => First(work'[u].todo) \in bound' \cup owed'
      BY <1>a, <1>w, <1>u DEF Ahead, c
    <3> QED BY <3>1, <3>2 DEF Ahead
  <2> QED BY <2>1, <2>2 DEF CfgInv, AllAhead
<1>5. DebtsWatched'
  <2> SUFFICES ASSUME member, ~stray, ~cut, NEW d \in owed'
               PROVE  watched \/ \E u \in Tasks : WillWatch(d, u)'
    BY <1>a DEF DebtsWatched
  <2>2. CASE d \in owed
    <3>1. watched \/ \E u \in Tasks : WillWatch(d, u) BY <2>2 DEF CfgInv, DebtsWatched
    <3> QED BY <3>1, <1>w DEF WillWatch, PassOf
  <2>3. CASE d = c
    <3>1. work[t].kind = "retry" => watched BY DEF CfgInv, WorkIsMine
    <3>2. work[t].kind = "pass" => WillWatch(d, t)' BY <2>3, <1>w, <1>c DEF WillWatch, PassOf
    <3> QED BY <3>1, <3>2, <1>a
  <2> QED BY <2>2, <2>3, <1>a
<1>6. GoneIsBare' /\ RefusedPolled' BY <1>a, <1>w DEF CfgInv, GoneIsBare, RefusedPolled
<1> QED BY <1>1, <1>2, <1>3, <1>4, <1>5, <1>6 DEF CfgInv

\* One cluster is done with: the task goes on with the rest.
LEMMA GoesOn ==
    ASSUME work \in [Tasks -> Works], NEW t \in Tasks
    PROVE  /\ Further(t) \in [Tasks -> Works]
           /\ \A u \in Tasks : /\ Further(t)[u].kind = work[u].kind
                               /\ Further(t)[u].mine = work[u].mine
                               /\ Further(t)[u].deferred = work[u].deferred
           /\ \A u \in Tasks \ {t} : Further(t)[u] = work[u]
           /\ Further(t)[t].at = "next"
           /\ Further(t)[t].todo = work[t].todo \ {First(work[t].todo)}
<1>1. work[t] \in Works OBVIOUS
<1> DEFINE rest == [work[t] EXCEPT !.at = "next", !.todo = @ \ {First(work[t].todo)}]
<1>2. Further(t) = [work EXCEPT ![t] = rest] BY <1>1 DEF Further, Works
<1>3. /\ rest \in Works /\ rest.kind = work[t].kind /\ rest.mine = work[t].mine
      /\ rest.at = "next" /\ rest.todo = work[t].todo \ {First(work[t].todo)}
      /\ rest.deferred = work[t].deferred
  BY <1>1 DEF Works
<1> HIDE DEF rest
<1> QED BY <1>2, <1>3

\* The same where it failed.
LEMMA GoesOnLate ==
    ASSUME work \in [Tasks -> Works], NEW t \in Tasks,
           work' = [Further(t) EXCEPT ![t].deferred = TRUE]
    PROVE  /\ work' \in [Tasks -> Works]
           /\ \A u \in Tasks : work'[u].kind = work[u].kind /\ work'[u].mine = work[u].mine
           /\ \A u \in Tasks \ {t} : work'[u] = work[u]
           /\ work'[t].at = "next" /\ work'[t].deferred
           /\ work'[t].todo = work[t].todo \ {First(work[t].todo)}
<1> DEFINE rest == Further(t)[t]
           late == [rest EXCEPT !.deferred = TRUE]
<1>1. Further(t) \in [Tasks -> Works] /\ rest \in Works BY GoesOn
<1>2. /\ late \in Works /\ late.kind = rest.kind /\ late.mine = rest.mine
      /\ late.at = rest.at /\ late.todo = rest.todo /\ late.deferred
  BY <1>1 DEF Works
<1>3. work' = [Further(t) EXCEPT ![t] = late] OBVIOUS
<1>4. work' \in [Tasks -> Works] /\ work'[t] = late
      /\ \A u \in Tasks \ {t} : work'[u] = Further(t)[u]
  <2> HIDE DEF late
  <2> QED BY <1>1, <1>2, <1>3
<1> HIDE DEF late
<1> QED BY <1>2, <1>4, GoesOn

\* A cluster that is configured is owed no more, and polled if it refused.
LEMMA SucceedsKeeps == ASSUME CfgInv, NEW t \in Tasks, Succeeds(t) PROVE CfgInv'
<1> DEFINE c == First(work[t].todo)
<1>t. CfgTyped /\ work[t] \in Works
  BY DEF CfgInv, CfgTyped
<1>a. /\ work[t].at = "asking" /\ member
      /\ bound' = bound \cup {c} /\ owed' = owed \ {c}
      /\ due' = (IF c \in Refusing THEN due \cup {c} ELSE due)
      /\ ripe' = (IF c \in Refusing THEN ripe \ {c} ELSE ripe)
      /\ work' = Further(t)
      /\ UNCHANGED <<member, radio, watched, polling, leaving, cut, stray, amnesia>>
  BY DEF Succeeds
<1>c. c \in work[t].todo /\ c \in Clusters
  BY <1>t, <1>a, FirstFacts DEF CfgInv, WorkShaped, Works
<1>g. /\ work' \in [Tasks -> Works]
      /\ \A u \in Tasks : /\ work'[u].kind = work[u].kind
                          /\ work'[u].mine = work[u].mine
                          /\ work'[u].deferred = work[u].deferred
      /\ \A u \in Tasks \ {t} : work'[u] = work[u]
      /\ work'[t].at = "next" /\ work'[t].todo = work[t].todo \ {c}
  <2>1. work \in [Tasks -> Works] BY <1>t DEF CfgTyped
  <2> QED BY <2>1, <1>a, GoesOn
<1> HIDE DEF c
<1>1. CfgTyped'
  <2>1. bound' \subseteq Clusters /\ owed' \subseteq Clusters BY <1>a, <1>c, <1>t DEF CfgTyped
  <2>2. ripe' \subseteq due' /\ due' \subseteq Refusing BY <1>a, <1>t DEF CfgTyped
  <2> QED BY <2>1, <2>2, <1>a, <1>g, <1>t DEF CfgTyped
<1>2. WorkShaped'
  <2>1. WorkShaped BY DEF CfgInv
  <2>2. work[t].kind # "none" BY <2>1, <1>a DEF WorkShaped, NoWork
  <2> QED BY <2>1, <2>2, <1>g DEF WorkShaped, NoWork
<1>3. WorkIsMine' BY <1>g, <1>a DEF CfgInv, WorkIsMine
<1>4. AllAhead'
  <2> SUFFICES ASSUME member, ~cut
               PROVE  Clusters \subseteq bound' \cup owed' \/ \E u \in Tasks : Ahead(u)'
    BY <1>a DEF AllAhead
  <2>1. CASE Clusters \subseteq bound \cup owed BY <2>1, <1>a
  <2>2. CASE \E u \in Tasks : Ahead(u)
    <3> PICK u \in Tasks : Ahead(u) BY <2>2
    <3>1. PassOf(u)' BY <1>g DEF Ahead, PassOf
    <3>2. Clusters \subseteq bound' \cup owed' \cup work'[u].todo BY <1>a, <1>g DEF Ahead
    <3>3. work'[u].at = "asking" => First(work'[u].todo) \in bound' \cup owed'
      BY <1>a, <1>g DEF Ahead
    <3> QED BY <3>1, <3>2, <3>3 DEF Ahead
  <2> QED BY <2>1, <2>2 DEF CfgInv, AllAhead
<1>5. DebtsWatched'
  <2> SUFFICES ASSUME member, ~stray, ~cut, NEW d \in owed'
               PROVE  watched \/ \E u \in Tasks : WillWatch(d, u)'
    BY <1>a DEF DebtsWatched
  <2>1. d \in owed /\ d # c BY <1>a
  <2>2. watched \/ \E u \in Tasks : WillWatch(d, u) BY <2>1 DEF CfgInv, DebtsWatched
  <2>3. \A u \in Tasks : WillWatch(d, u) => WillWatch(d, u)' BY <1>g, <2>1 DEF WillWatch, PassOf
  <2> QED BY <2>2, <2>3
<1>6. GoneIsBare' /\ RefusedPolled' BY <1>a DEF CfgInv, GoneIsBare, RefusedPolled
<1> QED BY <1>1, <1>2, <1>3, <1>4, <1>5, <1>6 DEF CfgInv

\* A cluster that failed stays owed, and the pass will see to it.
LEMMA FailsKeeps == ASSUME CfgInv, NEW t \in Tasks, Fails(t) PROVE CfgInv'
<1> DEFINE c == First(work[t].todo)
<1>t. CfgTyped /\ work[t] \in Works
  BY DEF CfgInv, CfgTyped
<1>a. /\ work[t].at = "asking"
      /\ work' = [Further(t) EXCEPT ![t].deferred = TRUE]
      /\ UNCHANGED <<member, radio, bound, owed, due, ripe, watched, polling, leaving,
                     cut, stray, amnesia>>
  BY DEF Fails
<1>g. /\ work' \in [Tasks -> Works]
      /\ \A u \in Tasks : work'[u].kind = work[u].kind /\ work'[u].mine = work[u].mine
      /\ \A u \in Tasks \ {t} : work'[u] = work[u]
      /\ work'[t].at = "next" /\ work'[t].todo = work[t].todo \ {c} /\ work'[t].deferred
  <2>1. work \in [Tasks -> Works] BY <1>t DEF CfgTyped
  <2> QED BY <2>1, <1>a, GoesOnLate
<1> HIDE DEF c
<1>1. CfgTyped' BY <1>a, <1>g, <1>t DEF CfgTyped
<1>2. WorkShaped'
  <2>1. WorkShaped BY DEF CfgInv
  <2>2. work[t].kind # "none" BY <2>1, <1>a DEF WorkShaped, NoWork
  <2> QED BY <2>1, <2>2, <1>g DEF WorkShaped, NoWork
<1>3. WorkIsMine' BY <1>g, <1>a DEF CfgInv, WorkIsMine
<1>4. AllAhead'
  <2>1. \A u \in Tasks : Ahead(u) => Ahead(u)' BY <1>a, <1>g DEF Ahead, PassOf, c
  <2> QED BY <2>1, <1>a DEF CfgInv, AllAhead
<1>5. DebtsWatched'
  <2>1. \A d \in owed, u \in Tasks : WillWatch(d, u) => WillWatch(d, u)'
    BY <1>g DEF WillWatch, PassOf
  <2> QED BY <2>1, <1>a DEF CfgInv, DebtsWatched
<1>6. GoneIsBare' /\ RefusedPolled' BY <1>a, <1>g DEF CfgInv, GoneIsBare, RefusedPolled
<1> QED BY <1>1, <1>2, <1>3, <1>4, <1>5, <1>6 DEF CfgInv

\* A task that ends was not ahead of anything; one that is cut short leaves
\* the device to itself.
LEMMA EndsKeep ==
    ASSUME CfgInv, NEW t \in Tasks, PassEnds(t) \/ PassRaises(t) \/ RetryEnds(t)
    PROVE  CfgInv'
<1>t. CfgTyped /\ work[t] \in Works
  BY DEF CfgInv, CfgTyped
<1>a. /\ work[t].kind \in {"pass", "retry"} /\ work[t].at = "next"
      /\ work' = [work EXCEPT ![t] = NoWork]
      /\ UNCHANGED <<member, radio, bound, owed, due, ripe, polling, leaving, stray, amnesia>>
  BY DEF PassEnds, PassRaises, RetryEnds
<1>b. /\ cut' \in BOOLEAN /\ watched' \in BOOLEAN
      /\ cut => cut'
      /\ watched => watched'
  BY <1>t DEF PassEnds, PassRaises, RetryEnds, CfgTyped, Works
<1>e. \/ cut'
      \/ work[t].todo = {} /\ (work[t].kind = "pass" /\ work[t].deferred /\ work[t].mine => watched')
  BY DEF PassEnds, PassRaises, RetryEnds
<1>g. work'[t] = NoWork /\ \A u \in Tasks \ {t} : work'[u] = work[u]
  BY <1>a, <1>t DEF CfgTyped
<1>n. NoWork.kind = "none" /\ NoWork.at = "next" /\ NoWork.mine /\ NoWork \in Works
  BY PassFacts, PassTyped
<1>1. CfgTyped'
  <2>1. work' \in [Tasks -> Works] BY <1>a, <1>t, <1>n DEF CfgTyped
  <2> QED BY <2>1, <1>a, <1>b, <1>t DEF CfgTyped
<1>2. WorkShaped'
  <2>1. WorkShaped BY DEF CfgInv
  <2> QED BY <2>1, <1>g DEF WorkShaped, NoWork
<1>3. WorkIsMine'
  <2>1. WorkIsMine BY DEF CfgInv
  <2> QED BY <2>1, <1>g, <1>n, <1>a, <1>b DEF WorkIsMine
<1>4. AllAhead'
  <2> SUFFICES ASSUME member, ~cut'
               PROVE  Clusters \subseteq bound \cup owed \/ \E u \in Tasks : Ahead(u)'
    BY <1>a DEF AllAhead
  <2>1. Clusters \subseteq bound \cup owed \/ \E u \in Tasks : Ahead(u)
    BY <1>b DEF CfgInv, AllAhead
  <2>2. \A u \in Tasks \ {t} : Ahead(u) => Ahead(u)' BY <1>a, <1>g DEF Ahead, PassOf
  <2>3. Ahead(t) => Clusters \subseteq bound \cup owed BY <1>e DEF Ahead
  <2> QED BY <2>1, <2>2, <2>3
<1>5. DebtsWatched'
  <2> SUFFICES ASSUME member, ~stray, ~cut', NEW d \in owed
               PROVE  watched' \/ \E u \in Tasks : WillWatch(d, u)'
    BY <1>a DEF DebtsWatched
  <2>1. watched \/ \E u \in Tasks : WillWatch(d, u) BY <1>b DEF CfgInv, DebtsWatched
  <2>2. \A u \in Tasks \ {t} : WillWatch(d, u) => WillWatch(d, u)' BY <1>g DEF WillWatch, PassOf
  <2>3. work[t].mine BY DEF CfgInv, WorkIsMine
  <2>4. WillWatch(d, t) => watched' BY <1>e, <2>3 DEF WillWatch, PassOf
  <2> QED BY <2>1, <2>2, <2>4, <1>b
<1>6. GoneIsBare' /\ RefusedPolled' BY <1>a, <1>g, <1>n DEF CfgInv, GoneIsBare, RefusedPolled
<1> QED BY <1>1, <1>2, <1>3, <1>4, <1>5, <1>6 DEF CfgInv

\* A retry needs a watcher, and stays with its object.
LEMMA HeardKeeps == ASSUME CfgInv, Heard PROVE CfgInv'
<1> DEFINE retry == [NoWork EXCEPT !.kind = "retry", !.todo = owed]
<1>t. CfgTyped
  BY DEF CfgInv
<1>h. PICK t \in Tasks :
        /\ watched /\ member /\ work[t] = NoWork
        /\ work' = [work EXCEPT ![t] = retry]
        /\ UNCHANGED <<member, radio, bound, owed, due, ripe, watched, polling, leaving,
                       cut, stray, amnesia>>
  BY DEF Heard
<1>r. retry \in Works /\ retry.kind = "retry" /\ retry.at = "next" /\ retry.mine
  BY <1>t DEF NoWork, Works, CfgTyped
<1>n. NoWork.kind = "none"
  BY PassFacts
<1> HIDE DEF retry
<1>g. /\ work' \in [Tasks -> Works]
      /\ work'[t] = retry /\ \A u \in Tasks \ {t} : work'[u] = work[u]
  BY <1>h, <1>r, <1>t DEF CfgTyped
<1>1. CfgTyped' BY <1>g, <1>h, <1>t DEF CfgTyped
<1>2. WorkShaped'
  <2>1. WorkShaped BY DEF CfgInv
  <2> QED BY <2>1, <1>g, <1>r DEF WorkShaped, NoWork
<1>3. WorkIsMine'
  <2>1. WorkIsMine BY DEF CfgInv
  <2> QED BY <2>1, <1>g, <1>r, <1>h DEF WorkIsMine
<1>4. AllAhead'
  <2>1. \A u \in Tasks : Ahead(u) => Ahead(u)' BY <1>h, <1>g, <1>n DEF Ahead, PassOf
  <2> QED BY <2>1, <1>h DEF CfgInv, AllAhead
<1>5. DebtsWatched' /\ GoneIsBare' /\ RefusedPolled'
  BY <1>h DEF CfgInv, DebtsWatched, GoneIsBare, RefusedPolled
<1> QED BY <1>1, <1>2, <1>3, <1>4, <1>5 DEF CfgInv

----------------------------------------
(* The polling loop drops what refused only where that is remembered. *)

LEMMA PollKeeps ==
    ASSUME CfgInv, NEW todo \in SUBSET Refusing, NEW found \in BOOLEAN,
           PollsNext(todo, found), amnesia' \in BOOLEAN, amnesia => amnesia',
           member /\ ~found /\ todo # {} => amnesia',
           UNCHANGED <<member, radio, bound, owed, watched, work, leaving, cut, stray>>
    PROVE  CfgInv'
<1>t. CfgTyped
  BY DEF CfgInv
<1>1. /\ due' \subseteq Refusing /\ ripe' \subseteq due'
      /\ polling' \in [at : {"asleep", "reading"}, todo : SUBSET Refusing]
      /\ found \/ todo = {} => due \subseteq due'
      /\ bound = {} \/ amnesia' \/ due \subseteq due'
  <2>1. CASE found /\ todo # {}
    <3> PICK c \in todo :
          /\ due' = due \cup {c} /\ ripe' = ripe \ {c}
          /\ polling' = [at |-> "reading", todo |-> todo \ {c}]
      BY <2>1 DEF PollsNext
    <3>1. due' \subseteq Refusing /\ ripe' \subseteq due' /\ due \subseteq due'
      BY <1>t DEF CfgTyped
    <3> QED BY <2>1, <3>1
  <2>2. CASE ~(found /\ todo # {})
    <3>1. /\ due' = due \ todo /\ ripe' = ripe \ todo
          /\ polling' = NoTick
      BY <2>2 DEF PollsNext
    <3>2. due' \subseteq Refusing /\ ripe' \subseteq due' BY <3>1, <1>t DEF CfgTyped
    <3>3. bound = {} \/ member BY DEF CfgInv, GoneIsBare
    <3> QED BY <2>2, <3>1, <3>2, <3>3 DEF NoTick
  <2> QED BY <2>1, <2>2
<1>2. CfgTyped' BY <1>1, <1>t DEF CfgTyped
<1>3. RefusedPolled'
  <2>1. RefusedPolled BY DEF CfgInv
  <2> QED BY <2>1, <1>1 DEF RefusedPolled
<1>4. WorkShaped' /\ WorkIsMine' BY DEF CfgInv, WorkShaped, WorkIsMine, NoWork
<1>5. AllAhead' /\ DebtsWatched' BY DEF CfgInv, AllAhead, Ahead, PassOf, DebtsWatched, WillWatch
<1>6. GoneIsBare' BY DEF CfgInv, GoneIsBare
<1> QED BY <1>2, <1>3, <1>4, <1>5, <1>6 DEF CfgInv

\* The three steps of the loop.
LEMMA PollingKeeps == ASSUME CfgInv, Ripens \/ PollStep PROVE CfgInv'
<1>t. CfgTyped
  BY DEF CfgInv
<1>1. CASE Ripens
  <2>a. /\ ripe' \subseteq due
        /\ UNCHANGED <<member, radio, bound, owed, due, watched, work, polling, leaving,
                       cut, stray, amnesia>>
    BY <1>1, <1>t DEF Ripens, CfgTyped
  <2>1. CfgTyped' BY <2>a, <1>t DEF CfgTyped
  <2>2. WorkShaped' /\ WorkIsMine' BY <2>a DEF CfgInv, WorkShaped, WorkIsMine, NoWork
  <2>3. AllAhead' /\ DebtsWatched'
    BY <2>a DEF CfgInv, AllAhead, Ahead, PassOf, DebtsWatched, WillWatch
  <2>4. GoneIsBare' /\ RefusedPolled' BY <2>a DEF CfgInv, GoneIsBare, RefusedPolled
  <2> QED BY <2>1, <2>2, <2>3, <2>4 DEF CfgInv
<1>2. CASE Ticks
  <2>1. ripe \in SUBSET Refusing /\ member \in BOOLEAN /\ amnesia \in BOOLEAN BY <1>t DEF CfgTyped
  <2>2. /\ PollsNext(ripe, member)
        /\ UNCHANGED <<member, radio, bound, owed, watched, work, leaving, cut, stray, amnesia>>
    BY <1>2 DEF Ticks
  <2> QED BY <2>1, <2>2, PollKeeps
<1>3. CASE Polled
  <2>1. PICK found \in {member, member /\ radio} :
          /\ PollsNext(polling.todo, found)
          /\ amnesia' = (amnesia \/ (member /\ ~found /\ polling.todo # {}))
          /\ UNCHANGED <<member, radio, bound, owed, watched, work, leaving, cut, stray>>
    BY <1>3 DEF Polled
  <2>2. polling.todo \in SUBSET Refusing /\ found \in BOOLEAN /\ amnesia' \in BOOLEAN
    BY <2>1, <1>t DEF CfgTyped
  <2>3. (amnesia => amnesia') /\ (member /\ ~found /\ polling.todo # {} => amnesia') BY <2>1
  <2> QED BY <2>1, <2>2, <2>3, PollKeeps
<1> QED BY <1>1, <1>2, <1>3 DEF PollStep

----------------------------------------
(* The link, the bridge, and the user.  Objects are replaced under whoever *)
(* is at work; then something is astray, and nothing if nobody was. *)

\* What becomes of the parts of the invariant that are about tasks.
LEMMA ReplacedKeeps ==
    ASSUME CfgInv, work' = Orphaned(work), stray' = (stray \/ AtWork)
    PROVE  /\ work' \in [Tasks -> Works] /\ WorkShaped' /\ WorkIsMine'
           /\ ~stray' => \A t \in Tasks : work'[t].kind = "none"
           /\ \A t \in Tasks : /\ work'[t].kind = work[t].kind
                               /\ work'[t].at = work[t].at
                               /\ work'[t].todo = work[t].todo
                               /\ work'[t].deferred = work[t].deferred
<1>t. work \in [Tasks -> Works]
  BY DEF CfgInv, CfgTyped
<1>1. /\ work' \in [Tasks -> Works]
      /\ \A t \in Tasks : /\ work'[t].kind = work[t].kind
                          /\ work'[t].at = work[t].at
                          /\ work'[t].todo = work[t].todo
                          /\ work'[t].deferred = work[t].deferred
                          /\ work[t].kind = "none" => work'[t] = work[t]
  BY <1>t, OrphansTyped
<1>2. WorkShaped'
  <2>1. WorkShaped BY DEF CfgInv
  <2> QED BY <2>1, <1>1 DEF WorkShaped, NoWork
<1>3. ~stray' => \A t \in Tasks : work[t].kind = "none" BY DEF AtWork
<1>4. WorkIsMine'
  <2> SUFFICES ASSUME ~stray', NEW t \in Tasks PROVE work'[t].mine /\ work'[t].kind # "retry"
    BY DEF WorkIsMine
  <2>1. work[t].kind = "none" /\ work[t] = NoWork BY <1>3 DEF CfgInv, WorkShaped
  <2>2. work'[t] = NoWork BY <1>1, <2>1
  <2> QED BY <2>2, PassFacts
<1> QED BY <1>1, <1>2, <1>3, <1>4

\* Step by step.
LEMMA UpsetKeeps ==
    ASSUME CfgInv, RadioLost \/ RadioBack \/ Restarts \/ RemoveCalled \/ Removed
    PROVE  CfgInv'
<1>t. CfgTyped
  BY DEF CfgInv
<1>1. CASE RadioLost \/ RemoveCalled
  <2>a. /\ radio' \in BOOLEAN /\ leaving' \in BOOLEAN
        /\ UNCHANGED <<member, bound, owed, due, ripe, watched, work, polling,
                       cut, stray, amnesia>>
    BY <1>1, <1>t DEF RadioLost, RemoveCalled, CfgTyped
  <2>1. CfgTyped' BY <2>a, <1>t DEF CfgTyped
  <2>2. WorkShaped' /\ WorkIsMine' BY <2>a DEF CfgInv, WorkShaped, WorkIsMine, NoWork
  <2>3. AllAhead' /\ DebtsWatched'
    BY <2>a DEF CfgInv, AllAhead, Ahead, PassOf, DebtsWatched, WillWatch
  <2>4. GoneIsBare' /\ RefusedPolled' BY <2>a DEF CfgInv, GoneIsBare, RefusedPolled
  <2> QED BY <2>1, <2>2, <2>3, <2>4 DEF CfgInv
<1>2. CASE RadioBack
  <2>a. /\ radio' = TRUE /\ watched' = (member /\ owed # {})
        /\ work' = Orphaned(work) /\ stray' = (stray \/ AtWork) /\ polling' = NoTick
        /\ UNCHANGED <<member, bound, owed, due, ripe, leaving, cut, amnesia>>
    BY <1>2 DEF RadioBack
  <2>r. /\ work' \in [Tasks -> Works] /\ WorkShaped' /\ WorkIsMine'
        /\ \A t \in Tasks : /\ work'[t].kind = work[t].kind
                            /\ work'[t].at = work[t].at
                            /\ work'[t].todo = work[t].todo
                            /\ work'[t].deferred = work[t].deferred
    BY <2>a, ReplacedKeeps
  <2>1. CfgTyped'
    <3>1. stray' \in BOOLEAN /\ watched' \in BOOLEAN BY <2>a, <1>t DEF CfgTyped, AtWork
    <3> QED BY <3>1, <2>a, <2>r, <1>t DEF CfgTyped, NoTick
  <2>2. AllAhead'
    <3>1. \A t \in Tasks : Ahead(t) => Ahead(t)' BY <2>a, <2>r DEF Ahead, PassOf
    <3> QED BY <3>1, <2>a DEF CfgInv, AllAhead
  <2>3. DebtsWatched' BY <2>a DEF DebtsWatched
  <2>4. GoneIsBare' /\ RefusedPolled' BY <2>a, <2>r DEF CfgInv, GoneIsBare, RefusedPolled
  <2> QED BY <2>1, <2>r, <2>2, <2>3, <2>4 DEF CfgInv
<1>3. CASE Restarts
  <2>a. /\ radio' = TRUE /\ work' = [t \in Tasks |-> NoWork] /\ polling' = NoTick
        /\ due' = {} /\ ripe' = {} /\ watched' = (member /\ owed # {})
        /\ leaving' = FALSE /\ cut' = (cut \/ Busy) /\ amnesia' = TRUE
        /\ UNCHANGED <<member, bound, owed, stray>>
    BY <1>3 DEF Restarts
  <2>1. CfgTyped'
    <3>1. cut' \in BOOLEAN /\ watched' \in BOOLEAN BY <2>a, <1>t DEF CfgTyped, Busy
    <3>2. work' \in [Tasks -> Works] BY <2>a, PassTyped
    <3> QED BY <3>1, <3>2, <2>a, <1>t DEF CfgTyped, NoTick
  <2>2. WorkShaped' /\ WorkIsMine' BY <2>a DEF WorkShaped, WorkIsMine, NoWork
  <2>3. AllAhead'
    <3>1. ~cut' => ~cut /\ \A t \in Tasks : ~Ahead(t) BY <2>a DEF Busy, Ahead, PassOf
    <3> QED BY <3>1, <2>a DEF CfgInv, AllAhead
  <2>4. DebtsWatched' /\ RefusedPolled' BY <2>a DEF DebtsWatched, RefusedPolled
  <2>5. GoneIsBare' BY <2>a, PassFacts DEF CfgInv, GoneIsBare
  <2> QED BY <2>1, <2>2, <2>3, <2>4, <2>5 DEF CfgInv
<1>4. CASE Removed
  <2>a. /\ leaving' = FALSE /\ member' = FALSE /\ watched' = FALSE
        /\ bound' = {} /\ owed' = {} /\ due' = {} /\ ripe' = {}
        /\ work' = Orphaned(work) /\ stray' = (stray \/ AtWork)
        /\ UNCHANGED <<radio, polling, cut, amnesia>>
    BY <1>4 DEF Removed
  <2>r. /\ work' \in [Tasks -> Works] /\ WorkShaped' /\ WorkIsMine'
        /\ ~stray' => \A t \in Tasks : work'[t].kind = "none"
    BY <2>a, ReplacedKeeps
  <2>1. CfgTyped'
    <3>1. stray' \in BOOLEAN BY <2>a, <1>t DEF CfgTyped, AtWork
    <3> QED BY <3>1, <2>a, <2>r, <1>t DEF CfgTyped
  <2>2. AllAhead' /\ DebtsWatched' /\ GoneIsBare' /\ RefusedPolled'
    BY <2>a, <2>r DEF AllAhead, DebtsWatched, GoneIsBare, RefusedPolled
  <2> QED BY <2>1, <2>2, <2>r DEF CfgInv
<1> QED BY <1>1, <1>2, <1>3, <1>4

----------------------------------------
\* Every step.
LEMMA CfgNextKeeps == CfgInv /\ [ConfigureNext]_cfgVars => CfgInv'
<1> SUFFICES ASSUME CfgInv, [ConfigureNext]_cfgVars PROVE CfgInv' OBVIOUS
<1>1. CASE ConfigureNext
  BY <1>1, ReadyStep, AsksKeeps, SucceedsKeeps, FailsKeeps, EndsKeep, HeardKeeps, PollingKeeps,
     UpsetKeeps DEF ConfigureNext, WorkStep
<1>2. CASE UNCHANGED cfgVars
  <2> USE <1>2 DEF cfgVars
  <2>1. CfgTyped' /\ WorkShaped' /\ WorkIsMine'
    BY DEF CfgInv, CfgTyped, WorkShaped, WorkIsMine, NoWork
  <2>2. AllAhead' /\ DebtsWatched' /\ GoneIsBare' /\ RefusedPolled'
    BY DEF CfgInv, AllAhead, Ahead, PassOf, DebtsWatched, WillWatch, GoneIsBare, RefusedPolled
  <2> QED BY <2>1, <2>2 DEF CfgInv
<1> QED BY <1>1, <1>2

\* It implies what the run checks.
LEMMA CfgInvSafe == CfgInv => ConfigureSafe
<1> SUFFICES ASSUME CfgInv PROVE ConfigureSafe OBVIOUS
<1>1. ConfigureTypeOK BY DEF CfgInv, CfgTyped, ConfigureTypeOK, Works
<1>2. ConfiguredOrOwed BY DEF CfgInv, AllAhead, Ahead, PassOf, ConfiguredOrOwed, Settled, Busy
<1>3. OwedIsWatched BY DEF CfgInv, DebtsWatched, WillWatch, PassOf, OwedIsWatched, Settled, Busy
<1>4. RefusedIsPolled /\ NotInherited
  BY DEF CfgInv, RefusedPolled, GoneIsBare, RefusedIsPolled, NotInherited
<1> QED BY <1>1, <1>2, <1>3, <1>4 DEF ConfigureSafe

(* For any device, and any joins, interviews, losses of the link, restarts *)
(* and removals in the middle of its configuration: a cluster that is not *)
(* configured is owed, what is owed is waited for, a cluster that refused is *)
(* polled, and a removed device leaves no debt - but for the four exceptions *)
(* the module keeps a history of (zigbee/configure.py). *)
THEOREM ConfigureIsSafe == ConfigureSpec => []ConfigureSafe
<1> QED BY CfgInitInv, CfgNextKeeps, CfgInvSafe, PTL DEF ConfigureSpec

----------------------------------------
(* What a Zigbee device reports (ZigbeeDelivery).  The invariant says where *)
(* the newest values are: still to be read by somebody, in the snapshot of a *)
(* delivery under way, or shown. *)

Calls == [at : {"none", "configuring", "reading", "telling"},
          force : BOOLEAN, snap : Caches, todo : SUBSET Paths]
Limits == [reports : 0..MaxReports, events : Nat, failures : Nat, adoptions : Nat, forgets : Nat]

DelTyped ==
  /\ cache \in Caches /\ shown \in Caches
  /\ pairing \in {"none", "joined", "interviewing", "ready", "failed"}
  /\ listening \in {"nobody", "former", "this"}
  /\ backlog \in Nat /\ backlog <= limits.reports
  /\ delivered \in [known : BOOLEAN, values : Caches]
  /\ calls \in [Callers -> Calls]
  /\ naming \in {"none", "reading", "following"}
  /\ forgetting \in {"no", "asked", "dropped"}
  /\ stored \in BOOLEAN /\ torn \in BOOLEAN /\ crossed \in BOOLEAN
  /\ limits \in Limits

\* The pairing row, the listeners and the store.
RowsAgree ==
  (pairing = "ready" => listening = "this") /\ (stored /\ forgetting # "dropped" => pairing # "none")

UnderWay(c) == calls[c].at \in {"reading", "telling"}
Apart == ~crossed => \A c, d \in Callers : UnderWay(c) /\ UnderWay(d) => c = d

\* Values are shown, or about to be told by the delivery under way.
Telling(c) == calls[c].at = "telling"
Tells(c) == \A p \in Read(calls[c].snap) : shown[p] = calls[c].snap[p] \/ p \in calls[c].todo
Remembers == \A p \in Read(delivered.values) : shown[p] = delivered.values[p]
ToldIsShown ==
  ~torn /\ ~crossed => /\ \A c \in Callers : Telling(c) => Tells(c)
                       /\ (\A c \in Callers : ~Telling(c)) => Remembers

ToCome == backlog > 0 \/ \E c \in Callers : calls[c].at \in {"configuring", "reading"}
Carries(c) == Telling(c) /\ \A p \in Read(cache) : calls[c].snap[p] = cache[p]
AllShown == (\A c \in Callers : ~Telling(c)) /\ \A p \in Read(cache) : shown[p] = cache[p]
NewestIsSomewhere ==
  stored /\ pairing = "ready" /\ ~torn /\ ~crossed
    => ToCome \/ (\E c \in Callers : Carries(c)) \/ AllShown

DelInv == DelTyped /\ RowsAgree /\ Apart /\ ToldIsShown /\ NewestIsSomewhere

\* Small facts: an empty cache, no call, and the limits.
LEMMA BlankFacts ==
  /\ Nothing \in Caches /\ Read(Nothing) = {}
  /\ NoCall \in Calls /\ NoCall.at = "none"
  /\ NoBase \in [known : BOOLEAN, values : Caches] /\ NoBase.values = Nothing
<1>1. Nothing \in Caches BY DEF Nothing, Caches
<1>2. Read(Nothing) = {} BY DEF Read, Nothing
<1>3. NoCall \in Calls /\ NoCall.at = "none" BY <1>1 DEF NoCall, Calls
<1>4. NoBase \in [known : BOOLEAN, values : Caches] /\ NoBase.values = Nothing BY <1>1 DEF NoBase
<1> QED BY <1>1, <1>2, <1>3, <1>4

\* One more of what is bounded.
LEMMA SpendsKeeps ==
    ASSUME limits \in Limits, NEW what \in {"events", "failures", "adoptions", "forgets"},
           NEW bnd, Spends(what, bnd)
    PROVE  limits' \in Limits /\ limits'.reports = limits.reports
<1>1. limits[what] \in Nat BY DEF Limits
<1>2. limits[what] + 1 \in Nat BY <1>1
<1>3. limits' = [limits EXCEPT ![what] = limits[what] + 1] BY DEF Spends
<1> HIDE DEF Spends
<1> QED BY <1>2, <1>3 DEF Limits

\* A bridge that starts.
LEMMA DelInitInv == DeliveryInit => DelInv
<1> SUFFICES ASSUME DeliveryInit PROVE DelInv OBVIOUS
<1> USE DEF DeliveryInit
<1>1. limits \in Limits /\ backlog \in Nat /\ backlog <= limits.reports
  BY DeliveryAssumption DEF Limits, DeliveryAssumption
<1>2. calls \in [Callers -> Calls] BY BlankFacts
<1>3. DelTyped BY <1>1, <1>2, BlankFacts DEF DelTyped
<1>4. \A c \in Callers : calls[c].at = "none" BY BlankFacts
<1>5. RowsAgree /\ Apart /\ NewestIsSomewhere
  BY <1>4 DEF RowsAgree, Apart, UnderWay, NewestIsSomewhere
<1>6. ToldIsShown BY <1>4, BlankFacts DEF ToldIsShown, Telling, Remembers
<1> QED BY <1>3, <1>5, <1>6 DEF DelInv

----------------------------------------
(* zigpy's side.  As long as the row is ready, what arrives is queued. *)

\* What arrives while somebody listens is queued.
LEMMA ReportKeeps ==
    ASSUME DelInv, NEW p \in Paths, NEW v \in Readings, ReportArrives(p, v) PROVE DelInv'
<1>t. DelTyped
  BY DEF DelInv
<1>a. /\ pairing # "none" /\ cache' = [cache EXCEPT ![p] = v]
      /\ limits.reports < MaxReports /\ limits' = [limits EXCEPT !.reports = @ + 1]
      /\ backlog' = (IF listening = "this" THEN backlog + 1 ELSE backlog)
      /\ UNCHANGED <<pairing, listening, stored, shown, delivered, calls, naming,
                     forgetting, torn, crossed>>
  BY DEF ReportArrives, Spends
<1>1. limits' \in Limits /\ backlog' \in Nat /\ backlog' <= limits'.reports
  <2>1. limits.reports \in 0..MaxReports /\ MaxReports \in Nat /\ limits \in Limits
    BY <1>t, DeliveryAssumption DEF DelTyped, Limits, DeliveryAssumption
  <2>2. limits.reports + 1 \in 0..MaxReports BY <2>1, <1>a
  <2>3. limits' \in Limits /\ limits'.reports = limits.reports + 1 BY <2>1, <2>2, <1>a DEF Limits
  <2> QED BY <2>1, <2>3, <1>a, <1>t DEF DelTyped
<1>2. cache' \in Caches BY <1>a, <1>t DEF DelTyped, Caches
<1>3. DelTyped' BY <1>1, <1>2, <1>a, <1>t DEF DelTyped
<1>4. RowsAgree' /\ Apart' BY <1>a DEF DelInv, RowsAgree, Apart, UnderWay
<1>5. ToldIsShown' BY <1>a DEF DelInv, ToldIsShown, Telling, Tells, Remembers
<1>6. NewestIsSomewhere'
  <2>1. pairing = "ready" => backlog' > 0 BY <1>a, <1>t DEF DelInv, RowsAgree, DelTyped
  <2> QED BY <2>1, <1>a DEF NewestIsSomewhere, ToCome
<1> QED BY <1>3, <1>4, <1>5, <1>6 DEF DelInv

\* A row that is no longer ready promises nothing; one that becomes ready is
\* about to be configured and then delivered.
LEMMA RowKeeps ==
    ASSUME DelInv,
           \/ \E state \in {"joined", "interviewing", "failed"} : RowChanges(state)
           \/ BecomesReady
           \/ IsReinterviewed
    PROVE  DelInv'
<1>t. DelTyped
  BY DEF DelInv
<1>1. ASSUME NEW state \in {"joined", "interviewing", "failed"}, RowChanges(state) PROVE DelInv'
  <2>a. /\ pairing' = state /\ Spends("events", MaxRowEvents)
        /\ UNCHANGED <<cache, listening, backlog, stored, shown, delivered, calls, naming,
                       forgetting, torn, crossed>>
    BY <1>1 DEF RowChanges
  <2>1. limits' \in Limits /\ limits'.reports = limits.reports
    BY <1>t, <2>a, SpendsKeeps DEF DelTyped
  <2>2. DelTyped' BY <2>1, <2>a, <1>t DEF DelTyped
  <2>3. RowsAgree' /\ Apart' /\ NewestIsSomewhere'
    BY <2>a DEF DelInv, RowsAgree, Apart, UnderWay, NewestIsSomewhere
  <2>4. ToldIsShown' BY <2>a DEF DelInv, ToldIsShown, Telling, Tells, Remembers
  <2> QED BY <2>2, <2>3, <2>4 DEF DelInv
<1>2. CASE BecomesReady \/ IsReinterviewed
  <2>a. /\ Spends("events", MaxRowEvents) /\ calls["join"] = NoCall
        /\ pairing' = "ready" /\ listening' = "this"
        /\ calls' = [calls EXCEPT !["join"].at = "configuring"]
        /\ UNCHANGED <<backlog, stored, shown, delivered, naming, forgetting, torn, crossed>>
    BY <1>2 DEF BecomesReady, IsReinterviewed, Listens
  <2>c. cache' \in Caches
    <3>1. CASE BecomesReady BY <3>1, <1>t DEF BecomesReady, DelTyped
    <3>2. CASE IsReinterviewed
      <4>1. PICK kept \in SUBSET Paths :
              cache' = [p \in Paths |-> IF p \in kept THEN cache[p] ELSE Unread]
        BY <3>2 DEF IsReinterviewed
      <4> QED BY <4>1, <1>t DEF DelTyped, Caches
    <3> QED BY <1>2, <3>1, <3>2
  <2>1. limits' \in Limits /\ limits'.reports = limits.reports
    BY <1>t, <2>a, SpendsKeeps DEF DelTyped
  <2>2. /\ calls' \in [Callers -> Calls] /\ calls'["join"].at = "configuring"
        /\ \A c \in Callers \ {"join"} : calls'[c] = calls[c]
        /\ "join" \in Callers /\ calls["join"].at = "none"
    BY <2>a, <1>t, BlankFacts DEF DelTyped, Calls, Callers
  <2>3. DelTyped' BY <2>1, <2>2, <2>a, <2>c, <1>t DEF DelTyped
  <2>4. RowsAgree' /\ NewestIsSomewhere' BY <2>a, <2>2 DEF RowsAgree, NewestIsSomewhere, ToCome
  <2>5. Apart' BY <2>a, <2>2 DEF DelInv, Apart, UnderWay
  <2>6. ToldIsShown' BY <2>a, <2>2 DEF DelInv, ToldIsShown, Telling, Tells, Remembers
  <2> QED BY <2>3, <2>4, <2>5, <2>6 DEF DelInv
<1> QED BY <1>1, <1>2

----------------------------------------
(* _deliver.  A call that begins crosses whoever is under way; one that ends *)
(* leaves what it has told. *)

LEMMA CallBegins ==
    ASSUME DelInv, NEW c \in Callers, NEW force \in BOOLEAN, ~UnderWay(c),
           calls' = [calls EXCEPT ![c] = [NoCall EXCEPT !.at = "reading", !.force = force]],
           crossed' = (crossed \/ Others(c)),
           UNCHANGED <<cache, shown, delivered, torn>>
    PROVE  /\ calls' \in [Callers -> Calls] /\ crossed' \in BOOLEAN
           /\ Apart' /\ ToldIsShown' /\ NewestIsSomewhere'
<1> DEFINE new == [NoCall EXCEPT !.at = "reading", !.force = force]
<1>t. DelTyped
  BY DEF DelInv
<1>1. new \in Calls /\ new.at = "reading" BY BlankFacts DEF NoCall, Calls
<1> HIDE DEF new
<1>2. calls' \in [Callers -> Calls] /\ calls'[c] = new
      /\ \A d \in Callers \ {c} : calls'[d] = calls[d]
  BY <1>1, <1>t DEF new, DelTyped
<1>3. crossed' \in BOOLEAN BY <1>t DEF DelTyped, Others
<1>4. ~crossed' => ~crossed /\ \A d \in Callers \ {c} : ~UnderWay(d) BY DEF Others, UnderWay
<1>5. Apart' BY <1>2, <1>4 DEF Apart, UnderWay
<1>6. ToldIsShown'
  <2>1. \A d \in Callers : (Telling(d)' <=> Telling(d)) /\ (Telling(d) => calls'[d] = calls[d])
    BY <1>1, <1>2 DEF UnderWay, Telling
  <2>2. \A d \in Callers : Telling(d) /\ Tells(d) => Tells(d)' BY <2>1 DEF Tells
  <2>3. Remembers => Remembers' BY DEF Remembers
  <2> QED BY <2>1, <2>2, <2>3, <1>4 DEF DelInv, ToldIsShown
<1>7. NewestIsSomewhere' BY <1>1, <1>2 DEF NewestIsSomewhere, ToCome
<1> QED BY <1>2, <1>3, <1>5, <1>6, <1>7

\* A call that ends without having told anything: nobody waits for it to, for
\* the device is not there or not stored.
LEMMA CallDropped ==
    ASSUME DelInv, NEW c \in Callers, ~UnderWay(c), ~stored \/ pairing = "none",
           calls' = [calls EXCEPT ![c] = NoCall],
           UNCHANGED <<cache, shown, delivered, torn, crossed, stored, pairing>>
    PROVE  /\ calls' \in [Callers -> Calls]
           /\ Apart' /\ ToldIsShown' /\ NewestIsSomewhere'
<1>t. DelTyped
  BY DEF DelInv
<1>1. calls' \in [Callers -> Calls] /\ calls'[c].at = "none"
      /\ \A d \in Callers \ {c} : calls'[d] = calls[d]
  BY BlankFacts, <1>t DEF DelTyped
<1>2. Apart' /\ NewestIsSomewhere' BY <1>1 DEF DelInv, Apart, UnderWay, NewestIsSomewhere
<1>3. ToldIsShown'
  <2>1. \A d \in Callers : (Telling(d)' <=> Telling(d)) /\ (Telling(d) => calls'[d] = calls[d])
    BY <1>1 DEF UnderWay, Telling
  <2>2. \A d \in Callers : Telling(d) /\ Tells(d) => Tells(d)' BY <2>1 DEF Tells
  <2>3. Remembers => Remembers' BY DEF Remembers
  <2> QED BY <2>1, <2>2, <2>3 DEF DelInv, ToldIsShown
<1> QED BY <1>1, <1>2, <1>3

LEMMA StartKeeps == ASSUME DelInv, Dispatches \/ Configured \/ Adopts PROVE DelInv'
<1>t. DelTyped
  BY DEF DelInv
<1>1. ASSUME NEW c \in Callers, ~UnderWay(c), Delivers(c, FALSE),
             backlog' \in Nat, backlog' <= backlog,
             UNCHANGED <<cache, pairing, listening, stored, shown, delivered, naming,
                         forgetting, torn, limits>>
      PROVE  DelInv'
  <2>1. /\ calls' \in [Callers -> Calls] /\ crossed' \in BOOLEAN
        /\ Apart' /\ ToldIsShown' /\ NewestIsSomewhere'
    <3>1. CASE pairing # "none" /\ stored
      <4>1. /\ calls' = [calls EXCEPT ![c] = [NoCall EXCEPT !.at = "reading", !.force = FALSE]]
            /\ crossed' = (crossed \/ Others(c))
        BY <1>1, <3>1 DEF Delivers
      <4> QED BY <4>1, <1>1, CallBegins
    <3>2. CASE ~(pairing # "none" /\ stored)
      <4>1. calls' = [calls EXCEPT ![c] = NoCall] /\ crossed' = crossed BY <1>1, <3>2 DEF Delivers
      <4>2. ~stored \/ pairing = "none" BY <3>2
      <4> QED BY <4>1, <4>2, <1>1, <1>t, CallDropped DEF DelTyped
    <3> QED BY <3>1, <3>2
  <2>2. backlog' \in Nat /\ backlog' <= limits.reports BY <1>1, <1>t DEF DelTyped, Limits
  <2>3. DelTyped' BY <2>1, <2>2, <1>1, <1>t DEF DelTyped
  <2>4. RowsAgree' BY <1>1 DEF DelInv, RowsAgree
  <2> QED BY <2>1, <2>3, <2>4 DEF DelInv
<1>2. CASE Dispatches
  <2>1. backlog' \in Nat /\ backlog' <= backlog BY <1>2, <1>t DEF Dispatches, DelTyped
  <2>2. ~UnderWay("dispatch") /\ "dispatch" \in Callers
    BY <1>2, BlankFacts DEF Dispatches, UnderWay, Callers
  <2> QED BY <2>1, <2>2, <1>1, <1>2 DEF Dispatches
<1>3. CASE Configured
  <2>1. backlog' \in Nat /\ backlog' <= backlog BY <1>3, <1>t DEF Configured, DelTyped
  <2>2. ~UnderWay("join") /\ "join" \in Callers BY <1>3 DEF Configured, UnderWay, Callers
  <2> QED BY <2>1, <2>2, <1>1, <1>3 DEF Configured
<1>4. CASE Adopts /\ pairing = "ready"
  <2>a. /\ stored' = TRUE /\ naming' = "following"
        /\ calls' = [calls EXCEPT !["name"] = [NoCall EXCEPT !.at = "reading", !.force = TRUE]]
        /\ crossed' = (crossed \/ Others("name"))
        /\ UNCHANGED <<cache, pairing, listening, backlog, shown, delivered, forgetting,
                       torn, limits>>
    BY <1>4 DEF Adopts
  <2>1. ~UnderWay("name") /\ "name" \in Callers BY <1>4, BlankFacts DEF Adopts, UnderWay, Callers
  <2>2. /\ calls' \in [Callers -> Calls] /\ crossed' \in BOOLEAN
        /\ Apart' /\ ToldIsShown' /\ NewestIsSomewhere'
    BY <2>a, <2>1, CallBegins
  <2>3. DelTyped' BY <2>2, <2>a, <1>t DEF DelTyped
  <2>4. RowsAgree' BY <2>a, <1>4 DEF DelInv, RowsAgree
  <2> QED BY <2>2, <2>3, <2>4 DEF DelInv
<1>5. CASE Adopts /\ pairing # "ready"
  <2>a. /\ naming' = "none"
        /\ UNCHANGED <<cache, pairing, listening, backlog, shown, delivered, forgetting,
                       torn, limits, stored, calls, crossed>>
    BY <1>5 DEF Adopts
  <2>1. DelTyped' BY <2>a, <1>t DEF DelTyped
  <2>2. RowsAgree' /\ Apart' /\ NewestIsSomewhere'
    BY <2>a, <1>5 DEF DelInv, RowsAgree, Apart, UnderWay, NewestIsSomewhere
  <2>3. ToldIsShown' BY <2>a DEF DelInv, ToldIsShown, Telling, Tells, Remembers
  <2> QED BY <2>1, <2>2, <2>3 DEF DelInv
<1> QED BY <1>2, <1>3, <1>4, <1>5

\* The snapshot is the newest there is; what is not in todo was told before.
LEMMA TakesKeeps == ASSUME DelInv, NEW c \in Callers, Takes(c) PROVE DelInv'
<1>t. DelTyped /\ calls[c] \in Calls /\ calls[c].at = "reading"
  BY DEF DelInv, DelTyped, Takes
<1>a. UNCHANGED <<cache, pairing, listening, backlog, stored, delivered, naming, forgetting,
                  torn, crossed, limits>>
  BY DEF Takes
<1>1. /\ calls' \in [Callers -> Calls]
      /\ \A d \in Callers \ {c} : calls'[d] = calls[d]
      /\ calls'[c].at = "telling" /\ calls'[c].snap = cache
  <2>1. CASE NewPaths(c) BY <2>1, <1>t DEF Takes, DelTyped, Calls
  <2>2. CASE ~NewPaths(c)
    <3>1. PICK renewed \in SUBSET (Detecting \cap Read(cache)) :
            calls' = [calls EXCEPT ![c].at = "telling", ![c].snap = cache,
              ![c].todo = renewed \cup {p \in Read(cache) : cache[p] # delivered.values[p]}]
      BY <2>2 DEF Takes
    <3> DEFINE rest == renewed \cup {p \in Read(cache) : cache[p] # delivered.values[p]}
    <3>2. rest \in SUBSET Paths BY DEF Read
    <3>3. calls' = [calls EXCEPT ![c].at = "telling", ![c].snap = cache, ![c].todo = rest]
      BY <3>1
    <3> HIDE DEF rest
    <3> QED BY <3>2, <3>3, <1>t DEF DelTyped, Calls
  <2> QED BY <2>1, <2>2
<1>2. shown' \in Caches BY <1>t DEF Takes, DelTyped, Caches
<1>3. DelTyped' BY <1>1, <1>2, <1>a, <1>t DEF DelTyped
<1>4. RowsAgree' BY <1>a DEF DelInv, RowsAgree
<1>5. Apart' BY <1>1, <1>a, <1>t DEF DelInv, Apart, UnderWay
<1>6. ~crossed => \A d \in Callers : d # c => ~Telling(d) /\ ~Telling(d)'
  BY <1>1, <1>t DEF DelInv, Apart, UnderWay, Telling
<1>7. ToldIsShown'
  <2> SUFFICES ASSUME ~torn, ~crossed
               PROVE  /\ \A d \in Callers : Telling(d)' => Tells(d)'
                      /\ ~(\A d \in Callers : ~Telling(d)')
    BY <1>a DEF ToldIsShown
  <2>1. Telling(c)' BY <1>1 DEF Telling
  <2>2. Tells(c)'
    <3> SUFFICES ASSUME NEW p \in Read(cache), p \notin calls'[c].todo PROVE shown'[p] = cache[p]
      BY <1>1 DEF Tells
    <3>1. p \in Paths /\ cache[p] # Unread BY DEF Read
    <3>2. CASE NewPaths(c) BY <3>1, <3>2 DEF Takes
    <3>3. CASE ~NewPaths(c)
      <4>1. {q \in Read(cache) : cache[q] # delivered.values[q]} \subseteq calls'[c].todo
        BY <3>3, <1>t DEF Takes, DelTyped, Calls
      <4>2. cache[p] = delivered.values[p] /\ shown' = shown BY <4>1, <3>3 DEF Takes
      <4>3. p \in Read(delivered.values) BY <3>1, <4>2 DEF Read
      <4>4. Remembers BY <1>6, <1>t DEF DelInv, ToldIsShown, Telling
      <4> QED BY <4>2, <4>3, <4>4 DEF Remembers
    <3> QED BY <3>2, <3>3
  <2> QED BY <2>1, <2>2, <1>6
<1>8. NewestIsSomewhere'
  <2>1. Carries(c)' BY <1>1, <1>a DEF Carries, Telling
  <2> QED BY <2>1 DEF NewestIsSomewhere
<1> QED BY <1>3, <1>4, <1>5, <1>7, <1>8 DEF DelInv

LEMMA TellsKeeps == ASSUME DelInv, NEW c \in Callers, TellsOne(c) PROVE DelInv'
<1>t. DelTyped /\ calls[c] \in Calls /\ calls[c].at = "telling"
  BY DEF DelInv, DelTyped, TellsOne
<1>a. PICK p \in calls[c].todo :
        /\ shown' = [shown EXCEPT ![p] = calls[c].snap[p]]
        /\ calls' = [calls EXCEPT ![c].todo = @ \ {p}]
        /\ UNCHANGED <<cache, pairing, listening, backlog, stored, delivered, naming,
                       forgetting, torn, crossed, limits>>
  BY DEF TellsOne
<1>p. p \in Paths
  BY <1>t DEF Calls
<1>1. /\ calls' \in [Callers -> Calls]
      /\ \A d \in Callers : calls'[d].at = calls[d].at /\ calls'[d].snap = calls[d].snap
      /\ calls'[c].todo = calls[c].todo \ {p}
  BY <1>a, <1>t DEF DelTyped, Calls
<1>2. shown' \in Caches BY <1>a, <1>p, <1>t DEF DelTyped, Calls, Caches
<1>3. DelTyped' BY <1>1, <1>2, <1>a, <1>t DEF DelTyped
<1>4. RowsAgree' /\ Apart' BY <1>1, <1>a DEF DelInv, RowsAgree, Apart, UnderWay
<1>5. ~crossed => \A d \in Callers : Telling(d) => d = c
  BY <1>t DEF DelInv, Apart, UnderWay, Telling
<1>6. ToldIsShown'
  <2> SUFFICES ASSUME ~torn, ~crossed PROVE Tells(c)'
    BY <1>1, <1>5, <1>t, <1>a DEF ToldIsShown, Telling
  <2>1. Tells(c) BY <1>t DEF DelInv, ToldIsShown, Telling
  <2>2. shown'[p] = calls[c].snap[p] /\ \A q \in Paths \ {p} : shown'[q] = shown[q]
    BY <1>a, <1>p, <1>t DEF DelTyped, Caches
  <2> QED BY <2>1, <2>2, <1>1 DEF Tells, Read
<1>7. NewestIsSomewhere'
  <2> SUFFICES ASSUME stored, pairing = "ready", ~torn, ~crossed
               PROVE  ToCome' \/ \E d \in Callers : Carries(d)'
    BY <1>a DEF NewestIsSomewhere
  <2>1. ToCome \/ \E d \in Callers : Carries(d)
    BY <1>t DEF DelInv, NewestIsSomewhere, AllShown, Telling
  <2>2. ToCome => ToCome' BY <1>1, <1>a DEF ToCome
  <2>3. \A d \in Callers : Carries(d) => Carries(d)' BY <1>1, <1>a DEF Carries, Telling
  <2> QED BY <2>1, <2>2, <2>3
<1> QED BY <1>3, <1>4, <1>6, <1>7 DEF DelInv

LEMMA EndKeeps ==
    ASSUME DelInv, NEW c \in Callers, CallEnds(c) \/ CallRaises(c) PROVE DelInv'
<1>t. DelTyped /\ calls[c] \in Calls /\ calls[c].at = "telling"
  BY DEF DelInv, DelTyped, CallEnds, CallRaises
<1>a. /\ calls' = [calls EXCEPT ![c] = NoCall]
      /\ UNCHANGED <<cache, pairing, listening, backlog, stored, shown, naming, forgetting, crossed>>
  BY DEF CallEnds, CallRaises
<1>1. /\ calls' \in [Callers -> Calls] /\ calls'[c].at = "none"
      /\ \A d \in Callers \ {c} : calls'[d] = calls[d]
  BY <1>a, <1>t, BlankFacts DEF DelTyped
<1>2. RowsAgree' /\ Apart' BY <1>1, <1>a DEF DelInv, RowsAgree, Apart, UnderWay
<1>3. ~crossed => \A d \in Callers : ~Telling(d)'
  BY <1>1, <1>t DEF DelInv, Apart, UnderWay, Telling
<1>4. CASE CallRaises(c)
  <2>a. torn' = TRUE /\ delivered' = delivered /\ Spends("failures", MaxTellFailures)
    BY <1>4 DEF CallRaises
  <2>1. limits' \in Limits /\ limits'.reports = limits.reports
    BY <1>t, <2>a, SpendsKeeps DEF DelTyped
  <2>2. DelTyped' BY <2>1, <2>a, <1>1, <1>a, <1>t DEF DelTyped
  <2>3. ToldIsShown' /\ NewestIsSomewhere' BY <2>a DEF ToldIsShown, NewestIsSomewhere
  <2> QED BY <2>2, <2>3, <1>2 DEF DelInv
<1>5. CASE CallEnds(c)
  <2>a. /\ calls[c].todo = {} /\ delivered' = [known |-> TRUE, values |-> calls[c].snap]
        /\ UNCHANGED <<torn, limits>>
    BY <1>5 DEF CallEnds, Told
  <2>1. delivered' \in [known : BOOLEAN, values : Caches] BY <2>a, <1>t DEF Calls
  <2>2. DelTyped' BY <2>1, <2>a, <1>1, <1>a, <1>t DEF DelTyped
  <2>3. ~torn /\ ~crossed => \A p \in Read(calls[c].snap) : shown[p] = calls[c].snap[p]
    BY <2>a, <1>t DEF DelInv, ToldIsShown, Telling, Tells
  <2>4. ToldIsShown' BY <2>3, <2>a, <1>3, <1>a DEF ToldIsShown, Remembers
  <2>5. NewestIsSomewhere'
    <3> SUFFICES ASSUME stored, pairing = "ready", ~torn, ~crossed PROVE ToCome' \/ AllShown'
      BY <1>a, <2>a DEF NewestIsSomewhere
    <3>1. CASE ToCome BY <3>1, <1>1, <1>a, <1>t DEF ToCome
    <3>2. CASE \E d \in Callers : Carries(d)
      <4>1. Carries(c) BY <3>2, <1>t DEF DelInv, Apart, UnderWay, Carries, Telling
      <4>2. \A p \in Read(cache) : shown[p] = cache[p] BY <4>1, <2>3 DEF Carries, Read
      <4> QED BY <4>2, <1>3, <1>a DEF AllShown
    <3> QED BY <3>1, <3>2, <1>t DEF DelInv, NewestIsSomewhere, AllShown, Telling
  <2> QED BY <2>2, <2>4, <2>5, <1>2 DEF DelInv
<1> QED BY <1>4, <1>5

----------------------------------------
(* The routes *)

LEMMA RouteKeeps ==
    ASSUME DelInv, NameCalled \/ NameAnswers \/ ForgetCalled \/ ForgetFails \/ Dropped \/ Forgotten
    PROVE  DelInv'
<1>t. DelTyped
  BY DEF DelInv
<1>1. CASE NameCalled \/ NameAnswers \/ ForgetCalled \/ ForgetFails
  <2>a. /\ naming' \in {"none", "reading"} \cup {naming} /\ forgetting' \in {"no", "asked", forgetting}
        /\ forgetting = "dropped" => forgetting' = "dropped"
        /\ UNCHANGED <<cache, pairing, listening, backlog, stored, shown, delivered, calls,
                       torn, crossed>>
    BY <1>1 DEF NameCalled, NameAnswers, ForgetCalled, ForgetFails
  <2>1. limits' \in Limits /\ limits'.reports = limits.reports
    <3>1. CASE NameCalled BY <3>1, <1>t, SpendsKeeps DEF NameCalled, DelTyped
    <3>2. CASE NameAnswers \/ ForgetFails BY <3>2, <1>t DEF NameAnswers, ForgetFails, DelTyped
    <3>3. CASE ForgetCalled BY <3>3, <1>t, SpendsKeeps DEF ForgetCalled, DelTyped
    <3> QED BY <1>1, <3>1, <3>2, <3>3
  <2>2. DelTyped' BY <2>1, <2>a, <1>t DEF DelTyped
  <2>3. RowsAgree' /\ Apart' BY <2>a DEF DelInv, RowsAgree, Apart, UnderWay
  <2>4. ToldIsShown' BY <2>a DEF DelInv, ToldIsShown, Telling, Tells, Remembers
  <2>5. NewestIsSomewhere'
    BY <2>a DEF DelInv, NewestIsSomewhere, ToCome, Carries, AllShown, Telling
  <2> QED BY <2>2, <2>3, <2>4, <2>5 DEF DelInv
<1>2. CASE Dropped
  <2>a. /\ forgetting' = "dropped" /\ cache' = Nothing /\ pairing' = "none"
        /\ listening' = "nobody" /\ delivered' = NoBase
        /\ UNCHANGED <<backlog, stored, shown, calls, naming, torn, crossed, limits>>
    BY <1>2 DEF Dropped
  <2>1. DelTyped' BY <2>a, BlankFacts, <1>t DEF DelTyped
  <2>2. RowsAgree' /\ Apart' /\ NewestIsSomewhere'
    BY <2>a DEF DelInv, RowsAgree, Apart, UnderWay, NewestIsSomewhere
  <2>3. Remembers' BY <2>a, BlankFacts DEF Remembers
  <2>4. ToldIsShown' BY <2>3, <2>a DEF DelInv, ToldIsShown, Telling, Tells
  <2> QED BY <2>1, <2>2, <2>4 DEF DelInv
<1>3. CASE Forgotten
  <2>a. /\ forgetting' = "no" /\ stored' = FALSE
        /\ UNCHANGED <<cache, pairing, listening, backlog, shown, delivered, calls, naming,
                       torn, crossed, limits>>
    BY <1>3 DEF Forgotten
  <2>1. DelTyped' BY <2>a, <1>t DEF DelTyped
  <2>2. RowsAgree' /\ Apart' /\ NewestIsSomewhere'
    BY <2>a DEF DelInv, RowsAgree, Apart, UnderWay, NewestIsSomewhere
  <2>4. ToldIsShown' BY <2>a DEF DelInv, ToldIsShown, Telling, Tells, Remembers
  <2> QED BY <2>1, <2>2, <2>4 DEF DelInv
<1> QED BY <1>1, <1>2, <1>3

\* Every step.
LEMMA DelNextKeeps == DelInv /\ [DeliveryNext]_deliveryVars => DelInv'
<1> SUFFICES ASSUME DelInv, [DeliveryNext]_deliveryVars PROVE DelInv' OBVIOUS
<1>1. CASE DeliveryNext
  BY <1>1, ReportKeeps, RowKeeps, StartKeeps, TakesKeeps, TellsKeeps, EndKeeps, RouteKeeps
     DEF DeliveryNext
<1>2. CASE UNCHANGED deliveryVars
  <2> USE <1>2 DEF deliveryVars
  <2>1. DelTyped' /\ RowsAgree' /\ Apart' BY DEF DelInv, DelTyped, RowsAgree, Apart, UnderWay
  <2>2. ToldIsShown' BY DEF DelInv, ToldIsShown, Telling, Tells, Remembers
  <2>3. NewestIsSomewhere' BY DEF DelInv, NewestIsSomewhere, ToCome, Carries, AllShown, Telling
  <2> QED BY <2>1, <2>2, <2>3 DEF DelInv
<1> QED BY <1>1, <1>2

\* Once nothing is queued and nobody is under way, the newest values can only
\* be shown.
LEMMA DelInvSafe == DelInv => DeliveryTypeOK /\ ShownIsReported /\ NoneKept
<1> SUFFICES ASSUME DelInv PROVE DeliveryTypeOK /\ ShownIsReported /\ NoneKept OBVIOUS
<1>1. DeliveryTypeOK
  <2>1. backlog \in 0..MaxReports
    BY DeliveryAssumption DEF DelInv, DelTyped, Limits, DeliveryAssumption
  <2> QED BY <2>1 DEF DelInv, DelTyped, DeliveryTypeOK, Calls
<1>2. ShownIsReported
  BY BlankFacts DEF DelInv, NewestIsSomewhere, ToCome, Carries, AllShown, Telling, Quiet,
     ShownIsReported
<1>3. NoneKept BY DEF DelInv, RowsAgree, NoneKept
<1> QED BY <1>1, <1>2, <1>3

(* For any paths, values and bounds, and however reports fall between the *)
(* awaits of a delivery, of the naming and of the removal: once everything *)
(* queued is delivered the runtime shows what the device reported last - *)
(* unless two deliveries overlapped or a handler raised -, a device is *)
(* adopted only while its row is ready, and one that zigpy dropped is not kept *)
(* (_deliver, name_pairing, remove_pairing). *)
THEOREM DeliveryIsSafe == DeliverySpec => DeliverySafe
<1>1. DelInv /\ [DeliveryNext]_deliveryVars => [~stored /\ stored' => pairing = "ready"]_deliveryVars
  <2> SUFFICES ASSUME DelInv, DeliveryNext, ~stored, stored' PROVE pairing = "ready"
    BY DEF deliveryVars
  <2> QED
    BY DEF DeliveryNext, ReportArrives, RowChanges, BecomesReady, IsReinterviewed, Dispatches,
       Configured, Takes, TellsOne, CallEnds, CallRaises, NameCalled, Adopts, NameAnswers,
       ForgetCalled, ForgetFails, Dropped, Forgotten
<1> QED BY <1>1, DelInitInv, DelNextKeeps, DelInvSafe, PTL
     DEF DeliverySpec, DeliverySafe, AdoptedWhileReady

----------------------------------------
(* Whether a Zigbee device is shown online (ZigbeeAvailability).  What the *)
(* checker has counted against a device that is silent, pings have really *)
(* found - unless the link is down, where the counters are cleared before *)
(* they could count again. *)

AtDevice == sweep.pc \in {"pinging", "telling on", "telling off"}
HeadsAreThere == /\ AtDevice => sweep.todo # <<>>
                 /\ marking.pc = "telling" => marking.todo # <<>>
MarkedIsDown  == marking # NoMark => ~up
DownForgets   == ~up => (marking.pc = "marking" /\ marking.todo = Order) \/ missed = Zeros
EmptyIsQuiet  == Order = <<>> => missed = Zeros /\ sweep.todo = <<>>
AskedNow(n)   == sweep.pc = "pinging" /\ n = Head(sweep.todo)
Earned(n)     == missed[n] <= silent[n] + (IF AskedNow(n) THEN 1 ELSE 0)
MissesAreEarned == up /\ sweep.pc # "dead" => \A n \in Nodes \ heard : Earned(n)

AvailInv == /\ AvailTypeOK /\ HeadsAreThere /\ MarkedIsDown /\ DownForgets
            /\ EmptyIsQuiet /\ MissesAreEarned

\* The first of a list of devices, and the rest.
LEMMA TodoFacts ==
    ASSUME NEW q \in Seq(Nodes), q # <<>> PROVE Head(q) \in Nodes /\ Tail(q) \in Seq(Nodes)
  OBVIOUS

\* A counter that is cleared, and the states between two sweeps.
LEMMA QuietFacts ==
  /\ Zeros \in [Nodes -> 0..2] /\ \A n \in Nodes : Zeros[n] = 0
  /\ \A n \in Nodes, m \in [Nodes -> 0..2] : [m EXCEPT ![n] = 0] \in [Nodes -> 0..2]
  /\ \A n \in Nodes : [Zeros EXCEPT ![n] = 0] = Zeros
  /\ Asleep \in SweepStates /\ Asleep.pc = "asleep" /\ Asleep.todo = <<>>
  /\ <<>> \in Seq(Nodes) /\ Order \in Seq(Nodes)
<1>1. Zeros \in [Nodes -> 0..2] /\ \A n \in Nodes : Zeros[n] = 0 BY DEF Zeros
<1>2. \A n \in Nodes, m \in [Nodes -> 0..2] : [m EXCEPT ![n] = 0] \in [Nodes -> 0..2] OBVIOUS
<1>3. \A n \in Nodes : [Zeros EXCEPT ![n] = 0] = Zeros BY DEF Zeros
<1>4. Asleep \in SweepStates /\ Asleep.pc = "asleep" /\ Asleep.todo = <<>>
  BY DEF Asleep, SweepStates
<1>5. <<>> \in Seq(Nodes) /\ Order \in Seq(Nodes)
  BY AvailabilityAssumption DEF AvailabilityAssumption
<1> QED BY <1>1, <1>2, <1>3, <1>4, <1>5

\* The counters of one device, and what they say outside a ping.
LEMMA CounterFacts ==
    ASSUME AvailInv, NEW d \in Nodes
    PROVE  /\ missed[d] \in 0..2 /\ silent[d] \in 0..2
           /\ up /\ d \notin heard /\ sweep.pc \notin {"dead", "pinging"} => missed[d] <= silent[d]
           /\ up /\ d \notin heard /\ sweep.pc # "dead" => missed[d] <= silent[d] + 1
<1>1. missed[d] \in 0..2 /\ silent[d] \in 0..2 BY DEF AvailInv, AvailTypeOK
<1>2. up /\ d \notin heard /\ sweep.pc # "dead" => Earned(d) BY DEF AvailInv, MissesAreEarned
<1> QED BY <1>1, <1>2 DEF Earned, AskedNow

\* A bridge that starts has counted nothing.
LEMMA AvailInitInv == AvailInit => AvailInv
<1> SUFFICES ASSUME AvailInit PROVE AvailInv OBVIOUS
<1> USE DEF AvailInit
<1>1. AvailTypeOK
  <2>1. online \in [Nodes -> BOOLEAN] /\ told \in [Nodes -> {"unsaid", "online", "offline"}]
    OBVIOUS
  <2>2. marking \in [pc : {"none", "marking", "telling"}, todo : Seq(Nodes)]
    BY QuietFacts DEF NoMark
  <2>3. binding \in [pc : {"none", "subscribing", "reading"}, todo : Seq(Nodes), seen : SUBSET Nodes]
    BY QuietFacts DEF NoAttach
  <2> QED BY <2>1, <2>2, <2>3, QuietFacts DEF AvailTypeOK
<1>2. HeadsAreThere /\ MarkedIsDown /\ DownForgets /\ EmptyIsQuiet
  BY QuietFacts DEF HeadsAreThere, MarkedIsDown, DownForgets, EmptyIsQuiet, AtDevice, NoMark
<1>3. MissesAreEarned BY QuietFacts DEF MissesAreEarned, Earned
<1> QED BY <1>1, <1>2, <1>3 DEF AvailInv

----------------------------------------
(* The devices.  Only one that has been asked nothing falls silent unseen. *)

\* A device falls silent.
LEMMA SilenceKeeps == ASSUME AvailInv, NEW n \in Nodes, FallsSilent(n) PROVE AvailInv'
<1> USE DEF FallsSilent
<1>1. AvailTypeOK' BY DEF AvailInv, AvailTypeOK
<1>2. HeadsAreThere' /\ MarkedIsDown' /\ DownForgets' /\ EmptyIsQuiet'
  BY DEF AvailInv, HeadsAreThere, MarkedIsDown, DownForgets, EmptyIsQuiet, AtDevice, Zeros
<1>3. MissesAreEarned'
  <2> SUFFICES ASSUME up, sweep.pc # "dead", NEW d \in Nodes \ heard' PROVE Earned(d)'
    BY DEF MissesAreEarned
  <2>1. CASE d = n BY <2>1 DEF Earned, AskedNow, AvailInv, AvailTypeOK
  <2>2. CASE d # n BY <2>2 DEF AvailInv, MissesAreEarned, Earned, AskedNow
  <2> QED BY <2>1, <2>2
<1> QED BY <1>1, <1>2, <1>3 DEF AvailInv

\* A device is heard.
LEMMA HearingKeeps == ASSUME AvailInv, NEW n \in Nodes, HeardFrom(n) PROVE AvailInv'
<1>a. /\ heard' = heard \cup {n} /\ silent' = [silent EXCEPT ![n] = 0]
      /\ UNCHANGED <<up, told, missed, sweep, marking, binding>>
      /\ behind' \subseteq behind \cup {n}
      /\ online' = online \/ online' = [online EXCEPT ![n] = TRUE]
  BY DEF HeardFrom
<1>1. AvailTypeOK'
  <2>1. online' \in [Nodes -> BOOLEAN] BY <1>a, Zenon DEF AvailInv, AvailTypeOK
  <2>2. silent' \in [Nodes -> 0..2] BY <1>a, QuietFacts DEF AvailInv, AvailTypeOK
  <2>3. heard' \subseteq Nodes /\ behind' \subseteq Nodes BY <1>a DEF AvailInv, AvailTypeOK
  <2> QED BY <2>1, <2>2, <2>3, <1>a DEF AvailInv, AvailTypeOK
<1>2. HeadsAreThere' /\ MarkedIsDown' /\ DownForgets' /\ EmptyIsQuiet'
  BY <1>a DEF AvailInv, HeadsAreThere, MarkedIsDown, DownForgets, EmptyIsQuiet, AtDevice, Zeros
<1>3. MissesAreEarned' BY <1>a DEF AvailInv, AvailTypeOK, MissesAreEarned, Earned, AskedNow
<1> QED BY <1>1, <1>2, <1>3 DEF AvailInv

----------------------------------------
(* The sweep. *)

\* A sweep begins or ends.
LEMMA SweepTurns == ASSUME AvailInv, SweepBegins \/ SweepEnds PROVE AvailInv'
<1>a. /\ UNCHANGED <<up, heard, online, told, missed, marking, binding, behind, silent>>
      /\ sweep' \in SweepStates
      /\ sweep.pc \in {"asleep", "checking"} /\ sweep'.pc \in {"asleep", "checking"}
      /\ sweep'.todo \in {<<>>, Order}
  <2>1. CASE SweepBegins
    <3>1. heard \in SUBSET Nodes /\ Order \in Seq(Nodes) BY QuietFacts DEF AvailInv, AvailTypeOK
    <3> QED BY <2>1, <3>1 DEF SweepBegins, SweepStates
  <2>2. CASE SweepEnds BY <2>2, QuietFacts DEF SweepEnds
  <2> QED BY <2>1, <2>2
<1>1. AvailTypeOK' BY <1>a DEF AvailInv, AvailTypeOK
<1>2. HeadsAreThere' /\ MarkedIsDown' /\ DownForgets' /\ EmptyIsQuiet'
  BY <1>a DEF AvailInv, HeadsAreThere, MarkedIsDown, DownForgets, EmptyIsQuiet, AtDevice, Zeros
<1>3. MissesAreEarned' BY <1>a DEF AvailInv, MissesAreEarned, Earned, AskedNow
<1> QED BY <1>1, <1>2, <1>3 DEF AvailInv

\* A ping is counted before it is sent, and so it has room for its failure.
LEMMA AskedKeeps ==
    ASSUME AvailInv, CheckOne, Answer(Head(sweep.todo)) = "ping" PROVE AvailInv'
<1> DEFINE n == Head(sweep.todo)
<1>t. AvailTypeOK
  BY DEF AvailInv
<1>n. n \in Nodes /\ sweep.todo # <<>> /\ sweep.todo \in Seq(Nodes) /\ sweep.pc = "checking"
  BY <1>t, TodoFacts DEF CheckOne, AvailTypeOK, SweepStates
<1>a. /\ sweep' = [sweep EXCEPT !.pc = "pinging"]
      /\ missed' = [missed EXCEPT ![n] = @ + 1]
      /\ UNCHANGED <<up, heard, online, told, marking, binding, behind, silent>>
  BY DEF CheckOne
<1>b. up /\ ~(missed[n] >= 2)
  BY DEF Answer
<1>1. missed' \in [Nodes -> 0..2] /\ missed'[n] = missed[n] + 1 /\ \A d \in Nodes \ {n} : missed'[d] = missed[d]
  <2>1. missed[n] + 1 \in 0..2
    <3>1. missed[n] \in 0..2 BY <1>n, CounterFacts
    <3> QED BY <1>b, <3>1
  <2> QED BY <2>1, <1>a, <1>t, <1>n DEF AvailTypeOK
<1>2. sweep' \in SweepStates /\ sweep'.pc = "pinging" /\ sweep'.todo = sweep.todo
  BY <1>a, <1>t DEF AvailTypeOK, SweepStates
<1>3. AvailTypeOK' BY <1>1, <1>2, <1>a, <1>t DEF AvailTypeOK
<1>4. HeadsAreThere' /\ MarkedIsDown' /\ DownForgets'
  BY <1>2, <1>n, <1>a, <1>b DEF AvailInv, HeadsAreThere, MarkedIsDown, DownForgets, AtDevice
<1>5. EmptyIsQuiet' BY <1>n DEF AvailInv, EmptyIsQuiet
<1>6. MissesAreEarned'
  <2> SUFFICES ASSUME NEW d \in Nodes \ heard PROVE Earned(d)' BY <1>a DEF MissesAreEarned
  <2>1. missed[d] <= silent[d] /\ missed[d] \in 0..2 /\ silent[d] \in 0..2
    BY <1>n, <1>b, CounterFacts
  <2>2. CASE d = n BY <2>1, <2>2, <1>1, <1>2, <1>a DEF Earned, AskedNow
  <2>3. CASE d # n BY <2>1, <2>3, <1>1, <1>2, <1>a DEF Earned, AskedNow
  <2> QED BY <2>2, <2>3
<1> QED BY <1>3, <1>4, <1>5, <1>6 DEF AvailInv

\* An answer that needs no ping only clears a counter.
LEMMA AnswersKeeps ==
    ASSUME AvailInv, CheckOne, Answer(Head(sweep.todo)) # "ping" PROVE AvailInv'
<1> DEFINE n == Head(sweep.todo)
           b == Answer(n) = "online"
<1>t. AvailTypeOK
  BY DEF AvailInv
<1>n. n \in Nodes /\ sweep.todo # <<>> /\ sweep.todo \in Seq(Nodes) /\ Tail(sweep.todo) \in Seq(Nodes)
      /\ sweep.pc = "checking"
  BY <1>t, TodoFacts DEF CheckOne, AvailTypeOK, SweepStates
<1>a. /\ missed' = missed \/ missed' = [missed EXCEPT ![n] = 0]
      /\ UNCHANGED <<up, heard, told, marking, binding, silent>>
      /\ \/ sweep' = [sweep EXCEPT !.todo = Tail(@)] /\ UNCHANGED <<online, behind>>
         \/ /\ sweep' = [sweep EXCEPT !.pc = IF b THEN "telling on" ELSE "telling off"]
            /\ online' = [online EXCEPT ![n] = b] /\ behind' = behind \ {n}
  BY DEF CheckOne, Says
<1>1. /\ missed' \in [Nodes -> 0..2]
      /\ missed = Zeros => missed' = Zeros
      /\ \A d \in Nodes : missed'[d] \in {missed[d], 0}
  <2>1. missed \in [Nodes -> 0..2] /\ (missed' = missed \/ missed' = [missed EXCEPT ![n] = 0])
    BY <1>a, <1>t DEF AvailTypeOK
  <2>2. missed = Zeros => missed' = Zeros BY ONLY <2>1, <1>n, QuietFacts
  <2>3. missed' \in [Nodes -> 0..2] /\ \A d \in Nodes : missed'[d] \in {missed[d], 0}
    BY ONLY <2>1, <1>n, QuietFacts
  <2> QED BY <2>2, <2>3
<1>2. /\ sweep' \in SweepStates
      /\ \/ sweep'.pc = "checking" /\ sweep'.todo = Tail(sweep.todo)
         \/ sweep'.pc \in {"telling on", "telling off"} /\ sweep'.todo = sweep.todo
  <2> HIDE DEF b
  <2> QED BY <1>a, <1>n, <1>t DEF AvailTypeOK, SweepStates
<1>3. online' \in [Nodes -> BOOLEAN] /\ behind' \subseteq Nodes
  <2>1. b \in BOOLEAN OBVIOUS
  <2> HIDE DEF b
  <2>2. behind' \subseteq Nodes BY <1>a, <1>t DEF AvailTypeOK
  <2>3. online' \in [Nodes -> BOOLEAN] BY ONLY <2>1, <1>a, <1>t, Zenon DEF AvailTypeOK
  <2> QED BY <2>2, <2>3
<1> HIDE DEF b
<1>4. AvailTypeOK'
  <2>1. UNCHANGED <<up, heard, told, marking, binding, silent>> BY <1>a
  <2>2. missed' \in [Nodes -> 0..2] /\ sweep' \in SweepStates BY <1>1, <1>2
  <2> QED BY ONLY <2>1, <2>2, <1>3, <1>t DEF AvailTypeOK
<1>5. HeadsAreThere' BY <1>2, <1>n, <1>a DEF AvailInv, HeadsAreThere, AtDevice
<1>6. MarkedIsDown' /\ DownForgets' BY <1>1, <1>a DEF AvailInv, MarkedIsDown, DownForgets, Zeros
<1>7. EmptyIsQuiet' BY <1>n DEF AvailInv, EmptyIsQuiet
<1>8. MissesAreEarned'
  <2> SUFFICES ASSUME up, NEW d \in Nodes \ heard PROVE Earned(d)' BY <1>a DEF MissesAreEarned
  <2>1. missed[d] <= silent[d] /\ missed[d] \in 0..2 /\ silent[d] \in 0..2 BY <1>n, CounterFacts
  <2>2. missed'[d] <= silent'[d] /\ silent'[d] \in 0..2
    <3>1. missed'[d] \in {missed[d], 0} /\ UNCHANGED silent BY <1>1, <1>a
    <3> QED BY ONLY <2>1, <3>1
  <2>3. sweep'.pc # "pinging" BY <1>2
  <2> QED BY <2>2, <2>3 DEF Earned, AskedNow
<1> QED BY <1>4, <1>5, <1>6, <1>7, <1>8 DEF AvailInv

\* The end of a ping: it is answered, or one more is known to have been lost.
LEMMA PingKeeps == ASSUME AvailInv, PingAnswered \/ PingUnanswered PROVE AvailInv'
<1> DEFINE n == Head(sweep.todo)
<1>t. AvailTypeOK
  BY DEF AvailInv
<1>n. /\ n \in Nodes /\ sweep.todo # <<>> /\ sweep.todo \in Seq(Nodes) /\ Tail(sweep.todo) \in Seq(Nodes)
      /\ sweep.pc = "pinging"
  BY <1>t, TodoFacts DEF PingAnswered, PingUnanswered, AvailInv, HeadsAreThere, AtDevice,
     AvailTypeOK, SweepStates
<1>a. /\ sweep' = [sweep EXCEPT !.pc = "checking", !.todo = Tail(@)]
      /\ UNCHANGED <<up, online, told, marking, binding, behind>>
  BY DEF PingAnswered, PingUnanswered
<1>b. \/ /\ up /\ missed' = [missed EXCEPT ![n] = 0] /\ heard' = heard \cup {n}
         /\ silent' = [silent EXCEPT ![n] = 0]
      \/ /\ missed' = missed /\ heard' = heard
         /\ silent' = [silent EXCEPT ![n] = IF up /\ @ < 2 THEN @ + 1 ELSE @]
  BY DEF PingAnswered, PingUnanswered
<1>1. missed' \in [Nodes -> 0..2] /\ heard' \subseteq Nodes
  <2>1. [missed EXCEPT ![n] = 0] \in [Nodes -> 0..2] /\ missed \in [Nodes -> 0..2]
    BY <1>n, <1>t, QuietFacts DEF AvailTypeOK
  <2>2. heard \cup {n} \subseteq Nodes /\ heard \subseteq Nodes BY <1>n, <1>t DEF AvailTypeOK
  <2> QED BY ONLY <2>1, <2>2, <1>b
<1>2. silent' \in [Nodes -> 0..2]
  <2>1. (IF up /\ silent[n] < 2 THEN silent[n] + 1 ELSE silent[n]) \in 0..2
    BY <1>n, <1>t DEF AvailTypeOK
  <2> QED BY <2>1, <1>b, <1>n, <1>t, QuietFacts DEF AvailTypeOK
<1>3. sweep' \in SweepStates /\ sweep'.pc = "checking" /\ sweep'.todo = Tail(sweep.todo)
  BY <1>a, <1>n, <1>t DEF AvailTypeOK, SweepStates
<1>4. AvailTypeOK' BY <1>1, <1>2, <1>3, <1>a, <1>t DEF AvailTypeOK
<1>5. HeadsAreThere' /\ MarkedIsDown'
  BY <1>3, <1>a DEF AvailInv, HeadsAreThere, MarkedIsDown, AtDevice
<1>6. DownForgets' BY <1>a, <1>b DEF AvailInv, DownForgets, Zeros
<1>7. EmptyIsQuiet' BY <1>n DEF AvailInv, EmptyIsQuiet
<1>8. MissesAreEarned'
  <2> SUFFICES ASSUME up, NEW d \in Nodes \ heard' PROVE Earned(d)' BY <1>a DEF MissesAreEarned
  <2>e. d \notin heard /\ Earned(d)
    BY <1>b, <1>n DEF AvailInv, MissesAreEarned
  <2>1. CASE d # n BY <2>1, <2>e, <1>b, <1>3, <1>n, <1>t DEF Earned, AskedNow, AvailTypeOK
  <2>2. CASE d = n
    <3>1. missed' = missed /\ silent'[n] = IF silent[n] < 2 THEN silent[n] + 1 ELSE silent[n]
      BY <2>2, <1>b, <1>n, <1>t DEF AvailTypeOK
    <3>2. missed[n] \in 0..2 /\ silent[n] \in 0..2 /\ missed[n] <= silent[n] + 1
      BY <2>2, <2>e, <1>n, <1>t DEF Earned, AskedNow, AvailTypeOK
    <3> QED BY <3>1, <3>2, <2>2, <1>3 DEF Earned, AskedNow
  <2> QED BY <2>1, <2>2
<1> QED BY <1>4, <1>5, <1>6, <1>7, <1>8 DEF AvailInv

\* A report of the sweep returns, or raises.
LEMMA SweepSaysKeeps == ASSUME AvailInv, SweepTold \/ SweepRaised PROVE AvailInv'
<1>t. AvailTypeOK
  BY DEF AvailInv
<1>n. /\ Head(sweep.todo) \in Nodes /\ sweep.todo # <<>> /\ Tail(sweep.todo) \in Seq(Nodes)
      /\ sweep.pc \in {"telling on", "telling off"}
  BY <1>t, TodoFacts DEF SweepTold, SweepRaised, AvailInv, HeadsAreThere, AtDevice, AvailTypeOK,
     SweepStates
<1>a. /\ UNCHANGED <<up, heard, online, missed, marking, binding, behind, silent>>
      /\ \/ /\ sweep' = [sweep EXCEPT !.pc = "checking", !.todo = Tail(@)]
            /\ told' = [told EXCEPT ![Head(sweep.todo)] = Word(sweep.pc = "telling on")]
         \/ sweep' = [Asleep EXCEPT !.pc = "dead"] /\ told' = told
  BY DEF SweepTold, SweepRaised
<1>1. told' \in [Nodes -> {"unsaid", "online", "offline"}]
  BY <1>a, <1>n, <1>t DEF Word, AvailTypeOK
<1>2. /\ sweep' \in SweepStates
      /\ sweep'.pc = "checking" \/ sweep'.pc = "dead"
  <2>1. CASE sweep' = [sweep EXCEPT !.pc = "checking", !.todo = Tail(@)]
    BY <2>1, <1>n, <1>t DEF AvailTypeOK, SweepStates
  <2>2. CASE sweep' = [Asleep EXCEPT !.pc = "dead"] BY <2>2, QuietFacts DEF SweepStates
  <2> QED BY <1>a, <2>1, <2>2
<1>3. AvailTypeOK' BY <1>1, <1>2, <1>a, <1>t DEF AvailTypeOK
<1>4. HeadsAreThere' /\ MarkedIsDown' /\ DownForgets'
  BY <1>2, <1>a DEF AvailInv, HeadsAreThere, MarkedIsDown, DownForgets, AtDevice, Zeros
<1>5. EmptyIsQuiet' BY <1>n DEF AvailInv, EmptyIsQuiet
<1>6. MissesAreEarned' BY <1>n, <1>2, <1>a DEF AvailInv, MissesAreEarned, Earned, AskedNow
<1> QED BY <1>3, <1>4, <1>5, <1>6 DEF AvailInv

----------------------------------------
(* The link.  Marking clears every counter before the link can return. *)

\* The link is lost.
LEMMA LossKeeps == ASSUME AvailInv, CoordinatorLost PROVE AvailInv'
<1> USE DEF CoordinatorLost
<1>1. AvailTypeOK'
  <2>1. marking' \in [pc : {"none", "marking", "telling"}, todo : Seq(Nodes)] BY QuietFacts
  <2> QED BY <2>1, QuietFacts DEF AvailInv, AvailTypeOK
<1>2. HeadsAreThere' /\ MarkedIsDown' /\ DownForgets' /\ EmptyIsQuiet'
  BY DEF AvailInv, HeadsAreThere, MarkedIsDown, DownForgets, EmptyIsQuiet, AtDevice, Zeros
<1>3. MissesAreEarned' BY DEF MissesAreEarned
<1> QED BY <1>1, <1>2, <1>3 DEF AvailInv

\* Every device is told, or at least tried.
LEMMA MarkKeeps == ASSUME AvailInv, MarkStep PROVE AvailInv'
<1>t. AvailTypeOK
  BY DEF AvailInv
<1>m. marking.pc \in {"marking", "telling"} /\ ~up
  <2>1. marking.pc \in {"marking", "telling"}
    BY DEF MarkStep, MarkOne, MarkTold, MarkRaised, MarkEnds
  <2>2. marking # NoMark BY <2>1 DEF NoMark
  <2> QED BY <2>1, <2>2 DEF AvailInv, MarkedIsDown
<1>a. UNCHANGED <<up, heard, sweep, binding, silent>>
  BY DEF MarkStep, MarkOne, MarkTold, MarkRaised, MarkEnds
<1>b. EmptyIsQuiet' /\ MissesAreEarned' /\ MarkedIsDown'
  <2>1. missed' = missed \/ missed' = Zeros
    BY DEF MarkStep, MarkOne, MarkTold, MarkRaised, MarkEnds
  <2> QED BY <2>1, <1>a, <1>m DEF AvailInv, EmptyIsQuiet, MissesAreEarned, MarkedIsDown, Zeros
<1>1. CASE MarkOne
  <2> DEFINE n == Head(marking.todo)
  <2>n. n \in Nodes /\ marking.todo # <<>> /\ Tail(marking.todo) \in Seq(Nodes)
    BY <1>1, <1>t, TodoFacts DEF MarkOne, AvailTypeOK
  <2>1. missed' = Zeros BY <1>1, <1>m DEF MarkOne, AvailInv, DownForgets
  <2>2. /\ \/ marking' = [marking EXCEPT !.todo = Tail(@)] /\ UNCHANGED <<online, behind>>
           \/ /\ online' = [online EXCEPT ![n] = FALSE] /\ behind' = behind \ {n}
              /\ marking' = [marking EXCEPT !.pc = "telling"]
        /\ told' = told
    BY <1>1 DEF MarkOne, Says
  <2>3. /\ marking' \in [pc : {"none", "marking", "telling"}, todo : Seq(Nodes)]
        /\ marking'.pc = "telling" => marking'.todo # <<>>
    BY <2>2, <2>n, <1>1, <1>t DEF AvailTypeOK, MarkOne
  <2>4. online' \in [Nodes -> BOOLEAN] BY ONLY <2>2, <1>t, Zenon DEF AvailTypeOK
  <2>5. behind' \subseteq Nodes BY <2>2, <1>t DEF AvailTypeOK
  <2>6. AvailTypeOK' BY <2>1, <2>2, <2>3, <2>4, <2>5, <1>a, <1>t, QuietFacts DEF AvailTypeOK
  <2>7. HeadsAreThere' /\ DownForgets'
    BY <2>1, <2>3, <1>a DEF AvailInv, HeadsAreThere, DownForgets, AtDevice, Zeros
  <2> QED BY <2>6, <2>7, <1>b DEF AvailInv
<1>2. CASE MarkTold \/ MarkRaised
  <2>n. /\ Head(marking.todo) \in Nodes /\ Tail(marking.todo) \in Seq(Nodes)
        /\ marking.pc = "telling"
    BY <1>2, <1>t, TodoFacts DEF MarkTold, MarkRaised, AvailInv, HeadsAreThere, AvailTypeOK
  <2>1. /\ marking' = [pc |-> "marking", todo |-> Tail(marking.todo)]
        /\ told' = told \/ told' = [told EXCEPT ![Head(marking.todo)] = "offline"]
        /\ UNCHANGED <<online, behind, missed>>
    BY <1>2 DEF MarkTold, MarkRaised
  <2>2. told' \in [Nodes -> {"unsaid", "online", "offline"}] BY <2>1, <2>n, <1>t DEF AvailTypeOK
  <2>3. AvailTypeOK' BY <2>1, <2>2, <2>n, <1>a, <1>t DEF AvailTypeOK
  <2>4. HeadsAreThere' /\ DownForgets'
    BY <2>1, <2>n, <1>a, <1>m DEF AvailInv, HeadsAreThere, DownForgets, AtDevice, Zeros
  <2> QED BY <2>3, <2>4, <1>b DEF AvailInv
<1>3. CASE MarkEnds
  <2>1. missed = Zeros BY <1>3, <1>m DEF MarkEnds, AvailInv, DownForgets, EmptyIsQuiet
  <2>2. marking' = NoMark /\ UNCHANGED <<online, told, missed, behind>> BY <1>3 DEF MarkEnds
  <2>3. AvailTypeOK' BY <2>2, <1>a, <1>t, QuietFacts DEF AvailTypeOK, NoMark
  <2>4. HeadsAreThere' /\ DownForgets'
    BY <2>1, <2>2, <1>a DEF AvailInv, HeadsAreThere, DownForgets, AtDevice, Zeros, NoMark
  <2> QED BY <2>3, <2>4, <1>b DEF AvailInv
<1> QED BY <1>1, <1>2, <1>3 DEF MarkStep

\* A link returns to counters that are clear.
LEMMA ReturnKeeps == ASSUME AvailInv, LinkReturns PROVE AvailInv'
<1> USE DEF LinkReturns
<1>1. AvailTypeOK'
  <2>1. binding' \in [pc : {"none", "subscribing", "reading"}, todo : Seq(Nodes), seen : SUBSET Nodes]
    BY QuietFacts DEF NoAttach
  <2> QED BY <2>1 DEF AvailInv, AvailTypeOK
<1>2. HeadsAreThere' /\ MarkedIsDown' /\ DownForgets' /\ EmptyIsQuiet'
  BY DEF AvailInv, HeadsAreThere, MarkedIsDown, DownForgets, EmptyIsQuiet, AtDevice, Zeros
<1>3. missed = Zeros BY DEF AvailInv, DownForgets, NoMark
<1>4. MissesAreEarned'
  <2>1. ASSUME NEW d \in Nodes PROVE Earned(d)'
    <3>1. silent[d] \in 0..2 /\ missed[d] = 0 /\ UNCHANGED <<silent, missed>>
      BY <1>3, CounterFacts, QuietFacts
    <3> QED BY <3>1 DEF Earned
  <2> QED BY <2>1 DEF MissesAreEarned
<1> QED BY <1>1, <1>2, <1>4 DEF AvailInv

\* The supervisor attaches a source that is back.
LEMMA BindKeeps == ASSUME AvailInv, BindStep PROVE AvailInv'
<1>t. AvailTypeOK
  BY DEF AvailInv
<1>a. UNCHANGED <<up, heard, marking, silent>>
  BY DEF BindStep, Subscribes, ReadsOne, Seeds
<1>1. CASE Subscribes
  <2>1. /\ sweep' = Asleep /\ missed' = Zeros /\ UNCHANGED <<online, behind>>
        /\ told' = [n \in Nodes |-> "unsaid"]
        /\ binding' = [binding EXCEPT !.pc = "reading", !.todo = Order]
    BY <1>1 DEF Subscribes
  <2>2. told' \in [Nodes -> {"unsaid", "online", "offline"}] BY <2>1
  <2>3. AvailTypeOK' BY <2>1, <2>2, <1>a, <1>t, QuietFacts DEF AvailTypeOK
  <2>4. HeadsAreThere' /\ MarkedIsDown' /\ DownForgets' /\ EmptyIsQuiet' BY <2>1, <1>a, QuietFacts
       DEF AvailInv, HeadsAreThere, MarkedIsDown, DownForgets, EmptyIsQuiet, AtDevice, Zeros
  <2>5. MissesAreEarned'
    BY <2>1, <1>a, <1>t, QuietFacts DEF MissesAreEarned, Earned, AskedNow, AvailTypeOK
  <2> QED BY <2>3, <2>4, <2>5 DEF AvailInv
<1>2. CASE ReadsOne \/ Seeds
  <2>1. UNCHANGED <<sweep, missed, told>> BY <1>2 DEF ReadsOne, Seeds
  <2>2. online' \in [Nodes -> BOOLEAN] /\ behind' \subseteq Nodes
    <3>1. CASE ReadsOne BY <3>1, <1>t DEF ReadsOne, AvailTypeOK
    <3>2. CASE Seeds
      <4>1. online' = [d \in Nodes |-> d \in binding.seen] BY <3>2 DEF Seeds
      <4>2. \A d \in Nodes : (d \in binding.seen) \in BOOLEAN OBVIOUS
      <4>3. online' \in [Nodes -> BOOLEAN] BY ONLY <4>1, <4>2, Zenon
      <4>4. behind' \subseteq Nodes BY <3>2 DEF Seeds
      <4> QED BY <4>3, <4>4
    <3> QED BY <3>1, <3>2, <1>2
  <2>3. binding' \in [pc : {"none", "subscribing", "reading"}, todo : Seq(Nodes), seen : SUBSET Nodes]
    <3>1. CASE ReadsOne
      <4>1. Tail(binding.todo) \in Seq(Nodes) /\ Head(binding.todo) \in Nodes
        BY <3>1, <1>t, TodoFacts DEF ReadsOne, AvailTypeOK
      <4> QED BY <3>1, <4>1, <1>t DEF ReadsOne, AvailTypeOK
    <3>2. CASE Seeds BY <3>2, QuietFacts DEF Seeds, NoAttach
    <3> QED BY <3>1, <3>2, <1>2
  <2>4. AvailTypeOK' BY <2>1, <2>2, <2>3, <1>a, <1>t DEF AvailTypeOK
  <2>5. HeadsAreThere' /\ MarkedIsDown' /\ DownForgets' /\ EmptyIsQuiet' BY <2>1, <1>a
       DEF AvailInv, HeadsAreThere, MarkedIsDown, DownForgets, EmptyIsQuiet, AtDevice, Zeros
  <2>6. MissesAreEarned' BY <2>1, <1>a DEF AvailInv, MissesAreEarned, Earned, AskedNow
  <2> QED BY <2>4, <2>5, <2>6 DEF AvailInv
<1> QED BY <1>1, <1>2 DEF BindStep

\* Every step.
LEMMA AvailNextKeeps == AvailInv /\ [AvailNext]_availVars => AvailInv'
<1> SUFFICES ASSUME AvailInv, [AvailNext]_availVars PROVE AvailInv' OBVIOUS
<1>1. CASE AvailNext
  <2>1. CASE CheckOne BY <2>1, AskedKeeps, AnswersKeeps
  <2> QED BY <1>1, <2>1, SilenceKeeps, HearingKeeps, SweepTurns, PingKeeps, SweepSaysKeeps,
             LossKeeps, MarkKeeps, ReturnKeeps, BindKeeps
          DEF AvailNext, SweepStep
<1>2. CASE UNCHANGED availVars
  <2> USE <1>2 DEF availVars
  <2>1. AvailTypeOK' BY DEF AvailInv, AvailTypeOK
  <2>2. HeadsAreThere' /\ MarkedIsDown' /\ DownForgets' /\ EmptyIsQuiet'
    BY DEF AvailInv, HeadsAreThere, MarkedIsDown, DownForgets, EmptyIsQuiet, AtDevice, Zeros
  <2>3. MissesAreEarned' BY DEF AvailInv, MissesAreEarned, Earned, AskedNow
  <2> QED BY <2>1, <2>2, <2>3 DEF AvailInv
<1> QED BY <1>1, <1>2

\* A sweep that is about to say "offline" has counted two misses.
LEMMA WrittenOffTwice ==
    ASSUME AvailInv, AvailNext, NEW n \in Listening, up, online[n], ~online'[n],
           sweep.pc = "checking", sweep'.pc = "telling off"
    PROVE  silent[n] >= 2
<1>t. AvailTypeOK
  BY DEF AvailInv
<1>1. CheckOne
  BY DEF AvailNext, FallsSilent, HeardFrom, SweepStep, SweepBegins, SweepEnds, PingAnswered,
     PingUnanswered, SweepTold, SweepRaised, CoordinatorLost, MarkStep, MarkOne, MarkTold,
     MarkRaised, MarkEnds, LinkReturns, BindStep, Subscribes, ReadsOne, Seeds, Asleep
<1>2. n \in Nodes BY AvailabilityAssumption DEF AvailabilityAssumption
<1>3. n = Head(sweep.todo) /\ Answer(n) # "online" /\ Answer(n) # "ping"
  <2>1. Answer(Head(sweep.todo)) # "ping" /\ online' = [online EXCEPT ![Head(sweep.todo)] = (Answer(Head(sweep.todo)) = "online")]
    BY <1>1, <1>t DEF CheckOne, Says, AvailTypeOK, SweepStates
  <2> QED BY <2>1, <1>2, <1>t DEF AvailTypeOK
<1>4. n \notin heard /\ missed[n] >= 2 BY <1>3, <1>2, <1>t DEF Answer, IsFresh
<1>5. missed[n] <= silent[n] BY <1>4, <1>2, CounterFacts
<1>6. missed[n] \in 0..2 /\ silent[n] \in 0..2 BY <1>2, CounterFacts
<1>7. missed[n] >= 2 BY <1>4
<1> QED BY ONLY <1>5, <1>6, <1>7

(* For any devices, catalogue and bounds, however sweeps, snapshots, losses *)
(* of the link and reports that raise fall between each other: a sweep *)
(* writes a device off that listens, while the link holds, only when two *)
(* pings have gone unanswered (_check_one, mark_all_offline, subscribe). *)
THEOREM AvailabilityIsSafe == AvailSpec => AvailabilitySafe
<1>1. AvailInv /\ [AvailNext]_availVars
        => [\A n \in Listening :
              (/\ up /\ online[n] /\ ~online'[n]
               /\ sweep.pc = "checking" /\ sweep'.pc = "telling off") => silent[n] >= 2]_availVars
  BY WrittenOffTwice DEF availVars
<1>2. AvailInv => AvailTypeOK BY DEF AvailInv
<1> QED
  BY <1>1, <1>2, AvailInitInv, AvailNextKeeps, PTL DEF AvailSpec, AvailabilitySafe, TwoChances
========================================
