------------------------------ MODULE KeptProofs ------------------------------
(***************************************************************************)
(* Proofs about what the bridge keeps: the Thread network between keeper,  *)
(* adoption and commissioning, for any number of failing requests,         *)
(* adoptions, restarts and lost data directories; and the database, for    *)
(* any devices, tables of commands, groups, failing writes and commits,    *)
(* and kills; its migrations, for any older version and any number of      *)
(* stops; the updater's mailbox, for any requests, sticks, kills and       *)
(* resets; and the project file, for any file, house, edits and syncs.     *)
(***************************************************************************)
EXTENDS ThreadNetwork, Store, StoreSchema, Sidecar, ProjectSync,
        SequenceTheorems, FiniteSetTheorems, WellFoundedInduction, TLAPS

----------------------------------------
(* The invariant. *)

Places == [at : {"off", "waits", "asksRole", "asksNodes", "creates", "enables", "rereads",
                 "hands", "paid", "done", "puts", "disables"}, read : Nat]

ThreadTyped ==
    /\ ThreadTypeOK /\ made \in Nat
    /\ keeper \in Places /\ joiner \in Places /\ pairing \in Places

\* A network the border router makes up is a new one, in which nobody lives.
NetworksAreKnown ==
    /\ net <= Home + made
    /\ \A n \in lives : n \in Nat /\ 0 < n /\ n <= Home + made

\* Whoever counted the devices and is still to act on it: who lives there by
\* now came after the count.
CountedOrLate ==
    /\ keeper.at = "creates" => lives \subseteq late
    /\ joiner.at \in {"asksRole", "disables", "puts"} => net \notin lives \ late

\* Nobody hands over a network that is not the border router's.
ReadIsCurrent ==
    /\ \A who \in {keeper, joiner, pairing} : who.at = "hands" => who.read = net
    /\ joiner.at = "enables" => net = Home

HasIt == handedOver = net \/ (handedOver = 0 /\ ~known)

\* Until matter-server has the network, somebody is left to hand it over; who
\* has been answered and has not yet cleared the debt was answered for it.
SomebodyHands ==
    /\ net # 0 => \/ HasIt
                  \/ owed /\ keeper.at \notin {"done", "paid"}
                  \/ joiner.at \in {"enables", "hands"}
    /\ net # 0 /\ "paid" \in {keeper.at, joiner.at} => HasIt

ThreadInv ==
    /\ ThreadTyped /\ NetworksAreKnown /\ CountedOrLate /\ NobodyIsStranded
    /\ excuses = {} => ReadIsCurrent /\ SomebodyHands

----------------------------------------
(* Every step keeps it: the keeper's, the adoption's, a commissioning's, and *)
(* what the servers lose. *)

LEMMA ThreadInitInv == ThreadInit => ThreadInv
  BY DEF ThreadInit, ThreadInv, ThreadTyped, ThreadTypeOK, Places, NetworksAreKnown, CountedOrLate,
     NobodyIsStranded, ReadIsCurrent, SomebodyHands, HasIt, At, NoStep, Waits, Older, Home

LEMMA KeeperStepInv == ThreadInv /\ (KeeperSteps) => ThreadInv'
<1> SUFFICES ASSUME ThreadInv PROVE (KeeperSteps) => ThreadInv' OBVIOUS
<1> USE DEF ThreadInv, Faulty, NetBecomes, ServerTakes, Stale, Strands, At, NoStep, Waits, Home, Older, router, server, ghosts, KeeperKeeps, HandsNext, Creates
<1>1. ASSUME KeeperReads PROVE ThreadInv'
  <2> USE <1>1 DEF KeeperReads
  <2>0. keeper' \in Places /\ joiner' \in Places /\ pairing' \in Places
    BY DEF ThreadTyped, ThreadTypeOK, Places
  <2>1. ThreadTyped'
    <3>1. net' \in Nat /\ made' \in Nat /\ handedOver' \in Nat
      BY DEF ThreadTyped, ThreadTypeOK, Places
    <3> QED BY <2>0, <3>1 DEF ThreadTyped, ThreadTypeOK
  <2>2. NetworksAreKnown' /\ CountedOrLate' /\ NobodyIsStranded'
    BY DEF ThreadTyped, ThreadTypeOK, Places, NetworksAreKnown, CountedOrLate, NobodyIsStranded
  <2>3. excuses' = {} => ReadIsCurrent' BY DEF ThreadTyped, Places, ReadIsCurrent
  <2>4. excuses' = {} => SomebodyHands'
    BY DEF ThreadTyped, ThreadTypeOK, Places, ReadIsCurrent, SomebodyHands, HasIt
  <2> QED BY <2>1, <2>2, <2>3, <2>4
<1>2. ASSUME KeeperAsksRole PROVE ThreadInv'
  BY <1>2 DEF KeeperAsksRole, ThreadInv, ThreadTyped, ThreadTypeOK, Places, NetworksAreKnown,
     CountedOrLate, NobodyIsStranded, ReadIsCurrent, SomebodyHands, HasIt
<1>3. ASSUME KeeperAsksNodes PROVE ThreadInv'
  BY <1>3 DEF KeeperAsksNodes, ThreadInv, ThreadTyped, ThreadTypeOK, Places, NetworksAreKnown,
     CountedOrLate, NobodyIsStranded, ReadIsCurrent, SomebodyHands, HasIt
<1>4. ASSUME KeeperCreates PROVE ThreadInv'
  <2> USE <1>4 DEF KeeperCreates
  <2>0. keeper' \in Places /\ joiner' \in Places /\ pairing' \in Places
    BY DEF ThreadTyped, ThreadTypeOK, Places
  <2>1. ThreadTyped'
    <3>1. net' \in Nat /\ made' \in Nat /\ handedOver' \in Nat
      BY DEF ThreadTyped, ThreadTypeOK, Places
    <3> QED BY <2>0, <3>1 DEF ThreadTyped, ThreadTypeOK
  <2>2. NetworksAreKnown' /\ CountedOrLate' /\ NobodyIsStranded'
    BY DEF ThreadTyped, ThreadTypeOK, Places, NetworksAreKnown, CountedOrLate, NobodyIsStranded
  <2>3. excuses' = {} => ReadIsCurrent' BY DEF ThreadTyped, Places, ReadIsCurrent
  <2>4. excuses' = {} => SomebodyHands'
    BY DEF ThreadTyped, ThreadTypeOK, Places, ReadIsCurrent, SomebodyHands, HasIt
  <2> QED BY <2>1, <2>2, <2>3, <2>4
<1>5. ASSUME KeeperEnables PROVE ThreadInv'
  BY <1>5 DEF KeeperEnables, ThreadInv, ThreadTyped, ThreadTypeOK, Places, NetworksAreKnown,
     CountedOrLate, NobodyIsStranded, ReadIsCurrent, SomebodyHands, HasIt
<1>6. ASSUME KeeperRereads PROVE ThreadInv'
  BY <1>6 DEF KeeperRereads, ThreadInv, ThreadTyped, ThreadTypeOK, Places, NetworksAreKnown,
     CountedOrLate, NobodyIsStranded, ReadIsCurrent, SomebodyHands, HasIt
<1>7. ASSUME KeeperHands PROVE ThreadInv'
  <2> USE <1>7 DEF KeeperHands
  <2>0. keeper' \in Places /\ joiner' \in Places /\ pairing' \in Places
    BY DEF ThreadTyped, ThreadTypeOK, Places
  <2>1. ThreadTyped'
    <3>1. net' \in Nat /\ made' \in Nat /\ handedOver' \in Nat
      BY DEF ThreadTyped, ThreadTypeOK, Places
    <3> QED BY <2>0, <3>1 DEF ThreadTyped, ThreadTypeOK
  <2>2. NetworksAreKnown' /\ CountedOrLate' /\ NobodyIsStranded'
    BY DEF ThreadTyped, ThreadTypeOK, Places, NetworksAreKnown, CountedOrLate, NobodyIsStranded
  <2>3. excuses' = {} => ReadIsCurrent' BY DEF ThreadTyped, Places, ReadIsCurrent
  <2>4. excuses' = {} => SomebodyHands'
    BY DEF ThreadTyped, ThreadTypeOK, Places, ReadIsCurrent, SomebodyHands, HasIt
  <2> QED BY <2>1, <2>2, <2>3, <2>4
<1>8. ASSUME KeeperPaid PROVE ThreadInv'
  <2> USE <1>8 DEF KeeperPaid
  <2>0. keeper' \in Places /\ joiner' \in Places /\ pairing' \in Places
    BY DEF ThreadTyped, ThreadTypeOK, Places
  <2>1. ThreadTyped'
    <3>1. net' \in Nat /\ made' \in Nat /\ handedOver' \in Nat
      BY DEF ThreadTyped, ThreadTypeOK, Places
    <3> QED BY <2>0, <3>1 DEF ThreadTyped, ThreadTypeOK
  <2>2. NetworksAreKnown' /\ CountedOrLate' /\ NobodyIsStranded'
    BY DEF ThreadTyped, ThreadTypeOK, Places, NetworksAreKnown, CountedOrLate, NobodyIsStranded
  <2>3. excuses' = {} => ReadIsCurrent' BY DEF ThreadTyped, Places, ReadIsCurrent
  <2>4. excuses' = {} => SomebodyHands'
    BY DEF ThreadTyped, ThreadTypeOK, Places, ReadIsCurrent, SomebodyHands, HasIt
  <2> QED BY <2>1, <2>2, <2>3, <2>4
<1> QED BY <1>1, <1>2, <1>3, <1>4, <1>5, <1>6, <1>7, <1>8 DEF KeeperSteps

LEMMA AdoptStepInv == ThreadInv /\ (AdoptSteps) => ThreadInv'
<1> SUFFICES ASSUME ThreadInv PROVE (AdoptSteps) => ThreadInv' OBVIOUS
<1> USE DEF ThreadInv, Faulty, NetBecomes, ServerTakes, Stale, Strands, At, NoStep, Waits, Home, Older, router, server, ghosts, JoinerKeeps, JoinFails, JoinGoesOn
<1>1. ASSUME AdoptReads PROVE ThreadInv'
  BY <1>1 DEF AdoptReads, ThreadInv, ThreadTyped, ThreadTypeOK, Places, NetworksAreKnown,
     CountedOrLate, NobodyIsStranded, ReadIsCurrent, SomebodyHands, HasIt
<1>2. ASSUME AdoptAsksNodes PROVE ThreadInv'
  BY <1>2 DEF AdoptAsksNodes, ThreadInv, ThreadTyped, ThreadTypeOK, Places, NetworksAreKnown,
     CountedOrLate, NobodyIsStranded, ReadIsCurrent, SomebodyHands, HasIt
<1>3. ASSUME AdoptAsksRole PROVE ThreadInv'
  BY <1>3 DEF AdoptAsksRole, ThreadInv, ThreadTyped, ThreadTypeOK, Places, NetworksAreKnown,
     CountedOrLate, NobodyIsStranded, ReadIsCurrent, SomebodyHands, HasIt
<1>4. ASSUME AdoptDisables PROVE ThreadInv'
  BY <1>4 DEF AdoptDisables, ThreadInv, ThreadTyped, ThreadTypeOK, Places, NetworksAreKnown,
     CountedOrLate, NobodyIsStranded, ReadIsCurrent, SomebodyHands, HasIt
<1>5. ASSUME AdoptPuts PROVE ThreadInv'
  <2> USE <1>5 DEF AdoptPuts
  <2>0. keeper' \in Places /\ joiner' \in Places /\ pairing' \in Places
    BY DEF ThreadTyped, ThreadTypeOK, Places
  <2>1. ThreadTyped'
    <3>1. net' \in Nat /\ made' \in Nat /\ handedOver' \in Nat
      BY DEF ThreadTyped, ThreadTypeOK, Places
    <3> QED BY <2>0, <3>1 DEF ThreadTyped, ThreadTypeOK
  <2>2. NetworksAreKnown' /\ CountedOrLate' /\ NobodyIsStranded'
    BY DEF ThreadTyped, ThreadTypeOK, Places, NetworksAreKnown, CountedOrLate, NobodyIsStranded
  <2>3. excuses' = {} => ReadIsCurrent' BY DEF ThreadTyped, Places, ReadIsCurrent
  <2>4. excuses' = {} => SomebodyHands'
    BY DEF ThreadTyped, ThreadTypeOK, Places, ReadIsCurrent, SomebodyHands, HasIt
  <2> QED BY <2>1, <2>2, <2>3, <2>4
<1>6. ASSUME AdoptEnables PROVE ThreadInv'
  <2> USE <1>6 DEF AdoptEnables
  <2>0. keeper' \in Places /\ joiner' \in Places /\ pairing' \in Places
    BY DEF ThreadTyped, ThreadTypeOK, Places
  <2>1. ThreadTyped'
    <3>1. net' \in Nat /\ made' \in Nat /\ handedOver' \in Nat
      BY DEF ThreadTyped, ThreadTypeOK, Places
    <3> QED BY <2>0, <3>1 DEF ThreadTyped, ThreadTypeOK
  <2>2. NetworksAreKnown' /\ CountedOrLate' /\ NobodyIsStranded'
    BY DEF ThreadTyped, ThreadTypeOK, Places, NetworksAreKnown, CountedOrLate, NobodyIsStranded
  <2>3. excuses' = {} => ReadIsCurrent' BY DEF ThreadTyped, Places, ReadIsCurrent
  <2>4. excuses' = {} => SomebodyHands'
    BY DEF ThreadTyped, ThreadTypeOK, Places, ReadIsCurrent, SomebodyHands, HasIt
  <2> QED BY <2>1, <2>2, <2>3, <2>4
<1>7. ASSUME AdoptHands PROVE ThreadInv'
  <2> USE <1>7 DEF AdoptHands
  <2>0. keeper' \in Places /\ joiner' \in Places /\ pairing' \in Places
    BY DEF ThreadTyped, ThreadTypeOK, Places
  <2>1. ThreadTyped'
    <3>1. net' \in Nat /\ made' \in Nat /\ handedOver' \in Nat
      BY DEF ThreadTyped, ThreadTypeOK, Places
    <3> QED BY <2>0, <3>1 DEF ThreadTyped, ThreadTypeOK
  <2>2. NetworksAreKnown' /\ CountedOrLate' /\ NobodyIsStranded'
    BY DEF ThreadTyped, ThreadTypeOK, Places, NetworksAreKnown, CountedOrLate, NobodyIsStranded
  <2>3. excuses' = {} => ReadIsCurrent' BY DEF ThreadTyped, Places, ReadIsCurrent
  <2>4. excuses' = {} => SomebodyHands'
    BY DEF ThreadTyped, ThreadTypeOK, Places, ReadIsCurrent, SomebodyHands, HasIt
  <2> QED BY <2>1, <2>2, <2>3, <2>4
<1>8. ASSUME AdoptPaid PROVE ThreadInv'
  <2> USE <1>8 DEF AdoptPaid
  <2>0. keeper' \in Places /\ joiner' \in Places /\ pairing' \in Places
    BY DEF ThreadTyped, ThreadTypeOK, Places
  <2>1. ThreadTyped'
    <3>1. net' \in Nat /\ made' \in Nat /\ handedOver' \in Nat
      BY DEF ThreadTyped, ThreadTypeOK, Places
    <3> QED BY <2>0, <3>1 DEF ThreadTyped, ThreadTypeOK
  <2>2. NetworksAreKnown' /\ CountedOrLate' /\ NobodyIsStranded'
    BY DEF ThreadTyped, ThreadTypeOK, Places, NetworksAreKnown, CountedOrLate, NobodyIsStranded
  <2>3. excuses' = {} => ReadIsCurrent' BY DEF ThreadTyped, Places, ReadIsCurrent
  <2>4. excuses' = {} => SomebodyHands'
    BY DEF ThreadTyped, ThreadTypeOK, Places, ReadIsCurrent, SomebodyHands, HasIt
  <2> QED BY <2>1, <2>2, <2>3, <2>4
<1> QED BY <1>1, <1>2, <1>3, <1>4, <1>5, <1>6, <1>7, <1>8 DEF AdoptSteps

LEMMA PairingStepInv == ThreadInv /\ (PairingFetches \/ PairingHands \/ TypedIn \/ DeviceJoins) => ThreadInv'
<1> SUFFICES ASSUME ThreadInv PROVE (PairingFetches \/ PairingHands \/ TypedIn \/ DeviceJoins) => ThreadInv'
  OBVIOUS
<1> USE DEF ThreadInv, Faulty, NetBecomes, ServerTakes, Stale, Strands, At, NoStep, Waits, Home, Older, router, server, ghosts, PairingKeeps
<1>1. ASSUME PairingFetches PROVE ThreadInv'
  BY <1>1 DEF PairingFetches, ThreadInv, ThreadTyped, ThreadTypeOK, Places, NetworksAreKnown,
     CountedOrLate, NobodyIsStranded, ReadIsCurrent, SomebodyHands, HasIt
<1>2. ASSUME PairingHands PROVE ThreadInv'
  <2> USE <1>2 DEF PairingHands
  <2>0. keeper' \in Places /\ joiner' \in Places /\ pairing' \in Places
    BY DEF ThreadTyped, ThreadTypeOK, Places
  <2>1. ThreadTyped'
    <3>1. net' \in Nat /\ made' \in Nat /\ handedOver' \in Nat
      BY DEF ThreadTyped, ThreadTypeOK, Places
    <3> QED BY <2>0, <3>1 DEF ThreadTyped, ThreadTypeOK
  <2>2. NetworksAreKnown' /\ CountedOrLate' /\ NobodyIsStranded'
    BY DEF ThreadTyped, ThreadTypeOK, Places, NetworksAreKnown, CountedOrLate, NobodyIsStranded
  <2>3. excuses' = {} => ReadIsCurrent' BY DEF ThreadTyped, Places, ReadIsCurrent
  <2>4. excuses' = {} => SomebodyHands'
    BY DEF ThreadTyped, ThreadTypeOK, Places, ReadIsCurrent, SomebodyHands, HasIt
  <2> QED BY <2>1, <2>2, <2>3, <2>4
<1>3. ASSUME TypedIn PROVE ThreadInv'
  BY <1>3 DEF TypedIn, ThreadInv, ThreadTyped, ThreadTypeOK, Places, NetworksAreKnown,
     CountedOrLate, NobodyIsStranded, ReadIsCurrent, SomebodyHands, HasIt
<1>4. ASSUME DeviceJoins PROVE ThreadInv'
  BY <1>4 DEF DeviceJoins, ThreadInv, ThreadTyped, ThreadTypeOK, Places, NetworksAreKnown,
     CountedOrLate, NobodyIsStranded, ReadIsCurrent, SomebodyHands, HasIt
<1> QED BY <1>1, <1>2, <1>3, <1>4

LEMMA LossStepInv == ThreadInv /\ (RouterLoses \/ ServerLoses \/ BridgeRestarts) => ThreadInv'
<1> SUFFICES ASSUME ThreadInv PROVE (RouterLoses \/ ServerLoses \/ BridgeRestarts) => ThreadInv'
  OBVIOUS
<1> USE DEF ThreadInv, Faulty, NetBecomes, ServerTakes, Stale, Strands, At, NoStep, Waits, Home, Older, router, server, ghosts
<1>1. ASSUME RouterLoses PROVE ThreadInv'
  <2> USE <1>1 DEF RouterLoses
  <2>0. keeper' \in Places /\ joiner' \in Places /\ pairing' \in Places
    BY DEF ThreadTyped, ThreadTypeOK, Places
  <2>1. ThreadTyped'
    <3>1. net' \in Nat /\ made' \in Nat /\ handedOver' \in Nat
      BY DEF ThreadTyped, ThreadTypeOK, Places
    <3> QED BY <2>0, <3>1 DEF ThreadTyped, ThreadTypeOK
  <2>2. NetworksAreKnown' /\ CountedOrLate' /\ NobodyIsStranded'
    BY DEF ThreadTyped, ThreadTypeOK, Places, NetworksAreKnown, CountedOrLate, NobodyIsStranded
  <2>3. excuses' = {} => ReadIsCurrent' BY DEF ThreadTyped, Places, ReadIsCurrent
  <2>4. excuses' = {} => SomebodyHands'
    BY DEF ThreadTyped, ThreadTypeOK, Places, ReadIsCurrent, SomebodyHands, HasIt
  <2> QED BY <2>1, <2>2, <2>3, <2>4
<1>2. ASSUME ServerLoses PROVE ThreadInv'
  <2> USE <1>2 DEF ServerLoses
  <2>0. keeper' \in Places /\ joiner' \in Places /\ pairing' \in Places
    BY DEF ThreadTyped, ThreadTypeOK, Places
  <2>1. ThreadTyped'
    <3>1. net' \in Nat /\ made' \in Nat /\ handedOver' \in Nat
      BY DEF ThreadTyped, ThreadTypeOK, Places
    <3> QED BY <2>0, <3>1 DEF ThreadTyped, ThreadTypeOK
  <2>2. NetworksAreKnown' /\ CountedOrLate' /\ NobodyIsStranded'
    BY DEF ThreadTyped, ThreadTypeOK, Places, NetworksAreKnown, CountedOrLate, NobodyIsStranded
  <2>3. excuses' = {} => ReadIsCurrent' BY DEF ThreadTyped, Places, ReadIsCurrent
  <2>4. excuses' = {} => SomebodyHands'
    BY DEF ThreadTyped, ThreadTypeOK, Places, ReadIsCurrent, SomebodyHands, HasIt
  <2> QED BY <2>1, <2>2, <2>3, <2>4
<1>3. ASSUME BridgeRestarts PROVE ThreadInv'
  <2> USE <1>3 DEF BridgeRestarts
  <2>0. keeper' \in Places /\ joiner' \in Places /\ pairing' \in Places
    BY DEF ThreadTyped, ThreadTypeOK, Places
  <2>1. ThreadTyped'
    <3>1. net' \in Nat /\ made' \in Nat /\ handedOver' \in Nat
      BY DEF ThreadTyped, ThreadTypeOK, Places
    <3> QED BY <2>0, <3>1 DEF ThreadTyped, ThreadTypeOK
  <2>2. NetworksAreKnown' /\ CountedOrLate' /\ NobodyIsStranded'
    BY DEF ThreadTyped, ThreadTypeOK, Places, NetworksAreKnown, CountedOrLate, NobodyIsStranded
  <2>3. excuses' = {} => ReadIsCurrent' BY DEF ThreadTyped, Places, ReadIsCurrent
  <2>4. excuses' = {} => SomebodyHands'
    BY DEF ThreadTyped, ThreadTypeOK, Places, ReadIsCurrent, SomebodyHands, HasIt
  <2> QED BY <2>1, <2>2, <2>3, <2>4
<1> QED BY <1>1, <1>2, <1>3

LEMMA ThreadNextInv == ThreadInv /\ [ThreadNext]_threadVars => ThreadInv'
<1>1. ThreadInv /\ UNCHANGED threadVars => ThreadInv'
  BY DEF threadVars, ThreadInv, ThreadTyped, ThreadTypeOK, Places, NetworksAreKnown,
     CountedOrLate, NobodyIsStranded, ReadIsCurrent, SomebodyHands, HasIt
<1> QED BY <1>1, KeeperStepInv, AdoptStepInv, PairingStepInv, LossStepInv DEF ThreadNext

(* Once nobody is at work, matter-server holds the border router's network *)
(* or the bridge knows that it has none, but for the excuses; and no network *)
(* is given up under devices that were paired before they were counted *)
(* (matter/thread_network.py). *)
THEOREM ThreadIsSafe == ThreadSpec => []ThreadSafe
<1>1. ThreadInv => ThreadSafe
  BY DEF ThreadInv, ThreadSafe, ThreadTyped, SomebodyHands, HasIt, ServerHasTheNetwork, Settled
<1> QED BY <1>1, ThreadInitInv, ThreadNextInv, PTL DEF ThreadSpec

----------------------------------------
(* The database (Store).  Each write of a method is a function of the rows *)
(* alone: the lemmas named ...Good say what it does to a good database, the *)
(* ones named ...Inv what becomes of it when it is committed, left open or *)
(* rolled back. *)

\* The types of the tables. A key is the device's and a slug's, or a group's.
Slugs == {Slug[v][p] : v \in Versions, p \in CommandPairs}
DeviceRows == [thing : Things, active : BOOLEAN, label : {0, 1}, changed : BOOLEAN]
CommandRows == [device : Nat \ {0}, pair : CommandPairs, key : (Nat \ {0}) \X Slugs, slug : Slugs]
GroupRows == [group : GroupIds, pair : CommandPairs, key : {"g"} \X GroupIds \X Slugs,
              slug : Slugs, exported : BOOLEAN]
Databases == [device : Seq(DeviceRows), command : SUBSET CommandRows, group : SUBSET GroupIds,
              lastGroup : 0..MaxGroups, member : SUBSET (GroupIds \X (Nat \ {0})),
              groupCommand : SUBSET GroupRows, label : [GroupIds -> {0, 1}],
              changed : [GroupIds -> BOOLEAN]]

\* Every row is one, and refers to rows that are there.
Sound(db) ==
    /\ db \in Databases
    /\ \A c \in db.command : c.device \in DOMAIN db.device /\ c.key[1] = c.device
    /\ \A g \in db.group : g <= db.lastGroup
    /\ \A m \in db.member : m[1] \in db.group /\ m[2] \in DOMAIN db.device /\ db.device[m[2]].active
    /\ \A c \in db.groupCommand : c.group \in db.group

\* One command per key.
KeysDiffer(db) ==
    /\ \A c, e \in db.command : c.key = e.key => c = e
    /\ \A c, e \in db.groupCommand : c.key = e.key => c = e

\* What a group's rows say it offers, and that this is what its members have.
GroupPairs(db, g) == {c.pair : c \in GroupCommandsOf(db, g)}

Fits(db, excused) == \A g \in db.group \ excused : GroupPairs(db, g) = Offered(db, g)

\* What archives say that the user got, and the one that is being marked.
Said == {<<x, delivered[x]>> : x \in DOMAIN delivered}
          \cup {<<x, shot[x]>> : x \in DOMAIN shot \ marking}

\* What is called unchanged is said by an archive, unless its mark was missed.
Faithful(db, said, missed) ==
    \A x \in Exportable(db) \ missed :
        ~ChangedSinceExport(db, x) => <<x, Content(db, x)>> \in said

\* What holds of a database, in the transaction and on the disk.
Good(db, excused, said, missed) ==
    Sound(db) /\ KeysDiffer(db) /\ Fits(db, excused) /\ Faithful(db, said, missed)

\* An open transaction has lost no key of the disk's, for a later commit carries it there.
Carried ==
    /\ kept.lastGroup <= rows.lastGroup
    /\ \A c \in kept.command : \E e \in rows.command :
          e.key = c.key /\ e.pair = c.pair /\ e.device = c.device
    /\ \A c \in kept.groupCommand : c.group \in rows.group \ passedOver =>
          \E e \in rows.groupCommand : e.key = c.key /\ e.pair = c.pair /\ e.group = c.group

\* The archive that is being marked says what the rows still say.
DownloadHolds ==
    /\ marking \subseteq DOMAIN shot
    /\ DOMAIN shot \subseteq Exportable(rows)
    /\ \A x \in DOMAIN shot : shot[x] = Content(rows, x)
    /\ marking = {} => shot = <<>>
    /\ regroup = {} \/ marking = {}

\* The invariant: a group whose recomputation was cut off, or is to come, is
\* excused; a method that recomputes has committed what it did before.
StoreInv ==
    /\ table \in Versions /\ storeFaults \in Nat /\ storeEdits \in Nat
    /\ regroup \subseteq rows.group
    /\ regroup # {} => rows = kept
    /\ Good(rows, passedOver \cup regroup, Said, undelivered)
    /\ Good(kept, passedOver \cup regroup, Said, undelivered)
    /\ Carried /\ DownloadHolds

----------------------------------------
\* What a method makes of the rows: nothing that stays loses its key.
Follows(old, new) ==
    /\ old.lastGroup <= new.lastGroup
    /\ \A g \in new.group : g \in old.group \/ g > old.lastGroup
    /\ \A c \in old.command : \E e \in new.command :
          e.key = c.key /\ e.pair = c.pair /\ e.device = c.device
    /\ \A c \in old.groupCommand : c.group \in new.group =>
          \E e \in new.groupCommand : e.key = c.key /\ e.pair = c.pair /\ e.group = c.group

\* The action of KeysAreKept.
KeyStep ==
    /\ \A c \in kept.command : \E e \in kept'.command :
         e.key = c.key /\ e.pair = c.pair /\ e.device = c.device
    /\ \A c \in kept.groupCommand :
         c.group \in kept'.group \ passedOver /\ c.pair \in Offered(kept', c.group) =>
           \E e \in kept'.groupCommand : e.key = c.key /\ e.pair = c.pair

\* What is proved of every step.
StoreGoal == StoreInv' /\ KeyStep

\* A method's writes, behind those an earlier one left in the transaction.
LEMMA Composed ==
  ASSUME StoreInv, NEW new, Follows(rows, new), new.lastGroup \in Nat
  PROVE  /\ kept.lastGroup <= new.lastGroup
         /\ \A c \in kept.command : \E e \in new.command :
               e.key = c.key /\ e.pair = c.pair /\ e.device = c.device
         /\ \A c \in kept.groupCommand : c.group \in new.group \ passedOver =>
               \E e \in new.groupCommand : e.key = c.key /\ e.pair = c.pair /\ e.group = c.group
<1>0. kept \in Databases /\ rows \in Databases BY DEF StoreInv, Good, Sound
<1>1. /\ kept.lastGroup \in Nat /\ rows.lastGroup \in Nat /\ kept.lastGroup <= rows.lastGroup
      /\ \A c \in kept.groupCommand : c.group \in Nat /\ c.group <= kept.lastGroup
  <2>1. kept.lastGroup \in Nat /\ rows.lastGroup \in Nat BY <1>0, StoreAssumption DEF Databases
  <2>2. ASSUME NEW c \in kept.groupCommand PROVE c.group \in Nat /\ c.group <= kept.lastGroup
    <3>1. c \in GroupRows BY <1>0 DEF Databases
    <3>2. c.group \in Nat BY <3>1, StoreAssumption DEF GroupRows, GroupIds
    <3>3. Sound(kept) BY DEF StoreInv, Good
    <3> QED BY <3>2, <3>3 DEF Sound
  <2> QED BY <2>1, <2>2 DEF StoreInv, Carried
<1>2. kept.lastGroup <= new.lastGroup BY <1>1 DEF Follows
<1>3. ASSUME NEW c \in kept.command
      PROVE  \E e \in new.command : e.key = c.key /\ e.pair = c.pair /\ e.device = c.device
  <2>1. PICK r \in rows.command : r.key = c.key /\ r.pair = c.pair /\ r.device = c.device
    BY DEF StoreInv, Carried
  <2> QED BY <2>1 DEF Follows
<1>4. ASSUME NEW c \in kept.groupCommand, c.group \in new.group \ passedOver
      PROVE  \E e \in new.groupCommand : e.key = c.key /\ e.pair = c.pair /\ e.group = c.group
  <2>1. c.group \in rows.group BY <1>1, <1>4 DEF Follows
  <2>2. PICK r \in rows.groupCommand : r.key = c.key /\ r.pair = c.pair /\ r.group = c.group
    BY <2>1, <1>4 DEF StoreInv, Carried
  <2> QED BY <2>2, <1>4 DEF Follows
<1> QED BY <1>2, <1>3, <1>4

\* Nothing is said of anything by an empty archive.
LEMMA NothingShot == DOMAIN <<>> = {}
  OBVIOUS

\* A group that is excused from a rule may keep it.
LEMMA FitsFewer ==
  ASSUME NEW db, NEW less, NEW more, less \subseteq more, Fits(db, less)
  PROVE  Fits(db, more)
  BY DEF Fits

\* What archives say changes with them only.
LEMMA SaidStays ==
  ASSUME UNCHANGED <<marking, shot, delivered>>
  PROVE  Said' = Said
  BY DEF Said

\* What may become of a transaction, once its rows are good.
LEMMA CommitsInv ==
  ASSUME StoreInv, Method, storeEdits' \in Nat, NEW new, NEW groups,
         Good(new, passedOver \cup groups, Said, undelivered), Follows(rows, new),
         groups \subseteq new.group, Commits(new, groups)
  PROVE  StoreGoal
<1> USE DEF Commits, Method, MethodsIdle
<1>1. Said' = Said /\ undelivered' = undelivered /\ passedOver' \cup regroup' = passedOver \cup groups
  BY SaidStays
<1>2. Good(rows, passedOver \cup regroup, Said, undelivered)' /\ Good(kept, passedOver \cup regroup, Said, undelivered)'
  BY <1>1 
<1>3. new.lastGroup \in Nat BY StoreAssumption DEF Good, Sound, Databases
<1>4. KeyStep BY <1>3, Composed DEF KeyStep
<1>5. Carried' BY <1>3 DEF Carried
<1>6. DownloadHolds' BY NothingShot DEF StoreInv, DownloadHolds
<1> QED BY <1>2, <1>4, <1>5, <1>6 DEF StoreInv, StoreGoal

\* A commit that raised leaves the writes open and the disk as it was.
LEMMA LeavesOpenInv ==
  ASSUME StoreInv, Method, storeEdits' \in Nat, NEW new, NEW groups,
         Good(new, passedOver \cup groups, Said, undelivered), Follows(rows, new),
         LeavesOpen(new, groups)
  PROVE  StoreGoal
<1> USE DEF LeavesOpen, PassOver, Method, MethodsIdle
<1>1. Said' = Said /\ undelivered' = undelivered /\ passedOver' \cup regroup' = passedOver \cup groups
  BY SaidStays
<1>2. Good(rows, passedOver \cup regroup, Said, undelivered)' BY <1>1
<1>3. Good(kept, passedOver \cup regroup, Said, undelivered)'
  <2>1. Good(kept, passedOver \cup groups, Said, undelivered) BY FitsFewer DEF StoreInv, Good
  <2> QED BY <2>1, <1>1 
<1>4. new.lastGroup \in Nat BY StoreAssumption DEF Good, Sound, Databases
<1>5. KeyStep BY DEF KeyStep
<1>6. Carried' BY <1>4, Composed DEF Carried
<1>7. DownloadHolds' BY NothingShot DEF StoreInv, DownloadHolds
<1> QED BY <1>2, <1>3, <1>5, <1>6, <1>7 DEF StoreInv, StoreGoal

\* A rollback returns to the disk, which is good.
LEMMA RollsBackInv ==
  ASSUME StoreInv, Method, storeEdits' \in Nat, storeFaults' \in Nat, RollsBack({})
  PROVE  StoreGoal
<1> USE DEF RollsBack, PassOver, Method, MethodsIdle
<1>1. Said' = Said /\ undelivered' = undelivered /\ passedOver' \cup regroup' = passedOver
  BY SaidStays
<1>2. Good(rows, passedOver \cup regroup, Said, undelivered)' /\ Good(kept, passedOver \cup regroup, Said, undelivered)'
  <2>1. Good(kept, passedOver, Said, undelivered) BY DEF StoreInv
  <2> QED BY <2>1, <1>1 
<1>3. KeyStep BY DEF KeyStep
<1>4. Carried' BY StoreAssumption DEF Carried, StoreInv, Good, Sound, Databases
<1>5. DownloadHolds' BY NothingShot DEF StoreInv, DownloadHolds
<1> QED BY <1>2, <1>3, <1>4, <1>5 DEF StoreInv, StoreGoal

\* The methods with the rollback guard, and those without.
LEMMA GuardedInv ==
  ASSUME StoreInv, Method, storeEdits' \in Nat, NEW new, NEW groups,
         Good(new, passedOver \cup groups, Said, undelivered), Follows(rows, new),
         groups \subseteq new.group, Guarded(new, groups)
  PROVE  StoreGoal
<1>1. CASE WriteFails({})
  <2>1. storeFaults' \in Nat BY <1>1 DEF WriteFails, StoreInv
  <2> QED BY <1>1, <2>1, RollsBackInv DEF WriteFails
<1>2. CASE Commits(new, groups) BY <1>2, CommitsInv
<1>3. CASE LeavesOpen(new, groups) BY <1>3, LeavesOpenInv
<1> QED BY <1>1, <1>2, <1>3 DEF Guarded

\* A single write and its commit.
LEMMA UnguardedInv ==
  ASSUME StoreInv, Method, storeEdits' \in Nat, NEW new,
         Good(new, passedOver, Said, undelivered), Follows(rows, new), Unguarded(new)
  PROVE  StoreGoal
<1>1. Good(new, passedOver \cup {}, Said, undelivered) OBVIOUS
<1> QED BY <1>1, CommitsInv, LeavesOpenInv DEF Unguarded

----------------------------------------
(* What the writes of the methods do to a database. *)

\* A device and a group that no write touched without a mark.
Unmoved(old, new) ==
    /\ \A d \in Active(new) : ~new.device[d].changed =>
          /\ d \in Active(old) /\ ~old.device[d].changed
          /\ new.device[d].label = old.device[d].label
          /\ CommandsOf(new, d) = CommandsOf(old, d)
    /\ \A g \in new.group : ~new.changed[g] /\ GroupCommandsOf(new, g) # {} =>
          /\ g \in old.group /\ ~old.changed[g]
          /\ new.label[g] = old.label[g]
          /\ GroupCommandsOf(new, g) = GroupCommandsOf(old, g)

\* An edit that marks what it changes keeps the export tab faithful.
LEMMA FaithfulEdit ==
  ASSUME NEW old, NEW new, NEW said, NEW missed, Faithful(old, said, missed), Unmoved(old, new)
  PROVE  Faithful(new, said, missed)
<1> SUFFICES ASSUME NEW x \in Exportable(new) \ missed, ~ChangedSinceExport(new, x)
             PROVE  <<x, Content(new, x)>> \in said
  BY DEF Faithful
<1>1. ASSUME NEW d \in Active(new), x = DeviceName(d) PROVE <<x, Content(new, x)>> \in said
  <2>1. x[1] = "device" /\ x[2] = d BY <1>1 DEF DeviceName
  <2>2. /\ d \in Active(old) /\ ~old.device[d].changed
        /\ new.device[d].label = old.device[d].label
        /\ CommandsOf(new, d) = CommandsOf(old, d)
    BY <2>1 DEF Unmoved, ChangedSinceExport
  <2>3. x \in Exportable(old) \ missed /\ ~ChangedSinceExport(old, x)
    BY <2>1, <2>2, <1>1 DEF Exportable, ChangedSinceExport
  <2>4. Content(new, x) = Content(old, x) BY <2>1, <2>2 DEF Content
  <2> QED BY <2>3, <2>4 DEF Faithful
<1>2. ASSUME NEW g \in new.group, x = GroupName(g), NEW c \in GroupCommandsOf(new, g), c.exported
      PROVE  <<x, Content(new, x)>> \in said
  <2>1. x[1] # "device" /\ x[2] = g BY <1>2 DEF GroupName
  <2>2. /\ g \in old.group /\ ~old.changed[g]
        /\ new.label[g] = old.label[g]
        /\ GroupCommandsOf(new, g) = GroupCommandsOf(old, g)
    BY <2>1 DEF Unmoved, ChangedSinceExport
  <2>3. x \in Exportable(old) \ missed /\ ~ChangedSinceExport(old, x)
    BY <2>1, <2>2, <1>2 DEF Exportable, ChangedSinceExport
  <2>4. Content(new, x) = Content(old, x) BY <2>1, <2>2 DEF Content
  <2> QED BY <2>3, <2>4 DEF Faithful
<1> QED BY <1>1, <1>2 DEF Exportable

\* A group keeps to the rule if neither its rows nor its members' commands moved.
LEMMA FitsEdit ==
  ASSUME NEW old, NEW new, NEW less, NEW more, Fits(old, less),
         \A g \in new.group \ more :
            /\ g \in old.group \ less
            /\ GroupPairs(new, g) = GroupPairs(old, g)
            /\ MembersOf(new, g) = MembersOf(old, g)
            /\ \A d \in MembersOf(new, g) : PairsOf(new, d) = PairsOf(old, d)
  PROVE  Fits(new, more)
<1> SUFFICES ASSUME NEW g \in new.group \ more PROVE GroupPairs(new, g) = Offered(new, g)
  BY DEF Fits
<1>1. Offered(new, g) = Offered(old, g) BY DEF Offered
<1> QED BY <1>1 DEF Fits

\* The same, if the group's rows are the very same.
LEMMA FitsSame ==
  ASSUME NEW old, NEW new, NEW less, NEW more, Fits(old, less),
         \A g \in new.group \ more :
            /\ g \in old.group \ less
            /\ GroupCommandsOf(new, g) = GroupCommandsOf(old, g)
            /\ MembersOf(new, g) = MembersOf(old, g)
            /\ \A d \in MembersOf(new, g) : PairsOf(new, d) = PairsOf(old, d)
  PROVE  Fits(new, more)
  BY FitsEdit DEF GroupPairs

\* The rows of the device table are a sequence, of which one is replaced.
LEMMA RowReplaced ==
  ASSUME NEW db \in Databases, NEW d \in DOMAIN db.device, NEW row \in DeviceRows
  PROVE  LET table2 == [db.device EXCEPT ![d] = row]
         IN  /\ table2 \in Seq(DeviceRows) /\ DOMAIN table2 = DOMAIN db.device
             /\ table2[d] = row
             /\ \A e \in DOMAIN db.device \ {d} : table2[e] = db.device[e]
<1>1. db.device \in Seq(DeviceRows) BY DEF Databases
<1> QED BY <1>1, ExceptSeq

\* A row of the device table is one.
LEMMA RowTyped ==
  ASSUME NEW db \in Databases, NEW d \in DOMAIN db.device
  PROVE  db.device[d] \in DeviceRows
<1>1. db.device \in Seq(DeviceRows) BY DEF Databases
<1> QED BY <1>1

\* forget_device: the memberships go, the affected groups are named before.
LEMMA ForgetGood ==
  ASSUME NEW db, NEW excused, NEW said, NEW missed, Good(db, excused, said, missed),
         NEW d \in Active(db)
  PROVE  LET new == [db EXCEPT !.member = {m \in @ : m[2] # d}, !.device[d].active = FALSE]
         IN  /\ Good(new, excused \cup GroupsWith(db, d), said, missed)
             /\ Follows(db, new)
             /\ GroupsWith(db, d) \subseteq new.group
<1> DEFINE new == [db EXCEPT !.member = {m \in @ : m[2] # d}, !.device[d].active = FALSE]
           row == [db.device[d] EXCEPT !.active = FALSE]
<1>1. d \in DOMAIN db.device /\ db \in Databases BY DEF Good, Sound, Active
<1>2. db.device[d] \in DeviceRows BY <1>1, RowTyped
<1>3. row \in DeviceRows /\ row.active = FALSE BY <1>2 DEF DeviceRows
<1>4. new = [db EXCEPT !.member = {m \in @ : m[2] # d}, !.device = [@ EXCEPT ![d] = row]]
  BY <1>1 DEF Databases
<1> HIDE DEF row
<1>5. /\ new.device \in Seq(DeviceRows) /\ DOMAIN new.device = DOMAIN db.device
      /\ new.device[d] = row
      /\ \A e \in DOMAIN db.device \ {d} : new.device[e] = db.device[e]
  <2>1. new.device = [db.device EXCEPT ![d] = row] BY <1>1, <1>4 DEF Databases
  <2> HIDE DEF new
  <2> QED BY <2>1, <1>1, <1>3, RowReplaced
<1>6. new \in Databases BY <1>1, <1>4, <1>5 DEF Databases
<1>7. /\ new.command = db.command /\ new.group = db.group /\ new.lastGroup = db.lastGroup
      /\ new.groupCommand = db.groupCommand /\ new.label = db.label /\ new.changed = db.changed
      /\ new.member = {m \in db.member : m[2] # d}
  BY <1>1, <1>4 DEF Databases
<1> HIDE DEF new
<1>8. Sound(new) BY <1>5, <1>6, <1>7 DEF Good, Sound
<1>9. KeysDiffer(new) BY <1>7 DEF Good, KeysDiffer
<1>10. Fits(new, excused \cup GroupsWith(db, d))
  <2> SUFFICES ASSUME NEW g \in new.group \ (excused \cup GroupsWith(db, d))
               PROVE  /\ g \in db.group \ excused
                      /\ GroupCommandsOf(new, g) = GroupCommandsOf(db, g)
                      /\ MembersOf(new, g) = MembersOf(db, g)
                      /\ \A e \in MembersOf(new, g) : PairsOf(new, e) = PairsOf(db, e)
    BY FitsSame DEF Good
  <2>1. <<g, d>> \notin db.member BY <1>7 DEF GroupsWith
  <2>2. MembersOf(new, g) = MembersOf(db, g) BY <2>1, <1>5, <1>7, <1>1 DEF MembersOf, Active
  <2> QED BY <2>2, <1>7 DEF GroupCommandsOf, PairsOf, CommandsOf
<1>11. Faithful(new, said, missed)
  <2>1. Unmoved(db, new) BY <1>1, <1>3, <1>5, <1>7 DEF Unmoved, Active, CommandsOf, GroupCommandsOf
  <2> QED BY <2>1, FaithfulEdit DEF Good
<1>12. Follows(db, new) BY <1>1, <1>7, StoreAssumption DEF Follows, Databases
<1>13. GroupsWith(db, d) \subseteq new.group BY <1>7 DEF GroupsWith
<1> QED BY <1>8, <1>9, <1>10, <1>11, <1>12, <1>13 DEF Good, new

\* A device's row is written, and marked as changed.
LEMMA RowGood ==
  ASSUME NEW db, NEW excused, NEW said, NEW missed, Good(db, excused, said, missed),
         NEW d \in Active(db), NEW row \in DeviceRows, row.active, row.changed
  PROVE  LET new == [db EXCEPT !.device = [@ EXCEPT ![d] = row]]
         IN  Good(new, excused, said, missed) /\ Follows(db, new)
<1> DEFINE new == [db EXCEPT !.device = [@ EXCEPT ![d] = row]]
<1>1. d \in DOMAIN db.device /\ db \in Databases BY DEF Good, Sound, Active
<1>2. /\ new.device \in Seq(DeviceRows) /\ DOMAIN new.device = DOMAIN db.device
      /\ new.device[d] = row
      /\ \A e \in DOMAIN db.device \ {d} : new.device[e] = db.device[e]
  <2>1. new.device = [db.device EXCEPT ![d] = row] BY <1>1 DEF Databases
  <2> QED BY <2>1, <1>1, RowReplaced
<1>3. new \in Databases BY <1>1, <1>2 DEF Databases
<1>4. /\ new.command = db.command /\ new.group = db.group /\ new.lastGroup = db.lastGroup
      /\ new.groupCommand = db.groupCommand /\ new.label = db.label /\ new.changed = db.changed
      /\ new.member = db.member
  BY <1>1 DEF Databases
<1> HIDE DEF new
<1>5. Sound(new) BY <1>2, <1>3, <1>4 DEF Good, Sound
<1>6. KeysDiffer(new) BY <1>4 DEF Good, KeysDiffer
<1>7. Fits(new, excused)
  <2> SUFFICES ASSUME NEW g \in new.group \ excused
               PROVE  /\ g \in db.group \ excused
                      /\ GroupCommandsOf(new, g) = GroupCommandsOf(db, g)
                      /\ MembersOf(new, g) = MembersOf(db, g)
                      /\ \A e \in MembersOf(new, g) : PairsOf(new, e) = PairsOf(db, e)
    BY FitsSame DEF Good
  <2>1. MembersOf(new, g) = MembersOf(db, g) BY <1>2, <1>4, <1>1 DEF MembersOf, Active
  <2> QED BY <2>1, <1>4 DEF GroupCommandsOf, PairsOf, CommandsOf
<1>8. Faithful(new, said, missed)
  <2>1. Unmoved(db, new) BY <1>1, <1>2, <1>4 DEF Unmoved, Active, CommandsOf, GroupCommandsOf
  <2> QED BY <2>1, FaithfulEdit DEF Good
<1>9. Follows(db, new) BY <1>1, <1>4, StoreAssumption DEF Follows, Databases
<1> QED BY <1>5, <1>6, <1>7, <1>8, <1>9 DEF Good, new

\* rename_device
LEMMA LabelGood ==
  ASSUME NEW db, NEW excused, NEW said, NEW missed, Good(db, excused, said, missed),
         NEW d \in Active(db)
  PROVE  LET new == [db EXCEPT !.device[d].label = 1 - @, !.device[d].changed = TRUE]
         IN  Good(new, excused, said, missed) /\ Follows(db, new)
<1> DEFINE new == [db EXCEPT !.device[d].label = 1 - @, !.device[d].changed = TRUE]
           row == [db.device[d] EXCEPT !.label = 1 - @, !.changed = TRUE]
<1>1. d \in DOMAIN db.device /\ db \in Databases /\ db.device[d].active BY DEF Good, Sound, Active
<1>2. db.device[d] \in DeviceRows BY <1>1, RowTyped
<1>3. row \in DeviceRows /\ row.active /\ row.changed
  <2>1. 1 - db.device[d].label \in {0, 1} BY <1>2 DEF DeviceRows
  <2> QED BY <1>1, <1>2, <2>1 DEF DeviceRows
<1>4. new = [db EXCEPT !.device = [@ EXCEPT ![d] = row]] BY <1>1, <1>2 DEF Databases, DeviceRows
<1> HIDE DEF new, row
<1>5. Good(new, excused, said, missed) /\ Follows(db, new) BY <1>3, <1>4, RowGood
<1> QED BY <1>5 DEF new

\* The half of set_title that a failing commit leaves behind.
LEMMA TouchGood ==
  ASSUME NEW db, NEW excused, NEW said, NEW missed, Good(db, excused, said, missed),
         NEW d \in Active(db)
  PROVE  LET new == [db EXCEPT !.device[d].changed = TRUE]
         IN  Good(new, excused, said, missed) /\ Follows(db, new)
<1> DEFINE new == [db EXCEPT !.device[d].changed = TRUE]
           row == [db.device[d] EXCEPT !.changed = TRUE]
<1>1. d \in DOMAIN db.device /\ db \in Databases /\ db.device[d].active BY DEF Good, Sound, Active
<1>2. db.device[d] \in DeviceRows BY <1>1, RowTyped
<1>3. row \in DeviceRows /\ row.active /\ row.changed BY <1>1, <1>2 DEF DeviceRows
<1>4. new = [db EXCEPT !.device = [@ EXCEPT ![d] = row]] BY <1>1 DEF Databases
<1> HIDE DEF new, row
<1>5. Good(new, excused, said, missed) /\ Follows(db, new) BY <1>3, <1>4, RowGood
<1> QED BY <1>5 DEF new

\* register_device: a new row, behind the others.
LEMMA RegisterGood ==
  ASSUME NEW db, NEW excused, NEW said, NEW missed, Good(db, excused, said, missed),
         NEW row \in DeviceRows, row.changed
  PROVE  LET new == [db EXCEPT !.device = Append(@, row)]
         IN  Good(new, excused, said, missed) /\ Follows(db, new)
<1> DEFINE new == [db EXCEPT !.device = Append(@, row)]
<1>1. db \in Databases /\ db.device \in Seq(DeviceRows) BY DEF Good, Sound, Databases
<1>2. /\ new.command = db.command /\ new.group = db.group /\ new.lastGroup = db.lastGroup
      /\ new.groupCommand = db.groupCommand /\ new.label = db.label /\ new.changed = db.changed
      /\ new.member = db.member /\ new.device = Append(db.device, row)
  BY <1>1 DEF Databases
<1>3. /\ new.device \in Seq(DeviceRows)
      /\ \A e \in DOMAIN db.device : e \in DOMAIN new.device /\ new.device[e] = db.device[e]
      /\ \A e \in DOMAIN new.device \ DOMAIN db.device : new.device[e] = row
  BY <1>1, <1>2
<1>4. new \in Databases BY <1>1, <1>3, <1>2 DEF Databases
<1> HIDE DEF new
<1>5. Sound(new) BY <1>2, <1>3, <1>4 DEF Good, Sound
<1>6. KeysDiffer(new) BY <1>2 DEF Good, KeysDiffer
<1>7. Fits(new, excused)
  <2> SUFFICES ASSUME NEW g \in new.group \ excused
               PROVE  /\ g \in db.group \ excused
                      /\ GroupCommandsOf(new, g) = GroupCommandsOf(db, g)
                      /\ MembersOf(new, g) = MembersOf(db, g)
                      /\ \A e \in MembersOf(new, g) : PairsOf(new, e) = PairsOf(db, e)
    BY FitsSame DEF Good
  <2>1. \A m \in db.member : m[2] \in DOMAIN db.device BY DEF Good, Sound
  <2>2. MembersOf(new, g) = MembersOf(db, g) BY <2>1, <1>2, <1>3 DEF MembersOf, Active
  <2> QED BY <2>2, <1>2 DEF GroupCommandsOf, PairsOf, CommandsOf
<1>8. Faithful(new, said, missed)
  <2>1. Unmoved(db, new) BY <1>2, <1>3 DEF Unmoved, Active, CommandsOf, GroupCommandsOf
  <2> QED BY <2>1, FaithfulEdit DEF Good
<1>9. Follows(db, new) BY <1>1, <1>2, StoreAssumption DEF Follows, Databases
<1> QED BY <1>5, <1>6, <1>7, <1>8, <1>9 DEF Good, new

\* create_group: under a number no group ever had.
LEMMA CreateGood ==
  ASSUME NEW db, NEW excused, NEW said, NEW missed, Good(db, excused, said, missed),
         db.lastGroup + 1 <= MaxGroups, NEW members \in SUBSET Active(db)
  PROVE  LET g == db.lastGroup + 1
             new == [db EXCEPT !.group = @ \cup {g}, !.lastGroup = g,
                               !.member = @ \cup ({g} \X members)]
         IN  Good(new, excused \cup {g}, said, missed) /\ Follows(db, new) /\ {g} \subseteq new.group
<1> DEFINE g == db.lastGroup + 1
           new == [db EXCEPT !.group = @ \cup {g}, !.lastGroup = g,
                             !.member = @ \cup ({g} \X members)]
<1>1. db \in Databases /\ db.lastGroup \in Nat /\ db.device \in Seq(DeviceRows)
  BY StoreAssumption DEF Good, Sound, Databases
<1>2. g \in Nat /\ g \in GroupIds /\ g > db.lastGroup /\ \A h \in db.group : h <= db.lastGroup /\ h \in Nat /\ h # g
  <2>1. \A h \in db.group : h <= db.lastGroup /\ h \in Nat
    BY StoreAssumption, <1>1 DEF Good, Sound, Databases, GroupIds
  <2> QED BY <1>1, <2>1, StoreAssumption DEF GroupIds
<1>3. /\ new.command = db.command /\ new.group = db.group \cup {g} /\ new.lastGroup = g
      /\ new.groupCommand = db.groupCommand /\ new.label = db.label /\ new.changed = db.changed
      /\ new.member = db.member \cup ({g} \X members) /\ new.device = db.device
  BY <1>1 DEF Databases
<1>4. \A d \in members : d \in DOMAIN db.device /\ db.device[d].active /\ d \in Nat \ {0}
  BY <1>1 DEF Active
<1>5. new \in Databases
  <2>1. {g} \X members \subseteq GroupIds \X (Nat \ {0}) BY <1>2, <1>4
  <2>2. g \in 0..MaxGroups BY <1>2, StoreAssumption DEF GroupIds
  <2> QED BY <1>1, <1>2, <2>1, <2>2 DEF Databases
<1> HIDE DEF new, g
<1>6. Sound(new)
  <2>1. \A h \in new.group : h <= new.lastGroup BY <1>1, <1>2, <1>3
  <2>2. ASSUME NEW m \in new.member
        PROVE  m[1] \in new.group /\ m[2] \in DOMAIN new.device /\ new.device[m[2]].active
    <3>1. CASE m \in db.member BY <3>1, <1>3 DEF Good, Sound
    <3>2. CASE m \in {g} \X members BY <3>2, <1>3, <1>4
    <3> QED BY <3>1, <3>2, <1>3
  <2> QED BY <2>1, <2>2, <1>3, <1>5 DEF Good, Sound
<1>7. KeysDiffer(new) BY <1>3 DEF Good, KeysDiffer
<1>8. Fits(new, excused \cup {g})
  <2> SUFFICES ASSUME NEW h \in new.group \ (excused \cup {g})
               PROVE  /\ h \in db.group \ excused
                      /\ GroupCommandsOf(new, h) = GroupCommandsOf(db, h)
                      /\ MembersOf(new, h) = MembersOf(db, h)
                      /\ \A e \in MembersOf(new, h) : PairsOf(new, e) = PairsOf(db, e)
    BY FitsSame DEF Good
  <2>1. MembersOf(new, h) = MembersOf(db, h) BY <1>3 DEF MembersOf, Active
  <2> QED BY <2>1, <1>3 DEF GroupCommandsOf, PairsOf, CommandsOf
<1>9. Faithful(new, said, missed)
  <2>1. GroupCommandsOf(new, g) = {} BY <1>2, <1>3 DEF GroupCommandsOf, Good, Sound
  <2>2. Unmoved(db, new) BY <2>1, <1>3 DEF Unmoved, Active, CommandsOf, GroupCommandsOf
  <2> QED BY <2>2, FaithfulEdit DEF Good
<1>10. Follows(db, new) BY <1>1, <1>2, <1>3 DEF Follows
<1> QED BY <1>3, <1>6, <1>7, <1>8, <1>9, <1>10 DEF Good, new, g

\* What set_group_members makes of the rows.
Rewired(db, g, members) ==
    [db EXCEPT !.member = {m \in @ : m[1] # g} \cup ({g} \X members), !.changed[g] = TRUE]

\* set_group_members
LEMMA MembersGood ==
  ASSUME NEW db, NEW excused, NEW said, NEW missed, Good(db, excused, said, missed),
         NEW g \in db.group, NEW members \in SUBSET Active(db)
  PROVE  LET new == Rewired(db, g, members)
         IN  Good(new, excused \cup {g}, said, missed) /\ Follows(db, new) /\ {g} \subseteq new.group
<1> DEFINE new == Rewired(db, g, members)
<1>1. db \in Databases /\ db.lastGroup \in Nat /\ db.device \in Seq(DeviceRows) /\ g \in GroupIds
  BY StoreAssumption DEF Good, Sound, Databases
<1>2. /\ new.command = db.command /\ new.group = db.group /\ new.lastGroup = db.lastGroup
      /\ new.groupCommand = db.groupCommand /\ new.label = db.label
      /\ new.changed = [db.changed EXCEPT ![g] = TRUE]
      /\ new.member = {m \in db.member : m[1] # g} \cup ({g} \X members) /\ new.device = db.device
  BY <1>1 DEF Databases, Rewired
<1>3. \A d \in members : d \in DOMAIN db.device /\ db.device[d].active /\ d \in Nat \ {0}
  BY <1>1 DEF Active
<1>4. db.changed \in [GroupIds -> BOOLEAN] BY <1>1 DEF Databases
<1>5. new \in Databases
  <2>1. {g} \X members \subseteq GroupIds \X (Nat \ {0}) BY <1>1, <1>3
  <2>2. [db.changed EXCEPT ![g] = TRUE] \in [GroupIds -> BOOLEAN] BY <1>4
  <2> QED BY <1>1, <2>1, <2>2 DEF Databases, Rewired
<1> HIDE DEF new
<1>6. Sound(new)
  <2>1. ASSUME NEW m \in new.member
        PROVE  m[1] \in new.group /\ m[2] \in DOMAIN new.device /\ new.device[m[2]].active
    <3>1. CASE m \in db.member BY <3>1, <1>2 DEF Good, Sound
    <3>2. CASE m \in {g} \X members BY <3>2, <1>2, <1>3
    <3> QED BY <3>1, <3>2, <1>2
  <2> QED BY <2>1, <1>2, <1>5 DEF Good, Sound
<1>7. KeysDiffer(new) BY <1>2 DEF Good, KeysDiffer
<1>8. Fits(new, excused \cup {g})
  <2> SUFFICES ASSUME NEW h \in new.group \ (excused \cup {g})
               PROVE  /\ h \in db.group \ excused
                      /\ GroupCommandsOf(new, h) = GroupCommandsOf(db, h)
                      /\ MembersOf(new, h) = MembersOf(db, h)
                      /\ \A e \in MembersOf(new, h) : PairsOf(new, e) = PairsOf(db, e)
    BY FitsSame DEF Good
  <2>1. MembersOf(new, h) = MembersOf(db, h) BY <1>2 DEF MembersOf, Active
  <2> QED BY <2>1, <1>2 DEF GroupCommandsOf, PairsOf, CommandsOf
<1>9. Faithful(new, said, missed)
  <2>1. new.changed[g] /\ \A h \in db.group \ {g} : new.changed[h] = db.changed[h]
    BY <1>1, <1>2, <1>4 DEF Databases
  <2>2. Unmoved(db, new) BY <2>1, <1>2 DEF Unmoved, Active, CommandsOf, GroupCommandsOf
  <2> QED BY <2>2, FaithfulEdit DEF Good
<1>10. Follows(db, new) BY <1>1, <1>2 DEF Follows
<1> QED BY <1>2, <1>6, <1>7, <1>8, <1>9, <1>10 DEF Good, new

\* rename_group
LEMMA MarkedGroupGood ==
  ASSUME NEW db, NEW excused, NEW said, NEW missed, Good(db, excused, said, missed),
         NEW g \in db.group, NEW new \in Databases, db.changed \in [GroupIds -> BOOLEAN],
         new.command = db.command, new.group = db.group, new.lastGroup = db.lastGroup,
         new.groupCommand = db.groupCommand, new.member = db.member, new.device = db.device,
         \A h \in db.group \ {g} : new.label[h] = db.label[h],
         new.changed = [db.changed EXCEPT ![g] = TRUE], g \in GroupIds, db.group \subseteq GroupIds
  PROVE  Good(new, excused, said, missed) /\ Follows(db, new)
<1>1. Sound(new) BY DEF Good, Sound
<1>2. KeysDiffer(new) BY DEF Good, KeysDiffer
<1>3. Fits(new, excused)
  <2> SUFFICES ASSUME NEW h \in new.group \ excused
               PROVE  /\ h \in db.group \ excused
                      /\ GroupCommandsOf(new, h) = GroupCommandsOf(db, h)
                      /\ MembersOf(new, h) = MembersOf(db, h)
                      /\ \A e \in MembersOf(new, h) : PairsOf(new, e) = PairsOf(db, e)
    BY FitsSame DEF Good
  <2> QED BY DEF MembersOf, Active, GroupCommandsOf, PairsOf, CommandsOf
<1>4. Faithful(new, said, missed)
  <2>1. new.changed[g] /\ \A h \in db.group \ {g} : new.changed[h] = db.changed[h] OBVIOUS
  <2>2. Unmoved(db, new) BY <2>1 DEF Unmoved, Active, CommandsOf, GroupCommandsOf
  <2> QED BY <2>2, FaithfulEdit DEF Good
<1>5. db.lastGroup \in Nat BY StoreAssumption DEF Good, Sound, Databases
<1>6. Follows(db, new) BY <1>5 DEF Follows
<1> QED BY <1>1, <1>2, <1>3, <1>4, <1>6 DEF Good

LEMMA TouchGroupGood ==
  ASSUME NEW db, NEW excused, NEW said, NEW missed, Good(db, excused, said, missed),
         NEW g \in db.group
  PROVE  LET new == [db EXCEPT !.changed[g] = TRUE]
         IN  Good(new, excused, said, missed) /\ Follows(db, new)
<1> DEFINE new == [db EXCEPT !.changed[g] = TRUE]
<1>1. db \in Databases /\ g \in GroupIds /\ db.group \subseteq GroupIds
  BY DEF Good, Sound, Databases
<1>2. db.changed \in [GroupIds -> BOOLEAN] BY <1>1 DEF Databases
<1>3. /\ new.command = db.command /\ new.group = db.group /\ new.lastGroup = db.lastGroup
      /\ new.groupCommand = db.groupCommand /\ new.label = db.label
      /\ new.changed = [db.changed EXCEPT ![g] = TRUE]
      /\ new.member = db.member /\ new.device = db.device
  BY <1>1, <1>2 DEF Databases
<1>4. new \in Databases
  <2>1. [db.changed EXCEPT ![g] = TRUE] \in [GroupIds -> BOOLEAN] BY <1>2
  <2> QED BY <1>1, <1>2, <2>1 DEF Databases
<1> HIDE DEF new
<1>5. Good(new, excused, said, missed) /\ Follows(db, new)
  BY <1>1, <1>2, <1>3, <1>4, MarkedGroupGood
<1> QED BY <1>5 DEF new

LEMMA RenameGroupGood ==
  ASSUME NEW db, NEW excused, NEW said, NEW missed, Good(db, excused, said, missed),
         NEW g \in db.group
  PROVE  LET new == [db EXCEPT !.label[g] = 1 - @, !.changed[g] = TRUE]
         IN  Good(new, excused, said, missed) /\ Follows(db, new)
<1> DEFINE new == [db EXCEPT !.label[g] = 1 - @, !.changed[g] = TRUE]
<1>1. db \in Databases /\ g \in GroupIds BY DEF Good, Sound, Databases
<1>2. db.changed \in [GroupIds -> BOOLEAN] /\ db.label \in [GroupIds -> {0, 1}]
  BY <1>1 DEF Databases
<1>3. /\ new.command = db.command /\ new.group = db.group /\ new.lastGroup = db.lastGroup
      /\ new.groupCommand = db.groupCommand /\ new.label = [db.label EXCEPT ![g] = 1 - db.label[g]]
      /\ new.changed = [db.changed EXCEPT ![g] = TRUE]
      /\ new.member = db.member /\ new.device = db.device
  BY <1>1, <1>2 DEF Databases
<1>4. new \in Databases
  <2>1. [db.label EXCEPT ![g] = 1 - db.label[g]] \in [GroupIds -> {0, 1}] BY <1>1, <1>2
  <2>2. [db.changed EXCEPT ![g] = TRUE] \in [GroupIds -> BOOLEAN] BY <1>2
  <2> QED BY <1>1, <1>2, <2>1, <2>2 DEF Databases
<1> HIDE DEF new
<1>5. db.group \subseteq GroupIds BY <1>1 DEF Databases
<1>6. \A h \in db.group \ {g} : new.label[h] = db.label[h] BY <1>2, <1>3, <1>5
<1>7. Good(new, excused, said, missed) /\ Follows(db, new)
  BY <1>1, <1>2, <1>3, <1>4, <1>5, <1>6, MarkedGroupGood
<1> QED BY <1>7 DEF new

\* The user's tick: the row keeps its pair and its key.
LEMMA TickGood ==
  ASSUME NEW db, NEW excused, NEW said, NEW missed, Good(db, excused, said, missed),
         NEW c \in db.groupCommand
  PROVE  LET new == [db EXCEPT !.groupCommand = (@ \ {c}) \cup {[c EXCEPT !.exported = ~@]},
                               !.changed[c.group] = TRUE]
         IN  Good(new, excused, said, missed) /\ Follows(db, new)
<1> DEFINE new == [db EXCEPT !.groupCommand = (@ \ {c}) \cup {[c EXCEPT !.exported = ~@]},
                             !.changed[c.group] = TRUE]
           ticked == [c EXCEPT !.exported = ~@]
<1>1. db \in Databases /\ db.lastGroup \in Nat /\ c \in GroupRows /\ c.group \in db.group /\ c.group \in GroupIds
  <2>1. db \in Databases /\ c.group \in db.group BY DEF Good, Sound
  <2> QED BY <2>1, StoreAssumption DEF Databases
<1>2. /\ ticked \in GroupRows /\ ticked.pair = c.pair /\ ticked.key = c.key /\ ticked.group = c.group
  BY <1>1 DEF GroupRows
<1>3. db.changed \in [GroupIds -> BOOLEAN] /\ db.groupCommand \subseteq GroupRows
  BY <1>1 DEF Databases
<1>4. new = [db EXCEPT !.groupCommand = (@ \ {c}) \cup {ticked}, !.changed = [@ EXCEPT ![c.group] = TRUE]]
  BY <1>1 DEF Databases
<1> HIDE DEF ticked
<1>5. /\ new.command = db.command /\ new.group = db.group /\ new.lastGroup = db.lastGroup
      /\ new.groupCommand = (db.groupCommand \ {c}) \cup {ticked} /\ new.label = db.label
      /\ new.changed = [db.changed EXCEPT ![c.group] = TRUE]
      /\ new.member = db.member /\ new.device = db.device
  BY <1>1, <1>4 DEF Databases
<1>6. new \in Databases
  <2>1. [db.changed EXCEPT ![c.group] = TRUE] \in [GroupIds -> BOOLEAN] BY <1>3
  <2>2. (db.groupCommand \ {c}) \cup {ticked} \in SUBSET GroupRows BY <1>2, <1>3
  <2> QED BY <1>1, <1>4, <2>1, <2>2 DEF Databases
<1> HIDE DEF new
<1>7. Sound(new) BY <1>1, <1>2, <1>5, <1>6 DEF Good, Sound
<1>8. KeysDiffer(new) BY <1>2, <1>5 DEF Good, KeysDiffer
<1>9. Fits(new, excused)
  <2> SUFFICES ASSUME NEW h \in new.group \ excused
               PROVE  /\ h \in db.group \ excused
                      /\ GroupPairs(new, h) = GroupPairs(db, h)
                      /\ MembersOf(new, h) = MembersOf(db, h)
                      /\ \A e \in MembersOf(new, h) : PairsOf(new, e) = PairsOf(db, e)
    BY FitsEdit DEF Good
  <2>1. GroupPairs(new, h) = GroupPairs(db, h) BY <1>2, <1>5 DEF GroupCommandsOf, GroupPairs
  <2> QED BY <2>1, <1>5 DEF MembersOf, Active, PairsOf, CommandsOf
<1>10. Faithful(new, said, missed)
  <2>1. new.changed[c.group] /\ \A h \in db.group \ {c.group} : new.changed[h] = db.changed[h]
    BY <1>1, <1>3, <1>5 DEF Databases
  <2>2. \A h \in db.group \ {c.group} : GroupCommandsOf(new, h) = GroupCommandsOf(db, h)
    BY <1>2, <1>5 DEF GroupCommandsOf
  <2>3. Unmoved(db, new) BY <2>1, <2>2, <1>5 DEF Unmoved, Active, CommandsOf
  <2> QED BY <2>3, FaithfulEdit DEF Good
<1>11. Follows(db, new) BY <1>1, <1>2, <1>5 DEF Follows
<1> QED BY <1>7, <1>8, <1>9, <1>10, <1>11 DEF Good, new

\* delete_group: its rows and memberships go with it.
LEMMA DeleteGood ==
  ASSUME NEW db, NEW excused, NEW said, NEW missed, Good(db, excused, said, missed),
         NEW g \in db.group
  PROVE  LET new == [db EXCEPT !.group = @ \ {g}, !.member = {m \in @ : m[1] # g},
                               !.groupCommand = {c \in @ : c.group # g}]
         IN  Good(new, excused, said, missed) /\ Follows(db, new)
<1> DEFINE new == [db EXCEPT !.group = @ \ {g}, !.member = {m \in @ : m[1] # g},
                             !.groupCommand = {c \in @ : c.group # g}]
<1>1. db \in Databases /\ db.lastGroup \in Nat BY StoreAssumption DEF Good, Sound, Databases
<1>2. /\ new.command = db.command /\ new.group = db.group \ {g} /\ new.lastGroup = db.lastGroup
      /\ new.groupCommand = {c \in db.groupCommand : c.group # g} /\ new.label = db.label
      /\ new.changed = db.changed /\ new.device = db.device
      /\ new.member = {m \in db.member : m[1] # g}
  BY <1>1 DEF Databases
<1>3. new \in Databases BY <1>1 DEF Databases
<1> HIDE DEF new
<1>4. Sound(new) BY <1>2, <1>3 DEF Good, Sound
<1>5. KeysDiffer(new) BY <1>2 DEF Good, KeysDiffer
<1>6. Fits(new, excused)
  <2> SUFFICES ASSUME NEW h \in new.group \ excused
               PROVE  /\ h \in db.group \ excused
                      /\ GroupCommandsOf(new, h) = GroupCommandsOf(db, h)
                      /\ MembersOf(new, h) = MembersOf(db, h)
                      /\ \A e \in MembersOf(new, h) : PairsOf(new, e) = PairsOf(db, e)
    BY FitsSame DEF Good
  <2> QED BY <1>2 DEF MembersOf, Active, GroupCommandsOf, PairsOf, CommandsOf
<1>7. Faithful(new, said, missed)
  <2>1. Unmoved(db, new) BY <1>2 DEF Unmoved, Active, CommandsOf, GroupCommandsOf
  <2> QED BY <2>1, FaithfulEdit DEF Good
<1>8. Follows(db, new) BY <1>1, <1>2 DEF Follows
<1> QED BY <1>4, <1>5, <1>6, <1>7, <1>8 DEF Good, new

\* What a snapshot finds: known commands under their old keys, fresh ones whose
\* keys nobody has.
LEMMA CommandsGood ==
  ASSUME NEW db, NEW excused, NEW said, NEW missed, Good(db, excused, said, missed),
         NEW d \in Active(db), NEW found \in SUBSET CommandPairs, table \in Versions,
         NEW prior \in SUBSET CommandsOf(db, d), NEW fresh,
         fresh = {[device |-> d, pair |-> p, key |-> <<d, Slug[table][p]>>, slug |-> Slug[table][p]] :
                    p \in found \ PairsOf(db, d)},
         \A c \in fresh : c.key \notin {e.key : e \in CommandsOf(db, d)},
         \A c, e \in fresh : c.key = e.key => c = e
  PROVE  LET new == [db EXCEPT !.command = (@ \ prior) \cup {Refreshed(c) : c \in prior} \cup fresh,
                               !.device[d].changed = TRUE]
         IN  /\ Good(new, excused \cup GroupsWith(new, d), said, missed) /\ Follows(db, new)
             /\ GroupsWith(new, d) \subseteq new.group
<1> DEFINE new == [db EXCEPT !.command = (@ \ prior) \cup {Refreshed(c) : c \in prior} \cup fresh,
                             !.device[d].changed = TRUE]
           row == [db.device[d] EXCEPT !.changed = TRUE]
           Renewed(c) == IF c \in prior THEN Refreshed(c) ELSE c
           all == {Renewed(c) : c \in db.command} \cup fresh
<1>1. /\ d \in DOMAIN db.device /\ db \in Databases /\ db.device[d].active /\ d \in Nat \ {0}
      /\ db.device \in Seq(DeviceRows)
  <2>1. d \in DOMAIN db.device /\ db \in Databases /\ db.device[d].active BY DEF Good, Sound, Active
  <2>2. db.device \in Seq(DeviceRows) BY <2>1 DEF Databases
  <2> QED BY <2>1, <2>2
<1>2. db.device[d] \in DeviceRows BY <1>1, RowTyped
<1>3. row \in DeviceRows /\ row.active /\ row.changed BY <1>1, <1>2 DEF DeviceRows
<1>4. prior \subseteq db.command /\ \A c \in prior : c.device = d BY DEF CommandsOf
<1>5. \A c \in db.command : c \in CommandRows /\ c.device \in DOMAIN db.device /\ c.key[1] = c.device
  BY <1>1 DEF Good, Sound, Databases
<1>6. \A p \in CommandPairs : Slug[table][p] \in Slugs BY StoreAssumption DEF Slugs
<1>7. ASSUME NEW c \in db.command
      PROVE  /\ Renewed(c) \in CommandRows
             /\ Renewed(c).key = c.key /\ Renewed(c).pair = c.pair /\ Renewed(c).device = c.device
             /\ c.device # d => Renewed(c) = c
  BY <1>4, <1>5, <1>6 DEF Refreshed, CommandRows
<1>8. ASSUME NEW c \in fresh
      PROVE  /\ c \in CommandRows /\ c.device = d /\ c.key[1] = d
             /\ \A e \in db.command : e.key # c.key
  <2>1. PICK p \in found \ PairsOf(db, d) :
          c = [device |-> d, pair |-> p, key |-> <<d, Slug[table][p]>>, slug |-> Slug[table][p]]
    OBVIOUS
  <2>2. c \in CommandRows /\ c.device = d /\ c.key[1] = d BY <2>1, <1>1, <1>6 DEF CommandRows
  <2>3. ASSUME NEW e \in db.command PROVE e.key # c.key
    <3>1. CASE e.device = d BY <3>1 DEF CommandsOf
    <3>2. CASE e.device # d BY <3>2, <2>2, <1>5
    <3> QED BY <3>1, <3>2
  <2> QED BY <2>2, <2>3
<1>9. (db.command \ prior) \cup {Refreshed(c) : c \in prior} \cup fresh = all BY <1>4
<1>10. new = [db EXCEPT !.command = all, !.device = [@ EXCEPT ![d] = row]]
  BY <1>1, <1>9 DEF Databases
<1> HIDE DEF row, all, Renewed
<1>11. /\ new.command = all /\ new.group = db.group /\ new.lastGroup = db.lastGroup
       /\ new.groupCommand = db.groupCommand /\ new.label = db.label /\ new.changed = db.changed
       /\ new.member = db.member
       /\ new.device = [db.device EXCEPT ![d] = row]
  BY <1>1, <1>10 DEF Databases
<1>12. all \subseteq CommandRows BY <1>7, <1>8 DEF all
<1>13. [db.device EXCEPT ![d] = row] \in Seq(DeviceRows) BY <1>1, <1>3, RowReplaced
<1> HIDE DEF new
<1>14. new \in Databases BY <1>1, <1>10, <1>12, <1>13 DEF Databases
<1>15. /\ DOMAIN new.device = DOMAIN db.device /\ new.device[d] = row
       /\ \A e \in DOMAIN db.device \ {d} : new.device[e] = db.device[e]
  BY <1>1, <1>3, <1>11, RowReplaced
<1>16. ASSUME NEW c \in all PROVE c.device \in DOMAIN db.device /\ c.key[1] = c.device
  BY <1>1, <1>5, <1>7, <1>8 DEF all
<1>17. Sound(new) BY <1>1, <1>3, <1>11, <1>14, <1>15, <1>16 DEF Good, Sound
<1>18. KeysDiffer(new)
  <2>1. ASSUME NEW c \in all, NEW e \in all, c.key = e.key PROVE c = e
    <3>1. CASE c \in fresh BY <3>1, <2>1, <1>7, <1>8 DEF all
    <3>2. CASE e \in fresh BY <3>2, <2>1, <1>7, <1>8 DEF all
    <3>3. CASE c \notin fresh /\ e \notin fresh
      <4>1. PICK b \in db.command : c = Renewed(b) BY <3>3 DEF all
      <4>2. PICK f \in db.command : e = Renewed(f) BY <3>3 DEF all
      <4>3. b.key = f.key BY <4>1, <4>2, <2>1, <1>7
      <4>4. b = f BY <4>3 DEF Good, KeysDiffer
      <4> QED BY <4>1, <4>2, <4>4
    <3> QED BY <3>1, <3>2, <3>3
  <2> QED BY <2>1, <1>11 DEF Good, KeysDiffer
<1>19. \A e : e # d => CommandsOf(new, e) = CommandsOf(db, e)
  <2> SUFFICES ASSUME NEW e, e # d PROVE CommandsOf(new, e) = CommandsOf(db, e) OBVIOUS
  <2> QED BY <1>7, <1>8, <1>11 DEF CommandsOf, all
<1>20. Fits(new, excused \cup GroupsWith(new, d))
  <2> SUFFICES ASSUME NEW g \in new.group \ (excused \cup GroupsWith(new, d))
               PROVE  /\ g \in db.group \ excused
                      /\ GroupCommandsOf(new, g) = GroupCommandsOf(db, g)
                      /\ MembersOf(new, g) = MembersOf(db, g)
                      /\ \A e \in MembersOf(new, g) : PairsOf(new, e) = PairsOf(db, e)
    BY FitsSame DEF Good
  <2>1. <<g, d>> \notin db.member BY <1>11 DEF GroupsWith
  <2>2. MembersOf(new, g) = MembersOf(db, g) /\ d \notin MembersOf(new, g)
    BY <2>1, <1>1, <1>3, <1>11, <1>15 DEF MembersOf, Active
  <2>3. \A e \in MembersOf(new, g) : PairsOf(new, e) = PairsOf(db, e) BY <2>2, <1>19 DEF PairsOf
  <2> QED BY <2>2, <2>3, <1>11 DEF GroupCommandsOf
<1>21. Faithful(new, said, missed)
  <2>1. Unmoved(db, new) BY <1>1, <1>3, <1>11, <1>15, <1>19 DEF Unmoved, Active, GroupCommandsOf
  <2> QED BY <2>1, FaithfulEdit DEF Good
<1>22. Follows(db, new)
  <2>1. \A c \in db.command : \E e \in new.command : e.key = c.key /\ e.pair = c.pair /\ e.device = c.device
    BY <1>7, <1>11 DEF all
  <2> QED BY <2>1, <1>1, <1>11, StoreAssumption DEF Follows, Databases
<1>23. GroupsWith(new, d) \subseteq new.group BY DEF GroupsWith
<1> QED BY <1>17, <1>18, <1>20, <1>21, <1>22, <1>23 DEF Good, new

\* What register_group_commands makes of a group's rows, given the slugs.
Staying(db, g) == {c \in GroupCommandsOf(db, g) : c.pair \in Offered(db, g)}
RefreshedIn(db, g, SlugIn) == {[c EXCEPT !.slug = SlugIn[c.pair]] : c \in Staying(db, g)}
AddedIn(db, g, SlugIn) ==
    {[group |-> g, pair |-> p, key |-> <<"g", g, SlugIn[p]>>, slug |-> SlugIn[p],
      exported |-> TRUE] : p \in Offered(db, g) \ GroupPairs(db, g)}
Rebuilt(db, g, SlugIn) ==
    [db EXCEPT !.groupCommand = (@ \ GroupCommandsOf(db, g)) \cup RefreshedIn(db, g, SlugIn)
                                  \cup AddedIn(db, g, SlugIn),
               !.changed[g] = @ \/ RefreshedIn(db, g, SlugIn) \cup AddedIn(db, g, SlugIn)
                                     # GroupCommandsOf(db, g)]

\* The groups a method affects are recomputed one by one.
LEMMA RecomputeGood ==
  ASSUME NEW db, NEW excused, NEW said, NEW missed, Good(db, excused, said, missed),
         NEW g \in db.group, NEW SlugIn \in [Offered(db, g) -> Slugs],
         \A c \in AddedIn(db, g, SlugIn),
            e \in (db.groupCommand \ GroupCommandsOf(db, g)) \cup Staying(db, g)
                    \cup AddedIn(db, g, SlugIn) :
              c.key = e.key => c = e
  PROVE  LET new == Rebuilt(db, g, SlugIn)
         IN  /\ Good(new, excused \ {g}, said, missed)
             /\ new.group = db.group /\ new.lastGroup = db.lastGroup /\ new.command = db.command
             /\ \A c \in db.groupCommand : c.pair \in Offered(new, c.group) \/ c.group # g =>
                  \E e \in new.groupCommand : e.key = c.key /\ e.pair = c.pair /\ e.group = c.group
<1> DEFINE old == GroupCommandsOf(db, g)
           stay == Staying(db, g)
           refreshed == RefreshedIn(db, g, SlugIn)
           added == AddedIn(db, g, SlugIn)
           mark == db.changed[g] \/ refreshed \cup added # old
           new == Rebuilt(db, g, SlugIn)
<1>0. /\ new = [db EXCEPT !.groupCommand = (@ \ old) \cup refreshed \cup added,
                          !.changed[g] = @ \/ refreshed \cup added # old]
      /\ stay = {c \in GroupCommandsOf(db, g) : c.pair \in Offered(db, g)}
      /\ refreshed = {[c EXCEPT !.slug = SlugIn[c.pair]] : c \in stay}
      /\ added = {[group |-> g, pair |-> p, key |-> <<"g", g, SlugIn[p]>>, slug |-> SlugIn[p],
                   exported |-> TRUE] : p \in Offered(db, g) \ GroupPairs(db, g)}
      /\ \A c \in added, e \in (db.groupCommand \ old) \cup stay \cup added : c.key = e.key => c = e
  BY DEF Staying, RefreshedIn, AddedIn, Rebuilt
<1> HIDE DEF new, stay, refreshed, added
<1>1. db \in Databases /\ db.lastGroup \in Nat /\ g \in GroupIds /\ db.groupCommand \subseteq GroupRows
  <2>1. db \in Databases BY DEF Good, Sound
  <2> QED BY <2>1, StoreAssumption DEF Databases
<1>2. db.changed \in [GroupIds -> BOOLEAN] BY <1>1 DEF Databases
<1>3. Offered(db, g) \subseteq CommandPairs BY DEF Offered
<1>4. ASSUME NEW e \in refreshed
      PROVE  \E c \in stay : e \in GroupRows /\ e.key = c.key /\ e.pair = c.pair /\ e.group = g
                             /\ e = [c EXCEPT !.slug = SlugIn[c.pair]]
  <2>1. PICK c \in stay : e = [c EXCEPT !.slug = SlugIn[c.pair]] BY <1>0
  <2>2. c \in GroupRows /\ c.group = g /\ SlugIn[c.pair] \in Slugs BY <1>0, <1>1 DEF GroupCommandsOf
  <2> QED BY <2>1, <2>2 DEF GroupRows
<1>5. ASSUME NEW e \in added
      PROVE  e \in GroupRows /\ e.group = g /\ e.pair \in Offered(db, g) /\ e.pair \notin GroupPairs(db, g)
  <2>1. PICK p \in Offered(db, g) \ GroupPairs(db, g) :
          e = [group |-> g, pair |-> p, key |-> <<"g", g, SlugIn[p]>>, slug |-> SlugIn[p],
               exported |-> TRUE]
    BY <1>0
  <2>2. SlugIn[p] \in Slugs /\ p \in CommandPairs BY <1>3
  <2> QED BY <2>1, <2>2, <1>1 DEF GroupRows
<1>6. ASSUME NEW c \in stay
      PROVE  \E e \in refreshed : e.key = c.key /\ e.pair = c.pair /\ e.group = g
  <2>1. c \in GroupRows /\ c.group = g BY <1>0, <1>1 DEF GroupCommandsOf
  <2>2. [c EXCEPT !.slug = SlugIn[c.pair]] \in refreshed BY <1>0
  <2> QED BY <2>1, <2>2 DEF GroupRows
<1>7. mark \in BOOLEAN BY <1>1, <1>2
<1>8. new = [db EXCEPT !.groupCommand = (@ \ old) \cup refreshed \cup added,
                       !.changed = [@ EXCEPT ![g] = mark]]
  BY <1>0, <1>1 DEF Databases
<1> HIDE DEF mark, old
<1>9. /\ new.command = db.command /\ new.group = db.group /\ new.lastGroup = db.lastGroup
      /\ new.groupCommand = (db.groupCommand \ old) \cup refreshed \cup added
      /\ new.label = db.label /\ new.changed = [db.changed EXCEPT ![g] = mark]
      /\ new.member = db.member /\ new.device = db.device
  BY <1>1, <1>8 DEF Databases
<1> HIDE DEF new
<1>10. new \in Databases
  <2>1. [db.changed EXCEPT ![g] = mark] \in [GroupIds -> BOOLEAN] BY <1>2, <1>7
  <2>2. (db.groupCommand \ old) \cup refreshed \cup added \subseteq GroupRows BY <1>1, <1>4, <1>5
  <2> QED BY <1>1, <1>8, <2>1, <2>2 DEF Databases
<1>11. Sound(new)
  <2>1. ASSUME NEW c \in new.groupCommand PROVE c.group \in new.group
    BY <1>4, <1>5, <1>9 DEF Good, Sound
  <2> QED BY <2>1, <1>9, <1>10 DEF Good, Sound
<1>12. old \subseteq db.groupCommand /\ stay \subseteq old BY <1>0 DEF old, GroupCommandsOf
<1>13. KeysDiffer(new)
  <2>1. \A c, e \in db.groupCommand : c.key = e.key => c = e BY DEF Good, KeysDiffer
  <2>2. ASSUME NEW c \in new.groupCommand, c \notin added
        PROVE  \E b \in db.groupCommand : /\ b.key = c.key
                                          /\ \/ b \in db.groupCommand \ old /\ c = b
                                             \/ b \in stay /\ c = [b EXCEPT !.slug = SlugIn[b.pair]]
    <3>1. CASE c \in db.groupCommand \ old BY <3>1
    <3>2. CASE c \in refreshed BY <3>2, <1>4, <1>12
    <3> QED BY <3>1, <3>2, <2>2, <1>9
  <2>3. ASSUME NEW c \in added, NEW e \in new.groupCommand, e \notin added, c.key = e.key
        PROVE  FALSE
    <3>1. PICK b \in (db.groupCommand \ old) \cup stay : b.key = e.key BY <2>3, <2>2
    <3>2. b = c BY <1>0, <3>1, <2>3 DEF old
    <3>3. CASE b \in stay BY <3>2, <3>3, <1>5, <1>12 DEF old, GroupPairs
    <3>4. CASE b \in db.groupCommand \ old BY <3>2, <3>4, <1>5 DEF old, GroupCommandsOf
    <3> QED BY <3>1, <3>3, <3>4
  <2>4. ASSUME NEW c \in new.groupCommand, NEW e \in new.groupCommand, c.key = e.key PROVE c = e
    <3>1. CASE c \in added /\ e \in added BY <1>0, <3>1, <2>4
    <3>2. CASE c \in added /\ e \notin added BY <3>2, <2>3, <2>4
    <3>3. CASE c \notin added /\ e \in added BY <3>3, <2>3, <2>4
    <3>4. CASE c \notin added /\ e \notin added
      <4>1. PICK b \in db.groupCommand : /\ b.key = c.key
                                         /\ \/ b \in db.groupCommand \ old /\ c = b
                                            \/ b \in stay /\ c = [b EXCEPT !.slug = SlugIn[b.pair]]
        BY <3>4, <2>2
      <4>2. PICK f \in db.groupCommand : /\ f.key = e.key
                                         /\ \/ f \in db.groupCommand \ old /\ e = f
                                            \/ f \in stay /\ e = [f EXCEPT !.slug = SlugIn[f.pair]]
        BY <3>4, <2>2
      <4>3. b = f BY <4>1, <4>2, <2>1, <2>4
      <4> QED BY <4>1, <4>2, <4>3, <1>12
    <3> QED BY <3>1, <3>2, <3>3, <3>4
  <2> QED BY <2>4, <1>9 DEF Good, KeysDiffer
<1>14. \A h \in new.group : /\ MembersOf(new, h) = MembersOf(db, h)
                            /\ \A e \in MembersOf(new, h) : PairsOf(new, e) = PairsOf(db, e)
                            /\ h # g => GroupCommandsOf(new, h) = GroupCommandsOf(db, h)
  <2>1. ASSUME NEW h \in new.group, h # g PROVE GroupCommandsOf(new, h) = GroupCommandsOf(db, h)
    <3>1. \A e \in refreshed \cup added : e.group # h BY <2>1, <1>4, <1>5
    <3>2. \A e \in old : e.group # h BY <2>1 DEF old, GroupCommandsOf
    <3> QED BY <3>1, <3>2, <1>9, <1>12 DEF GroupCommandsOf
  <2> QED BY <2>1, <1>9 DEF MembersOf, Active, PairsOf, CommandsOf
<1>15. GroupCommandsOf(new, g) = refreshed \cup added
  <2>1. \A e \in refreshed \cup added : e.group = g BY <1>4, <1>5
  <2>2. \A e \in db.groupCommand \ old : e.group # g BY DEF old, GroupCommandsOf
  <2> QED BY <2>1, <2>2, <1>9 DEF GroupCommandsOf
<1>16. \A h \in new.group : Offered(new, h) = Offered(db, h) BY <1>14 DEF Offered
<1>17. GroupPairs(new, g) = Offered(new, g)
  <2>1. ASSUME NEW e \in refreshed \cup added PROVE e.pair \in Offered(db, g)
    BY <1>0, <2>1, <1>4, <1>5
  <2>2. ASSUME NEW p \in Offered(db, g) PROVE \E e \in refreshed \cup added : e.pair = p
    <3>1. CASE p \in GroupPairs(db, g)
      <4>1. PICK c \in GroupCommandsOf(db, g) : c.pair = p BY <3>1 DEF GroupPairs
      <4> QED BY <1>0, <4>1, <1>6
    <3>2. CASE p \notin GroupPairs(db, g)
      <4> DEFINE row == [group |-> g, pair |-> p, key |-> <<"g", g, SlugIn[p]>>, slug |-> SlugIn[p],
                         exported |-> TRUE]
      <4>1. row \in added BY <1>0, <3>2
      <4>2. row.pair = p OBVIOUS
      <4> HIDE DEF row
      <4> QED BY <4>1, <4>2
    <3> QED BY <3>1, <3>2
  <2>3. GroupPairs(new, g) = {e.pair : e \in refreshed \cup added} BY <1>15 DEF GroupPairs
  <2>4. GroupPairs(new, g) = Offered(db, g)
    <3>1. ASSUME NEW p \in GroupPairs(new, g) PROVE p \in Offered(db, g)
      <4>1. PICK e \in refreshed \cup added : p = e.pair BY <2>3
      <4> QED BY <4>1, <2>1
    <3>2. ASSUME NEW p \in Offered(db, g) PROVE p \in GroupPairs(new, g)
      <4>1. PICK e \in refreshed \cup added : e.pair = p BY <2>2
      <4> QED BY <4>1, <2>3
    <3> QED BY <3>1, <3>2
  <2> QED BY <2>4, <1>16, <1>9
<1>18. Fits(new, excused \ {g})
  <2> SUFFICES ASSUME NEW h \in new.group \ (excused \ {g}) PROVE GroupPairs(new, h) = Offered(new, h)
    BY DEF Fits
  <2>1. CASE h = g BY <2>1, <1>17
  <2>2. CASE h # g BY <2>2, <1>9, <1>14, <1>16 DEF Good, Fits, GroupPairs
  <2> QED BY <2>1, <2>2
<1>19. Faithful(new, said, missed)
  <2>1. new.changed[g] = mark /\ \A h \in db.group \ {g} : new.changed[h] = db.changed[h]
    BY <1>1, <1>2, <1>9 DEF Databases
  <2>2. ~mark => ~db.changed[g] /\ GroupCommandsOf(new, g) = GroupCommandsOf(db, g)
    BY <1>15 DEF mark, old
  <2>3. \A h \in new.group : ~new.changed[h] =>
           ~db.changed[h] /\ GroupCommandsOf(new, h) = GroupCommandsOf(db, h)
    BY <2>1, <2>2, <1>9, <1>14
  <2>4. Unmoved(db, new) BY <2>3, <1>9 DEF Unmoved, Active, CommandsOf
  <2> QED BY <2>4, FaithfulEdit DEF Good
<1>20. ASSUME NEW c \in db.groupCommand, c.pair \in Offered(new, c.group) \/ c.group # g
       PROVE  \E e \in new.groupCommand : e.key = c.key /\ e.pair = c.pair /\ e.group = c.group
  <2>1. CASE c \in old
    <3>1. c.group = g /\ g \in new.group BY <2>1, <1>9 DEF old, GroupCommandsOf
    <3>2. c.pair \in Offered(db, g) BY <3>1, <1>20, <1>16
    <3>3. c \in stay BY <1>0, <2>1, <3>2 DEF old
    <3>4. PICK e \in refreshed : e.key = c.key /\ e.pair = c.pair /\ e.group = g BY <3>3, <1>6
    <3> QED BY <3>1, <3>4, <1>9
  <2>2. CASE c \notin old BY <2>2, <1>9
  <2> QED BY <2>1, <2>2
<1> QED BY <1>9, <1>11, <1>13, <1>18, <1>19, <1>20 DEF Good, new, old

----------------------------------------
(* The actions. *)

\* Between methods no group waits for its recomputation.
LEMMA IdleGood ==
  ASSUME StoreInv, Method
  PROVE  Good(rows, passedOver, Said, undelivered) /\ storeEdits \in Nat /\ storeFaults \in Nat
  BY DEF StoreInv, Method, MethodsIdle

\* Every action keeps the invariant and the keys, one lemma each.
LEMMA RegisterDeviceInv ==
  ASSUME StoreInv, NEW t \in Things, RegisterDevice(t)
  PROVE  StoreGoal
<1> DEFINE row == [thing |-> t, active |-> TRUE, label |-> 0, changed |-> TRUE]
           new == [rows EXCEPT !.device = Append(@, row)]
<1>1. Method /\ Unguarded(new) /\ UNCHANGED storeEdits BY DEF RegisterDevice
<1>2. row \in DeviceRows /\ row.changed BY DEF DeviceRows
<1> HIDE DEF row
<1>3. Good(new, passedOver, Said, undelivered) /\ Follows(rows, new)
  BY <1>1, <1>2, IdleGood, RegisterGood
<1> HIDE DEF new
<1> QED BY <1>1, <1>3, IdleGood, UnguardedInv

\* Two commands under one key refuse the list, so that keys differ.
LEMMA RegisterCommandsInv ==
  ASSUME StoreInv, NEW d, RegisterCommands(d)
  PROVE  StoreGoal
<1> DEFINE found == Offers[table][rows.device[d].thing]
           prior == {c \in CommandsOf(rows, d) : c.pair \in found}
           fresh == {[device |-> d, pair |-> p, key |-> <<d, Slug[table][p]>>, slug |-> Slug[table][p]] :
                       p \in found \ PairsOf(rows, d)}
           taken == {c.key : c \in CommandsOf(rows, d)}
           collision == \/ \E c \in fresh : c.key \in taken
                        \/ \E c, e \in fresh : c # e /\ c.key = e.key
           new == [rows EXCEPT
                     !.command = (@ \ prior) \cup {Refreshed(c) : c \in prior} \cup fresh,
                     !.device[d].changed = TRUE]
<1>1. /\ Method /\ d \in Active(rows) /\ UNCHANGED storeEdits
      /\ \/ collision /\ RollsBack({}) /\ UNCHANGED storeFaults
         \/ ~collision /\ Guarded(new, GroupsWith(new, d))
  BY DEF RegisterCommands
<1>2. CASE RollsBack({}) /\ UNCHANGED storeFaults BY <1>1, <1>2, IdleGood, RollsBackInv
<1>3. CASE ~collision /\ Guarded(new, GroupsWith(new, d))
  <2>1. table \in Versions /\ rows \in Databases /\ d \in DOMAIN rows.device
    BY <1>1 DEF StoreInv, Good, Sound, Active
  <2>2. rows.device[d].thing \in Things BY <2>1, RowTyped DEF DeviceRows
  <2>3. found \in SUBSET CommandPairs BY <2>1, <2>2, StoreAssumption
  <2> HIDE DEF found
  <2>4. \A c \in fresh : c.key \notin taken BY <1>3
  <2>5. \A c, e \in fresh : c.key = e.key => c = e BY <1>3
  <2>6. prior \in SUBSET CommandsOf(rows, d) OBVIOUS
  <2>7. /\ Good(new, passedOver \cup GroupsWith(new, d), Said, undelivered) /\ Follows(rows, new)
        /\ GroupsWith(new, d) \subseteq new.group
    <3>1. fresh = {[device |-> d, pair |-> p, key |-> <<d, Slug[table][p]>>, slug |-> Slug[table][p]] :
                     p \in found \ PairsOf(rows, d)}
      OBVIOUS
    <3> HIDE DEF prior, fresh
    <3> QED BY <1>1, <2>1, <2>3, <2>4, <2>5, <2>6, <3>1, IdleGood, CommandsGood
  <2> HIDE DEF new
  <2> QED BY <1>1, <1>3, <2>7, IdleGood, GuardedInv
<1> QED BY <1>1, <1>2, <1>3

\* forget_device
LEMMA ForgetDeviceInv ==
  ASSUME StoreInv, NEW d, ForgetDevice(d)
  PROVE  StoreGoal
<1> DEFINE new == [rows EXCEPT !.member = {m \in @ : m[2] # d}, !.device[d].active = FALSE]
<1>1. Method /\ d \in Active(rows) /\ Guarded(new, GroupsWith(rows, d)) /\ UNCHANGED storeEdits
  BY DEF ForgetDevice
<1>2. /\ Good(new, passedOver \cup GroupsWith(rows, d), Said, undelivered)
      /\ Follows(rows, new) /\ GroupsWith(rows, d) \subseteq new.group
  BY <1>1, IdleGood, ForgetGood
<1> HIDE DEF new
<1> QED BY <1>1, <1>2, IdleGood, GuardedInv

\* rename_device and set_title
LEMMA RenameDeviceInv ==
  ASSUME StoreInv, NEW d, RenameDevice(d) \/ SetTitle(d)
  PROVE  StoreGoal
<1> DEFINE new == [rows EXCEPT !.device[d].label = 1 - @, !.device[d].changed = TRUE]
           half == [rows EXCEPT !.device[d].changed = TRUE]
<1>1. /\ Method /\ d \in Active(rows) /\ storeEdits' = storeEdits + 1
      /\ Unguarded(new) \/ LeavesOpen(half, {})
  BY DEF RenameDevice, SetTitle
<1>2. Good(new, passedOver, Said, undelivered) /\ Follows(rows, new) BY <1>1, IdleGood, LabelGood
<1>3. Good(half, passedOver \cup {}, Said, undelivered) /\ Follows(rows, half)
  BY <1>1, IdleGood, TouchGood
<1> HIDE DEF new, half
<1>4. storeEdits' \in Nat BY <1>1, IdleGood
<1> QED BY <1>1, <1>2, <1>3, <1>4, UnguardedInv, LeavesOpenInv

\* create_group
LEMMA CreateGroupInv ==
  ASSUME StoreInv, NEW members, CreateGroup(members)
  PROVE  StoreGoal
<1> DEFINE g == rows.lastGroup + 1
           new == [rows EXCEPT !.group = @ \cup {g}, !.lastGroup = g,
                               !.member = @ \cup ({g} \X members)]
<1>1. /\ Method /\ g <= MaxGroups /\ members \in SUBSET Active(rows) /\ Guarded(new, {g})
      /\ UNCHANGED storeEdits
  BY DEF CreateGroup
<1>2. Good(new, passedOver \cup {g}, Said, undelivered) /\ Follows(rows, new) /\ {g} \subseteq new.group
  BY <1>1, IdleGood, CreateGood
<1> HIDE DEF new, g
<1> QED BY <1>1, <1>2, IdleGood, GuardedInv

\* set_group_members
LEMMA SetGroupMembersInv ==
  ASSUME StoreInv, NEW g, NEW members, SetGroupMembers(g, members)
  PROVE  StoreGoal
<1> DEFINE new == Rewired(rows, g, members)
<1>1. /\ Method /\ g \in rows.group /\ members \in SUBSET Active(rows) /\ Guarded(new, {g})
      /\ storeEdits' = storeEdits + 1
  BY DEF SetGroupMembers, Rewired
<1>2. Good(new, passedOver \cup {g}, Said, undelivered) /\ Follows(rows, new) /\ {g} \subseteq new.group
  <2>1. Good(rows, passedOver, Said, undelivered) BY <1>1, IdleGood
  <2>2. g \in rows.group /\ members \in SUBSET Active(rows) BY <1>1
  <2> QED BY ONLY <2>1, <2>2, MembersGood
<1> HIDE DEF new
<1>3. storeEdits' \in Nat BY <1>1, IdleGood
<1> QED BY <1>1, <1>2, <1>3, GuardedInv

\* rename_group
LEMMA RenameGroupInv ==
  ASSUME StoreInv, NEW g, RenameGroup(g)
  PROVE  StoreGoal
<1> DEFINE new == [rows EXCEPT !.label[g] = 1 - @, !.changed[g] = TRUE]
<1>1. Method /\ g \in rows.group /\ Unguarded(new) /\ storeEdits' = storeEdits + 1
  BY DEF RenameGroup
<1>2. Good(new, passedOver, Said, undelivered) /\ Follows(rows, new)
  BY <1>1, IdleGood, RenameGroupGood
<1> HIDE DEF new
<1>3. storeEdits' \in Nat BY <1>1, IdleGood
<1> QED BY <1>1, <1>2, <1>3, UnguardedInv

\* set_group_command_exported
LEMMA TickInv ==
  ASSUME StoreInv, NEW c, TickGroupCommand(c)
  PROVE  StoreGoal
<1> DEFINE new == [rows EXCEPT !.groupCommand = (@ \ {c}) \cup {[c EXCEPT !.exported = ~@]},
                               !.changed[c.group] = TRUE]
           half == [rows EXCEPT !.changed[c.group] = TRUE]
<1>1. /\ Method /\ c \in rows.groupCommand /\ storeEdits' = storeEdits + 1
      /\ Unguarded(new) \/ LeavesOpen(half, {})
  BY DEF TickGroupCommand
<1>2. Good(new, passedOver, Said, undelivered) /\ Follows(rows, new) BY <1>1, IdleGood, TickGood
<1>3. Good(half, passedOver, Said, undelivered) /\ Follows(rows, half)
  <2>1. Good(rows, passedOver, Said, undelivered) BY <1>1, IdleGood
  <2>2. c.group \in rows.group BY <1>1, <2>1 DEF Good, Sound
  <2> QED BY <2>1, <2>2, TouchGroupGood
<1> HIDE DEF new, half
<1>4. storeEdits' \in Nat BY <1>1, IdleGood
<1>5. Good(half, passedOver \cup {}, Said, undelivered) BY <1>3
<1> QED BY <1>1, <1>2, <1>3, <1>4, <1>5, UnguardedInv, LeavesOpenInv

\* delete_group
LEMMA DeleteGroupInv ==
  ASSUME StoreInv, NEW g, DeleteGroup(g)
  PROVE  StoreGoal
<1> DEFINE new == [rows EXCEPT !.group = @ \ {g}, !.member = {m \in @ : m[1] # g},
                               !.groupCommand = {c \in @ : c.group # g}]
<1>1. Method /\ g \in rows.group /\ Guarded(new, {}) /\ UNCHANGED storeEdits BY DEF DeleteGroup
<1>2. Good(new, passedOver, Said, undelivered) /\ Follows(rows, new) BY <1>1, IdleGood, DeleteGood
<1> HIDE DEF new
<1>3. Good(new, passedOver \cup {}, Said, undelivered)
  <2>1. passedOver \cup {} = passedOver OBVIOUS
  <2> QED BY <2>1, <1>2
<1> QED BY <1>1, <1>2, <1>3, IdleGood, GuardedInv

\* A set of numbers has a least one.
LEMMA NatLeast ==
  ASSUME NEW S \in SUBSET Nat, S # {}
  PROVE  \E n \in S : \A m \in S : n <= m
<1>1. PICK n \in S : \A m \in S : <<m, n>> \notin OpToRel(<, Nat) BY NatLessThanWellFounded, WFMin
<1>2. \A m \in S : n <= m
  <2> TAKE m \in S
  <2>1. m \in Nat /\ n \in Nat OBVIOUS
  <2>2. ~(m < n) BY <1>1, <2>1 DEF OpToRel
  <2> QED BY <2>1, <2>2
<1> QED BY <1>2

\* The command whose slug a group takes is one of a member's.
LEMMA SampleExists ==
  ASSUME NEW db, NEW excused, NEW said, NEW missed, Good(db, excused, said, missed),
         NEW g, NEW p \in Offered(db, g)
  PROVE  \E c \in db.command : /\ c.pair = p /\ c.device \in MembersOf(db, g)
                               /\ \A d \in MembersOf(db, g) : p \in PairsOf(db, d) => c.device <= d
                               /\ c.slug \in Slugs
<1> DEFINE carriers == {d \in MembersOf(db, g) : p \in PairsOf(db, d)}
<1>1. db \in Databases BY DEF Good, Sound
<1>2. carriers \in SUBSET Nat BY <1>1 DEF MembersOf, Active, Databases
<1>3. carriers # {} BY DEF Offered
<1>4. PICK d \in carriers : \A e \in carriers : d <= e
  <2> HIDE DEF carriers
  <2> QED BY <1>2, <1>3, NatLeast
<1>5. PICK c \in CommandsOf(db, d) : c.pair = p BY <1>4 DEF PairsOf
<1>6. c \in db.command /\ c.device = d /\ c \in CommandRows BY <1>1, <1>5 DEF CommandsOf, Databases
<1>7. c.slug \in Slugs BY <1>6 DEF CommandRows
<1> QED BY <1>4, <1>5, <1>6, <1>7

\* One recomputation: done, its commit raised, one of its writes raised, or a
\* collision refused it; the groups left behind are passed over in each failure.
LEMMA RecomputeInv ==
  ASSUME StoreInv, NEW g, Recompute(g)
  PROVE  StoreGoal
<1> DEFINE offered == Offered(rows, g)
           old == GroupCommandsOf(rows, g)
           stay == {c \in old : c.pair \in offered}
           Sample(p) == CHOOSE c \in rows.command :
                          /\ c.pair = p /\ c.device \in MembersOf(rows, g)
                          /\ \A d \in MembersOf(rows, g) : p \in PairsOf(rows, d) => c.device <= d
           SlugOf(p) == Sample(p).slug
           SlugIn == [p \in offered |-> SlugOf(p)]
           refreshed == {[c EXCEPT !.slug = SlugOf(c.pair)] : c \in stay}
           added == {[group |-> g, pair |-> p, key |-> <<"g", g, SlugOf(p)>>, slug |-> SlugOf(p),
                      exported |-> TRUE] : p \in offered \ {c.pair : c \in old}}
           others == (rows.groupCommand \ old) \cup stay \cup added
           collision == \E c \in added, e \in others : c # e /\ c.key = e.key
           new == [rows EXCEPT
                     !.groupCommand = (@ \ old) \cup refreshed \cup added,
                     !.changed[g] = @ \/ refreshed \cup added # old]
<1>1. /\ g \in regroup /\ UNCHANGED <<marking, shot, table, storeEdits, delivered, undelivered>>
      /\ \/ RollsBack(regroup) /\ UNCHANGED storeFaults
         \/ /\ ~collision
            /\ \/ rows' = new /\ kept' = new /\ regroup' = regroup \ {g} /\ passedOver' = passedOver \ {g} /\ UNCHANGED storeFaults
               \/ LeavesOpen(new, regroup)
         \/ WriteFails(regroup)
  BY DEF Recompute
<1>2. /\ rows = kept /\ marking = {} /\ shot = <<>> /\ g \in rows.group
      /\ Good(rows, passedOver \cup regroup, Said, undelivered)
      /\ regroup \subseteq rows.group /\ storeFaults \in Nat /\ storeEdits \in Nat /\ table \in Versions
  BY <1>1 DEF StoreInv, DownloadHolds
<1>3. Said' = Said BY <1>1, SaidStays
<1>4. DownloadHolds' BY <1>1, <1>2, NothingShot DEF DownloadHolds
<1>5. ASSUME RollsBack(regroup), storeFaults' \in Nat PROVE StoreGoal
  <2>1. rows' = rows /\ kept' = kept /\ regroup' = {} /\ passedOver' = passedOver \cup regroup
    BY <1>2, <1>5 DEF RollsBack, PassOver
  <2>2. passedOver' \cup regroup' = passedOver \cup regroup BY <2>1
  <2>3. Good(rows, passedOver \cup regroup, Said, undelivered)' /\ Good(kept, passedOver \cup regroup, Said, undelivered)'
    BY <1>1, <1>2, <1>3, <2>1, <2>2
  <2>4. KeyStep BY <2>1 DEF KeyStep
  <2>5. Carried' BY <1>2, <2>1 DEF StoreInv, Carried
  <2> QED BY <1>1, <1>2, <1>4, <1>5, <2>1, <2>3, <2>4, <2>5 DEF StoreInv, StoreGoal
<1>6. ASSUME ~collision
      PROVE  /\ Good(new, (passedOver \cup regroup) \ {g}, Said, undelivered)
             /\ new.group = rows.group /\ new.lastGroup = rows.lastGroup /\ new.command = rows.command
             /\ \A c \in rows.groupCommand : c.pair \in Offered(new, c.group) \/ c.group # g =>
                  \E e \in new.groupCommand : e.key = c.key /\ e.pair = c.pair /\ e.group = c.group
  <2>1. SlugIn \in [offered -> Slugs]
    <3> SUFFICES ASSUME NEW p \in offered PROVE SlugOf(p) \in Slugs OBVIOUS
    <3>1. \E c \in rows.command :
             /\ c.pair = p /\ c.device \in MembersOf(rows, g)
             /\ \A d \in MembersOf(rows, g) : p \in PairsOf(rows, d) => c.device <= d
      BY <1>2, SampleExists
    <3>2. Sample(p) \in rows.command BY <3>1
    <3>3. rows.command \subseteq CommandRows BY <1>2 DEF Good, Sound, Databases
    <3> HIDE DEF Sample
    <3> QED BY <3>2, <3>3 DEF CommandRows
  <2>2. refreshed = RefreshedIn(rows, g, SlugIn) /\ stay = Staying(rows, g)
    <3> HIDE DEF Sample
    <3> QED BY DEF RefreshedIn, Staying
  <2>3. added = AddedIn(rows, g, SlugIn)
    <3> HIDE DEF Sample
    <3> QED BY DEF AddedIn, GroupPairs
  <2>4. \A c \in added, e \in (rows.groupCommand \ old) \cup stay \cup added : c.key = e.key => c = e
    BY <1>6
  <2> HIDE DEF added, refreshed, SlugIn, stay
  <2>5. new = Rebuilt(rows, g, SlugIn) BY <2>2, <2>3 DEF Rebuilt
  <2>6. \A c \in AddedIn(rows, g, SlugIn),
            e \in (rows.groupCommand \ GroupCommandsOf(rows, g)) \cup Staying(rows, g)
                    \cup AddedIn(rows, g, SlugIn) :
              c.key = e.key => c = e
    BY <2>2, <2>3, <2>4
  <2> HIDE DEF new, offered
  <2>7. SlugIn \in [Offered(rows, g) -> Slugs] BY <2>1 DEF offered
  <2>8. g \in rows.group /\ Good(rows, passedOver \cup regroup, Said, undelivered) BY <1>2
  <2> QED BY ONLY <2>5, <2>6, <2>7, <2>8, RecomputeGood
<1> HIDE DEF new, collision
<1>7. CASE ~collision /\ LeavesOpen(new, regroup)
  <2>1. rows' = new /\ kept' = kept /\ regroup' = {} /\ passedOver' = passedOver \cup regroup /\ storeFaults' = storeFaults + 1
    BY <1>7 DEF LeavesOpen, PassOver
  <2>2. passedOver' \cup regroup' = passedOver \cup regroup BY <2>1
  <2>3. Good(new, passedOver \cup regroup, Said, undelivered)
    <3>1. Fits(new, (passedOver \cup regroup) \ {g}) BY <1>6, <1>7 DEF Good
    <3>2. Fits(new, passedOver \cup regroup) BY <3>1, FitsFewer
    <3> QED BY <1>6, <1>7, <3>2 DEF Good
  <2>4. Good(rows, passedOver \cup regroup, Said, undelivered)' /\ Good(kept, passedOver \cup regroup, Said, undelivered)'
    BY <1>1, <1>2, <1>3, <2>1, <2>2, <2>3
  <2>5. KeyStep BY <2>1 DEF KeyStep
  <2>6. Carried'
    <3>1. kept.lastGroup <= new.lastGroup BY <1>2, <1>6, <1>7 DEF StoreInv, Carried
    <3>2. \A c \in kept.command : \E e \in new.command : e.key = c.key /\ e.pair = c.pair /\ e.device = c.device
      BY <1>2, <1>6, <1>7
    <3>3. ASSUME NEW c \in kept.groupCommand, c.group \in new.group \ (passedOver \cup regroup)
          PROVE  \E e \in new.groupCommand : e.key = c.key /\ e.pair = c.pair /\ e.group = c.group
      BY <1>1, <1>2, <1>6, <1>7, <3>3
    <3> QED BY <2>1, <3>1, <3>2, <3>3 DEF Carried
  <2>7. regroup' \subseteq rows'.group /\ storeFaults' \in Nat BY <1>2, <2>1
  <2> QED BY <1>1, <1>2, <1>4, <2>1, <2>4, <2>5, <2>6, <2>7 DEF StoreInv, StoreGoal
<1>8. CASE ~collision /\ rows' = new /\ kept' = new /\ regroup' = regroup \ {g}
             /\ passedOver' = passedOver \ {g} /\ UNCHANGED storeFaults
  <2>1. passedOver' \cup regroup' = (passedOver \cup regroup) \ {g} BY <1>8
  <2>2. Good(rows, passedOver \cup regroup, Said, undelivered)' /\ Good(kept, passedOver \cup regroup, Said, undelivered)'
    BY <1>1, <1>3, <1>6, <1>8, <2>1
  <2>3. KeyStep
    <3>1. ASSUME NEW c \in kept.command
          PROVE  \E e \in kept'.command : e.key = c.key /\ e.pair = c.pair /\ e.device = c.device
      BY <1>2, <1>6, <1>8
    <3>2. ASSUME NEW c \in kept.groupCommand, c.pair \in Offered(kept', c.group)
          PROVE  \E e \in kept'.groupCommand : e.key = c.key /\ e.pair = c.pair
      BY <1>2, <1>6, <1>8, <3>2
    <3> QED BY <3>1, <3>2 DEF KeyStep
  <2>4. Carried'
    <3>1. new.lastGroup <= new.lastGroup BY <1>6, <1>8, StoreAssumption DEF Good, Sound, Databases
    <3> QED BY <1>8, <3>1 DEF Carried
  <2>5. regroup' \subseteq rows'.group BY <1>2, <1>6, <1>8
  <2>6. regroup' # {} => rows' = kept' BY <1>8
  <2> QED BY <1>1, <1>2, <1>4, <1>8, <2>2, <2>3, <2>4, <2>5, <2>6 DEF StoreInv, StoreGoal
<1>9. CASE WriteFails(regroup) BY <1>2, <1>5, <1>9 DEF WriteFails
<1>10. CASE RollsBack(regroup) /\ UNCHANGED storeFaults BY <1>2, <1>5, <1>10
<1> QED BY <1>1, <1>7, <1>8, <1>9, <1>10

\* check_writable
LEMMA CheckWritableInv ==
  ASSUME StoreInv, CheckWritable
  PROVE  StoreGoal
  BY IdleGood, RollsBackInv DEF CheckWritable

----------------------------------------
(* The download, the restart and the first state. *)

\* What is said in more archives, or missed by more, is kept no less faithfully.
LEMMA FaithfulSaid ==
  ASSUME NEW db, NEW said, NEW missed, NEW said2, NEW missed2,
         Faithful(db, said, missed), missed \subseteq missed2,
         \A x, c : <<x, c>> \in said /\ x \notin missed2 => <<x, c>> \in said2
  PROVE  Faithful(db, said2, missed2)
  BY DEF Faithful

\* A mark changes nothing of what the templates say.
LEMMA MarkKeeps ==
  ASSUME NEW db \in Databases, NEW x \in Exportable(db)
  PROVE  LET new == Marked(db, x)
         IN  /\ new \in Databases
             /\ new.command = db.command /\ new.group = db.group /\ new.lastGroup = db.lastGroup
             /\ new.groupCommand = db.groupCommand /\ new.label = db.label /\ new.member = db.member
             /\ DOMAIN new.device = DOMAIN db.device
             /\ \A d \in DOMAIN db.device : /\ new.device[d].label = db.device[d].label
                                            /\ new.device[d].active = db.device[d].active
             /\ \A y \in Exportable(db) \ {x} : ChangedSinceExport(new, y) = ChangedSinceExport(db, y)
<1> DEFINE new == Marked(db, x)
<1>0. /\ db.device \in Seq(DeviceRows) /\ db.changed \in [GroupIds -> BOOLEAN]
      /\ db.group \subseteq GroupIds
  BY DEF Databases
<1>1. ASSUME NEW d \in Active(db), x = DeviceName(d)
      PROVE  /\ new \in Databases
             /\ new.command = db.command /\ new.group = db.group /\ new.lastGroup = db.lastGroup
             /\ new.groupCommand = db.groupCommand /\ new.label = db.label /\ new.member = db.member
             /\ DOMAIN new.device = DOMAIN db.device
             /\ \A e \in DOMAIN db.device : /\ new.device[e].label = db.device[e].label
                                            /\ new.device[e].active = db.device[e].active
             /\ \A y \in Exportable(db) \ {x} : ChangedSinceExport(new, y) = ChangedSinceExport(db, y)
  <2> DEFINE row == [db.device[d] EXCEPT !.changed = FALSE]
  <2>1. x[1] = "device" /\ x[2] = d /\ d \in DOMAIN db.device BY <1>1 DEF DeviceName, Active
  <2>2. db.device[d] \in DeviceRows BY <2>1, RowTyped
  <2>3. row \in DeviceRows /\ row.active = db.device[d].active /\ row.label = db.device[d].label
    BY <2>2 DEF DeviceRows
  <2>4. new = [db EXCEPT !.device = [@ EXCEPT ![d] = row]]
    BY <2>1, <2>2 DEF Marked, Databases, DeviceRows
  <2> HIDE DEF row
  <2>5. new.device = [db.device EXCEPT ![d] = row] BY <2>4 DEF Databases
  <2>6. /\ new.device \in Seq(DeviceRows) /\ DOMAIN new.device = DOMAIN db.device
        /\ new.device[d] = row
        /\ \A e \in DOMAIN db.device \ {d} : new.device[e] = db.device[e]
    <3> HIDE DEF new
    <3> QED BY <2>1, <2>3, <2>5, RowReplaced
  <2>7. new \in Databases BY <2>4, <2>6 DEF Databases
  <2>8. /\ new.command = db.command /\ new.group = db.group /\ new.lastGroup = db.lastGroup
        /\ new.groupCommand = db.groupCommand /\ new.label = db.label /\ new.member = db.member
        /\ new.changed = db.changed
    BY <2>4 DEF Databases
  <2> HIDE DEF new
  <2>9. \A e \in DOMAIN db.device : /\ new.device[e].label = db.device[e].label
                                    /\ new.device[e].active = db.device[e].active
    BY <2>3, <2>6
  <2>10. ASSUME NEW y \in Exportable(db) \ {x}
         PROVE  ChangedSinceExport(new, y) = ChangedSinceExport(db, y)
    <3>1. CASE y[1] = "device"
      <4>1. PICK e \in Active(db) : y = DeviceName(e) BY <3>1 DEF Exportable, GroupName
      <4>2. y[2] = e /\ e # d /\ e \in DOMAIN db.device BY <4>1, <1>1, <2>10 DEF DeviceName, Active
      <4> QED BY <3>1, <4>2, <2>6 DEF ChangedSinceExport
    <3>2. CASE y[1] # "device" BY <3>2, <2>8 DEF ChangedSinceExport
    <3> QED BY <3>1, <3>2
  <2> QED BY <2>6, <2>7, <2>8, <2>9, <2>10
<1>2. ASSUME NEW g \in db.group, x = GroupName(g)
      PROVE  /\ new \in Databases
             /\ new.command = db.command /\ new.group = db.group /\ new.lastGroup = db.lastGroup
             /\ new.groupCommand = db.groupCommand /\ new.label = db.label /\ new.member = db.member
             /\ DOMAIN new.device = DOMAIN db.device
             /\ \A e \in DOMAIN db.device : /\ new.device[e].label = db.device[e].label
                                            /\ new.device[e].active = db.device[e].active
             /\ \A y \in Exportable(db) \ {x} : ChangedSinceExport(new, y) = ChangedSinceExport(db, y)
  <2>1. x[1] # "device" /\ x[2] = g /\ g \in GroupIds BY <1>0, <1>2 DEF GroupName
  <2>2. new = [db EXCEPT !.changed = [@ EXCEPT ![g] = FALSE]] BY <2>1 DEF Marked, Databases
  <2>3. /\ new.command = db.command /\ new.group = db.group /\ new.lastGroup = db.lastGroup
        /\ new.groupCommand = db.groupCommand /\ new.label = db.label /\ new.member = db.member
        /\ new.device = db.device /\ new.changed = [db.changed EXCEPT ![g] = FALSE]
    BY <2>2 DEF Databases
  <2>4. [db.changed EXCEPT ![g] = FALSE] \in [GroupIds -> BOOLEAN] BY <1>0
  <2>5. new \in Databases BY <2>2, <2>4 DEF Databases
  <2> HIDE DEF new
  <2>6. ASSUME NEW y \in Exportable(db) \ {x}
        PROVE  ChangedSinceExport(new, y) = ChangedSinceExport(db, y)
    <3>1. CASE y[1] = "device" BY <3>1, <2>3 DEF ChangedSinceExport
    <3>2. CASE y[1] # "device"
      <4>1. PICK h \in db.group : y = GroupName(h) BY <3>2 DEF Exportable, DeviceName
      <4>2. y[2] = h /\ h # g /\ h \in GroupIds BY <4>1, <1>0, <1>2, <2>6 DEF GroupName
      <4>3. new.changed[h] = db.changed[h] BY <4>2, <2>3, <1>0
      <4> QED BY <3>2, <4>2, <4>3 DEF ChangedSinceExport
    <3> QED BY <3>1, <3>2
  <2> QED BY <2>3, <2>5, <2>6
<1> HIDE DEF new
<1>3. \/ \E d \in Active(db) : x = DeviceName(d)
      \/ \E g \in db.group : x = GroupName(g)
  BY DEF Exportable
<1>4. /\ new \in Databases
      /\ new.command = db.command /\ new.group = db.group /\ new.lastGroup = db.lastGroup
      /\ new.groupCommand = db.groupCommand /\ new.label = db.label /\ new.member = db.member
      /\ DOMAIN new.device = DOMAIN db.device
      /\ \A e \in DOMAIN db.device : /\ new.device[e].label = db.device[e].label
                                     /\ new.device[e].active = db.device[e].active
      /\ \A y \in Exportable(db) \ {x} : ChangedSinceExport(new, y) = ChangedSinceExport(db, y)
  BY <1>1, <1>2, <1>3
<1> QED BY <1>4 DEF new

\* One mark is faithful if an archive says, or missed, what it marks.
LEMMA MarkGood ==
  ASSUME NEW db, NEW excused, NEW said, NEW missed, Good(db, excused, said, missed),
         NEW x \in Exportable(db), NEW said2, NEW missed2,
         Faithful(db, said2, missed2 \cup {x}),
         x \in missed2 \/ <<x, Content(db, x)>> \in said2
  PROVE  LET new == Marked(db, x)
         IN  /\ Good(new, excused, said2, missed2) /\ Follows(db, new)
             /\ Exportable(new) = Exportable(db)
             /\ \A y \in Exportable(db) : Content(new, y) = Content(db, y)
<1> DEFINE new == Marked(db, x)
<1>1. /\ db \in Databases /\ new \in Databases
      /\ new.command = db.command /\ new.group = db.group /\ new.lastGroup = db.lastGroup
      /\ new.groupCommand = db.groupCommand /\ new.label = db.label /\ new.member = db.member
      /\ DOMAIN new.device = DOMAIN db.device
      /\ \A d \in DOMAIN db.device : /\ new.device[d].label = db.device[d].label
                                     /\ new.device[d].active = db.device[d].active
      /\ \A y \in Exportable(db) \ {x} : ChangedSinceExport(new, y) = ChangedSinceExport(db, y)
  BY MarkKeeps DEF Good, Sound
<1> HIDE DEF new
<1>2. Active(new) = Active(db) BY <1>1 DEF Active
<1>3. Exportable(new) = Exportable(db) BY <1>1, <1>2 DEF Exportable, GroupCommandsOf
<1>4. ASSUME NEW y \in Exportable(db) PROVE Content(new, y) = Content(db, y)
  <2>1. CASE y[1] = "device"
    <3>1. PICK d \in Active(db) : y = DeviceName(d) BY <2>1 DEF Exportable, GroupName
    <3>2. y[2] = d /\ d \in DOMAIN db.device BY <3>1 DEF DeviceName, Active
    <3> QED BY <2>1, <3>2, <1>1 DEF Content, CommandsOf
  <2>2. CASE y[1] # "device" BY <2>2, <1>1 DEF Content, GroupCommandsOf
  <2> QED BY <2>1, <2>2
<1>5. Sound(new) BY <1>1 DEF Good, Sound
<1>6. KeysDiffer(new) BY <1>1 DEF Good, KeysDiffer
<1>7. Fits(new, excused)
  BY <1>1, <1>2, FitsSame DEF Good, MembersOf, GroupCommandsOf, PairsOf, CommandsOf
<1>8. Faithful(new, said2, missed2) BY <1>1, <1>3, <1>4 DEF Faithful
<1>9. Follows(db, new) BY <1>1, StoreAssumption DEF Follows, Databases
<1> QED BY <1>3, <1>4, <1>5, <1>6, <1>7, <1>8, <1>9 DEF Good, new

\* download, up to the first mark
LEMMA DownloadInv ==
  ASSUME StoreInv, NEW devices, Download(devices)
  PROVE  StoreGoal
<1> DEFINE written == {x \in Exportable(rows) : x[1] = "device" => x[2] \in devices}
<1>1. /\ regroup = {} /\ marking = {} /\ shot = <<>> /\ written # {}
      /\ marking' = written /\ shot' = [x \in written |-> Content(rows, x)]
      /\ UNCHANGED <<rows, kept, regroup, table, storeFaults, storeEdits, passedOver, delivered, undelivered>>
  BY DEF Download, MethodsIdle, StoreInv, DownloadHolds
<1>2. Said' = Said BY <1>1, NothingShot DEF Said
<1>3. DownloadHolds' BY <1>1 DEF DownloadHolds
<1>4. KeyStep BY <1>1 DEF KeyStep
<1>5. Carried' BY <1>1 DEF StoreInv, Carried
<1>6. passedOver' \cup regroup' = passedOver \cup regroup BY <1>1
<1>7. Good(rows, passedOver \cup regroup, Said, undelivered)' /\ Good(kept, passedOver \cup regroup, Said, undelivered)'
  BY <1>1, <1>2, <1>6 DEF StoreInv
<1> QED BY <1>1, <1>3, <1>4, <1>5, <1>7 DEF StoreInv, StoreGoal

\* One mark of a download: one of several, the last one, or one that raised.
LEMMA MarkExportedInv ==
  ASSUME StoreInv, NEW x, MarkExported(x)
  PROVE  StoreGoal
<1> DEFINE new == Marked(rows, x)
<1>1. /\ x \in marking /\ marking \subseteq DOMAIN shot /\ DOMAIN shot \subseteq Exportable(rows)
      /\ \A y \in DOMAIN shot : shot[y] = Content(rows, y)
      /\ regroup = {} /\ UNCHANGED <<table, storeEdits>>
      /\ storeFaults \in Nat /\ storeEdits \in Nat /\ table \in Versions
  BY DEF StoreInv, DownloadHolds, MarkExported
<1>2. Good(rows, passedOver, Said, undelivered) /\ Good(kept, passedOver, Said, undelivered)
  <2>1. passedOver \cup regroup = passedOver BY <1>1
  <2> QED BY <2>1 DEF StoreInv
<1>3. x \in Exportable(rows) BY <1>1
<1>4. ASSUME Faithful(rows, Said', undelivered' \cup {x}),
             x \in undelivered' \/ <<x, Content(rows, x)>> \in Said'
      PROVE  /\ Good(new, passedOver, Said', undelivered') /\ Follows(rows, new)
             /\ Exportable(new) = Exportable(rows)
             /\ \A y \in Exportable(rows) : Content(new, y) = Content(rows, y)
             /\ new.lastGroup \in Nat
  <2>1. /\ Good(new, passedOver, Said', undelivered') /\ Follows(rows, new)
        /\ Exportable(new) = Exportable(rows)
        /\ \A y \in Exportable(rows) : Content(new, y) = Content(rows, y)
    BY <1>2, <1>3, <1>4, MarkGood
  <2> HIDE DEF new
  <2>2. new.lastGroup \in Nat BY <2>1, StoreAssumption DEF Good, Sound, Databases
  <2> QED BY <2>1, <2>2
<1> HIDE DEF new
<1>5. ASSUME Commits(new, {}), Good(new, passedOver, Said', undelivered'), Follows(rows, new),
             new.lastGroup \in Nat, DownloadHolds'
      PROVE  StoreGoal
  <2>1. rows' = new /\ kept' = new /\ regroup' = {} /\ passedOver' = passedOver /\ storeFaults' = storeFaults
    BY <1>5 DEF Commits
  <2>2. passedOver' \cup regroup' = passedOver BY <2>1
  <2>3. Good(rows, passedOver \cup regroup, Said, undelivered)' /\ Good(kept, passedOver \cup regroup, Said, undelivered)'
    BY <1>5, <2>1, <2>2
  <2>4. KeyStep BY <1>5, <2>1, Composed DEF KeyStep
  <2>5. Carried' BY <1>5, <2>1 DEF Carried
  <2> QED BY <1>1, <1>5, <2>1, <2>3, <2>4, <2>5 DEF StoreInv, StoreGoal
<1>6. CASE Commits(new, {}) /\ marking' = marking \ {x} /\ marking # {x}
             /\ UNCHANGED <<delivered, undelivered, shot>>
  <2>1. \A y, c : <<y, c>> \in Said => <<y, c>> \in Said' BY <1>1, <1>6 DEF Said
  <2>2. <<x, Content(rows, x)>> \in Said' BY <1>1, <1>6 DEF Said
  <2>3. Faithful(rows, Said', undelivered' \cup {x}) BY <1>2, <1>6, <2>1, FaithfulSaid DEF Good
  <2>4. DownloadHolds'
    <3>1. rows' = new /\ regroup' = {} BY <1>6 DEF Commits
    <3> QED BY <1>1, <1>4, <1>6, <2>2, <2>3, <3>1 DEF DownloadHolds
  <2> QED BY <1>4, <1>5, <1>6, <2>2, <2>3, <2>4
<1>7. CASE /\ Commits(new, {}) /\ marking' = marking \ {x} /\ marking = {x}
           /\ delivered' = [y \in DOMAIN delivered \cup DOMAIN shot |->
                              IF y \in DOMAIN shot THEN shot[y] ELSE delivered[y]]
           /\ undelivered' = undelivered \ DOMAIN shot
           /\ shot' = <<>>
  <2>1. ASSUME NEW y \in DOMAIN shot PROVE <<y, Content(rows, y)>> \in Said'
    BY <1>1, <1>7, <2>1 DEF Said
  <2>2. ASSUME NEW y \in Exportable(rows) \ (undelivered' \cup {x}), ~ChangedSinceExport(rows, y)
        PROVE  <<y, Content(rows, y)>> \in Said'
    <3>1. CASE y \in DOMAIN shot BY <2>1, <3>1
    <3>2. CASE y \notin DOMAIN shot
      <4>1. <<y, Content(rows, y)>> \in Said BY <1>2, <1>7, <2>2, <3>2 DEF Good, Faithful
      <4>2. y \in DOMAIN delivered /\ delivered[y] = Content(rows, y) BY <4>1, <3>2 DEF Said
      <4> QED BY <4>2, <3>2, <1>7 DEF Said
    <3> QED BY <3>1, <3>2
  <2>3. Faithful(rows, Said', undelivered' \cup {x}) BY <2>2 DEF Faithful
  <2>4. DownloadHolds' BY <1>7, NothingShot DEF DownloadHolds
  <2>5. <<x, Content(rows, x)>> \in Said' BY <1>1, <2>1
  <2> QED BY <1>4, <1>5, <1>7, <2>3, <2>4, <2>5
<1>8. CASE /\ LeavesOpen(new, {})
           /\ marking' = {} /\ shot' = <<>>
           /\ undelivered' = undelivered \cup ((DOMAIN shot \ marking) \cup {x})
           /\ UNCHANGED delivered
  <2>1. /\ rows' = new /\ kept' = kept /\ regroup' = {} /\ passedOver' = passedOver
        /\ storeFaults' = storeFaults + 1
    BY <1>8 DEF LeavesOpen, PassOver
  <2>2. \A y, c : <<y, c>> \in Said /\ y \notin undelivered' => <<y, c>> \in Said'
    BY <1>8, NothingShot DEF Said
  <2>3. Faithful(rows, Said', undelivered') /\ Faithful(kept, Said', undelivered')
    BY <1>2, <1>8, <2>2, FaithfulSaid DEF Good
  <2>4. Faithful(rows, Said', undelivered' \cup {x}) BY <2>3 DEF Faithful
  <2>5. /\ Good(new, passedOver, Said', undelivered') /\ Follows(rows, new)
        /\ new.lastGroup \in Nat
    BY <1>4, <1>8, <2>4
  <2>6. passedOver' \cup regroup' = passedOver BY <2>1
  <2>7. Good(kept, passedOver, Said', undelivered') BY <1>2, <2>3 DEF Good
  <2>8. Good(rows, passedOver \cup regroup, Said, undelivered)' /\ Good(kept, passedOver \cup regroup, Said, undelivered)'
    BY <2>1, <2>5, <2>6, <2>7
  <2>9. DownloadHolds' BY <1>8, NothingShot DEF DownloadHolds
  <2>10. KeyStep BY <2>1 DEF KeyStep
  <2>11. Carried' BY <2>1, <2>5, Composed DEF Carried
  <2>12. storeFaults' \in Nat BY <1>1, <2>1
  <2> QED BY <1>1, <2>1, <2>8, <2>9, <2>10, <2>11, <2>12 DEF StoreInv, StoreGoal
<1>9. \/ /\ Commits(new, {}) /\ marking' = marking \ {x}
         /\ IF marking = {x}
              THEN /\ delivered' = [y \in DOMAIN delivered \cup DOMAIN shot |->
                                      IF y \in DOMAIN shot THEN shot[y] ELSE delivered[y]]
                   /\ undelivered' = undelivered \ DOMAIN shot
                   /\ shot' = <<>>
              ELSE UNCHANGED <<delivered, undelivered, shot>>
      \/ /\ LeavesOpen(new, {})
         /\ marking' = {} /\ shot' = <<>>
         /\ undelivered' = undelivered \cup ((DOMAIN shot \ marking) \cup {x})
         /\ UNCHANGED delivered
  BY DEF MarkExported, new
<1> QED BY <1>6, <1>7, <1>8, <1>9

\* The end of the process, wherever it comes.
LEMMA RestartInv ==
  ASSUME StoreInv, Restart
  PROVE  StoreGoal
<1>1. /\ rows' = kept /\ kept' = kept /\ passedOver' = passedOver \cup regroup
      /\ undelivered' = undelivered \cup (DOMAIN shot \ marking)
      /\ regroup' = {} /\ marking' = {} /\ shot' = <<>> /\ table' \in Versions
      /\ storeFaults' \in Nat /\ storeEdits' \in Nat /\ delivered' = delivered
  BY DEF Restart, PassOver, StoreInv
<1>2. passedOver' \cup regroup' = passedOver \cup regroup BY <1>1
<1>3. \A y, c : <<y, c>> \in Said /\ y \notin undelivered' => <<y, c>> \in Said'
  BY <1>1, NothingShot DEF Said
<1>4. Good(kept, passedOver \cup regroup, Said', undelivered')
  <2>1. Good(kept, passedOver \cup regroup, Said, undelivered) BY DEF StoreInv
  <2>2. Faithful(kept, Said', undelivered') BY <1>1, <1>3, <2>1, FaithfulSaid DEF Good
  <2> QED BY <2>1, <2>2 DEF Good
<1>5. Good(rows, passedOver \cup regroup, Said, undelivered)' /\ Good(kept, passedOver \cup regroup, Said, undelivered)'
  BY <1>1, <1>2, <1>4
<1>6. KeyStep BY <1>1 DEF KeyStep
<1>7. Carried'
  <2>1. kept.lastGroup <= kept.lastGroup BY <1>4, StoreAssumption DEF Good, Sound, Databases
  <2> QED BY <1>1, <2>1 DEF Carried
<1>8. DownloadHolds' BY <1>1, NothingShot DEF DownloadHolds
<1> QED BY <1>1, <1>5, <1>6, <1>7, <1>8 DEF StoreInv, StoreGoal

\* The empty database.
LEMMA StoreInitInv == StoreInit => StoreInv
<1> SUFFICES ASSUME StoreInit PROVE StoreInv OBVIOUS
<1>1. Empty \in Databases
  <2>1. <<>> \in Seq(DeviceRows) OBVIOUS
  <2>2. 0 \in 0..MaxGroups BY StoreAssumption
  <2> QED BY <2>1, <2>2 DEF Empty, Databases
<1>2. /\ Empty.device = <<>> /\ Empty.command = {} /\ Empty.group = {} /\ Empty.lastGroup = 0
      /\ Empty.member = {} /\ Empty.groupCommand = {}
  BY DEF Empty
<1>3. Sound(Empty) /\ KeysDiffer(Empty) /\ Fits(Empty, {}) BY <1>1, <1>2 DEF Sound, KeysDiffer, Fits
<1>4. Exportable(Empty) = {} BY <1>2, NothingShot DEF Exportable, Active
<1>5. Good(Empty, {}, Said, {}) BY <1>3, <1>4 DEF Good, Faithful
<1>6. /\ rows = Empty /\ kept = Empty /\ regroup = {} /\ marking = {} /\ shot = <<>> /\ table \in Versions
      /\ storeFaults = 0 /\ storeEdits = 0 /\ passedOver = {} /\ undelivered = {}
  BY StoreAssumption DEF StoreInit
<1>7. passedOver \cup regroup = {} BY <1>6
<1>8. Carried /\ DownloadHolds BY <1>2, <1>6, NothingShot DEF Carried, DownloadHolds
<1> HIDE DEF StoreInit
<1> QED BY <1>5, <1>6, <1>7, <1>8 DEF StoreInv

\* Every step.
LEMMA StoreNextInv == StoreInv /\ [StoreNext]_storeVars => StoreGoal
<1> SUFFICES ASSUME StoreInv, [StoreNext]_storeVars PROVE StoreGoal OBVIOUS
<1>1. CASE UNCHANGED storeVars
  <2>1. Said' = Said /\ passedOver' \cup regroup' = passedOver \cup regroup
    BY <1>1 DEF storeVars, Said
  <2>2. Good(rows, passedOver \cup regroup, Said, undelivered)' /\ Good(kept, passedOver \cup regroup, Said, undelivered)'
    BY <1>1, <2>1 DEF storeVars, StoreInv
  <2>3. KeyStep BY <1>1 DEF storeVars, KeyStep
  <2>4. Carried' /\ DownloadHolds' BY <1>1 DEF storeVars, StoreInv, Carried, DownloadHolds
  <2> QED BY <1>1, <2>2, <2>3, <2>4 DEF storeVars, StoreInv, StoreGoal
<1>2. CASE StoreNext
  BY <1>2, RegisterDeviceInv, RegisterCommandsInv, ForgetDeviceInv, RenameDeviceInv, CreateGroupInv,
     SetGroupMembersInv, RenameGroupInv, TickInv, DeleteGroupInv, RecomputeInv, CheckWritableInv,
     DownloadInv, MarkExportedInv, RestartInv DEF StoreNext
<1> QED BY <1>1, <1>2

\* The invariant says more than what the run checks.
LEMMA StoreInvSafe == StoreInv => StoreSafe
<1> SUFFICES ASSUME StoreInv PROVE StoreSafe OBVIOUS
<1>1. ASSUME NEW db \in {rows, kept}
      PROVE  /\ Good(db, passedOver \cup regroup, Said, undelivered)
             /\ db \in Databases /\ db.lastGroup \in Nat /\ db.group \subseteq GroupIds
  <2>1. Good(rows, passedOver \cup regroup, Said, undelivered) /\ Good(kept, passedOver \cup regroup, Said, undelivered)
    BY DEF StoreInv
  <2>2. Good(db, passedOver \cup regroup, Said, undelivered)
    <3>1. CASE db = rows BY ONLY <2>1, <3>1
    <3>2. CASE db = kept BY ONLY <2>1, <3>2
    <3> QED BY <3>1, <3>2
  <2>3. db \in Databases BY ONLY <2>2 DEF Good, Sound
  <2>4. 0..MaxGroups \subseteq Nat BY StoreAssumption
  <2>5. db.lastGroup \in Nat /\ db.group \subseteq GroupIds BY ONLY <2>3, <2>4 DEF Databases
  <2> QED BY ONLY <2>2, <2>3, <2>5
<1>2. StoreTypeOK
  <2>1. ASSUME NEW db \in {rows, kept}
        PROVE  /\ \A c \in db.command : c.device \in DOMAIN db.device
               /\ db.group \subseteq 1..db.lastGroup
    <3>1. \A g \in db.group : g \in Nat /\ 1 <= g BY <1>1, StoreAssumption DEF GroupIds
    <3> QED BY <1>1, <3>1 DEF Good, Sound
  <2>2. regroup \subseteq GroupIds BY <1>1 DEF StoreInv
  <2> QED BY <2>1, <2>2 DEF StoreTypeOK, StoreInv, DownloadHolds
<1>3. GroupsOfferTheirMembers BY <1>1 DEF GroupsOfferTheirMembers, Good, Fits, GroupPairs, Sound
<1>4. NoForgottenMember BY <1>1 DEF NoForgottenMember, Good, Sound
<1>5. OneCommandPerKey BY <1>1 DEF OneCommandPerKey, Good, KeysDiffer
<1>6. UnchangedIsDelivered
  <2> SUFFICES ASSUME MethodsIdle, NEW x \in Exportable(rows) \ undelivered,
                      ~ChangedSinceExport(rows, x)
               PROVE  x \in DOMAIN delivered /\ delivered[x] = Content(rows, x)
    BY DEF UnchangedIsDelivered
  <2>1. shot = <<>> BY DEF MethodsIdle, StoreInv, DownloadHolds
  <2>2. <<x, Content(rows, x)>> \in Said BY DEF StoreInv, Good, Faithful
  <2> QED BY <2>1, <2>2, NothingShot DEF Said
<1> QED BY <1>2, <1>3, <1>4, <1>5, <1>6 DEF StoreSafe

(* In every state, whatever method failed or was killed at whichever write: *)
(* a group offers what its members have unless its recomputation was cut *)
(* off, no removed device is a member, a key names one command, and what *)
(* the export tab calls unchanged is what the last archive says, unless a *)
(* download marked it and failed (model/store.py, api/export.py). *)
THEOREM StoreIsSafe == StoreSpec => []StoreSafe
<1>1. StoreInv /\ [StoreNext]_storeVars => StoreInv' BY StoreNextInv DEF StoreGoal
<1> QED BY <1>1, StoreInitInv, StoreInvSafe, PTL DEF StoreSpec

(* No commit, whatever an earlier method left in the transaction, takes a *)
(* device's command its key or meaning, and a group's key goes only with the *)
(* command, the group or a recomputation that was cut off *)
(* (Store.register_commands, register_group_commands). *)
THEOREM KeysStay == StoreSpec => KeysAreKept
<1>1. StoreInv /\ [StoreNext]_storeVars => StoreInv' BY StoreNextInv DEF StoreGoal
<1>2. StoreInv /\ [StoreNext]_storeVars =>
        [ /\ \A c \in kept.command : \E e \in kept'.command :
               e.key = c.key /\ e.pair = c.pair /\ e.device = c.device
          /\ \A c \in kept.groupCommand :
               c.group \in kept'.group \ passedOver /\ c.pair \in Offered(kept', c.group) =>
                 \E e \in kept'.groupCommand : e.key = c.key /\ e.pair = c.pair ]_storeVars
  BY StoreNextInv DEF StoreGoal, KeyStep
<1> QED BY <1>1, <1>2, StoreInitInv, PTL DEF StoreSpec, KeysAreKept

----------------------------------------
(* The updater's mailbox (Sidecar): the same invariant step by step, each *)
(* part in a lemma of its own. *)

\* What a handler may have read, and what the two state files may say.
Calls == [kind : {"none", "apply", "radios", "radios2", "zigbee"}, seen : 0..MaxJobs,
          stick : Plugs \cup {NoPlug}, waited : BOOLEAN]

States == [id : 0..MaxJobs, phase : SidecarRunning \cup {"idle", "done", "failed", "rejected"}]
RadioStates == [id : 0..MaxJobs, stick : Plugs \cup {NoPlug},
                phase : RadiosRunning \cup {"idle", "done", "failed", "rejected", "unchanged"}]

\* Every variable keeps its type; whoever is about to write a request has a
\* number left for it.
MailTyped ==
    /\ SidecarTypeOK /\ next \in 1..(MaxJobs + 1) /\ kills \in Nat
    /\ {replayed, torn} \subseteq BOOLEAN
    /\ job \in [id : 0..MaxJobs, stick : Plugs \cup {NoPlug}]
    /\ call \in Calls
    /\ {given, looked, finished} \subseteq SUBSET JobIds
    /\ call.kind \in {"apply", "radios", "radios2"} => next <= MaxJobs

\* Whatever a marker or a state names has been judged, also what a handler read
\* of it before.
NamedIsJudged ==
    /\ handled \cup radioHandled \subseteq looked
    /\ {state.id, call.seen} \subseteq looked \cup {0}
    /\ radioState.id \in radioHandled \cup {0}
    /\ worker \in RadiosAt => job.id \in radioHandled
    /\ worker = "queued" => state.id # 0
    /\ NoRequestOverwritten

\* An update that works has its marker, and so has one that ended by itself.
WorkIsMarked ==
    /\ worker \in {"working", "recreated", "rollback"} => state.id \in handled
    /\ kills = 0 => finished \subseteq handled
    /\ NoReplay

RadioChangeWaits == New(radioRequest.id, radioState.id, radioHandled)

\* What Thread uses, is to use, may get back or is asked to use is not Zigbee's
\* stick; and a choice for Zigbee that nothing was in the way of still stands
\* against the stick in use.
SticksKnown ==
    /\ radioState.stick = envStick
    /\ SticksApart
    /\ call.kind \in {"radios", "radios2"} => call.stick = NoPlug \/ call.stick # zigbeeStick
    /\ zigbeeStick # NoPlug /\ ~torn =>
         /\ RadioChangeWaits => radioRequest.stick # zigbeeStick
         /\ worker \in RadiosAt => job.stick # zigbeeStick
         /\ worker \in {"write", "verify"} => backup # zigbeeStick
    /\ call.kind = "zigbee" /\ ~call.waited =>
         /\ worker \notin RadiosAt /\ ~RadioChangeWaits
         /\ call.stick # NoPlug => call.stick # envStick

SidecarInv == MailTyped /\ NamedIsJudged /\ WorkIsMarked /\ SticksKnown

\* An empty mailbox.
LEMMA SidecarInitInv == SidecarInit => SidecarInv
<1> SUFFICES ASSUME SidecarInit PROVE SidecarInv OBVIOUS
<1> USE SidecarAssumption DEF SidecarInit, JobIds, NoCall
<1>1. call \in Calls BY DEF Calls
<1>2. SidecarTypeOK
  <2>0. MaxJobs \in Nat OBVIOUS
  <2>1. /\ request \in 0..MaxJobs /\ handled \subseteq JobIds /\ radioHandled \subseteq JobIds
        /\ state \in States
    BY <2>0 DEF States
  <2>2. radioRequest \in [id : 0..MaxJobs, stick : Plugs \cup {NoPlug}] BY <2>0
  <2>3. radioState \in RadioStates
    <3>1. radioState.id \in 0..MaxJobs /\ radioState.stick \in Plugs \cup {NoPlug} BY <2>0
    <3> QED BY <3>1 DEF RadioStates
  <2> QED BY <2>0, <2>1, <2>2, <2>3 DEF SidecarTypeOK, States, RadioStates
<1>3. MailTyped
  <2>0. MaxJobs \in Nat OBVIOUS
  <2>1. next \in 1..(MaxJobs + 1) /\ kills \in Nat BY <2>0
  <2>2. job \in [id : 0..MaxJobs, stick : Plugs \cup {NoPlug}] BY <2>0
  <2>3. {replayed, torn} \subseteq BOOLEAN /\ {given, looked, finished} \subseteq SUBSET JobIds
    OBVIOUS
  <2>4. call.kind \notin {"apply", "radios", "radios2"} OBVIOUS
  <2> QED BY <1>1, <1>2, <2>1, <2>2, <2>3, <2>4 DEF MailTyped
<1>4. NamedIsJudged BY DEF NamedIsJudged, NoRequestOverwritten, RadiosAt
<1>5. WorkIsMarked /\ SticksKnown
  BY DEF WorkIsMarked, NoReplay, SticksKnown, SticksApart, RadioChangeWaits, New, RadiosAt
<1> QED BY <1>3, <1>4, <1>5 DEF SidecarInv

\* Every step keeps each part of the invariant.
LEMMA MailTypedStep ==
  ASSUME SidecarInv, [SidecarNext]_sidecarVars
  PROVE  MailTyped'
<1> USE SidecarAssumption DEF SidecarInv, MailTyped, Calls, SidecarTypeOK, JobIds,
     SidecarRunning, RadiosRunning, NamedIsJudged, New, fileVars, sideHistory
<1>1. CASE ApplyReads
  <2>1. /\ call' \in Calls
        /\ call'.kind \in {"apply", "radios", "radios2"} => next' <= MaxJobs
    BY <1>1 DEF ApplyReads, NoCall
  <2>2. SidecarTypeOK' BY <1>1, <2>1 DEF ApplyReads, NoCall
  <2> QED BY <1>1, <2>1, <2>2 DEF ApplyReads, NoCall
<1>2. CASE RadiosReads
  <2>1. PICK p \in Plugs \cup {NoPlug} : call' = [NoCall EXCEPT !.kind = "radios", !.stick = p]
    BY <1>2 DEF RadiosReads
  <2>2. next' <= MaxJobs BY <1>2 DEF RadiosReads
  <2>3. call' \in Calls
    <3>1. 0 \in 0..MaxJobs OBVIOUS
    <3>2. call' = [kind |-> "radios", seen |-> 0, stick |-> p, waited |-> FALSE]
      BY ONLY <2>1 DEF NoCall
    <3>3. p \in Plugs \cup {NoPlug} OBVIOUS
    <3> QED BY ONLY <3>1, <3>2, <3>3 DEF Calls
  <2>4. SidecarTypeOK' BY <1>2, <2>3 DEF RadiosReads
  <2> QED BY <1>2, <2>2, <2>3, <2>4 DEF RadiosReads
<1>3. CASE ZigbeeReads
  <2>1. /\ call' \in Calls
        /\ call'.kind \in {"apply", "radios", "radios2"} => next' <= MaxJobs
    BY <1>3 DEF ZigbeeReads, RequestWaits, NoCall
  <2>2. SidecarTypeOK' BY <1>3, <2>1 DEF ZigbeeReads, RequestWaits, NoCall
  <2> QED BY <1>3, <2>1, <2>2 DEF ZigbeeReads, RequestWaits, NoCall
<1>4. CASE ApplyWrites BY <1>4 DEF ApplyWrites, RequestWaits, NoCall
<1>5. CASE RadiosReadsState
  <2>1. call' = NoCall \/ call' = [call EXCEPT !.kind = "radios2", !.seen = radioState.id]
    BY <1>5 DEF RadiosReadsState
  <2>2. radioState.id \in 0..MaxJobs OBVIOUS
  <2>3. call' \in Calls /\ next' <= MaxJobs
    <3>1. next' <= MaxJobs BY <1>5 DEF RadiosReadsState
    <3>2. CASE call' = NoCall BY <3>1, <3>2 DEF NoCall
    <3>3. CASE call' = [call EXCEPT !.kind = "radios2", !.seen = radioState.id] BY <3>1, <3>3, <2>2
    <3> QED BY <2>1, <3>2, <3>3
  <2>4. SidecarTypeOK' BY <1>5, <2>3 DEF RadiosReadsState, NoCall
  <2> QED BY <1>5, <2>3, <2>4 DEF RadiosReadsState, NoCall
<1>6. CASE RadiosWrites BY <1>6 DEF RadiosWrites, RequestWaits, NoCall
<1>7. CASE ZigbeeSaves
  <2>1. /\ call' \in Calls
        /\ call'.kind \in {"apply", "radios", "radios2"} => next' <= MaxJobs
    BY <1>7 DEF ZigbeeSaves, RequestWaits, NoCall
  <2>2. SidecarTypeOK' BY <1>7, <2>1 DEF ZigbeeSaves, RequestWaits, NoCall
  <2> QED BY <1>7, <2>1, <2>2 DEF ZigbeeSaves, RequestWaits, NoCall
<1>8. CASE NoUpdate BY <1>8 DEF NoUpdate
<1>9. CASE Rejects BY <1>9 DEF Rejects
<1>10. CASE Accepts BY <1>10 DEF Accepts
<1>11. CASE Marks BY <1>11 DEF Marks
<1>12. CASE UpdateFails
  <2>1. state.id \in JobIds BY <1>12, SidecarAssumption DEF SidecarInv, WorkIsMarked, MailTyped,
         SidecarTypeOK, JobIds, UpdateFails, Ended
  <2>2. \E p \in {"done", "failed", "rejected"} : state' = [state EXCEPT !.phase = p]
    BY <1>12 DEF UpdateFails, Ended
  <2>3. state' \in States /\ finished' \subseteq JobIds
    BY <1>12, <2>1, <2>2 DEF States, UpdateFails, Ended
  <2>4. SidecarTypeOK' BY <1>12, <2>3 DEF States, UpdateFails, Ended
  <2> QED BY <1>12, <2>3, <2>4 DEF UpdateFails, Ended
<1>13. CASE Recreates BY <1>13 DEF Recreates, NoCall
<1>14. CASE Healthy
  <2>1. state.id \in JobIds BY <1>14, SidecarAssumption DEF SidecarInv, WorkIsMarked, MailTyped,
         SidecarTypeOK, JobIds, Healthy, Ended
  <2>2. \E p \in {"done", "failed", "rejected"} : state' = [state EXCEPT !.phase = p]
    BY <1>14 DEF Healthy, Ended
  <2>3. state' \in States /\ finished' \subseteq JobIds
    BY <1>14, <2>1, <2>2 DEF States, Healthy, Ended
  <2>4. SidecarTypeOK' BY <1>14, <2>3 DEF States, Healthy, Ended
  <2> QED BY <1>14, <2>3, <2>4 DEF Healthy, Ended
<1>15. CASE RollsBackUpdate BY <1>15 DEF RollsBackUpdate, NoCall
<1>16. CASE NoRadios BY <1>16 DEF NoRadios, Reported, Healed
<1>17. CASE RadiosMarks
  <2>1. radioState' \in RadioStates /\ radioRequest.id \in JobIds /\ freshDigest' \in BOOLEAN
    BY <1>17 DEF RadioStates, RadiosMarks, Reported, Healed
  <2>2. SidecarTypeOK' BY <1>17, <2>1 DEF RadioStates, RadiosMarks, Reported, Healed
  <2> QED BY <1>17, <2>1, <2>2 DEF RadiosMarks, Reported, Healed
<1>18. CASE Validates BY <1>18 DEF Validates, RadiosMoves, Reported
<1>19. CASE Refuses BY <1>19 DEF Refuses, RadiosMoves, Reported
<1>20. CASE WritesEnv BY <1>20 DEF WritesEnv, RadiosMoves, Reported
<1>21. CASE Applies BY <1>21 DEF Applies, RadiosMoves, Reported
<1>22. CASE Verified BY <1>22 DEF Verified, RadiosMoves, Reported
<1>23. CASE Restores BY <1>23 DEF Restores, RadiosMoves, Reported
<1>24. CASE Restored BY <1>24 DEF Restored, RadiosMoves, Reported
<1>25. CASE ContainerStarts BY <1>25 DEF ContainerStarts
<1>26. CASE Terminated BY <1>26 DEF Terminated, UpdateAt
<1>27. CASE Killed BY <1>27 DEF Killed, NoCall
<1>28. CASE GoesSilent
  <2>1. freshDigest' \in BOOLEAN BY <1>28 DEF RadioStates, GoesSilent
  <2>2. SidecarTypeOK' BY <1>28, <2>1 DEF RadioStates, GoesSilent
  <2> QED BY <1>28, <2>1, <2>2 DEF GoesSilent
<1>29. CASE StateReset BY <1>29 DEF StateReset
<1>30. CASE UNCHANGED sidecarVars BY <1>30 DEF sidecarVars
<1> QED BY <1>1, <1>2, <1>3, <1>4, <1>5, <1>6, <1>7, <1>8, <1>9, <1>10, <1>11, <1>12, <1>13,
       <1>14, <1>15, <1>16, <1>17, <1>18, <1>19, <1>20, <1>21, <1>22, <1>23, <1>24,
       <1>25, <1>26, <1>27, <1>28, <1>29, <1>30
     DEF SidecarNext, BridgeStep, Pass

\* A request is replaced only after it was judged, and judging it names it.
LEMMA NamedStep ==
  ASSUME SidecarInv, [SidecarNext]_sidecarVars
  PROVE  NamedIsJudged'
<1> USE DEF SidecarInv, MailTyped, Calls, SidecarTypeOK, JobIds, NamedIsJudged,
     NoRequestOverwritten, RadiosAt, WorkIsMarked, fileVars, sideHistory
<1>1. CASE ApplyReads BY <1>1 DEF ApplyReads, NoCall
<1>2. CASE RadiosReads BY <1>2 DEF RadiosReads, NoCall
<1>3. CASE ZigbeeReads BY <1>3 DEF ZigbeeReads, RequestWaits, NoCall
<1>4. CASE ApplyWrites BY <1>4 DEF ApplyWrites, RequestWaits, NoCall
<1>5. CASE RadiosReadsState BY <1>5 DEF RadiosReadsState, NoCall
<1>6. CASE RadiosWrites BY <1>6 DEF RadiosWrites, RequestWaits, NoCall
<1>7. CASE ZigbeeSaves BY <1>7 DEF ZigbeeSaves, RequestWaits, NoCall
<1>8. CASE NoUpdate BY <1>8 DEF NoUpdate, New
<1>9. CASE Rejects BY <1>9 DEF Rejects, New
<1>10. CASE Accepts BY <1>10 DEF Accepts, New
<1>11. CASE Marks BY <1>11 DEF Marks
<1>12. CASE UpdateFails BY <1>12 DEF UpdateFails, Ended
<1>13. CASE Recreates BY <1>13 DEF Recreates, NoCall
<1>14. CASE Healthy BY <1>14 DEF Healthy, Ended
<1>15. CASE RollsBackUpdate BY <1>15 DEF RollsBackUpdate, NoCall
<1>16. CASE NoRadios BY <1>16 DEF NoRadios, New, Reported, Healed
<1>17. CASE RadiosMarks BY <1>17 DEF RadiosMarks, New, Reported, Healed
<1>18. CASE Validates BY <1>18 DEF Validates, RadiosMoves, Reported
<1>19. CASE Refuses BY <1>19 DEF Refuses, RadiosMoves, Reported
<1>20. CASE WritesEnv BY <1>20 DEF WritesEnv, RadiosMoves, Reported
<1>21. CASE Applies BY <1>21 DEF Applies, RadiosMoves, Reported
<1>22. CASE Verified BY <1>22 DEF Verified, RadiosMoves, Reported
<1>23. CASE Restores BY <1>23 DEF Restores, RadiosMoves, Reported
<1>24. CASE Restored BY <1>24 DEF Restored, RadiosMoves, Reported
<1>25. CASE ContainerStarts BY <1>25 DEF ContainerStarts
<1>26. CASE Terminated BY <1>26 DEF Terminated, UpdateAt
<1>27. CASE Killed BY <1>27 DEF Killed, NoCall
<1>28. CASE GoesSilent BY <1>28 DEF GoesSilent
<1>29. CASE StateReset BY <1>29 DEF StateReset
<1>30. CASE UNCHANGED sidecarVars BY <1>30 DEF sidecarVars
<1> QED BY <1>1, <1>2, <1>3, <1>4, <1>5, <1>6, <1>7, <1>8, <1>9, <1>10, <1>11, <1>12, <1>13,
       <1>14, <1>15, <1>16, <1>17, <1>18, <1>19, <1>20, <1>21, <1>22, <1>23, <1>24,
       <1>25, <1>26, <1>27, <1>28, <1>29, <1>30
     DEF SidecarNext, BridgeStep, Pass

\* The marker is written before the work, and work that ends is marked.
LEMMA MarkedStep ==
  ASSUME SidecarInv, [SidecarNext]_sidecarVars
  PROVE  WorkIsMarked'
<1> USE DEF SidecarInv, MailTyped, Calls, SidecarTypeOK, JobIds, WorkIsMarked, NoReplay,
     SidecarRunning, fileVars, sideHistory
<1>1. CASE ApplyReads BY <1>1 DEF ApplyReads, NoCall
<1>2. CASE RadiosReads BY <1>2 DEF RadiosReads, NoCall
<1>3. CASE ZigbeeReads BY <1>3 DEF ZigbeeReads, RequestWaits, NoCall
<1>4. CASE ApplyWrites BY <1>4 DEF ApplyWrites, RequestWaits, NoCall
<1>5. CASE RadiosReadsState BY <1>5 DEF RadiosReadsState, NoCall
<1>6. CASE RadiosWrites BY <1>6 DEF RadiosWrites, RequestWaits, NoCall
<1>7. CASE ZigbeeSaves BY <1>7 DEF ZigbeeSaves, RequestWaits, NoCall
<1>8. CASE NoUpdate BY <1>8 DEF NoUpdate, New
<1>9. CASE Rejects BY <1>9 DEF Rejects, New
<1>10. CASE Accepts BY <1>10 DEF Accepts, New
<1>11. CASE Marks BY <1>11 DEF Marks
<1>12. CASE UpdateFails BY <1>12 DEF UpdateFails, Ended
<1>13. CASE Recreates BY <1>13 DEF Recreates, NoCall
<1>14. CASE Healthy BY <1>14 DEF Healthy, Ended
<1>15. CASE RollsBackUpdate BY <1>15 DEF RollsBackUpdate, NoCall
<1>16. CASE NoRadios BY <1>16 DEF NoRadios, New, Reported, Healed
<1>17. CASE RadiosMarks BY <1>17 DEF RadiosMarks, New, Reported, Healed
<1>18. CASE Validates BY <1>18 DEF Validates, RadiosMoves, Reported
<1>19. CASE Refuses BY <1>19 DEF Refuses, RadiosMoves, Reported
<1>20. CASE WritesEnv BY <1>20 DEF WritesEnv, RadiosMoves, Reported
<1>21. CASE Applies BY <1>21 DEF Applies, RadiosMoves, Reported
<1>22. CASE Verified BY <1>22 DEF Verified, RadiosMoves, Reported
<1>23. CASE Restores BY <1>23 DEF Restores, RadiosMoves, Reported
<1>24. CASE Restored BY <1>24 DEF Restored, RadiosMoves, Reported
<1>25. CASE ContainerStarts BY <1>25 DEF ContainerStarts
<1>26. CASE Terminated BY <1>26 DEF Terminated, UpdateAt
<1>27. CASE Killed BY <1>27 DEF Killed, NoCall
<1>28. CASE GoesSilent BY <1>28 DEF GoesSilent
<1>29. CASE StateReset BY <1>29 DEF StateReset
<1>30. CASE UNCHANGED sidecarVars BY <1>30 DEF sidecarVars
<1> QED BY <1>1, <1>2, <1>3, <1>4, <1>5, <1>6, <1>7, <1>8, <1>9, <1>10, <1>11, <1>12, <1>13,
       <1>14, <1>15, <1>16, <1>17, <1>18, <1>19, <1>20, <1>21, <1>22, <1>23, <1>24,
       <1>25, <1>26, <1>27, <1>28, <1>29, <1>30
     DEF SidecarNext, BridgeStep, Pass

\* What is chosen for Thread or Zigbee is checked against the other where it
\* is written, or a change was under way already.
LEMMA SticksStep ==
  ASSUME SidecarInv, [SidecarNext]_sidecarVars
  PROVE  SticksKnown'
<1> USE DEF SidecarInv, MailTyped, Calls, SidecarTypeOK, NamedIsJudged, SticksKnown,
     SticksApart, RadioChangeWaits, New, RequestWaits, RadiosAt, fileVars, sideHistory
<1>1. CASE ApplyReads BY <1>1 DEF ApplyReads, NoCall
<1>2. CASE RadiosReads BY <1>2 DEF RadiosReads, NoCall
<1>3. CASE ZigbeeReads
  <2>1. call'.kind = "zigbee" /\ (call'.stick # NoPlug => call'.stick # radioState.stick)
    BY <1>3 DEF ZigbeeReads
  <2>2. call'.waited = (worker \in RadiosAt \/ RadioChangeWaits) BY <1>3 DEF ZigbeeReads
  <2>3. UNCHANGED <<fileVars, envStick, backup, zigbeeStick, worker, job, torn>>
    BY <1>3 DEF ZigbeeReads
  <2>4. envStick = radioState.stick OBVIOUS
  <2> QED BY <2>1, <2>2, <2>3, <2>4
<1>4. CASE ApplyWrites BY <1>4 DEF ApplyWrites, NoCall
<1>5. CASE RadiosReadsState BY <1>5 DEF RadiosReadsState, NoCall
<1>6. CASE RadiosWrites BY <1>6 DEF RadiosWrites, NoCall
<1>7. CASE ZigbeeSaves BY <1>7 DEF ZigbeeSaves, NoCall
<1>8. CASE NoUpdate BY <1>8 DEF NoUpdate
<1>9. CASE Rejects BY <1>9 DEF Rejects
<1>10. CASE Accepts BY <1>10 DEF Accepts
<1>11. CASE Marks BY <1>11 DEF Marks
<1>12. CASE UpdateFails BY <1>12 DEF UpdateFails, Ended
<1>13. CASE Recreates BY <1>13 DEF Recreates, NoCall
<1>14. CASE Healthy BY <1>14 DEF Healthy, Ended
<1>15. CASE RollsBackUpdate BY <1>15 DEF RollsBackUpdate, NoCall
<1>16. CASE NoRadios BY <1>16 DEF NoRadios, Reported, Healed
<1>17. CASE RadiosMarks BY <1>17 DEF RadiosMarks, Reported, Healed
<1>18. CASE Validates BY <1>18 DEF Validates, RadiosMoves, Reported
<1>19. CASE Refuses BY <1>19 DEF Refuses, RadiosMoves, Reported
<1>20. CASE WritesEnv BY <1>20 DEF WritesEnv, RadiosMoves, Reported
<1>21. CASE Applies BY <1>21 DEF Applies, RadiosMoves, Reported
<1>22. CASE Verified BY <1>22 DEF Verified, RadiosMoves, Reported
<1>23. CASE Restores BY <1>23 DEF Restores, RadiosMoves, Reported
<1>24. CASE Restored BY <1>24 DEF Restored, RadiosMoves, Reported
<1>25. CASE ContainerStarts BY <1>25 DEF ContainerStarts
<1>26. CASE Terminated BY <1>26 DEF Terminated, UpdateAt
<1>27. CASE Killed BY <1>27 DEF Killed, NoCall
<1>28. CASE GoesSilent BY <1>28 DEF GoesSilent
<1>29. CASE StateReset BY <1>29 DEF StateReset
<1>30. CASE UNCHANGED sidecarVars BY <1>30 DEF sidecarVars
<1> QED BY <1>1, <1>2, <1>3, <1>4, <1>5, <1>6, <1>7, <1>8, <1>9, <1>10, <1>11, <1>12, <1>13,
       <1>14, <1>15, <1>16, <1>17, <1>18, <1>19, <1>20, <1>21, <1>22, <1>23, <1>24,
       <1>25, <1>26, <1>27, <1>28, <1>29, <1>30
     DEF SidecarNext, BridgeStep, Pass

(* In every state, whichever handler's reads and writes the container's *)
(* passes fall between, and whenever it is stopped or killed: no request *)
(* that was answered vanishes unjudged, no update that ended starts again *)
(* unless it was cut off, and Zigbee and Thread share no stick but by a *)
(* choice that was made while a change ran (update.py, radios/sidecar.py, *)
(* radios/thread_lockout.py). *)
THEOREM SidecarIsSafe == SidecarSpec => []SidecarSafe
<1>1. SidecarInv /\ [SidecarNext]_sidecarVars => SidecarInv'
  BY MailTypedStep, NamedStep, MarkedStep, SticksStep DEF SidecarInv
<1>2. SidecarInv => SidecarSafe
  BY DEF SidecarInv, MailTyped, NamedIsJudged, WorkIsMarked, SticksKnown, SidecarSafe
<1> QED BY <1>1, <1>2, SidecarInitInv, PTL DEF SidecarSpec

----------------------------------------
(* The store's schema: what is left of a database when the migrations from *)
(* the v-th on have run over it.  A run that is resumed, and one begun *)
(* anew over what another has committed, leave the same. *)

SchemaDbs ==
  [version : 0..SchemaVersion, columns : SUBSET (1..SchemaVersion), device : SUBSET SchemaDevices,
   kinds : [SchemaDevices -> SUBSET SchemaKinds],
   signal : [SchemaDevices -> [SchemaKinds -> [ticked : BOOLEAN, functional : BOOLEAN]]],
   blank : SUBSET SchemaDevices, changed : [SchemaDevices -> BOOLEAN],
   silent : SUBSET SchemaDevices]

TickedAtLast(v, db, d, k) ==
  IF d \notin db.device \/ (v > 3 /\ k \notin {"feedback", "management"})
                        \/ (v > 12 /\ k = "feedback") \/ (v > 14 /\ k = "management")
    THEN db.signal[d][k].ticked
    ELSE k = "reading" /\ k \in db.kinds[d]

FunctionalAtLast(v, db, d, k) ==
  /\ db.signal[d][k].functional
  /\ ~ (d \in db.device /\ v <= 4 /\ k = "counter" /\ 4 \notin db.columns)
  /\ ~ (d \in db.device /\ v <= 14 /\ k = "management")

\* Whether the kind is ticked once the third migration has run.
TickedAfterThird(v, db, d, k) == IF v <= 3 THEN k \in db.kinds[d] ELSE db.signal[d][k].ticked

ChangedAtLast(v, db, d) ==
  \/ db.changed[d]
  \/ d \in db.device /\ v <= 12 /\ TickedAfterThird(v, db, d, "feedback")
  \/ d \in db.device /\ v <= 14 /\ TickedAfterThird(v, db, d, "management")

LeadsTo(v, db, w) ==
  /\ w.columns = db.columns \cup {u \in AddsColumns : u >= v}
  /\ \A d \in SchemaDevices : w.changed[d] <=> ChangedAtLast(v, db, d)
  /\ \A d \in SchemaDevices, k \in SchemaKinds :
       /\ w.signal[d][k].ticked <=> TickedAtLast(v, db, d, k)
       /\ w.signal[d][k].functional <=> FunctionalAtLast(v, db, d, k)

\* Every device whose signals are not those of its last export is marked, but
\* for those the third migration rewrote.
ShownIn(db, exports) ==
  \A d \in db.device : ~ db.changed[d] /\ d \notin db.silent => exports[d] = Ticked(db, d)

NewIsChanged(db) == \A d \in SchemaDevices \ db.device : db.changed[d]

\* Nothing is ticked of what a device has no signal of.
TicksFit(db) == \A d \in SchemaDevices, k \in SchemaKinds : db.signal[d][k].ticked => k \in db.kinds[d]

SchemaTyped ==
  /\ original \in 0..(SchemaVersion - 1)
  /\ image \in {0, original, SchemaVersion} /\ step \in 0..(SchemaVersion + 1)
  /\ repaired \in BOOLEAN /\ inTransaction \in BOOLEAN
  /\ seen \in SchemaDbs /\ stored \in SchemaDbs /\ wanted \in SchemaDbs
  /\ archive \in [SchemaDevices -> SUBSET SchemaKinds]
  /\ seen.version \in {original, SchemaVersion} /\ stored.version = seen.version

SchemaRunOK ==
  /\ step > 0 => image = SchemaVersion /\ ~repaired
  /\ image = 0 => ~repaired
  /\ step = 0 => ~inTransaction
  /\ step = 0 /\ image = SchemaVersion => seen.version = SchemaVersion
  /\ ~inTransaction => seen = stored
  /\ step \in 1..4 => inTransaction
  /\ image = SchemaVersion /\ repaired => seen.blank = {}

SchemaLeads ==
  /\ step > 0 => /\ seen.version < step /\ seen.version = original
                 /\ wanted.version = SchemaVersion
                 /\ LeadsTo(step, seen, wanted)
                 /\ LeadsTo(seen.version + 1, seen, wanted)
  /\ stored.version < SchemaVersion /\ wanted.version = SchemaVersion =>
       LeadsTo(stored.version + 1, stored, wanted)
  /\ image \notin {0, SchemaVersion} /\ stored.version < SchemaVersion =>
       wanted.version < SchemaVersion

SchemaShows ==
  /\ NewIsChanged(seen) /\ NewIsChanged(stored)
  /\ ShownIn(seen, archive) /\ ShownIn(stored, archive)
  /\ TicksFit(seen) /\ TicksFit(stored)

SchemaInvariant == SchemaTyped /\ SchemaRunOK /\ SchemaLeads /\ SchemaShows

LEMMA SchemaConsts ==
  /\ SchemaVersion = 17
  /\ {"reading", "counter", "feedback", "management"} = SchemaKinds
  /\ AddsColumns \subseteq 1..SchemaVersion /\ 3 \notin AddsColumns /\ 9 \in AddsColumns
BY DEF SchemaVersion, SchemaKinds, AddsColumns

\* What a migration leaves of a database, component by component.
MigratesTo(v, db, n) ==
  /\ n \in SchemaDbs /\ n.version = db.version /\ n.device = db.device /\ n.kinds = db.kinds
  /\ n.columns = db.columns \cup ({v} \cap AddsColumns)
  /\ n.blank \subseteq db.blank
  /\ n.silent = IF v = 3 THEN db.silent \cup Rewritten(db) ELSE db.silent
  /\ \A d \in SchemaDevices, k \in SchemaKinds :
       /\ n.signal[d][k].ticked <=> IF d \in db.device /\ v = 3 THEN k \in AtThird(db, d)
                                    ELSE /\ db.signal[d][k].ticked
                                         /\ ~ (d \in db.device /\ v = 12 /\ k = "feedback")
                                         /\ ~ (d \in db.device /\ v = 14 /\ k = "management")
       /\ n.signal[d][k].functional <=>
            /\ db.signal[d][k].functional
            /\ ~ (d \in db.device /\ v = 4 /\ k = "counter" /\ 4 \notin db.columns)
            /\ ~ (d \in db.device /\ v = 14 /\ k = "management")
  /\ \A d \in SchemaDevices :
       n.changed[d] <=> \/ db.changed[d]
                        \/ d \in db.device /\ v = 12 /\ db.signal[d]["feedback"].ticked
                        \/ d \in db.device /\ v = 14 /\ db.signal[d]["management"].ticked

SignalRows == [ticked : BOOLEAN, functional : BOOLEAN]

LEMMA SchemaDbParts ==
  ASSUME NEW db \in SchemaDbs
  PROVE  /\ db.version \in 0..17 /\ db.columns \in SUBSET (1..17) /\ db.device \in SUBSET SchemaDevices
         /\ db.signal \in [SchemaDevices -> [SchemaKinds -> SignalRows]]
         /\ db.blank \in SUBSET SchemaDevices /\ db.changed \in [SchemaDevices -> BOOLEAN]
         /\ db.silent \in SUBSET SchemaDevices /\ db.kinds \in [SchemaDevices -> SUBSET SchemaKinds]
         /\ \A d \in SchemaDevices : db.changed[d] \in BOOLEAN /\ db.signal[d] \in [SchemaKinds -> SignalRows]
         /\ \A d \in SchemaDevices, k \in SchemaKinds :
              /\ db.signal[d][k] \in SignalRows
              /\ db.signal[d][k].ticked \in BOOLEAN /\ db.signal[d][k].functional \in BOOLEAN
BY DEF SchemaDbs, SchemaVersion, SignalRows

LEMMA SignalEdited ==
  ASSUME NEW g \in SignalRows, NEW b \in BOOLEAN
  PROVE  [g EXCEPT !.ticked = b] \in SignalRows /\ [g EXCEPT !.functional = b] \in SignalRows
BY DEF SignalRows

LEMMA UntickedSays ==
  ASSUME NEW db \in SchemaDbs, NEW kinds \in SUBSET SchemaKinds
  PROVE  LET n == Unticked(db, kinds)
         IN  /\ n \in SchemaDbs /\ n.version = db.version /\ n.device = db.device
             /\ n.columns = db.columns /\ n.blank = db.blank /\ n.kinds = db.kinds /\ n.silent = db.silent
             /\ \A d \in SchemaDevices, k \in SchemaKinds :
                  /\ n.signal[d][k].ticked <=> (db.signal[d][k].ticked /\ ~ (d \in db.device /\ k \in kinds))
                  /\ n.signal[d][k].functional = db.signal[d][k].functional
             /\ \A d \in SchemaDevices :
                  n.changed[d] <=> (db.changed[d] \/ (d \in db.device /\ \E k \in kinds : db.signal[d][k].ticked))
<1> DEFINE s == [d \in SchemaDevices |-> [k \in SchemaKinds |->
                   IF d \in db.device /\ k \in kinds THEN [db.signal[d][k] EXCEPT !.ticked = FALSE]
                                                     ELSE db.signal[d][k]]]
           c == [d \in SchemaDevices |-> db.changed[d] \/ (d \in db.device /\ kinds \cap Ticked(db, d) # {})]
           n == Unticked(db, kinds)
<1>1. n = [db EXCEPT !.signal = s, !.changed = c] BY DEF Unticked
<1>2. s \in [SchemaDevices -> [SchemaKinds -> SignalRows]]
  <2>1. \A d \in SchemaDevices, k \in SchemaKinds :
          (IF d \in db.device /\ k \in kinds THEN [db.signal[d][k] EXCEPT !.ticked = FALSE] ELSE db.signal[d][k]) \in SignalRows
    <3> TAKE d \in SchemaDevices, k \in SchemaKinds
    <3>1. db.signal[d][k] \in SignalRows /\ FALSE \in BOOLEAN BY SchemaDbParts
    <3> QED BY <3>1, SignalEdited
  <2> QED BY ONLY <2>1
<1>3. \A d \in SchemaDevices, k \in SchemaKinds :
        /\ s[d][k].ticked <=> (db.signal[d][k].ticked /\ ~ (d \in db.device /\ k \in kinds))
        /\ s[d][k].functional = db.signal[d][k].functional
  <2> TAKE d \in SchemaDevices, k \in SchemaKinds
  <2>1. db.signal[d][k] \in SignalRows BY SchemaDbParts
  <2> QED BY <2>1 DEF SignalRows
<1>4. \A d \in SchemaDevices : (db.changed[d] \/ (d \in db.device /\ kinds \cap Ticked(db, d) # {})) \in BOOLEAN
  OBVIOUS
<1>5. c \in [SchemaDevices -> BOOLEAN] BY <1>4
<1>6. \A d \in SchemaDevices :
        kinds \cap Ticked(db, d) # {} <=> \E k \in kinds : db.signal[d][k].ticked
  BY DEF Ticked
<1>7. \A d \in SchemaDevices :
        c[d] <=> (db.changed[d] \/ (d \in db.device /\ \E k \in kinds : db.signal[d][k].ticked))
  BY <1>6
<1>8. /\ n.signal = s /\ n.changed = c
      /\ n.version = db.version /\ n.device = db.device
      /\ n.columns = db.columns /\ n.blank = db.blank /\ n.kinds = db.kinds /\ n.silent = db.silent
  <2> HIDE DEF s, c
  <2> QED BY <1>1 DEF SchemaDbs
<1>9. n \in SchemaDbs
  <2> HIDE DEF s, c, n
  <2> QED BY <1>1, <1>2, <1>5 DEF SchemaDbs, SchemaVersion, SignalRows
<1> HIDE DEF n, s, c
<1>10. /\ n \in SchemaDbs /\ n.version = db.version /\ n.device = db.device
       /\ n.columns = db.columns /\ n.blank = db.blank /\ n.kinds = db.kinds /\ n.silent = db.silent
  BY <1>8, <1>9
<1>11. \A d \in SchemaDevices, k \in SchemaKinds :
         /\ n.signal[d][k].ticked <=> (db.signal[d][k].ticked /\ ~ (d \in db.device /\ k \in kinds))
         /\ n.signal[d][k].functional = db.signal[d][k].functional
  BY <1>3, <1>8
<1>12. \A d \in SchemaDevices :
         n.changed[d] <=> (db.changed[d] \/ (d \in db.device /\ \E k \in kinds : db.signal[d][k].ticked))
  BY <1>7, <1>8
<1> QED BY <1>10, <1>11, <1>12 DEF n

LEMMA HiddenSays ==
  ASSUME NEW db \in SchemaDbs, NEW kinds \in SUBSET SchemaKinds
  PROVE  LET n == Hidden(db, kinds)
         IN  /\ n \in SchemaDbs /\ n.version = db.version /\ n.device = db.device
             /\ n.columns = db.columns /\ n.blank = db.blank /\ n.changed = db.changed
             /\ n.kinds = db.kinds /\ n.silent = db.silent
             /\ \A d \in SchemaDevices, k \in SchemaKinds :
                  /\ n.signal[d][k].ticked = db.signal[d][k].ticked
                  /\ n.signal[d][k].functional <=>
                       (db.signal[d][k].functional /\ ~ (d \in db.device /\ k \in kinds))
<1> DEFINE s == [d \in SchemaDevices |-> [k \in SchemaKinds |->
                   IF d \in db.device /\ k \in kinds THEN [db.signal[d][k] EXCEPT !.functional = FALSE]
                                                     ELSE db.signal[d][k]]]
           n == Hidden(db, kinds)
<1>1. n = [db EXCEPT !.signal = s] BY DEF Hidden
<1>2. s \in [SchemaDevices -> [SchemaKinds -> SignalRows]]
  <2>1. \A d \in SchemaDevices, k \in SchemaKinds :
          (IF d \in db.device /\ k \in kinds THEN [db.signal[d][k] EXCEPT !.functional = FALSE] ELSE db.signal[d][k]) \in SignalRows
    <3> TAKE d \in SchemaDevices, k \in SchemaKinds
    <3>1. db.signal[d][k] \in SignalRows /\ FALSE \in BOOLEAN BY SchemaDbParts
    <3> QED BY <3>1, SignalEdited
  <2> QED BY ONLY <2>1
<1>3. \A d \in SchemaDevices, k \in SchemaKinds :
        /\ s[d][k].ticked = db.signal[d][k].ticked
        /\ s[d][k].functional <=> (db.signal[d][k].functional /\ ~ (d \in db.device /\ k \in kinds))
  <2> TAKE d \in SchemaDevices, k \in SchemaKinds
  <2>1. db.signal[d][k] \in SignalRows BY SchemaDbParts
  <2> QED BY <2>1 DEF SignalRows
<1>8. /\ n.signal = s /\ n.changed = db.changed
      /\ n.version = db.version /\ n.device = db.device
      /\ n.columns = db.columns /\ n.blank = db.blank /\ n.kinds = db.kinds /\ n.silent = db.silent
  <2> HIDE DEF s
  <2> QED BY <1>1 DEF SchemaDbs
<1>9. n \in SchemaDbs
  <2> HIDE DEF s, n
  <2> QED BY <1>1, <1>2 DEF SchemaDbs, SchemaVersion, SignalRows
<1> HIDE DEF n, s
<1>11. \A d \in SchemaDevices, k \in SchemaKinds :
         /\ n.signal[d][k].ticked = db.signal[d][k].ticked
         /\ n.signal[d][k].functional <=> (db.signal[d][k].functional /\ ~ (d \in db.device /\ k \in kinds))
  BY <1>3, <1>8
<1> QED BY <1>8, <1>9, <1>11 DEF n

LEMMA RederivedSays ==
  ASSUME NEW db \in SchemaDbs
  PROVE  LET n == Rederived(db)
         IN  /\ n \in SchemaDbs /\ n.version = db.version /\ n.device = db.device
             /\ n.columns = db.columns /\ n.blank = db.blank /\ n.changed = db.changed
             /\ n.kinds = db.kinds /\ n.silent = db.silent \cup Rewritten(db)
             /\ \A d \in SchemaDevices, k \in SchemaKinds :
                  /\ n.signal[d][k].ticked <=> IF d \in db.device THEN k \in AtThird(db, d) ELSE db.signal[d][k].ticked
                  /\ n.signal[d][k].functional = db.signal[d][k].functional
<1> DEFINE s == [d \in SchemaDevices |-> [k \in SchemaKinds |->
                   IF d \in db.device THEN [db.signal[d][k] EXCEPT !.ticked = k \in AtThird(db, d)]
                                      ELSE db.signal[d][k]]]
           t == db.silent \cup Rewritten(db)
           n == Rederived(db)
<1>1. n = [db EXCEPT !.signal = s, !.silent = t] BY DEF Rederived
<1>2. s \in [SchemaDevices -> [SchemaKinds -> SignalRows]]
  <2>1. \A d \in SchemaDevices, k \in SchemaKinds : (k \in AtThird(db, d)) \in BOOLEAN OBVIOUS
  <2>2. \A d \in SchemaDevices, k \in SchemaKinds :
          (IF d \in db.device THEN [db.signal[d][k] EXCEPT !.ticked = k \in AtThird(db, d)] ELSE db.signal[d][k])
            \in SignalRows
    <3> TAKE d \in SchemaDevices, k \in SchemaKinds
    <3>1. db.signal[d][k] \in SignalRows BY SchemaDbParts
    <3> QED BY <2>1, <3>1, SignalEdited
  <2> QED BY ONLY <2>2
<1>3. \A d \in SchemaDevices, k \in SchemaKinds :
        /\ s[d][k].ticked <=> IF d \in db.device THEN k \in AtThird(db, d) ELSE db.signal[d][k].ticked
        /\ s[d][k].functional = db.signal[d][k].functional
  <2> TAKE d \in SchemaDevices, k \in SchemaKinds
  <2>1. db.signal[d][k] \in SignalRows BY SchemaDbParts
  <2> QED BY <2>1 DEF SignalRows
<1>4. t \in SUBSET SchemaDevices BY SchemaDbParts DEF Rewritten
<1>8. /\ n.signal = s /\ n.changed = db.changed /\ n.silent = t /\ n.kinds = db.kinds
      /\ n.version = db.version /\ n.device = db.device
      /\ n.columns = db.columns /\ n.blank = db.blank
  <2> HIDE DEF s, t
  <2> QED BY <1>1 DEF SchemaDbs
<1>9. n \in SchemaDbs
  <2> HIDE DEF s, t, n
  <2> QED BY <1>1, <1>2, <1>4 DEF SchemaDbs, SchemaVersion, SignalRows
<1> HIDE DEF n, s
<1>11. \A d \in SchemaDevices, k \in SchemaKinds :
         /\ n.signal[d][k].ticked <=> IF d \in db.device THEN k \in AtThird(db, d) ELSE db.signal[d][k].ticked
         /\ n.signal[d][k].functional = db.signal[d][k].functional
  BY <1>3, <1>8
<1> QED BY <1>8, <1>9, <1>11 DEF n, t

LEMMA WithColumnsSays ==
  ASSUME NEW db \in SchemaDbs, NEW v \in 1..17
  PROVE  LET n == WithColumns(v, db)
         IN  /\ n \in SchemaDbs /\ n.version = db.version /\ n.device = db.device
             /\ n.columns = db.columns \cup ({v} \cap AddsColumns)
             /\ n.blank = db.blank /\ n.changed = db.changed /\ n.signal = db.signal
             /\ n.kinds = db.kinds /\ n.silent = db.silent
<1> DEFINE n == WithColumns(v, db)
<1>1. CASE v \in AddsColumns
  <2>1. n = [db EXCEPT !.columns = db.columns \cup {v}] BY <1>1 DEF WithColumns
  <2>2. db.columns \cup {v} \in SUBSET (1..17) /\ {v} = {v} \cap AddsColumns BY <1>1, SchemaDbParts
  <2>3. n \in SchemaDbs
    <3> HIDE DEF n
    <3> QED BY <2>1, <2>2 DEF SchemaDbs, SchemaVersion
  <2>4. /\ n.version = db.version /\ n.device = db.device
        /\ n.columns = db.columns \cup {v}
        /\ n.blank = db.blank /\ n.changed = db.changed /\ n.signal = db.signal
        /\ n.kinds = db.kinds /\ n.silent = db.silent
    <3> HIDE DEF n
    <3> QED BY <2>1 DEF SchemaDbs
  <2> QED BY <2>2, <2>3, <2>4
<1>2. CASE v \notin AddsColumns
  <2>1. n = db BY <1>2 DEF WithColumns
  <2>2. db.columns = db.columns \cup ({v} \cap AddsColumns) BY <1>2, SchemaDbParts
  <2> QED BY <2>1, <2>2
<1> QED BY <1>1, <1>2

LEMMA MigratedSays ==
  ASSUME NEW db \in SchemaDbs, NEW v \in 1..17
  PROVE  MigratesTo(v, db, Migrated(v, db))
<1> DEFINE m == Filled(v, db)
           n == WithColumns(v, m)
<1>1. n = Migrated(v, db) BY DEF Migrated
<1> DEFINE Fills ==
      /\ m \in SchemaDbs /\ m.version = db.version /\ m.device = db.device /\ m.kinds = db.kinds
      /\ m.columns = db.columns /\ m.blank \subseteq db.blank
      /\ m.silent = IF v = 3 THEN db.silent \cup Rewritten(db) ELSE db.silent
      /\ \A d \in SchemaDevices, k \in SchemaKinds :
           /\ m.signal[d][k].ticked <=> IF d \in db.device /\ v = 3 THEN k \in AtThird(db, d)
                                        ELSE /\ db.signal[d][k].ticked
                                             /\ ~ (d \in db.device /\ v = 12 /\ k = "feedback")
                                             /\ ~ (d \in db.device /\ v = 14 /\ k = "management")
           /\ m.signal[d][k].functional <=>
                /\ db.signal[d][k].functional
                /\ ~ (d \in db.device /\ v = 4 /\ k = "counter" /\ 4 \notin db.columns)
                /\ ~ (d \in db.device /\ v = 14 /\ k = "management")
      /\ \A d \in SchemaDevices :
           m.changed[d] <=> \/ db.changed[d]
                            \/ d \in db.device /\ v = 12 /\ db.signal[d]["feedback"].ticked
                            \/ d \in db.device /\ v = 14 /\ db.signal[d]["management"].ticked
<1>2. {"counter"} \in SUBSET SchemaKinds /\ {"feedback"} \in SUBSET SchemaKinds /\ {"management"} \in SUBSET SchemaKinds
  BY DEF SchemaKinds
<1>3. Fills
  <2>1. CASE v = 3
    <3>1. m = Rederived(db) BY <2>1 DEF Filled
    <3> HIDE DEF m
    <3> QED BY <3>1, <2>1, RederivedSays
  <2>2. CASE v = 4 /\ v \notin db.columns
    <3>1. m = Hidden(db, {"counter"}) BY <2>2 DEF Filled
    <3> HIDE DEF m
    <3> QED BY <3>1, <2>2, <1>2, HiddenSays
  <2>3. CASE v = 9
    <3>1. m = [db EXCEPT !.blank = {}] BY <2>3 DEF Filled
    <3>2. m \in SchemaDbs /\ m.version = db.version /\ m.device = db.device /\ m.columns = db.columns
          /\ m.blank = {} /\ m.signal = db.signal /\ m.changed = db.changed
          /\ m.kinds = db.kinds /\ m.silent = db.silent
      <4> HIDE DEF m
      <4> QED BY <3>1 DEF SchemaDbs
    <3> HIDE DEF m
    <3> QED BY <3>2, <2>3
  <2>4. CASE v = 12
    <3>1. m = Unticked(db, {"feedback"}) BY <2>4 DEF Filled
    <3> HIDE DEF m
    <3> QED BY <3>1, <2>4, <1>2, UntickedSays
  <2>5. CASE v = 14
    <3> DEFINE u == Unticked(db, {"management"})
    <3>1. m = Hidden(u, {"management"}) BY <2>5 DEF Filled
    <3> HIDE DEF m, u
    <3>2. /\ u \in SchemaDbs /\ u.version = db.version /\ u.device = db.device
          /\ u.columns = db.columns /\ u.blank = db.blank /\ u.kinds = db.kinds /\ u.silent = db.silent
          /\ \A d \in SchemaDevices, k \in SchemaKinds :
               /\ u.signal[d][k].ticked <=> (db.signal[d][k].ticked /\ ~ (d \in db.device /\ k = "management"))
               /\ u.signal[d][k].functional = db.signal[d][k].functional
          /\ \A d \in SchemaDevices :
               u.changed[d] <=> (db.changed[d] \/ (d \in db.device /\ db.signal[d]["management"].ticked))
      BY <1>2, UntickedSays DEF u
    <3>3. /\ m \in SchemaDbs /\ m.version = u.version /\ m.device = u.device
          /\ m.columns = u.columns /\ m.blank = u.blank /\ m.changed = u.changed
          /\ m.kinds = u.kinds /\ m.silent = u.silent
          /\ \A d \in SchemaDevices, k \in SchemaKinds :
               /\ m.signal[d][k].ticked = u.signal[d][k].ticked
               /\ m.signal[d][k].functional <=> (u.signal[d][k].functional /\ ~ (d \in u.device /\ k = "management"))
      BY <1>2, <3>1, <3>2, HiddenSays
    <3> QED BY <2>5, <3>2, <3>3
  <2>6. CASE v \notin {3, 9, 12, 14} /\ ~ (v = 4 /\ v \notin db.columns)
    <3>1. m = db BY <2>6 DEF Filled
    <3> HIDE DEF m
    <3> QED BY <3>1, <2>6
  <2> QED BY <2>1, <2>2, <2>3, <2>4, <2>5, <2>6
<1> HIDE DEF m
<1>4. /\ n \in SchemaDbs /\ n.version = m.version /\ n.device = m.device
      /\ n.columns = m.columns \cup ({v} \cap AddsColumns)
      /\ n.blank = m.blank /\ n.changed = m.changed /\ n.signal = m.signal
      /\ n.kinds = m.kinds /\ n.silent = m.silent
  BY <1>3, WithColumnsSays
<1> HIDE DEF n
<1>5. MigratesTo(v, db, n) BY <1>3, <1>4 DEF MigratesTo
<1> QED BY <1>1, <1>5

\* A migration that has nothing to write changes only the columns.
LEMMA SilentMigration ==
  ASSUME NEW db \in SchemaDbs, NEW v \in 1..17, ~ Writes(v, db)
  PROVE  Migrated(v, db) = WithColumns(v, db)
<1>1. v \notin {3, 9, 12, 14} /\ ~ (v = 4 /\ v \notin db.columns) BY DEF Writes
<1>2. Filled(v, db) = db BY <1>1 DEF Filled
<1> QED BY <1>2 DEF Migrated

\* One migration further on, the rest leads to where it led before.
LEMMA LeadsOn ==
  ASSUME NEW db \in SchemaDbs, NEW n, NEW w, NEW v \in 1..17,
         MigratesTo(v, db, n)
  PROVE  LeadsTo(v, db, w) <=> LeadsTo(v + 1, n, w)
<1>1. \A d \in SchemaDevices, k \in SchemaKinds :
        TickedAtLast(v, db, d, k) <=> TickedAtLast(v + 1, n, d, k)
  <2> TAKE d \in SchemaDevices, k \in SchemaKinds
  <2>1. k \in {"reading", "counter", "feedback", "management"} BY DEF SchemaKinds
  <2>2. db.signal[d][k].ticked \in BOOLEAN /\ n.signal[d][k].ticked \in BOOLEAN
    BY SchemaDbParts DEF MigratesTo
  <2> QED BY <2>1, <2>2 DEF MigratesTo, TickedAtLast, AtThird
<1>2. \A d \in SchemaDevices, k \in SchemaKinds :
        FunctionalAtLast(v, db, d, k) <=> FunctionalAtLast(v + 1, n, d, k)
  <2> TAKE d \in SchemaDevices, k \in SchemaKinds
  <2>2. db.signal[d][k].functional \in BOOLEAN /\ n.signal[d][k].functional \in BOOLEAN
    BY SchemaDbParts DEF MigratesTo
  <2>3. 4 \in n.columns <=> (4 \in db.columns \/ v = 4) BY DEF MigratesTo, AddsColumns
  <2> QED BY <2>2, <2>3 DEF MigratesTo, FunctionalAtLast
<1>3. \A d \in SchemaDevices : ChangedAtLast(v, db, d) <=> ChangedAtLast(v + 1, n, d)
  <2> TAKE d \in SchemaDevices
  <2>1. "feedback" \in SchemaKinds /\ "management" \in SchemaKinds BY DEF SchemaKinds
  <2> QED BY <2>1 DEF MigratesTo, ChangedAtLast, TickedAfterThird, AtThird
<1>4. db.columns \cup {u \in AddsColumns : u >= v} = n.columns \cup {u \in AddsColumns : u >= v + 1}
  <2>1. \A u \in AddsColumns : u >= v <=> (u = v \/ u >= v + 1) BY DEF AddsColumns
  <2> QED BY <2>1 DEF MigratesTo
<1> QED BY <1>1, <1>2, <1>3, <1>4 DEF LeadsTo

\* A migration that ran before its turn came again changes nothing of the end.
LEMMA LeadsAgain ==
  ASSUME NEW db \in SchemaDbs, NEW n, NEW w, NEW v \in 1..17, NEW u \in 1..17, u <= v,
         MigratesTo(v, db, n), TicksFit(db)
  PROVE  LeadsTo(u, db, w) <=> LeadsTo(u, n, w)
<1>1. \A d \in SchemaDevices, k \in SchemaKinds :
        TickedAtLast(u, db, d, k) <=> TickedAtLast(u, n, d, k)
  <2> TAKE d \in SchemaDevices, k \in SchemaKinds
  <2>1. k \in {"reading", "counter", "feedback", "management"} BY DEF SchemaKinds
  <2>2. db.signal[d][k].ticked \in BOOLEAN /\ n.signal[d][k].ticked \in BOOLEAN
    BY SchemaDbParts DEF MigratesTo
  <2> QED BY <2>1, <2>2 DEF MigratesTo, TickedAtLast, AtThird
<1>2. \A d \in SchemaDevices, k \in SchemaKinds :
        FunctionalAtLast(u, db, d, k) <=> FunctionalAtLast(u, n, d, k)
  <2> TAKE d \in SchemaDevices, k \in SchemaKinds
  <2>2. db.signal[d][k].functional \in BOOLEAN /\ n.signal[d][k].functional \in BOOLEAN
    BY SchemaDbParts DEF MigratesTo
  <2>3. 4 \in n.columns <=> (4 \in db.columns \/ v = 4) BY DEF MigratesTo, AddsColumns
  <2> QED BY <2>2, <2>3 DEF MigratesTo, FunctionalAtLast
<1>3. \A d \in SchemaDevices : ChangedAtLast(u, db, d) <=> ChangedAtLast(u, n, d)
  <2> TAKE d \in SchemaDevices
  <2>1. "feedback" \in SchemaKinds /\ "management" \in SchemaKinds BY DEF SchemaKinds
  <2>2. /\ db.signal[d]["feedback"].ticked => "feedback" \in db.kinds[d]
        /\ db.signal[d]["management"].ticked => "management" \in db.kinds[d]
    BY <2>1 DEF TicksFit
  <2> QED BY <2>1, <2>2 DEF MigratesTo, ChangedAtLast, TickedAfterThird, AtThird
<1>4. db.columns \cup {x \in AddsColumns : x >= u} = n.columns \cup {x \in AddsColumns : x >= u}
  BY DEF MigratesTo, AddsColumns
<1> QED BY <1>1, <1>2, <1>3, <1>4 DEF LeadsTo

\* At the end of the migrations, the rest is what there is.
LEMMA LeadsToItself ==
  ASSUME NEW db \in SchemaDbs, NEW w \in SchemaDbs
  PROVE  /\ LeadsTo(18, db, db)
         /\ LeadsTo(18, db, w) => w.signal = db.signal /\ w.changed = db.changed /\ w.columns = db.columns
<1>1. {u \in AddsColumns : u >= 18} = {} BY DEF AddsColumns
<1>2. \A d \in SchemaDevices, k \in SchemaKinds :
        /\ TickedAtLast(18, db, d, k) <=> db.signal[d][k].ticked
        /\ FunctionalAtLast(18, db, d, k) <=> db.signal[d][k].functional
  <2> TAKE d \in SchemaDevices, k \in SchemaKinds
  <2>1. k \in {"reading", "counter", "feedback", "management"} BY DEF SchemaKinds
  <2>2. db.signal[d][k].ticked \in BOOLEAN /\ db.signal[d][k].functional \in BOOLEAN
    BY SchemaDbParts
  <2> QED BY <2>1, <2>2 DEF TickedAtLast, FunctionalAtLast
<1>3. \A d \in SchemaDevices : ChangedAtLast(18, db, d) <=> db.changed[d] BY DEF ChangedAtLast
<1>4. LeadsTo(18, db, db) BY <1>1, <1>2, <1>3 DEF LeadsTo
<1>5. ASSUME LeadsTo(18, db, w)
      PROVE  w.signal = db.signal /\ w.changed = db.changed /\ w.columns = db.columns
  <2>1. w.columns = db.columns BY <1>1, <1>5 DEF LeadsTo
  <2>2. \A d \in SchemaDevices : w.changed[d] = db.changed[d]
    <3> TAKE d \in SchemaDevices
    <3>1. w.changed[d] <=> db.changed[d] BY <1>3, <1>5 DEF LeadsTo
    <3>2. w.changed[d] \in BOOLEAN /\ db.changed[d] \in BOOLEAN BY SchemaDbParts
    <3> QED BY <3>1, <3>2
  <2>3. w.changed = db.changed
    <3>1. w.changed \in [SchemaDevices -> BOOLEAN] /\ db.changed \in [SchemaDevices -> BOOLEAN]
      BY SchemaDbParts
    <3> QED BY ONLY <2>2, <3>1
  <2>4. \A d \in SchemaDevices, k \in SchemaKinds : w.signal[d][k] = db.signal[d][k]
    <3> TAKE d \in SchemaDevices, k \in SchemaKinds
    <3> DEFINE a == w.signal[d][k]
               b == db.signal[d][k]
    <3>1. (a.ticked <=> b.ticked) /\ (a.functional <=> b.functional) BY <1>2, <1>5 DEF LeadsTo
    <3>2. a \in SignalRows /\ b \in SignalRows BY SchemaDbParts
    <3> HIDE DEF a, b
    <3>3. a.ticked = b.ticked /\ a.functional = b.functional BY <3>1, <3>2 DEF SignalRows
    <3>4. a = b BY <3>2, <3>3 DEF SignalRows
    <3> QED BY <3>4 DEF a, b
  <2>5. \A d \in SchemaDevices : w.signal[d] = db.signal[d]
    <3> TAKE d \in SchemaDevices
    <3>1. w.signal[d] \in [SchemaKinds -> SignalRows] /\ db.signal[d] \in [SchemaKinds -> SignalRows]
      BY SchemaDbParts
    <3>2. \A k \in SchemaKinds : w.signal[d][k] = db.signal[d][k] BY <2>4
    <3> DEFINE a == w.signal[d]
               b == db.signal[d]
    <3> HIDE DEF a, b
    <3>3. a = b BY <3>1, <3>2 DEF a, b
    <3> QED BY <3>3 DEF a, b
  <2>6. w.signal = db.signal
    <3>1. /\ w.signal \in [SchemaDevices -> [SchemaKinds -> SignalRows]]
          /\ db.signal \in [SchemaDevices -> [SchemaKinds -> SignalRows]]
      BY SchemaDbParts
    <3> QED BY ONLY <2>5, <3>1
  <2> QED BY <2>1, <2>3, <2>6
<1> QED BY <1>4, <1>5

\* The databases of an undisturbed run, up to the n-th migration.
RunFrom(db, n, f) ==
  f = [v \in db.version..n |-> IF v = db.version THEN db ELSE Migrated(v, f[v - 1])]

LEMMA RunGoesOn ==
  ASSUME NEW db \in SchemaDbs, NEW n \in 0..16,
         db.version <= n => \E f : RunFrom(db, n, f)
  PROVE  db.version <= n + 1 => \E f : RunFrom(db, n + 1, f)
<1> SUFFICES ASSUME db.version <= n + 1 PROVE \E f : RunFrom(db, n + 1, f) OBVIOUS
<1> DEFINE o == db.version
<1>1. o \in 0..17 BY SchemaDbParts
<1> HIDE DEF o
<1>2. CASE o = n + 1
  <2> DEFINE f == [v \in o..(n + 1) |-> db]
  <2>1. o..(n + 1) = {o} BY <1>1, <1>2
  <2>2. f = [v \in o..(n + 1) |-> IF v = o THEN db ELSE Migrated(v, f[v - 1])] BY <2>1
  <2> QED BY <2>2 DEF RunFrom, o
<1>3. CASE o <= n
  <2>1. PICK g : RunFrom(db, n, g) BY <1>3 DEF o
  <2> DEFINE f == [v \in o..(n + 1) |-> IF v = n + 1 THEN Migrated(n + 1, g[n]) ELSE g[v]]
  <2>2. \A v \in o..n : f[v] = g[v] BY <1>1
  <2>3. f[n + 1] = Migrated(n + 1, g[n]) /\ n \in o..n /\ n + 1 # o /\ (n + 1) - 1 = n BY <1>1, <1>3
  <2>4. \A v \in o..n : v \in o..(n + 1) /\ (v # o => v - 1 \in o..n) BY <1>1
  <2>5. \A v \in o..(n + 1) : v = n + 1 \/ v \in o..n BY <1>1
  <2>6. \A v \in o..n : g[v] = IF v = o THEN db ELSE Migrated(v, g[v - 1])
    <3>1. g = [v \in o..n |-> IF v = o THEN db ELSE Migrated(v, g[v - 1])] BY <2>1 DEF RunFrom, o
    <3> QED BY ONLY <3>1
  <2>7. f = [v \in o..(n + 1) |-> f[v]] OBVIOUS
  <2> HIDE DEF f
  <2>8. \A v \in o..(n + 1) : f[v] = IF v = o THEN db ELSE Migrated(v, f[v - 1])
    <3> TAKE v \in o..(n + 1)
    <3>1. CASE v = n + 1 BY <3>1, <2>2, <2>3
    <3>2. CASE v \in o..n BY <3>2, <2>2, <2>4, <2>6
    <3> QED BY <2>5, <3>1, <3>2
  <2>9. f = [v \in o..(n + 1) |-> IF v = o THEN db ELSE Migrated(v, f[v - 1])] BY ONLY <2>7, <2>8
  <2> QED BY <2>9 DEF RunFrom, o
<1> QED BY <1>1, <1>2, <1>3 DEF o

LEMMA RunExists ==
  ASSUME NEW db \in SchemaDbs
  PROVE  \E f : RunFrom(db, 17, f)
<1> DEFINE P(n) == db.version <= n => \E f : RunFrom(db, n, f)
<1>0. db.version \in 0..17 BY SchemaDbParts
<1>1. P(0)
  <2> SUFFICES ASSUME db.version = 0 PROVE \E f : RunFrom(db, 0, f) BY <1>0
  <2> DEFINE f == [v \in 0..0 |-> db]
  <2>1. f = [v \in 0..0 |-> IF v = 0 THEN db ELSE Migrated(v, f[v - 1])] OBVIOUS
  <2> HIDE DEF f
  <2>2. f = [v \in db.version..0 |-> IF v = db.version THEN db ELSE Migrated(v, f[v - 1])] BY <2>1
  <2>3. RunFrom(db, 0, f) BY <2>2 DEF RunFrom
  <2> QED BY <2>3
<1>2. \A n \in 0..16 : P(n) => P(n + 1) BY RunGoesOn
<1> HIDE DEF P
<1>3. P(1) /\ P(2) /\ P(3) /\ P(4) /\ P(5) /\ P(6)
  <2>1. /\ 0 \in 0..16 /\ 1 \in 0..16 /\ 2 \in 0..16 /\ 3 \in 0..16 /\ 4 \in 0..16 /\ 5 \in 0..16
        /\ 0 + 1 = 1 /\ 1 + 1 = 2 /\ 2 + 1 = 3 /\ 3 + 1 = 4 /\ 4 + 1 = 5 /\ 5 + 1 = 6
    OBVIOUS
  <2> QED BY ONLY <1>1, <1>2, <2>1
<1>4. P(7) /\ P(8) /\ P(9) /\ P(10) /\ P(11) /\ P(12)
  <2>1. /\ 6 \in 0..16 /\ 7 \in 0..16 /\ 8 \in 0..16 /\ 9 \in 0..16 /\ 10 \in 0..16 /\ 11 \in 0..16
        /\ 6 + 1 = 7 /\ 7 + 1 = 8 /\ 8 + 1 = 9 /\ 9 + 1 = 10 /\ 10 + 1 = 11 /\ 11 + 1 = 12
    OBVIOUS
  <2> QED BY ONLY <1>2, <1>3, <2>1
<1>5. P(13) /\ P(14) /\ P(15) /\ P(16) /\ P(17)
  <2>1. /\ 12 \in 0..16 /\ 13 \in 0..16 /\ 14 \in 0..16 /\ 15 \in 0..16 /\ 16 \in 0..16
        /\ 12 + 1 = 13 /\ 13 + 1 = 14 /\ 14 + 1 = 15 /\ 15 + 1 = 16 /\ 16 + 1 = 17
    OBVIOUS
  <2> QED BY ONLY <1>2, <1>4, <2>1
<1> QED BY <1>0, <1>5 DEF P

\* Along an undisturbed run, the rest always leads to the same end.
RunLeads(db, f, n, w) ==
  db.version <= n => /\ f[n] \in SchemaDbs
                     /\ LeadsTo(n + 1, f[n], w) <=> LeadsTo(db.version + 1, db, w)

LEMMA RunLeadsOn ==
  ASSUME NEW db \in SchemaDbs, NEW f, RunFrom(db, 17, f), NEW w, NEW n \in 0..16,
         RunLeads(db, f, n, w)
  PROVE  RunLeads(db, f, n + 1, w)
<1> SUFFICES ASSUME db.version <= n + 1
             PROVE  /\ f[n + 1] \in SchemaDbs
                    /\ LeadsTo((n + 1) + 1, f[n + 1], w) <=> LeadsTo(db.version + 1, db, w)
  BY DEF RunLeads
<1>0. db.version \in 0..17 BY SchemaDbParts
<1>1. \A v \in db.version..17 : f[v] = IF v = db.version THEN db ELSE Migrated(v, f[v - 1])
  <2>1. f = [v \in db.version..17 |-> IF v = db.version THEN db ELSE Migrated(v, f[v - 1])]
    BY DEF RunFrom
  <2> QED BY ONLY <2>1
<1>2. CASE db.version = n + 1
  <2>1. f[n + 1] = db BY <1>0, <1>1, <1>2
  <2> QED BY <1>2, <2>1
<1>3. CASE db.version <= n
  <2>1. /\ f[n] \in SchemaDbs
        /\ LeadsTo(n + 1, f[n], w) <=> LeadsTo(db.version + 1, db, w)
    BY <1>3 DEF RunLeads
  <2>2. n + 1 \in db.version..17 /\ n + 1 # db.version /\ (n + 1) - 1 = n /\ n + 1 \in 1..17
    BY <1>0, <1>3
  <2>3. f[n + 1] = Migrated(n + 1, f[n]) BY ONLY <1>1, <2>2
  <2>4. MigratesTo(n + 1, f[n], f[n + 1]) BY <2>1, <2>2, <2>3, MigratedSays
  <2>5. LeadsTo(n + 1, f[n], w) <=> LeadsTo((n + 1) + 1, f[n + 1], w) BY <2>1, <2>2, <2>4, LeadsOn
  <2> QED BY <2>1, <2>4, <2>5 DEF MigratesTo
<1> QED BY <1>0, <1>2, <1>3

LEMMA MigratedAllLeads ==
  ASSUME NEW db \in SchemaDbs
  PROVE  /\ MigratedAll(db) \in SchemaDbs /\ MigratedAll(db).version = 17
         /\ LeadsTo(db.version + 1, db, MigratedAll(db))
<1> DEFINE f == CHOOSE g : RunFrom(db, 17, g)
           w == f[17]
           P(n) == RunLeads(db, f, n, w)
<1>0. db.version \in 0..17 BY SchemaDbParts
<1>1. RunFrom(db, 17, f) BY RunExists
<1>2. MigratedAll(db) = [w EXCEPT !.version = 17] BY DEF MigratedAll, RunFrom, SchemaVersion
<1> HIDE DEF f
<1>3. P(0)
  <2> SUFFICES ASSUME db.version = 0
               PROVE  f[0] \in SchemaDbs /\ (LeadsTo(0 + 1, f[0], w) <=> LeadsTo(db.version + 1, db, w))
    BY <1>0 DEF RunLeads
  <2>1. f = [v \in 0..17 |-> IF v = 0 THEN db ELSE Migrated(v, f[v - 1])] BY <1>1 DEF RunFrom
  <2>2. f[0] = db BY <2>1
  <2> QED BY <2>2
<1>4. \A n \in 0..16 : P(n) => P(n + 1) BY <1>1, RunLeadsOn
<1> HIDE DEF P, w
<1>5. P(1) /\ P(2) /\ P(3) /\ P(4) /\ P(5) /\ P(6)
  <2>1. /\ 0 \in 0..16 /\ 1 \in 0..16 /\ 2 \in 0..16 /\ 3 \in 0..16 /\ 4 \in 0..16 /\ 5 \in 0..16
        /\ 0 + 1 = 1 /\ 1 + 1 = 2 /\ 2 + 1 = 3 /\ 3 + 1 = 4 /\ 4 + 1 = 5 /\ 5 + 1 = 6
    OBVIOUS
  <2> QED BY ONLY <1>3, <1>4, <2>1
<1>6. P(7) /\ P(8) /\ P(9) /\ P(10) /\ P(11) /\ P(12)
  <2>1. /\ 6 \in 0..16 /\ 7 \in 0..16 /\ 8 \in 0..16 /\ 9 \in 0..16 /\ 10 \in 0..16 /\ 11 \in 0..16
        /\ 6 + 1 = 7 /\ 7 + 1 = 8 /\ 8 + 1 = 9 /\ 9 + 1 = 10 /\ 10 + 1 = 11 /\ 11 + 1 = 12
    OBVIOUS
  <2> QED BY ONLY <1>4, <1>5, <2>1
<1>7. P(13) /\ P(14) /\ P(15) /\ P(16) /\ P(17)
  <2>1. /\ 12 \in 0..16 /\ 13 \in 0..16 /\ 14 \in 0..16 /\ 15 \in 0..16 /\ 16 \in 0..16
        /\ 12 + 1 = 13 /\ 13 + 1 = 14 /\ 14 + 1 = 15 /\ 15 + 1 = 16 /\ 16 + 1 = 17
    OBVIOUS
  <2> QED BY ONLY <1>4, <1>6, <2>1
<1>8. w \in SchemaDbs /\ (LeadsTo(18, w, w) <=> LeadsTo(db.version + 1, db, w))
  BY <1>0, <1>7 DEF P, RunLeads, w
<1>9. LeadsTo(db.version + 1, db, w) BY <1>8, LeadsToItself
<1> DEFINE m == MigratedAll(db)
<1> HIDE DEF m
<1>10. m = [w EXCEPT !.version = 17] BY <1>2 DEF m
<1>11. /\ m \in SchemaDbs /\ m.version = 17
       /\ m.signal = w.signal /\ m.changed = w.changed /\ m.columns = w.columns
  <2>1. w \in SchemaDbs /\ 17 \in 0..SchemaVersion BY <1>8 DEF SchemaVersion
  <2>2. m \in SchemaDbs BY ONLY <1>10, <2>1 DEF SchemaDbs
  <2> QED BY ONLY <1>10, <2>1, <2>2 DEF SchemaDbs
<1>12. LeadsTo(db.version + 1, db, m) BY <1>9, <1>11 DEF LeadsTo
<1> QED BY <1>11, <1>12 DEF m

LEMMA SameTicks ==
  ASSUME NEW db \in SchemaDbs, NEW n \in SchemaDbs, NEW d \in SchemaDevices,
         \A k \in SchemaKinds : n.signal[d][k].ticked <=> db.signal[d][k].ticked
  PROVE  Ticked(n, d) = Ticked(db, d)
BY DEF Ticked

\* What a migration does to the marks.
LEMMA MigrationShows ==
  ASSUME NEW db \in SchemaDbs, NEW n, NEW v \in 1..17, MigratesTo(v, db, n), NEW exports
  PROVE  /\ NewIsChanged(db) => NewIsChanged(n)
         /\ ShownIn(db, exports) => ShownIn(n, exports)
         /\ TicksFit(db) => TicksFit(n)
<1>0. /\ n \in SchemaDbs /\ n.device = db.device /\ db.device \subseteq SchemaDevices
      /\ "feedback" \in SchemaKinds /\ "management" \in SchemaKinds
  BY SchemaDbParts DEF MigratesTo, SchemaKinds
<1>1. \A d \in SchemaDevices : db.changed[d] => n.changed[d] BY DEF MigratesTo
<1>2. NewIsChanged(db) => NewIsChanged(n) BY <1>0, <1>1 DEF NewIsChanged
<1>3. ASSUME ShownIn(db, exports) PROVE ShownIn(n, exports)
  <2> SUFFICES ASSUME NEW d \in n.device, ~ n.changed[d], d \notin n.silent
               PROVE  exports[d] = Ticked(n, d)
    BY DEF ShownIn
  <2>1. d \in db.device /\ d \in SchemaDevices /\ ~ db.changed[d] /\ d \notin db.silent
    BY <1>0, <1>1 DEF MigratesTo
  <2>2. exports[d] = Ticked(db, d) BY <1>3, <2>1 DEF ShownIn
  <2>3. /\ v = 12 => ~ db.signal[d]["feedback"].ticked
        /\ v = 14 => ~ db.signal[d]["management"].ticked
    BY <2>1 DEF MigratesTo
  <2>4. \A k \in SchemaKinds : n.signal[d][k].ticked <=> db.signal[d][k].ticked
    <3>1. CASE v = 3
      <4>1. Ticked(db, d) = AtThird(db, d) BY <2>1, <3>1 DEF MigratesTo, Rewritten
      <4>2. \A k \in SchemaKinds : db.signal[d][k].ticked <=> k \in AtThird(db, d) BY <4>1 DEF Ticked
      <4>3. \A k \in SchemaKinds : n.signal[d][k].ticked <=> k \in AtThird(db, d)
        BY <2>1, <3>1 DEF MigratesTo
      <4> QED BY ONLY <4>2, <4>3
    <3>2. CASE v # 3 BY <2>1, <2>3, <3>2 DEF MigratesTo
    <3> QED BY <3>1, <3>2
  <2>5. Ticked(n, d) = Ticked(db, d) BY <1>0, <2>1, <2>4, SameTicks
  <2> QED BY <2>2, <2>5
<1>4. TicksFit(db) => TicksFit(n) BY DEF MigratesTo, TicksFit, AtThird
<1> QED BY <1>2, <1>3, <1>4

----------------------------------------
\* An edit of one device that marks it as changed.
EditsOne(d, db, n) ==
  /\ n \in SchemaDbs /\ n.version = db.version
  /\ n.device = db.device \/ n.device = db.device \cup {d}
  /\ n.changed[d] /\ n.silent = db.silent
  /\ \A k \in SchemaKinds : n.signal[d][k].ticked => k \in n.kinds[d]
  /\ \A e \in SchemaDevices \ {d} : /\ n.changed[e] = db.changed[e] /\ n.signal[e] = db.signal[e]
                                    /\ n.kinds[e] = db.kinds[e]

LEMMA SchemaEdit ==
  ASSUME SchemaInvariant, Running, NEW d \in SchemaDevices, EditsOne(d, seen, seen'),
         stored' = seen', image = SchemaVersion => seen'.blank \subseteq seen.blank,
         UNCHANGED <<original, image, step, repaired, inTransaction, wanted, archive>>
  PROVE  SchemaInvariant'
<1>0. /\ SchemaTyped /\ SchemaRunOK /\ SchemaLeads /\ SchemaShows
      /\ image # 0 /\ repaired /\ SchemaVersion = 17
  BY DEF SchemaInvariant, Running, SchemaVersion
<1>1. step = 0 /\ ~ inTransaction /\ seen = stored BY <1>0 DEF SchemaTyped, SchemaRunOK
<1>2. SchemaTyped' BY <1>0, <1>1 DEF SchemaTyped, EditsOne
<1>3. SchemaRunOK' BY <1>0, <1>1 DEF SchemaRunOK, EditsOne
<1>4. SchemaLeads'
  <2>1. seen'.version = stored.version BY <1>1 DEF EditsOne
  <2>2. stored.version < SchemaVersion => wanted.version < SchemaVersion
    BY <1>0, <1>1 DEF SchemaTyped, SchemaRunOK, SchemaLeads
  <2>3. wanted.version \in 0..17 BY <1>0 DEF SchemaTyped, SchemaDbs
  <2> QED BY <1>0, <1>1, <2>1, <2>2, <2>3 DEF SchemaLeads
<1>5. SchemaShows'
  <2>1. /\ seen \in SchemaDbs /\ seen' \in SchemaDbs /\ seen'.version = seen.version
        /\ seen.device \subseteq SchemaDevices /\ seen'.device \subseteq SchemaDevices
        /\ seen.version \in 0..17
    <3>1. seen \in SchemaDbs /\ seen' \in SchemaDbs /\ seen'.version = seen.version
      BY <1>0 DEF SchemaTyped, EditsOne
    <3> QED BY <3>1, SchemaDbParts
  <2>2. \A e \in SchemaDevices : seen.changed[e] => seen'.changed[e] BY DEF EditsOne
  <2>3. NewIsChanged(seen') BY <1>0, <2>2 DEF SchemaShows, NewIsChanged, EditsOne
  <2>4. TicksFit(seen')
    <3> SUFFICES ASSUME NEW e \in SchemaDevices, NEW k \in SchemaKinds, seen'.signal[e][k].ticked
                 PROVE  k \in seen'.kinds[e]
      BY DEF TicksFit
    <3>1. CASE e = d BY <3>1 DEF EditsOne
    <3>2. CASE e # d
      <4>1. seen'.signal[e] = seen.signal[e] /\ seen'.kinds[e] = seen.kinds[e] BY <3>2 DEF EditsOne
      <4> QED BY <1>0, <4>1 DEF SchemaShows, TicksFit
    <3> QED BY <3>1, <3>2
  <2>5. ShownIn(seen', archive)
    <3> SUFFICES ASSUME NEW e \in seen'.device, ~ seen'.changed[e], e \notin seen'.silent
                 PROVE  archive[e] = Ticked(seen', e)
      BY DEF ShownIn
    <3>1. e # d /\ e \in SchemaDevices \ {d} /\ e \in seen.device BY <2>1 DEF EditsOne
    <3>2. ~ seen.changed[e] /\ seen'.signal[e] = seen.signal[e] /\ e \notin seen.silent
      BY <3>1 DEF EditsOne
    <3>3. archive[e] = Ticked(seen, e) BY <1>0, <3>1, <3>2 DEF SchemaShows, ShownIn
    <3>4. Ticked(seen', e) = Ticked(seen, e) BY <3>2 DEF Ticked
    <3> QED BY <3>3, <3>4
  <2>6. stored' = seen' /\ archive' = archive BY <1>1
  <2> QED BY <2>3, <2>4, <2>5, <2>6 DEF SchemaShows
<1> QED BY <1>2, <1>3, <1>4, <1>5 DEF SchemaInvariant

\* What commissioning a device leaves of a database.
Commissions(d, version, db, n) ==
  /\ n \in SchemaDbs /\ n.version = db.version /\ n.columns = db.columns
  /\ n.device = db.device \cup {d} /\ n.changed = db.changed /\ n.silent = db.silent
  /\ \A k \in SchemaKinds : n.signal[d][k].ticked => k \in n.kinds[d]
  /\ \A e \in SchemaDevices \ {d} : n.signal[e] = db.signal[e] /\ n.kinds[e] = db.kinds[e]
  /\ version >= 9 => n.blank = db.blank

LEMMA CommissionedEdits ==
  ASSUME NEW db \in SchemaDbs, NEW d \in SchemaDevices, NEW version \in 0..17, NEW ks \in Coming(version),
         NEW n, n = Commissioned(db, d, version, ks)
  PROVE  Commissions(d, version, db, n)
<1> DEFINE g == [k \in SchemaKinds |-> IF k \in ks THEN Registered(version, k) ELSE NoRow]
           s == [db.signal EXCEPT ![d] = g]
           h == [db.kinds EXCEPT ![d] = ks]
           b == IF version < 9 THEN db.blank \cup {d} ELSE db.blank
           u == db.device \cup {d}
<1>1. n = [db EXCEPT !.device = u, !.kinds = h, !.signal = s, !.blank = b] BY DEF Commissioned
<1>2. \A k \in SchemaKinds :
        /\ (IF k \in ks THEN Registered(version, k) ELSE NoRow) \in SignalRows
        /\ k \notin ks => ~ NoRow.ticked
  BY DEF Registered, NoRow, SignalRows
<1>3. g \in [SchemaKinds -> SignalRows] /\ \A k \in SchemaKinds : k \notin ks => ~ g[k].ticked
  BY ONLY <1>2
<1> HIDE DEF g
<1>4. /\ s \in [SchemaDevices -> [SchemaKinds -> SignalRows]] /\ s[d] = g
      /\ \A e \in SchemaDevices \ {d} : s[e] = db.signal[e]
  BY <1>3, SchemaDbParts
<1>8. /\ h \in [SchemaDevices -> SUBSET SchemaKinds] /\ h[d] = ks
      /\ \A e \in SchemaDevices \ {d} : h[e] = db.kinds[e]
  <2>1. ks \in SUBSET SchemaKinds BY KindSetsAssumption DEF Coming
  <2> QED BY <2>1, SchemaDbParts
<1>5. b \in SUBSET SchemaDevices /\ u \in SUBSET SchemaDevices /\ (version >= 9 => b = db.blank)
  BY SchemaDbParts
<1> HIDE DEF s, b, h
<1>6. /\ n.version = db.version /\ n.columns = db.columns /\ n.device = u
      /\ n.changed = db.changed /\ n.signal = s /\ n.blank = b /\ n.kinds = h /\ n.silent = db.silent
  <2> HIDE DEF u
  <2> QED BY <1>1 DEF SchemaDbs
<1>7. n \in SchemaDbs
  <2> HIDE DEF u
  <2> QED BY <1>1, <1>4, <1>5, <1>8 DEF SchemaDbs, SignalRows
<1>9. \A k \in SchemaKinds : n.signal[d][k].ticked => k \in n.kinds[d] BY <1>3, <1>4, <1>6, <1>8
<1> QED BY <1>4, <1>5, <1>6, <1>7, <1>8, <1>9 DEF Commissions

LEMMA CommissionInv == SchemaInvariant /\ Commission => SchemaInvariant'
<1> SUFFICES ASSUME SchemaInvariant, Commission PROVE SchemaInvariant' OBVIOUS
<1>1. /\ seen \in SchemaDbs /\ NewIsChanged(seen) /\ original \in 0..16 /\ image \in {0, original, 17}
  BY DEF SchemaInvariant, SchemaTyped, SchemaShows, SchemaVersion
<1>2. image \in 0..17 /\ "added" \in SchemaDevices BY <1>1 DEF SchemaDevices
<1>3. PICK ks \in Coming(image) : seen' = Commissioned(seen, "added", image, ks) /\ "added" \notin seen.device
  BY DEF Commission
<1> DEFINE n == Commissioned(seen, "added", image, ks)
<1>4. Commissions("added", image, seen, n)
  <2>1. n = Commissioned(seen, "added", image, ks) OBVIOUS
  <2> HIDE DEF n
  <2> QED BY <1>1, <1>2, <2>1, CommissionedEdits
<1> HIDE DEF n
<1>5. seen.changed["added"] BY <1>1, <1>2, <1>3 DEF NewIsChanged
<1>6. EditsOne("added", seen, n) BY <1>4, <1>5 DEF EditsOne, Commissions
<1>7. image = SchemaVersion => n.blank \subseteq seen.blank BY <1>4 DEF SchemaVersion, Commissions
<1>8. seen' = n BY <1>3 DEF n
<1>9. EditsOne("added", seen, seen') /\ (image = SchemaVersion => seen'.blank \subseteq seen.blank)
  BY <1>6, <1>7, <1>8
<1>10. /\ Running /\ stored' = seen'
       /\ UNCHANGED <<original, image, step, repaired, inTransaction, wanted, archive>>
  BY DEF Commission
<1> QED BY <1>2, <1>9, <1>10, SchemaEdit

LEMMA RefreshInv == \A d \in SchemaDevices : SchemaInvariant /\ Refresh(d) => SchemaInvariant'
<1> SUFFICES ASSUME NEW d \in SchemaDevices, SchemaInvariant, Refresh(d) PROVE SchemaInvariant'
  OBVIOUS
<1>1. seen \in SchemaDbs /\ TicksFit(seen) BY DEF SchemaInvariant, SchemaTyped, SchemaShows
<1> DEFINE g == [k \in SchemaKinds |-> IF k \notin seen.kinds[d] \ {"management"} THEN seen.signal[d][k]
                   ELSE [seen.signal[d][k] EXCEPT !.functional = Registered(image, k).functional]]
           s == [seen.signal EXCEPT ![d] = g]
           c == [seen.changed EXCEPT ![d] = TRUE]
           n == [seen EXCEPT !.signal = s, !.changed = c]
<1>2. seen' = [seen EXCEPT
       !.signal[d] = [k \in SchemaKinds |-> IF k \notin seen.kinds[d] \ {"management"} THEN @[k]
                                      ELSE [@[k] EXCEPT !.functional = Registered(image, k).functional]],
       !.changed[d] = TRUE]
  BY DEF Refresh
<1>3. seen' = n BY <1>1, <1>2 DEF SchemaDbs
<1>4. \A k \in SchemaKinds :
        LET r == IF k \notin seen.kinds[d] \ {"management"} THEN seen.signal[d][k]
                 ELSE [seen.signal[d][k] EXCEPT !.functional = Registered(image, k).functional]
        IN  r \in SignalRows /\ r.ticked = seen.signal[d][k].ticked
  <2> TAKE k \in SchemaKinds
  <2>1. seen.signal[d][k] \in SignalRows BY <1>1, SchemaDbParts
  <2>2. Registered(image, k).functional \in BOOLEAN BY DEF Registered
  <2> QED BY <2>1, <2>2, SignalEdited DEF SignalRows
<1>5. g \in [SchemaKinds -> SignalRows] /\ \A k \in SchemaKinds : g[k].ticked = seen.signal[d][k].ticked
  BY ONLY <1>4
<1>11. \A k \in SchemaKinds : g[k].ticked => k \in seen.kinds[d] BY <1>1, <1>5 DEF TicksFit
<1> HIDE DEF g
<1>6. /\ s \in [SchemaDevices -> [SchemaKinds -> SignalRows]] /\ c \in [SchemaDevices -> BOOLEAN] /\ c[d] /\ s[d] = g
      /\ \A e \in SchemaDevices \ {d} : s[e] = seen.signal[e] /\ c[e] = seen.changed[e]
  BY <1>1, <1>5, SchemaDbParts
<1> HIDE DEF s, c
<1>7. /\ n \in SchemaDbs /\ n.version = seen.version /\ n.device = seen.device
      /\ n.changed = c /\ n.signal = s /\ n.blank = seen.blank
      /\ n.kinds = seen.kinds /\ n.silent = seen.silent
  BY <1>1, <1>6 DEF SchemaDbs, SignalRows
<1> HIDE DEF n
<1>8. EditsOne(d, seen, n) BY <1>6, <1>7, <1>11 DEF EditsOne
<1>9. EditsOne(d, seen, seen') /\ (image = SchemaVersion => seen'.blank \subseteq seen.blank)
  BY <1>3, <1>7, <1>8
<1>10. /\ Running /\ stored' = seen'
       /\ UNCHANGED <<original, image, step, repaired, inTransaction, wanted, archive>>
  BY DEF Refresh
<1> QED BY <1>9, <1>10, SchemaEdit

LEMMA UserTicksInv ==
  \A d \in SchemaDevices, k \in SchemaKinds : SchemaInvariant /\ UserTicks(d, k) => SchemaInvariant'
<1> SUFFICES ASSUME NEW d \in SchemaDevices, NEW k \in SchemaKinds, SchemaInvariant, UserTicks(d, k)
             PROVE  SchemaInvariant'
  OBVIOUS
<1>1. seen \in SchemaDbs /\ TicksFit(seen) /\ k \in seen.kinds[d]
  BY DEF SchemaInvariant, SchemaTyped, SchemaShows, UserTicks
<1> DEFINE b == ~ seen.signal[d][k].ticked
           g == [seen.signal[d] EXCEPT ![k] = [@ EXCEPT !.ticked = b]]
           s == [seen.signal EXCEPT ![d] = g]
           c == [seen.changed EXCEPT ![d] = TRUE]
           n == [seen EXCEPT !.signal = s, !.changed = c]
<1>2. seen' = [seen EXCEPT !.signal[d][k].ticked = ~@, !.changed[d] = TRUE] BY DEF UserTicks
<1>3. seen' = n BY <1>1, <1>2 DEF SchemaDbs
<1>4. seen.signal[d] \in [SchemaKinds -> SignalRows] /\ seen.signal[d][k] \in SignalRows /\ b \in BOOLEAN
  BY <1>1, SchemaDbParts
<1> HIDE DEF b
<1>5. g \in [SchemaKinds -> SignalRows] /\ \A x \in SchemaKinds \ {k} : g[x] = seen.signal[d][x]
  BY <1>4, SignalEdited
<1>11. \A x \in SchemaKinds : g[x].ticked => x \in seen.kinds[d] BY <1>1, <1>5 DEF TicksFit
<1> HIDE DEF g
<1>6. /\ s \in [SchemaDevices -> [SchemaKinds -> SignalRows]] /\ c \in [SchemaDevices -> BOOLEAN] /\ c[d] /\ s[d] = g
      /\ \A e \in SchemaDevices \ {d} : s[e] = seen.signal[e] /\ c[e] = seen.changed[e]
  BY <1>1, <1>5, SchemaDbParts
<1> HIDE DEF s, c
<1>7. /\ n \in SchemaDbs /\ n.version = seen.version /\ n.device = seen.device
      /\ n.changed = c /\ n.signal = s /\ n.blank = seen.blank
      /\ n.kinds = seen.kinds /\ n.silent = seen.silent
  BY <1>1, <1>6 DEF SchemaDbs, SignalRows
<1> HIDE DEF n
<1>8. EditsOne(d, seen, n) BY <1>6, <1>7, <1>11 DEF EditsOne
<1>9. EditsOne(d, seen, seen') /\ (image = SchemaVersion => seen'.blank \subseteq seen.blank)
  BY <1>3, <1>7, <1>8
<1>10. /\ Running /\ stored' = seen'
       /\ UNCHANGED <<original, image, step, repaired, inTransaction, wanted, archive>>
  BY DEF UserTicks
<1> QED BY <1>9, <1>10, SchemaEdit

\* An export clears the mark of a device, and notes what was exported.
LEMMA UserExportsInv == \A d \in SchemaDevices : SchemaInvariant /\ UserExports(d) => SchemaInvariant'
<1> SUFFICES ASSUME NEW d \in SchemaDevices, SchemaInvariant, UserExports(d) PROVE SchemaInvariant'
  OBVIOUS
<1>0. /\ SchemaTyped /\ SchemaRunOK /\ SchemaLeads /\ SchemaShows
      /\ image # 0 /\ repaired /\ SchemaVersion = 17 /\ image >= 2 /\ d \in seen.device
      /\ stored' = seen'
      /\ UNCHANGED <<original, image, step, repaired, inTransaction, wanted>>
  BY DEF SchemaInvariant, UserExports, Running, SchemaVersion
<1>1. step = 0 /\ ~ inTransaction /\ seen = stored /\ seen \in SchemaDbs
  BY <1>0 DEF SchemaTyped, SchemaRunOK
<1> DEFINE c == [seen.changed EXCEPT ![d] = FALSE]
           t == seen.silent \ {d}
           n == [seen EXCEPT !.changed = c, !.silent = t]
<1>2. seen' = n
  <2>1. seen' = [seen EXCEPT !.changed[d] = FALSE, !.silent = @ \ {d}] BY DEF UserExports
  <2> QED BY <1>1, <2>1 DEF SchemaDbs
<1>3. /\ c \in [SchemaDevices -> BOOLEAN] /\ \A e \in SchemaDevices \ {d} : c[e] = seen.changed[e]
      /\ t \in SUBSET SchemaDevices /\ \A e \in SchemaDevices \ {d} : e \in t <=> e \in seen.silent
  BY <1>1, SchemaDbParts
<1> HIDE DEF c, t
<1>4. /\ n \in SchemaDbs /\ n.version = seen.version /\ n.device = seen.device /\ n.columns = seen.columns
      /\ n.changed = c /\ n.signal = seen.signal /\ n.blank = seen.blank
      /\ n.silent = t /\ n.kinds = seen.kinds
  BY <1>1, <1>3 DEF SchemaDbs
<1> HIDE DEF n
<1>5. /\ seen' \in SchemaDbs /\ seen'.version = seen.version /\ seen'.device = seen.device
      /\ seen'.signal = seen.signal /\ seen'.blank = seen.blank /\ seen'.kinds = seen.kinds
      /\ \A e \in SchemaDevices \ {d} : /\ seen'.changed[e] = seen.changed[e]
                                        /\ e \in seen'.silent <=> e \in seen.silent
  BY <1>2, <1>3, <1>4
<1>6. archive' = [archive EXCEPT ![d] = Ticked(seen, d)] /\ archive \in [SchemaDevices -> SUBSET SchemaKinds]
  BY <1>0 DEF UserExports, SchemaTyped
<1>7. Ticked(seen, d) \in SUBSET SchemaKinds BY DEF Ticked
<1>8. /\ archive' \in [SchemaDevices -> SUBSET SchemaKinds] /\ archive'[d] = Ticked(seen, d)
      /\ \A e \in SchemaDevices \ {d} : archive'[e] = archive[e]
  BY ONLY <1>6, <1>7
<1>9. SchemaTyped' BY <1>0, <1>5, <1>8 DEF SchemaTyped
<1>10. SchemaRunOK' BY <1>0, <1>1, <1>5 DEF SchemaRunOK
<1>11. SchemaLeads'
  <2>1. seen'.version = stored.version BY <1>1, <1>5
  <2>2. stored.version < SchemaVersion => wanted.version < SchemaVersion
    BY <1>0, <1>1 DEF SchemaTyped, SchemaRunOK, SchemaLeads
  <2>3. wanted.version \in 0..17 BY <1>0 DEF SchemaTyped, SchemaDbs
  <2> QED BY <1>0, <1>1, <2>1, <2>2, <2>3 DEF SchemaLeads
<1>12. SchemaShows'
  <2>1. seen.device \subseteq SchemaDevices /\ seen.version \in 0..17 BY <1>1, SchemaDbParts
  <2>2. NewIsChanged(seen') BY <1>0, <1>5 DEF SchemaShows, NewIsChanged
  <2>3. TicksFit(seen') BY <1>0, <1>5 DEF SchemaShows, TicksFit
  <2>4. ShownIn(seen', archive')
    <3> SUFFICES ASSUME NEW e \in seen'.device, ~ seen'.changed[e], e \notin seen'.silent
                 PROVE  archive'[e] = Ticked(seen', e)
      BY DEF ShownIn
    <3>1. e \in seen.device /\ e \in SchemaDevices BY <1>5, <2>1
    <3>2. Ticked(seen', e) = Ticked(seen, e) BY <1>5 DEF Ticked
    <3>3. CASE e = d BY <1>8, <3>2, <3>3
    <3>4. CASE e # d
      <4>1. ~ seen.changed[e] /\ archive'[e] = archive[e] /\ e \notin seen.silent
        BY <1>5, <1>8, <3>1, <3>4
      <4>2. archive[e] = Ticked(seen, e) BY <1>0, <3>1, <4>1 DEF SchemaShows, ShownIn
      <4> QED BY <3>2, <4>1, <4>2
    <3> QED BY <3>3, <3>4
  <2> QED BY <1>0, <2>2, <2>3, <2>4 DEF SchemaShows
<1> QED BY <1>9, <1>10, <1>11, <1>12 DEF SchemaInvariant

LEMMA StartNewInv == SchemaInvariant /\ StartNew => SchemaInvariant'
<1> SUFFICES ASSUME SchemaInvariant, StartNew PROVE SchemaInvariant' OBVIOUS
<1>0. /\ SchemaTyped /\ SchemaRunOK /\ SchemaLeads /\ SchemaShows /\ SchemaVersion = 17
      /\ image = 0 /\ image' = 17 /\ repaired' = FALSE
      /\ UNCHANGED <<original, seen, stored, archive>>
  BY DEF SchemaInvariant, StartNew, SchemaVersion
<1>1. /\ step = 0 /\ ~ inTransaction /\ seen = stored /\ seen \in SchemaDbs
      /\ seen.version \in 0..17 /\ wanted \in SchemaDbs /\ original \in 0..16
      /\ seen.version \in {original, 17}
  <2>1. step = 0 /\ ~ inTransaction /\ seen = stored /\ seen \in SchemaDbs
    BY <1>0 DEF SchemaTyped, SchemaRunOK
  <2> QED BY <1>0, <2>1, SchemaDbParts DEF SchemaTyped
<1>2. CASE stored.version >= SchemaVersion
  <2>1. UNCHANGED <<step, inTransaction, wanted>> /\ stored.version = 17
    BY <1>0, <1>1, <1>2 DEF StartNew
  <2>2. SchemaTyped' BY <1>0, <2>1 DEF SchemaTyped
  <2>3. SchemaRunOK' BY <1>0, <1>1, <2>1 DEF SchemaRunOK
  <2>4. SchemaLeads' BY <1>0, <1>1, <2>1 DEF SchemaLeads
  <2>5. SchemaShows' BY <1>0, <1>1, <2>1 DEF SchemaShows
  <2> QED BY <2>2, <2>3, <2>4, <2>5 DEF SchemaInvariant
<1>3. CASE ~ (stored.version >= SchemaVersion)
  <2> DEFINE m == MigratedAll(stored)
  <2>1. /\ step' = stored.version + 1 /\ inTransaction' = TRUE
        /\ wanted' = IF wanted.version = SchemaVersion THEN wanted ELSE m
    BY <1>3 DEF StartNew
  <2>2. stored.version = original /\ stored.version < 17 /\ step' \in 1..17 /\ step' \in 0..18
    BY <1>0, <1>1, <1>3, <2>1
  <2>3. m \in SchemaDbs /\ m.version = 17 /\ LeadsTo(stored.version + 1, stored, m)
    BY <1>1, MigratedAllLeads
  <2>4. wanted.version = 17 => LeadsTo(stored.version + 1, stored, wanted)
    BY <1>0, <1>1, <2>2 DEF SchemaLeads
  <2> HIDE DEF m
  <2>5. wanted' \in SchemaDbs /\ wanted'.version = 17 /\ LeadsTo(stored.version + 1, stored, wanted')
    BY <1>0, <1>1, <2>1, <2>3, <2>4
  <2>6. SchemaTyped'
    <3>1. repaired' \in BOOLEAN /\ inTransaction' \in BOOLEAN /\ archive \in [SchemaDevices -> SUBSET SchemaKinds]
      BY <1>0, <2>1 DEF SchemaTyped
    <3> QED BY <1>0, <1>1, <2>2, <2>5, <3>1 DEF SchemaTyped
  <2>7. SchemaRunOK' BY <1>0, <1>1, <2>1, <2>2 DEF SchemaRunOK
  <2>8. SchemaLeads' BY <1>0, <1>1, <2>1, <2>2, <2>5 DEF SchemaLeads
  <2>9. SchemaShows' BY <1>0, <1>1 DEF SchemaShows
  <2> QED BY <2>6, <2>7, <2>8, <2>9 DEF SchemaInvariant
<1> QED BY <1>2, <1>3

LEMMA MigrateInv == SchemaInvariant /\ Migrate => SchemaInvariant'
<1> SUFFICES ASSUME SchemaInvariant, Migrate PROVE SchemaInvariant' OBVIOUS
<1>0. /\ SchemaTyped /\ SchemaRunOK /\ SchemaLeads /\ SchemaShows /\ SchemaVersion = 17
      /\ image = 17 /\ step \in 1..17 /\ step' = step + 1
      /\ UNCHANGED <<original, image, repaired, wanted, archive>>
  BY DEF SchemaInvariant, Migrate, SchemaVersion
<1> DEFINE n == Migrated(step, seen)
           p == WithColumns(step, seen)
           open == inTransaction /\ step \notin RunsScript
<1>1. /\ seen' = n /\ stored' = (IF open THEN stored ELSE p)
      /\ inTransaction' = (open \/ Writes(step, seen))
  BY DEF Migrate
<1>2. /\ seen \in SchemaDbs /\ stored \in SchemaDbs /\ wanted \in SchemaDbs
      /\ seen.version \in 0..17 /\ wanted.version = 17
      /\ seen.version = original /\ stored.version = original /\ seen.version < step /\ ~ repaired
  <2>1. seen \in SchemaDbs /\ stored \in SchemaDbs /\ wanted \in SchemaDbs BY <1>0 DEF SchemaTyped
  <2>2. step > 0 BY <1>0
  <2> QED BY <1>0, <2>1, <2>2, SchemaDbParts DEF SchemaTyped, SchemaRunOK, SchemaLeads
<1>3. MigratesTo(step, seen, n) BY <1>0, <1>2, MigratedSays
<1>4. /\ p \in SchemaDbs /\ p.version = seen.version /\ p.device = seen.device
      /\ p.columns = seen.columns \cup ({step} \cap AddsColumns)
      /\ p.blank = seen.blank /\ p.changed = seen.changed /\ p.signal = seen.signal
      /\ p.kinds = seen.kinds /\ p.silent = seen.silent
  BY <1>0, <1>2, WithColumnsSays
<1>5. step <= 4 => open
  <2>1. step <= 4 => step \in 1..4 /\ step \notin RunsScript BY <1>0 DEF RunsScript
  <2> QED BY <1>0, <2>1 DEF SchemaRunOK
<1>6. inTransaction' = FALSE => ~ open /\ n = p BY <1>0, <1>1, <1>2, SilentMigration
<1>7. open \in BOOLEAN /\ Writes(step, seen) \in BOOLEAN /\ inTransaction' \in BOOLEAN
  <2>1. inTransaction \in BOOLEAN BY <1>0 DEF SchemaTyped
  <2>2. Writes(step, seen) \in BOOLEAN BY DEF Writes
  <2>3. open \in BOOLEAN BY <2>1
  <2> HIDE DEF open
  <2> QED BY <1>1, <2>2, <2>3
<1>8. open => inTransaction'
  <2> HIDE DEF open
  <2> QED BY <1>1, <1>7
<1>9. ~ inTransaction' => ~ open /\ n = p BY <1>6, <1>7
<1> HIDE DEF n, p, open
<1>10. n \in SchemaDbs /\ n.version = original /\ n.device = seen.device /\ n.blank \subseteq seen.blank
  BY <1>2, <1>3 DEF MigratesTo
<1>11. seen' \in SchemaDbs /\ stored' \in SchemaDbs /\ seen'.version = original /\ stored'.version = original
  BY <1>1, <1>2, <1>4, <1>10
<1>12. SchemaTyped' BY <1>0, <1>7, <1>11 DEF SchemaTyped
<1>13. SchemaRunOK'
  <2>1. step' > 0 /\ step' # 0 /\ (step' \in 1..4 => step <= 4) /\ image' = 17 /\ ~ repaired'
    BY <1>0, <1>2
  <2>2. step' \in 1..4 => inTransaction' BY <1>5, <1>8, <2>1
  <2>3. ~ inTransaction' => seen' = stored' BY <1>1, <1>9
  <2> QED BY <1>0, <2>1, <2>2, <2>3 DEF SchemaRunOK
<1> DEFINE u == original + 1
<1>14. u \in 1..17 /\ u <= step BY <1>0, <1>2
<1>15. LeadsTo(u, seen, wanted) /\ LeadsTo(step, seen, wanted) BY <1>0, <1>2 DEF SchemaLeads
<1>16. LeadsTo(u, stored, wanted) BY <1>0, <1>2 DEF SchemaLeads
<1> HIDE DEF u
<1>17. LeadsTo(step + 1, n, wanted) BY <1>0, <1>2, <1>3, <1>15, LeadsOn
<1>18. LeadsTo(u, n, wanted)
  <2>1. TicksFit(seen) BY <1>0 DEF SchemaShows
  <2> QED BY <1>0, <1>2, <1>3, <1>14, <1>15, <2>1, LeadsAgain
<1>19. ~ open => LeadsTo(u, p, wanted)
  <2> SUFFICES ASSUME ~ open PROVE LeadsTo(u, p, wanted) OBVIOUS
  <2>1. step # 4 /\ step \in 1..17 BY <1>0, <1>5
  <2>2. 4 \in p.columns <=> 4 \in seen.columns BY <1>4, <2>1
  <2>3. \A d \in SchemaDevices : ChangedAtLast(u, p, d) <=> ChangedAtLast(u, seen, d)
    BY <1>4 DEF ChangedAtLast, TickedAfterThird
  <2>4. \A d \in SchemaDevices, k \in SchemaKinds :
          /\ TickedAtLast(u, p, d, k) = TickedAtLast(u, seen, d, k)
          /\ FunctionalAtLast(u, p, d, k) <=> FunctionalAtLast(u, seen, d, k)
    BY <1>4, <2>2 DEF TickedAtLast, FunctionalAtLast
  <2>5. p.columns \cup {x \in AddsColumns : x >= u} = seen.columns \cup {x \in AddsColumns : x >= u}
    BY <1>4, <1>14
  <2> QED BY <1>15, <2>3, <2>4, <2>5 DEF LeadsTo
<1>20. SchemaLeads'
  <2>1. LeadsTo(u, stored', wanted) BY <1>1, <1>16, <1>19
  <2>2. LeadsTo(seen'.version + 1, seen', wanted') /\ LeadsTo(step', seen', wanted')
        /\ LeadsTo(stored'.version + 1, stored', wanted')
    BY <1>0, <1>1, <1>11, <1>17, <1>18, <2>1 DEF u
  <2>3. seen'.version < step' /\ seen'.version = original' /\ wanted'.version = SchemaVersion
        /\ image' = SchemaVersion
    BY <1>0, <1>2, <1>11
  <2> QED BY <2>2, <2>3 DEF SchemaLeads
<1>21. SchemaShows'
  <2>1. /\ NewIsChanged(seen) /\ NewIsChanged(stored) /\ TicksFit(seen) /\ TicksFit(stored)
        /\ ShownIn(seen, archive) /\ ShownIn(stored, archive)
    BY <1>0 DEF SchemaShows
  <2>2. NewIsChanged(n) /\ ShownIn(n, archive) /\ TicksFit(n)
    BY <1>0, <1>2, <1>3, <2>1, MigrationShows
  <2>3. NewIsChanged(p) /\ ShownIn(p, archive) /\ TicksFit(p)
    BY <1>4, <2>1 DEF NewIsChanged, ShownIn, Ticked, TicksFit
  <2>4. archive' = archive /\ (stored' = stored \/ stored' = p) BY <1>0, <1>1
  <2> QED BY <1>1, <2>1, <2>2, <2>3, <2>4 DEF SchemaShows
<1> QED BY <1>12, <1>13, <1>20, <1>21 DEF SchemaInvariant

LEMMA MigrationsEndInv == SchemaInvariant /\ MigrationsEnd => SchemaInvariant' /\ ResumedAsOnce
<1> SUFFICES ASSUME SchemaInvariant, MigrationsEnd PROVE SchemaInvariant' /\ ResumedAsOnce OBVIOUS
<1>0. /\ SchemaTyped /\ SchemaRunOK /\ SchemaLeads /\ SchemaShows /\ SchemaVersion = 17
      /\ image = 17 /\ step = 18 /\ step' = 0 /\ inTransaction' = FALSE /\ stored' = seen'
      /\ UNCHANGED <<original, image, repaired, wanted, archive>>
  BY DEF SchemaInvariant, MigrationsEnd, SchemaVersion
<1>1. /\ seen \in SchemaDbs /\ wanted \in SchemaDbs /\ ~ repaired /\ original \in 0..16
      /\ seen.version = original /\ LeadsTo(18, seen, wanted) /\ step > 0
  BY <1>0 DEF SchemaTyped, SchemaRunOK, SchemaLeads
<1>2. seen' = [seen EXCEPT !.version = 17] /\ 17 \in 0..SchemaVersion BY <1>0 DEF MigrationsEnd
<1>3. /\ seen' \in SchemaDbs /\ seen'.version = 17 /\ seen'.device = seen.device /\ seen'.columns = seen.columns
      /\ seen'.changed = seen.changed /\ seen'.signal = seen.signal /\ seen'.blank = seen.blank
      /\ seen'.kinds = seen.kinds /\ seen'.silent = seen.silent
  <2>1. seen' \in SchemaDbs BY ONLY <1>1, <1>2 DEF SchemaDbs
  <2> QED BY ONLY <1>1, <1>2, <2>1 DEF SchemaDbs
<1>4. ResumedAsOnce BY <1>0, <1>1, <1>3, LeadsToItself DEF ResumedAsOnce
<1>5. SchemaTyped'
  <2>1. repaired' \in BOOLEAN /\ inTransaction' \in BOOLEAN /\ archive \in [SchemaDevices -> SUBSET SchemaKinds]
    BY <1>0 DEF SchemaTyped
  <2> QED BY <1>0, <1>1, <1>3, <2>1 DEF SchemaTyped
<1>6. SchemaRunOK' BY <1>0, <1>1, <1>3 DEF SchemaRunOK
<1>7. SchemaLeads' BY <1>0, <1>3 DEF SchemaLeads
<1>8. SchemaShows'
  <2>1. NewIsChanged(seen') BY <1>0, <1>3 DEF SchemaShows, NewIsChanged
  <2>3. ShownIn(seen', archive') /\ TicksFit(seen')
    BY <1>0, <1>3 DEF SchemaShows, ShownIn, Ticked, TicksFit
  <2> QED BY <1>0, <2>1, <2>3 DEF SchemaShows
<1> QED BY <1>4, <1>5, <1>6, <1>7, <1>8 DEF SchemaInvariant

LEMMA RepairsInv == SchemaInvariant /\ Repairs => SchemaInvariant'
<1> SUFFICES ASSUME SchemaInvariant, Repairs PROVE SchemaInvariant' OBVIOUS
<1>0. /\ SchemaTyped /\ SchemaRunOK /\ SchemaLeads /\ SchemaShows /\ SchemaVersion = 17
      /\ image = 17 /\ step = 0 /\ step' = 0 /\ repaired' = TRUE /\ stored' = seen'
      /\ UNCHANGED <<original, image, inTransaction, wanted, archive>>
  BY DEF SchemaInvariant, Repairs, SchemaVersion
<1>1. seen \in SchemaDbs /\ seen.version = 17 /\ ~ inTransaction
  BY <1>0 DEF SchemaTyped, SchemaRunOK
<1>2. seen' = [seen EXCEPT !.blank = {}] BY DEF Repairs
<1>3. /\ seen' \in SchemaDbs /\ seen'.version = 17 /\ seen'.device = seen.device
      /\ seen'.changed = seen.changed /\ seen'.signal = seen.signal /\ seen'.blank = {}
      /\ seen'.kinds = seen.kinds /\ seen'.silent = seen.silent
  BY <1>1, <1>2 DEF SchemaDbs
<1>5. SchemaTyped' BY <1>0, <1>3 DEF SchemaTyped
<1>6. SchemaRunOK' BY <1>0, <1>1, <1>3 DEF SchemaRunOK
<1>7. SchemaLeads' BY <1>0, <1>3 DEF SchemaLeads
<1>8. SchemaShows'
  <2>1. NewIsChanged(seen') /\ ShownIn(seen', archive') /\ TicksFit(seen')
    BY <1>0, <1>1, <1>3 DEF SchemaShows, NewIsChanged, ShownIn, Ticked, TicksFit
  <2> QED BY <1>0, <1>3, <2>1 DEF SchemaShows
<1> QED BY <1>5, <1>6, <1>7, <1>8 DEF SchemaInvariant

LEMMA SchemaStopsInv == SchemaInvariant /\ Stops => SchemaInvariant'
<1> SUFFICES ASSUME SchemaInvariant, Stops PROVE SchemaInvariant' OBVIOUS
<1>0. /\ SchemaTyped /\ SchemaRunOK /\ SchemaLeads /\ SchemaShows /\ SchemaVersion = 17
      /\ image' = 0 /\ step' = 0 /\ repaired' = FALSE /\ inTransaction' = FALSE /\ seen' = stored
      /\ UNCHANGED <<original, stored, wanted, archive>>
  BY DEF SchemaInvariant, Stops, SchemaVersion
<1>5. SchemaTyped'
  <2>1. repaired' \in BOOLEAN /\ inTransaction' \in BOOLEAN /\ archive \in [SchemaDevices -> SUBSET SchemaKinds]
    BY <1>0 DEF SchemaTyped
  <2> QED BY <1>0, <2>1 DEF SchemaTyped
<1>6. SchemaRunOK' BY <1>0 DEF SchemaRunOK
<1>7. SchemaLeads' BY <1>0 DEF SchemaLeads
<1>8. SchemaShows' BY <1>0 DEF SchemaShows, SchemaTyped
<1> QED BY <1>5, <1>6, <1>7, <1>8 DEF SchemaInvariant

LEMMA StartOldInv == SchemaInvariant /\ StartOld => SchemaInvariant'
<1> SUFFICES ASSUME SchemaInvariant, StartOld PROVE SchemaInvariant' OBVIOUS
<1>0. /\ SchemaTyped /\ SchemaRunOK /\ SchemaLeads /\ SchemaShows /\ SchemaVersion = 17
      /\ image = 0 /\ image' = original /\ original > 0 /\ repaired' = TRUE /\ wanted' = stored
      /\ UNCHANGED <<original, step, seen, stored, inTransaction, archive>>
  BY DEF SchemaInvariant, StartOld, SchemaVersion
<1>1. step = 0 /\ original \in 0..16 /\ image' # 0 /\ image' # 17 /\ stored.version \in {original, 17}
  BY <1>0 DEF SchemaTyped, SchemaRunOK
<1>5. SchemaTyped' BY <1>0 DEF SchemaTyped
<1>6. SchemaRunOK' BY <1>0, <1>1 DEF SchemaRunOK
<1>7. SchemaLeads' BY <1>0, <1>1 DEF SchemaLeads
<1>8. SchemaShows' BY <1>0, <1>1 DEF SchemaShows
<1> QED BY <1>5, <1>6, <1>7, <1>8 DEF SchemaInvariant

LEMMA DatabaseSays ==
  ASSUME NEW version \in 0..16, NEW ks \in Coming(version)
  PROVE  LET n == Database(version, ks)
         IN  /\ n \in SchemaDbs /\ n.version = version /\ n.device = {"first"} /\ TicksFit(n)
             /\ \A d \in SchemaDevices : n.changed[d]
<1> DEFINE columns == {v \in {1, 2, 4, 6, 7, 9, 11, 13, 15, 16} : v <= version}
           h == [d \in SchemaDevices |-> {}]
           s == [d \in SchemaDevices |-> [k \in SchemaKinds |-> NoRow]]
           c == [d \in SchemaDevices |-> TRUE]
           fresh == [version |-> version, columns |-> columns, device |-> {}, kinds |-> h, signal |-> s,
                     blank |-> {}, changed |-> c, silent |-> {}]
<1>1. columns \in SUBSET (1..17) OBVIOUS
<1>2. NoRow \in SignalRows /\ ~ NoRow.ticked BY DEF NoRow, SignalRows
<1>3. /\ s \in [SchemaDevices -> [SchemaKinds -> SignalRows]] /\ c \in [SchemaDevices -> BOOLEAN]
      /\ h \in [SchemaDevices -> SUBSET SchemaKinds] /\ \A d \in SchemaDevices : c[d]
      /\ \A d \in SchemaDevices, k \in SchemaKinds : ~ s[d][k].ticked
  BY <1>2
<1>4. Database(version, ks) = Commissioned(fresh, "first", version, ks) BY DEF Database
<1> HIDE DEF columns, s, c, h
<1>5. /\ fresh \in SchemaDbs /\ fresh.version = version /\ fresh.changed = c /\ fresh.device = {}
      /\ fresh.signal = s
  BY <1>1, <1>3 DEF SchemaDbs, SchemaVersion, SignalRows
<1> HIDE DEF fresh
<1>6. "first" \in SchemaDevices /\ version \in 0..17 BY DEF SchemaDevices
<1>7. PICK db \in SchemaDbs : db = fresh BY <1>5
<1> DEFINE n == Commissioned(db, "first", version, ks)
<1>8. Commissions("first", version, db, n)
  <2>1. n = Commissioned(db, "first", version, ks) OBVIOUS
  <2> HIDE DEF n
  <2> QED BY <1>6, <2>1, CommissionedEdits
<1> HIDE DEF n
<1>9. Database(version, ks) = n BY <1>4, <1>7 DEF n
<1>10. TicksFit(n) BY <1>3, <1>5, <1>7, <1>8 DEF TicksFit, Commissions
<1> QED BY <1>3, <1>5, <1>7, <1>8, <1>9, <1>10 DEF Commissions

LEMMA SchemaInitInv == SchemaInit => SchemaInvariant
<1> SUFFICES ASSUME SchemaInit PROVE SchemaInvariant OBVIOUS
<1>0. /\ image = 0 /\ step = 0 /\ repaired = FALSE /\ inTransaction = FALSE
      /\ (\E ks \in Coming(original) : stored = Database(original, ks)) /\ seen = stored /\ wanted = stored
      /\ archive = [d \in SchemaDevices |-> {}] /\ SchemaVersion = 17
  BY DEF SchemaInit, SchemaVersion
<1>1. original \in 0..16 BY OriginalsAssumption DEF SchemaInit, SchemaVersion
<1>2. /\ stored \in SchemaDbs /\ stored.version = original /\ TicksFit(stored)
      /\ stored.device = {"first"} /\ \A d \in SchemaDevices : stored.changed[d]
  BY <1>0, <1>1, DatabaseSays
<1>3. "first" \in SchemaDevices BY DEF SchemaDevices
<1>4. SchemaTyped
  <2>1. repaired \in BOOLEAN /\ inTransaction \in BOOLEAN /\ archive \in [SchemaDevices -> SUBSET SchemaKinds]
    BY <1>0
  <2> QED BY <1>0, <1>1, <1>2, <2>1 DEF SchemaTyped
<1>5. SchemaRunOK BY <1>0 DEF SchemaRunOK
<1>6. SchemaLeads BY <1>0, <1>1, <1>2 DEF SchemaLeads
<1>7. SchemaShows BY <1>0, <1>2, <1>3 DEF SchemaShows, NewIsChanged, ShownIn
<1> QED BY <1>4, <1>5, <1>6, <1>7 DEF SchemaInvariant

LEMMA SchemaStep == SchemaInvariant /\ [SchemaNext]_schemaVars => SchemaInvariant' /\ ResumedAsOnce
<1> SUFFICES ASSUME SchemaInvariant, [SchemaNext]_schemaVars PROVE SchemaInvariant' /\ ResumedAsOnce
  OBVIOUS
<1>1. CASE MigrationsEnd BY <1>1, MigrationsEndInv
<1>2. CASE ~ MigrationsEnd
  <2>1. ResumedAsOnce BY <1>2 DEF ResumedAsOnce
  <2>2. CASE UNCHANGED schemaVars
    <3>1. UNCHANGED <<original, image, step, repaired, seen, stored, inTransaction, wanted, archive>>
      BY <2>2 DEF schemaVars
    <3>2. SchemaTyped' <=> SchemaTyped BY <3>1 DEF SchemaTyped
    <3>3. SchemaRunOK' <=> SchemaRunOK BY <3>1 DEF SchemaRunOK
    <3>4. SchemaLeads' <=> SchemaLeads BY <3>1 DEF SchemaLeads
    <3>5. SchemaShows' <=> SchemaShows BY <3>1 DEF SchemaShows
    <3> QED BY <2>1, <3>2, <3>3, <3>4, <3>5 DEF SchemaInvariant
  <2>3. CASE StartNew \/ Migrate \/ Repairs \/ Stops \/ StartOld \/ Commission
    BY <2>1, <2>3, StartNewInv, MigrateInv, RepairsInv, SchemaStopsInv, StartOldInv, CommissionInv
  <2>4. ASSUME NEW d \in SchemaDevices, Refresh(d) \/ UserExports(d) \/ \E k \in SchemaKinds : UserTicks(d, k)
        PROVE  SchemaInvariant'
    BY <2>4, RefreshInv, UserExportsInv, UserTicksInv
  <2>5. SchemaInvariant' BY <1>2, <2>2, <2>3, <2>4 DEF SchemaNext
  <2> QED BY <2>1, <2>5
<1> QED BY <1>1, <1>2

LEMMA SchemaInvariantSafe == SchemaInvariant => SchemaTypeOK /\ AddressedWhenUp /\ UntickedIsShown
<1> SUFFICES ASSUME SchemaInvariant PROVE SchemaTypeOK /\ AddressedWhenUp /\ UntickedIsShown OBVIOUS
<1>0. /\ SchemaTyped /\ SchemaRunOK /\ SchemaShows /\ SchemaVersion = 17
      /\ seen \in SchemaDbs /\ seen.version \in {original, 17} /\ original \in 0..16
      /\ image \in {0, original, 17}
  BY DEF SchemaInvariant, SchemaTyped, SchemaVersion
<1>1. SchemaTypeOK BY <1>0 DEF SchemaTyped, SchemaRunOK, SchemaTypeOK
<1>2. AddressedWhenUp BY <1>0 DEF SchemaRunOK, AddressedWhenUp, Running
<1>3. UntickedIsShown BY <1>0 DEF SchemaShows, ShownIn, UntickedIsShown
<1> QED BY <1>1, <1>2, <1>3

\* The migrations: however often they are stopped, begun anew, or put back to
\* the older image that then writes into the newer database, the run that gets
\* to its end leaves what one undisturbed run would have left; a device has its
\* address when the new image is up; and one whose signals are not those of its
\* last export is shown as changed, unless the third migration, which marks
\* nothing, has changed them since.
THEOREM SchemaIsSafe == SchemaSpec => SchemaSafe
<1>1. SchemaSpec => [](SchemaTypeOK /\ AddressedWhenUp /\ UntickedIsShown)
  BY SchemaInitInv, SchemaStep, SchemaInvariantSafe, PTL DEF SchemaSpec
<1>2. SchemaSpec => [][ResumedAsOnce]_schemaVars
  <2>1. SchemaInvariant /\ [SchemaNext]_schemaVars => [ResumedAsOnce]_schemaVars BY SchemaStep
  <2> QED BY <2>1, SchemaInitInv, SchemaStep, PTL DEF SchemaSpec
<1> QED BY <1>1, <1>2 DEF SchemaSafe

----------------------------------------
(* The project file. *)

(* A recursive function over a list's positions has a value at each of them. *)
Steps(take, S, n) == \A i \in 1..n, s \in S : take[<<i, s>>] \in S
Folded(f, S, n, start, take) ==
    f \in [0..n -> S] /\ f[0] = start /\ \A i \in 1..n : f[i] = take[<<i, f[i - 1]>>]

\* Whatever is folded over a list from the left has a value at each of its
\* positions.
LEMMA FoldExists ==
  ASSUME NEW S, NEW n \in Nat, NEW start \in S, NEW take, Steps(take, S, n)
  PROVE  \E f : Folded(f, S, n, start, take)
<1> USE DEF Folded, Steps
<1> DEFINE Upto(f, k) == Folded(f, S, k, start, take)
           Bad == {k \in 0..n : ~\E f : Upto(f, k)}
<1>1. Bad = {}
  <2> SUFFICES ASSUME ~(Bad = {}) PROVE FALSE OBVIOUS
  <2>1. Bad \in SUBSET Nat OBVIOUS
  <2>2. PICK k \in Bad : \A j \in Bad : k <= j
    <3> HIDE DEF Bad
    <3> QED BY <2>1, NatLeast
  <2>3. k \in 0..n /\ ~\E f : Upto(f, k) BY <2>2
  <2>4. CASE k = 0
    <3>1. Upto([i \in 0..0 |-> start], 0) OBVIOUS
    <3> QED BY <2>3, <2>4, <3>1
  <2>5. CASE k > 0
    <3>1. k - 1 \in 0..n /\ ~(k <= k - 1) /\ k \in Nat BY <2>3, <2>5
    <3>2. k - 1 \notin Bad
      <4> HIDE DEF Bad
      <4> QED BY <2>2, <3>1
    <3>3. PICK f : Upto(f, k - 1) BY <3>1, <3>2
    <3>4. f[k - 1] \in S /\ k \in 1..n BY <2>3, <2>5, <3>1, <3>3
    <3> DEFINE g == [i \in 0..k |-> IF i = k THEN take[<<k, f[k - 1]>>] ELSE f[i]]
    <3>5. take[<<k, f[k - 1]>>] \in S BY <3>4
    <3>6. \A i \in 0..k : i # k => i \in 0..(k - 1) /\ g[i] = f[i] BY <3>1
    <3>7. k \in 0..k /\ 0 \in 0..k /\ k - 1 \in 0..k /\ k - 1 # k /\ 0 # k BY <2>5, <3>1
    <3>8. g \in [0..k -> S] BY <3>3, <3>5, <3>6
    <3>9. g[k] = take[<<k, f[k - 1]>>] /\ g[0] = f[0] /\ g[k - 1] = f[k - 1] BY <3>7
    <3> HIDE DEF g
    <3>10. ASSUME NEW i \in 1..k PROVE g[i] = take[<<i, g[i - 1]>>]
      <4>1. CASE i = k BY <3>9, <4>1
      <4>2. CASE i # k
        <5>1. i \in 1..(k - 1) /\ i \in 0..k /\ i - 1 \in 0..k /\ i - 1 # k BY <3>1, <4>2
        <5>2. g[i] = f[i] /\ g[i - 1] = f[i - 1] BY <3>6, <4>2, <5>1
        <5> QED BY <3>3, <5>1, <5>2
      <4> QED BY <4>1, <4>2
    <3>11. Upto(g, k) BY <3>3, <3>8, <3>9, <3>10
    <3> QED BY <2>3, <3>11
  <2> QED BY <2>3, <2>4, <2>5
<1>2. n \in 0..n OBVIOUS
<1>3. n \notin Bad BY <1>1
<1> QED BY <1>2, <1>3

(* A sequence of sequences is joined from the front. *)
JoinedUp(f, p, n, S) == /\ f \in [0..n -> Seq(S)] /\ FlattenSeq(p) = f[n] /\ f[0] = <<>>
                      /\ \A i \in 1..n : f[i] = f[i - 1] \o p[i]

\* A list of lists, flattened, is the lists joined up one by one (FlattenSeq).
LEMMA FlattenIs ==
  ASSUME NEW S, NEW n \in Nat \ {0}, NEW p, p \in [1..n -> Seq(S)]
  PROVE  \E f : JoinedUp(f, p, n, S)
<1> DEFINE take == [c \in (1..n) \X Seq(S) |-> c[2] \o p[c[1]]]
<1>0. n \in Nat /\ n > 0 /\ n \in 1..n /\ 1 \in 1..n /\ n # 0 OBVIOUS
<1>1. \A i \in 1..n, s \in Seq(S) : take[<<i, s>>] = s \o p[i] /\ take[<<i, s>>] \in Seq(S)
  <2> TAKE i \in 1..n, s \in Seq(S)
  <2>1. p[i] \in Seq(S) OBVIOUS
  <2>2. s \o p[i] \in Seq(S) BY ONLY <2>1, ConcatProperties, s \in Seq(S)
  <2>3. <<i, s>> \in (1..n) \X Seq(S) OBVIOUS
  <2> QED BY <2>2, <2>3
<1>2. Steps(take, Seq(S), n) BY <1>1 DEF Steps
<1>3. <<>> \in Seq(S) OBVIOUS
<1>4. PICK f : f \in [0..n -> Seq(S)] /\ f[0] = <<>> /\ \A i \in 1..n : f[i] = take[<<i, f[i - 1]>>]
  <2> HIDE DEF take
  <2>1. \E f : Folded(f, Seq(S), n, <<>>, take) BY <1>0, <1>2, <1>3, FoldExists
  <2> QED BY <2>1 DEF Folded
<1>5. \A i \in 1..n : i - 1 \in 0..n /\ f[i - 1] \in Seq(S) /\ f[i] = f[i - 1] \o p[i]
  <2> TAKE i \in 1..n
  <2>1. i - 1 \in 0..n /\ f[i - 1] \in Seq(S) BY <1>0, <1>4
  <2>2. f[i] = take[<<i, f[i - 1]>>] BY <1>4
  <2> HIDE DEF take
  <2> QED BY <1>1, <2>1, <2>2
<1>6. f[1] = p[1]
  <2>1. f[1] = f[0] \o p[1] /\ p[1] \in Seq(S)
    <3>1. \A i \in 1..n, j \in 0..n : j = i - 1 => f[i] = f[j] \o p[i] BY <1>5
    <3> QED BY <1>0, <3>1
  <2>2. <<>> \o p[1] = p[1] BY ONLY <2>1, EmptySeq, ConcatEmptySeq
  <2> QED BY <1>4, <2>1, <2>2
<1> HIDE DEF take
<1> DEFINE b == [i \in 1..n |-> f[i]]
<1>7. b = [i \in 1..n |-> IF i = 1 THEN p[i] ELSE b[i - 1] \o p[i]]
  <2>1. ASSUME NEW i \in 1..n PROVE b[i] = IF i = 1 THEN p[i] ELSE b[i - 1] \o p[i]
    <3>1. CASE i = 1 BY <1>6, <3>1
    <3>2. CASE i # 1
      <4>1. i - 1 \in 1..n BY <1>0, <3>2
      <4>2. b[i] = f[i] /\ b[i - 1] = f[i - 1] BY <4>1
      <4> QED BY <1>5, <3>2, <4>2
    <3> QED BY <3>1, <3>2
  <2> QED BY <2>1
<1> HIDE DEF b
<1> DEFINE c == CHOOSE h : h = [i \in 1..n |-> IF i = 1 THEN p[i] ELSE h[i - 1] \o p[i]]
<1>8. c = [i \in 1..n |-> IF i = 1 THEN p[i] ELSE c[i - 1] \o p[i]] BY <1>7
<1>9. Len(p) = n
  <2>1. p \in Seq(Seq(S)) BY <1>0
  <2> QED BY <1>0, <2>1, LenProperties
<1>10. FlattenSeq(p) = c[n] BY <1>0, <1>9 DEF FlattenSeq
<1> HIDE DEF c
<1>11. \A i \in 1..n : c[i] = IF i = 1 THEN p[i] ELSE c[i - 1] \o p[i]
  <2> TAKE i \in 1..n
  <2> DEFINE h == [j \in 1..n |-> IF j = 1 THEN p[j] ELSE c[j - 1] \o p[j]]
  <2>1. h[i] = IF i = 1 THEN p[i] ELSE c[i - 1] \o p[i] OBVIOUS
  <2>2. c = h BY <1>8
  <2> HIDE DEF h
  <2> QED BY <2>1, <2>2
<1> DEFINE Bad == {i \in 1..n : c[i] # f[i]}
<1>12. Bad = {}
  <2> SUFFICES ASSUME ~(Bad = {}) PROVE FALSE OBVIOUS
  <2>1. Bad \in SUBSET Nat OBVIOUS
  <2>2. PICK k \in Bad : \A j \in Bad : k <= j
    <3> HIDE DEF Bad
    <3> QED BY <2>1, NatLeast
  <2>3. k \in 1..n /\ c[k] # f[k] BY <2>2
  <2>4. k # 1 BY <1>6, <1>11, <2>3
  <2>5. k - 1 \in 1..n /\ ~(k <= k - 1) BY <1>0, <2>3, <2>4
  <2>6. k - 1 \notin Bad
    <3> HIDE DEF Bad
    <3> QED BY <2>2, <2>5
  <2>7. c[k - 1] = f[k - 1] BY <2>5, <2>6
  <2>8. c[k] = c[k - 1] \o p[k] /\ f[k] = f[k - 1] \o p[k] BY <1>5, <1>11, <2>3, <2>4
  <2> QED BY <2>3, <2>7, <2>8
<1>13. FlattenSeq(p) = f[n] BY <1>0, <1>10, <1>12
<1> QED BY <1>4, <1>5, <1>13 DEF JoinedUp

(* The joined sequence g has what the n sequences p have, place by place. *)
Comes(g, n, p, of) ==
    /\ of \in [1..Len(g) -> (1..n) \X Nat]
    /\ \A x \in 1..Len(g) : /\ of[x][2] \in 1..Len(p[of[x][1]])
                            /\ g[x] = p[of[x][1]][of[x][2]]
    /\ \A x, y \in 1..Len(g) : of[x] = of[y] => x = y
    /\ \A i \in 1..n : \A j \in 1..Len(p[i]) : \E x \in 1..Len(g) : of[x] = <<i, j>>

\* Joining the next list keeps that every member comes from one place.
LEMMA ComesOnce ==
  ASSUME NEW S, NEW n \in Nat, NEW p, NEW k \in 1..n, p \in [1..n -> Seq(S)],
         NEW g \in Seq(S), NEW of, Comes(g, k - 1, p, of)
  PROVE  \E to : Comes(g \o p[k], k, p, to)
<1> DEFINE q == p[k]
           h == g \o q
           to == [x \in 1..Len(h) |-> IF x <= Len(g) THEN of[x] ELSE <<k, x - Len(g)>>]
<1>1. q \in Seq(S) /\ Len(q) \in Nat /\ Len(g) \in Nat /\ k \in Nat /\ k > 0 BY LenProperties
<1> HIDE DEF q
<1>2. /\ h \in Seq(S) /\ Len(h) = Len(g) + Len(q)
      /\ \A x \in 1..(Len(g) + Len(q)) : h[x] = IF x <= Len(g) THEN g[x] ELSE q[x - Len(g)]
  BY ONLY <1>1, ConcatProperties, LenProperties, g \in Seq(S)
<1> HIDE DEF h
<1>3. ASSUME NEW x \in 1..Len(h), x <= Len(g)
      PROVE  /\ x \in 1..Len(g) /\ to[x] = of[x] /\ h[x] = g[x]
             /\ to[x] \in (1..(k - 1)) \X Nat /\ to[x][1] # k
  <2>1. x \in 1..Len(g) /\ to[x] = of[x] /\ h[x] = g[x] BY <1>1, <1>2, <1>3
  <2>2. of[x] \in (1..(k - 1)) \X Nat BY <2>1 DEF Comes
  <2>3. of[x][1] \in 1..(k - 1) BY <2>2
  <2> QED BY <1>1, <2>1, <2>2, <2>3
<1>4. ASSUME NEW x \in 1..Len(h), ~(x <= Len(g))
      PROVE  /\ x - Len(g) \in 1..Len(q) /\ to[x] = <<k, x - Len(g)>> /\ h[x] = q[x - Len(g)]
  BY <1>1, <1>2, <1>4
<1> HIDE DEF to
<1>5. to \in [1..Len(h) -> (1..k) \X Nat]
  <2>1. ASSUME NEW x \in 1..Len(h) PROVE to[x] \in (1..k) \X Nat
    <3>1. CASE x <= Len(g)
      <4>1. to[x] \in (1..(k - 1)) \X Nat BY <1>3, <3>1
      <4> QED BY <1>1, <4>1
    <3>2. CASE ~(x <= Len(g))
      <4>1. x - Len(g) \in Nat /\ k \in 1..k /\ to[x] = <<k, x - Len(g)>> BY <1>1, <1>4, <3>2
      <4> QED BY <4>1
    <3> QED BY <3>1, <3>2
  <2> QED BY <2>1 DEF to
<1>6. ASSUME NEW x \in 1..Len(h)
      PROVE  to[x][2] \in 1..Len(p[to[x][1]]) /\ h[x] = p[to[x][1]][to[x][2]]
  <2>1. CASE x <= Len(g)
    <3>1. x \in 1..Len(g) /\ to[x] = of[x] /\ h[x] = g[x] BY <1>3, <2>1
    <3> QED BY <3>1 DEF Comes
  <2>2. CASE ~(x <= Len(g))
    <3>1. x - Len(g) \in 1..Len(q) /\ to[x] = <<k, x - Len(g)>> /\ h[x] = q[x - Len(g)]
      BY <1>4, <2>2
    <3>2. to[x][1] = k /\ to[x][2] = x - Len(g) BY ONLY <3>1
    <3>3. p[to[x][1]] = q BY ONLY <3>2, Zenon DEF q
    <3> QED BY ONLY <3>1, <3>2, <3>3
  <2> QED BY <2>1, <2>2
<1>7. ASSUME NEW x \in 1..Len(h), NEW y \in 1..Len(h), to[x] = to[y] PROVE x = y
  <2>1. CASE x <= Len(g) /\ y <= Len(g)
    <3>1. x \in 1..Len(g) /\ y \in 1..Len(g) /\ of[x] = of[y] BY <1>3, <1>7, <2>1
    <3> QED BY <3>1 DEF Comes
  <2>2. CASE ~(x <= Len(g)) /\ ~(y <= Len(g))
    <3>1. x - Len(g) = y - Len(g) BY <1>4, <1>7, <2>2
    <3> QED BY <1>1, <1>2, <3>1
  <2>3. CASE x <= Len(g) /\ ~(y <= Len(g)) BY <1>3, <1>4, <1>7, <2>3
  <2>4. CASE ~(x <= Len(g)) /\ y <= Len(g) BY <1>3, <1>4, <1>7, <2>4
  <2> QED BY <2>1, <2>2, <2>3, <2>4
<1>8. ASSUME NEW i \in 1..k, NEW j \in 1..Len(p[i]) PROVE \E x \in 1..Len(h) : to[x] = <<i, j>>
  <2>1. CASE i = k
    <3>1. j \in 1..Len(q) BY <2>1 DEF q
    <3> DEFINE y == Len(g) + j
    <3>a. y \in 1..Len(h)
      BY ONLY <1>1, <1>2, <3>1
    <3>2. PICK x \in 1..Len(h) : x = Len(g) + j
      <4> HIDE DEF y
      <4>1. \E x \in 1..Len(h) : x = y BY ONLY <3>a
      <4> QED BY ONLY <4>1 DEF y
    <3>3. ~(x <= Len(g)) /\ x - Len(g) = j BY <1>1, <3>1, <3>2
    <3>4. to[x] = <<k, x - Len(g)>> BY <1>4, <3>3
    <3> QED BY <2>1, <3>3, <3>4
  <2>2. CASE i # k
    <3>1. i \in 1..(k - 1) BY <1>1, <2>2
    <3>2. PICK x \in 1..Len(g) : of[x] = <<i, j>> BY <3>1 DEF Comes
    <3>3. x \in 1..Len(h) /\ x <= Len(g) BY <1>1, <1>2
    <3> QED BY <1>3, <3>2, <3>3
  <2> QED BY <2>1, <2>2
<1>9. Comes(h, k, p, to) BY <1>5, <1>6, <1>7, <1>8 DEF Comes
<1> QED BY <1>9 DEF h, q

\* Every member of a flattened list comes from one place of one of the lists,
\* and every place gives a member.
LEMMA FlattenComes ==
  ASSUME NEW S, NEW n \in Nat, NEW p, p \in [1..n -> Seq(S)]
  PROVE  FlattenSeq(p) \in Seq(S) /\ \E of : Comes(FlattenSeq(p), n, p, of)
<1>1. CASE n = 0
  <2>1. p \in Seq(S) /\ Len(p) = 0
    <3>1. p \in Seq(Seq(S)) /\ p = <<>> BY <1>1
    <3> QED BY <3>1
  <2>2. FlattenSeq(p) = p BY <2>1 DEF FlattenSeq
  <2>3. Comes(p, n, p, p) BY <1>1, <2>1 DEF Comes
  <2> QED BY <2>1, <2>2, <2>3
<1>2. CASE n # 0
  <2>1. PICK f : /\ f \in [0..n -> Seq(S)] /\ FlattenSeq(p) = f[n] /\ f[0] = <<>>
                 /\ \A i \in 1..n : f[i] = f[i - 1] \o p[i]
    <3>1. \E f : JoinedUp(f, p, n, S) BY <1>2, FlattenIs
    <3> QED BY <3>1 DEF JoinedUp
  <2> DEFINE Reach(k) == \E of : Comes(f[k], k, p, of)
             Bad == {k \in 0..n : ~Reach(k)}
  <2>2. Bad = {}
    <3> SUFFICES ASSUME ~(Bad = {}) PROVE FALSE OBVIOUS
    <3>1. Bad \in SUBSET Nat OBVIOUS
    <3>2. PICK k \in Bad : \A j \in Bad : k <= j
      <4> HIDE DEF Bad
      <4> QED BY <3>1, NatLeast
    <3>3. k \in 0..n /\ ~Reach(k) BY <3>2
    <3>4. k # 0
      <4>1. f[0] = <<>> /\ Len(f[0]) = 0 BY <2>1
      <4>2. Comes(f[0], 0, p, <<>>) BY <4>1 DEF Comes
      <4> QED BY <3>3, <4>2
    <3>5. k \in 1..n /\ k - 1 \in 0..n /\ ~(k <= k - 1) BY <3>3, <3>4
    <3>6. k - 1 \notin Bad
      <4> HIDE DEF Bad
      <4> QED BY <3>2, <3>5
    <3>7. PICK of : Comes(f[k - 1], k - 1, p, of) BY <3>5, <3>6
    <3>8. f[k - 1] \in Seq(S) /\ f[k] = f[k - 1] \o p[k] BY <2>1, <3>5
    <3>9. \E to : Comes(f[k - 1] \o p[k], k, p, to) BY <3>5, <3>7, <3>8, ComesOnce
    <3> QED BY <3>3, <3>8, <3>9
  <2>3. n \in 0..n OBVIOUS
  <2>4. Reach(n) BY <2>2, <2>3
  <2> QED BY <2>1, <2>3, <2>4
<1> QED BY <1>1, <1>2

(* No member twice. *)
Once(s) == \A m, n \in DOMAIN s : s[m] = s[n] => m = n

\* Those picks the members that are in the set, and repeats none.
LEMMA ThoseIs ==
  ASSUME NEW S, NEW s \in Seq(S), NEW P
  PROVE  /\ Those(s, P) \in Seq(S) /\ ToSet(Those(s, P)) = ToSet(s) \cap P
         /\ Once(s) => Once(Those(s, P))
<1> DEFINE n == Len(s)
           p == [m \in 1..n |-> IF s[m] \in P THEN <<s[m]>> ELSE <<>>]
           t == FlattenSeq(p)
<1>1. n \in Nat /\ DOMAIN s = 1..n /\ \A m \in 1..n : s[m] \in S BY LenProperties, ElementOfSeq
<1>2. Those(s, P) = t BY <1>1 DEF Those
<1> HIDE DEF n
<1>3. p \in [1..n -> Seq(S)] BY <1>1
<1>4. \A m \in 1..n : /\ s[m] \in P => Len(p[m]) = 1 /\ p[m][1] = s[m]
                      /\ s[m] \notin P => Len(p[m]) = 0
  OBVIOUS
<1> HIDE DEF p
<1>5. t \in Seq(S) /\ \E of : Comes(t, n, p, of) BY <1>1, <1>3, FlattenComes
<1> HIDE DEF t
<1>6. PICK of : Comes(t, n, p, of) BY <1>5
<1>7. Len(t) \in Nat /\ DOMAIN t = 1..Len(t) BY <1>5, LenProperties
<1>8. ASSUME NEW x \in 1..Len(t)
      PROVE  of[x][1] \in 1..n /\ of[x] = <<of[x][1], 1>> /\ s[of[x][1]] \in P /\ t[x] = s[of[x][1]]
  <2>1. of[x] \in (1..n) \X Nat /\ of[x][2] \in 1..Len(p[of[x][1]]) /\ t[x] = p[of[x][1]][of[x][2]]
    BY <1>6 DEF Comes
  <2> DEFINE m == of[x][1]
             j == of[x][2]
  <2>2. of[x] = <<m, j>> /\ m \in 1..n /\ j \in 1..Len(p[m]) /\ t[x] = p[m][j] BY <2>1
  <2> HIDE DEF m, j
  <2>3. s[m] \in P BY <1>4, <2>2
  <2>4. j = 1 /\ t[x] = s[m] BY <1>4, <2>2, <2>3
  <2> QED BY <2>2, <2>3, <2>4 DEF m
<1>9. ASSUME NEW m \in 1..n, s[m] \in P PROVE \E x \in 1..Len(t) : t[x] = s[m]
  <2>1. 1 \in 1..Len(p[m]) BY <1>4, <1>9
  <2>2. PICK x \in 1..Len(t) : of[x] = <<m, 1>> BY <1>6, <2>1 DEF Comes
  <2>3. of[x][1] = m BY <2>2
  <2> QED BY <1>8, <2>3
<1>10. ToSet(t) = ToSet(s) \cap P
  <2>1. ASSUME NEW v \in ToSet(t) PROVE v \in ToSet(s) \cap P
    <3>1. PICK x \in 1..Len(t) : v = t[x] BY <1>7 DEF ToSet
    <3> QED BY <1>1, <1>8, <3>1 DEF ToSet
  <2>2. ASSUME NEW v \in ToSet(s) \cap P PROVE v \in ToSet(t)
    <3>1. PICK m \in 1..n : v = s[m] BY <1>1 DEF ToSet
    <3> QED BY <1>7, <1>9, <3>1 DEF ToSet
  <2> QED BY <2>1, <2>2
<1>11. ASSUME Once(s) PROVE Once(t)
  <2>1. ASSUME NEW x \in 1..Len(t), NEW y \in 1..Len(t), t[x] = t[y] PROVE x = y
    <3>1. of[x][1] = of[y][1] BY <1>1, <1>8, <1>11, <2>1 DEF Once
    <3>2. of[x] = of[y] BY <1>8, <3>1
    <3> QED BY <1>6, <3>2 DEF Comes
  <2> QED BY <1>7, <2>1 DEF Once
<1> QED BY <1>2, <1>5, <1>10, <1>11

(* What the bridge wants of an owner is a list of items, none twice. *)
HouseOK == house \in [ToSet(Owners) -> Exports]

\* to_inputs names no signal of a device twice.
LEMMA InputsOK ==
  ASSUME NEW export
  PROVE  Inputs(export) \in Seq(Items) /\ Once(Inputs(export))
<1> DEFINE Two == {"level", "press"}
           exported == Those(Signals, export.signals)
           Emits(s) == IF s = "press" THEN <<"press", "press_n">> ELSE <<s>>
           n == Len(exported)
           p == [i \in 1..n |-> Emits(exported[i])]
           t == FlattenSeq(p)
<1>1. exported \in Seq(Two) /\ Once(exported)
  <2>1. Signals \in Seq(Two) /\ Once(Signals) BY DEF Signals, Once
  <2> QED BY <2>1, ThoseIs
<1> HIDE DEF exported
<1>2. n \in Nat /\ DOMAIN exported = 1..n /\ \A i \in 1..n : exported[i] \in Two
  BY <1>1, LenProperties, ElementOfSeq
<1>3. Inputs(export) = t \o <<"online">> BY <1>2 DEF Inputs, exported
<1> HIDE DEF n
<1>4. \A s \in Two : /\ Emits(s) \in Seq(Items)
                     /\ s = "press" => Len(Emits(s)) = 2 /\ Emits(s)[1] = "press" /\ Emits(s)[2] = "press_n"
                     /\ s = "level" => Len(Emits(s)) = 1 /\ Emits(s)[1] = "level"
  <2>1. /\ <<"press", "press_n">> \in Seq(Items) /\ Len(<<"press", "press_n">>) = 2
        /\ <<"level">> \in Seq(Items) /\ Len(<<"level">>) = 1
        /\ <<"press", "press_n">>[1] = "press" /\ <<"press", "press_n">>[2] = "press_n" /\ <<"level">>[1] = "level"
    BY DEF Items
  <2>2. Emits("press") = <<"press", "press_n">> /\ Emits("level") = <<"level">> OBVIOUS
  <2>3. \A s \in Two : s = "press" \/ s = "level" OBVIOUS
  <2> HIDE DEF Emits, Two
  <2>4. /\ Emits("press") \in Seq(Items) /\ Len(Emits("press")) = 2
        /\ Emits("press")[1] = "press" /\ Emits("press")[2] = "press_n"
    BY ONLY <2>1, <2>2, Zenon
  <2>5. Emits("level") \in Seq(Items) /\ Len(Emits("level")) = 1 /\ Emits("level")[1] = "level"
    BY ONLY <2>1, <2>2, Zenon
  <2> QED BY ONLY <2>3, <2>4, <2>5
<1> HIDE DEF Emits
<1>5. p \in [1..n -> Seq(Items)] /\ \A i \in 1..n : p[i] = Emits(exported[i]) BY <1>2, <1>4
<1> HIDE DEF p
<1>6. t \in Seq(Items) /\ \E of : Comes(t, n, p, of) BY <1>2, <1>5, FlattenComes
<1> HIDE DEF t
<1>7. PICK of : Comes(t, n, p, of) BY <1>6
<1>8. Len(t) \in Nat /\ DOMAIN t = 1..Len(t) BY <1>6, LenProperties
<1>9. ASSUME NEW x \in 1..Len(t)
      PROVE  /\ of[x] = <<of[x][1], of[x][2]>> /\ of[x][1] \in 1..n
             /\ \/ exported[of[x][1]] = "level" /\ of[x][2] = 1 /\ t[x] = "level"
                \/ exported[of[x][1]] = "press" /\ of[x][2] = 1 /\ t[x] = "press"
                \/ exported[of[x][1]] = "press" /\ of[x][2] = 2 /\ t[x] = "press_n"
  <2>1. of[x] \in (1..n) \X Nat /\ of[x][2] \in 1..Len(p[of[x][1]]) /\ t[x] = p[of[x][1]][of[x][2]]
    BY <1>7 DEF Comes
  <2>2. PICK i \in 1..n, j \in Nat : of[x] = <<i, j>> BY <2>1
  <2>3. j \in 1..Len(Emits(exported[i])) /\ t[x] = Emits(exported[i])[j] BY <1>5, <2>1, <2>2
  <2>4. exported[i] = "level" \/ exported[i] = "press" BY <1>2, <2>2
  <2>5. \/ exported[i] = "level" /\ j = 1 /\ t[x] = "level"
        \/ exported[i] = "press" /\ j = 1 /\ t[x] = "press"
        \/ exported[i] = "press" /\ j = 2 /\ t[x] = "press_n"
    <3>1. CASE exported[i] = "level"
      <4>1. j = 1 BY <1>4, <2>3, <3>1
      <4> QED BY <1>4, <2>3, <3>1, <4>1
    <3>2. CASE exported[i] = "press"
      <4>1. j = 1 \/ j = 2 BY <1>4, <2>3, <3>2
      <4> QED BY <1>4, <2>3, <3>2, <4>1
    <3> QED BY <2>4, <3>1, <3>2
  <2> QED BY <2>2, <2>5
<1>10. ASSUME NEW x \in 1..Len(t), NEW y \in 1..Len(t), t[x] = t[y] PROVE x = y
  <2>1. exported[of[x][1]] = exported[of[y][1]] /\ of[x][2] = of[y][2] BY <1>9, <1>10
  <2>2. of[x][1] = of[y][1] BY <1>1, <1>2, <1>9, <2>1 DEF Once
  <2>3. of[x] = of[y]
    <3>1. of[x] = <<of[x][1], of[x][2]>> /\ of[y] = <<of[y][1], of[y][2]>> BY <1>9
    <3> QED BY ONLY <2>1, <2>2, <3>1
  <2>4. \A a, b \in 1..Len(t) : of[a] = of[b] => a = b BY <1>7 DEF Comes
  <2> QED BY <2>3, <2>4
<1> DEFINE h == t \o <<"online">>
<1>11. /\ h \in Seq(Items) /\ Len(h) = Len(t) + 1
       /\ \A x \in 1..(Len(t) + 1) : h[x] = IF x <= Len(t) THEN t[x] ELSE "online"
  <2>1. <<"online">> \in Seq(Items) /\ Len(<<"online">>) = 1 /\ <<"online">>[1] = "online"
    BY DEF Items
  <2>2. /\ h \in Seq(Items) /\ Len(h) = Len(t) + 1
        /\ \A x \in 1..(Len(t) + 1) : h[x] = IF x <= Len(t) THEN t[x] ELSE <<"online">>[x - Len(t)]
    BY ONLY <1>6, <2>1, ConcatProperties, LenProperties
  <2>3. ASSUME NEW x \in 1..(Len(t) + 1), ~(x <= Len(t)) PROVE x - Len(t) = 1 BY <1>8, <2>3
  <2> QED BY <2>1, <2>2, <2>3
<1> HIDE DEF h
<1>12. Once(h)
  <2>1. DOMAIN h = 1..(Len(t) + 1) BY <1>11, LenProperties
  <2>2. ASSUME NEW x \in 1..(Len(t) + 1), NEW y \in 1..(Len(t) + 1), h[x] = h[y] PROVE x = y
    <3>1. \A z \in 1..(Len(t) + 1) : (z <= Len(t) => z \in 1..Len(t)) /\ (~(z <= Len(t)) => z = Len(t) + 1)
      BY <1>8
    <3>2. \A z \in 1..Len(t) : t[z] # "online" BY <1>9
    <3> QED BY <1>10, <1>11, <2>2, <3>1, <3>2
  <2> QED BY <2>1, <2>2 DEF Once
<1> QED BY <1>3, <1>11, <1>12 DEF h

\* Nor does the bridge want a key of an owner twice.
LEMMA WantsOK ==
  ASSUME HouseOK, NEW o \in ToSet(Owners), NEW k \in CmdKinds
  PROVE  Wants(k, o) \in Seq(Items) /\ Once(Wants(k, o))
<1>1. <<>> \in Seq(Items) /\ Once(<<>>) BY DEF Once
<1>2. Outputs(house[o]) \in Seq(Items) /\ Once(Outputs(house[o]))
  <2>1. <<"pair", "on", "off">> \in Seq(Items) /\ Once(<<"pair", "on", "off">>) BY DEF Items, Once
  <2> QED BY <2>1, ThoseIs DEF Outputs
<1>3. Inputs(house[o]) \in Seq(Items) /\ Once(Inputs(house[o])) BY InputsOK
<1> QED BY <1>1, <1>2, <1>3 DEF Wants

(* No members of the sequence, none in the set of members. *)
\* The members of a list are what stands at its positions.
LEMMA ToSetIs ==
  ASSUME NEW S, NEW s \in Seq(S)
  PROVE  /\ Len(s) \in Nat /\ DOMAIN s = 1..Len(s) /\ ToSet(s) \in SUBSET S
         /\ \A x : x \in ToSet(s) <=> \E n \in 1..Len(s) : x = s[n]
         /\ s = <<>> <=> ToSet(s) = {}
<1>1. Len(s) \in Nat /\ DOMAIN s = 1..Len(s) /\ \A n \in 1..Len(s) : s[n] \in S
  BY LenProperties, ElementOfSeq
<1>2. \A x : x \in ToSet(s) <=> \E n \in 1..Len(s) : x = s[n] BY <1>1 DEF ToSet
<1>3. s = <<>> <=> Len(s) = 0 BY EmptySeq
<1>4. Len(s) = 0 <=> ToSet(s) = {}
  <2>1. Len(s) # 0 => 1 \in 1..Len(s) BY <1>1
  <2>2. Len(s) = 0 => ~\E n \in 1..Len(s) : TRUE BY <1>1
  <2> QED BY <1>2, <2>1, <2>2
<1>5. ToSet(s) \in SUBSET S BY <1>1, <1>2
<1> QED BY <1>1, <1>2, <1>3, <1>4, <1>5

----------------------------------------
(* What is in a list of boxes, and what of it is in the index. *)

BoxLists == Seq(Seq(Commands))
Cell(boxes, b, n) == [box |-> b, pos |-> n, cmd |-> boxes[b][n]]

\* Boxes are lists of commands.
LEMMA BoxesAre ==
  ASSUME NEW boxes \in BoxLists
  PROVE  /\ Len(boxes) \in Nat /\ DOMAIN boxes = 1..Len(boxes)
         /\ \A b \in 1..Len(boxes) :
              /\ boxes[b] \in Seq(Commands) /\ Len(boxes[b]) \in Nat /\ DOMAIN boxes[b] = 1..Len(boxes[b])
              /\ \A n \in 1..Len(boxes[b]) : boxes[b][n] \in Commands
<1>1. Len(boxes) \in Nat /\ DOMAIN boxes = 1..Len(boxes) /\ \A b \in 1..Len(boxes) : boxes[b] \in Seq(Commands)
  BY LenProperties, ElementOfSeq DEF BoxLists
<1>2. \A s \in Seq(Commands) : Len(s) \in Nat /\ DOMAIN s = 1..Len(s) /\ \A n \in 1..Len(s) : s[n] \in Commands
  BY LenProperties, ElementOfSeq
<1> QED BY <1>1, <1>2

\* What has a key, and where it stands.
LEMMA KeyedIs ==
  ASSUME NEW boxes \in BoxLists
  PROVE  /\ \A e \in Keyed(boxes) :
              /\ e.box \in 1..Len(boxes) /\ e.pos \in 1..Len(boxes[e.box])
              /\ e.cmd = boxes[e.box][e.pos] /\ e.cmd \in Commands /\ e.cmd.name # NoName
              /\ e = Cell(boxes, e.box, e.pos)
         /\ \A b \in 1..Len(boxes) : \A n \in 1..Len(boxes[b]) :
              boxes[b][n].name # NoName => Cell(boxes, b, n) \in Keyed(boxes)
<1>1. ASSUME NEW e \in Keyed(boxes)
      PROVE  /\ e.box \in 1..Len(boxes) /\ e.pos \in 1..Len(boxes[e.box])
             /\ e.cmd = boxes[e.box][e.pos] /\ e.cmd \in Commands /\ e.cmd.name # NoName
             /\ e = Cell(boxes, e.box, e.pos)
  <2>0. PICK b \in DOMAIN boxes : \E n \in DOMAIN boxes[b] : e = [box |-> b, pos |-> n, cmd |-> boxes[b][n]]
    BY DEF Keyed
  <2>1. PICK n \in DOMAIN boxes[b] : e = [box |-> b, pos |-> n, cmd |-> boxes[b][n]] BY <2>0
  <2>2. b \in 1..Len(boxes) /\ n \in 1..Len(boxes[b]) /\ boxes[b][n] \in Commands BY <2>1, BoxesAre
  <2>3. e.box = b /\ e.pos = n /\ e.cmd = boxes[b][n] /\ e.cmd.name # NoName BY <2>1 DEF Keyed
  <2> QED BY <2>1, <2>2, <2>3 DEF Cell
<1>2. ASSUME NEW b \in 1..Len(boxes), NEW n \in 1..Len(boxes[b]), boxes[b][n].name # NoName
      PROVE  Cell(boxes, b, n) \in Keyed(boxes)
  <2>1. b \in DOMAIN boxes /\ n \in DOMAIN boxes[b] BY BoxesAre
  <2> QED BY <1>2, <2>1 DEF Keyed, Cell
<1> QED BY <1>1, <1>2

\* Of commands with a key one is the first in the file.
LEMMA FirstOf ==
  ASSUME NEW boxes \in BoxLists, NEW T \in SUBSET Keyed(boxes), T # {}
  PROVE  \E e \in T : \A d \in T : ~Before(d, e)
<1>1. \A e \in T : e.box \in Nat /\ e.pos \in Nat BY KeyedIs, BoxesAre
<1> DEFINE lines == {e.box : e \in T}
<1>2. lines \in SUBSET Nat /\ lines # {} BY <1>1
<1>3. PICK b \in lines : \A c \in lines : b <= c
  <2> HIDE DEF lines
  <2> QED BY <1>2, NatLeast
<1> DEFINE columns == {e.pos : e \in {d \in T : d.box = b}}
<1>4. columns \in SUBSET Nat /\ columns # {} BY <1>1, <1>3
<1>5. PICK n \in columns : \A m \in columns : n <= m
  <2> HIDE DEF columns
  <2> QED BY <1>4, NatLeast
<1>6. PICK e \in T : e.box = b /\ e.pos = n BY <1>5
<1>7. ASSUME NEW d \in T PROVE ~Before(d, e)
  <2>1. b <= d.box BY <1>3
  <2>2. d.box = b => n <= d.pos BY <1>5
  <2> QED BY <1>1, <1>6, <2>1, <2>2 DEF Before
<1> QED BY <1>7

\* And one the last.
LEMMA LastOf ==
  ASSUME NEW boxes \in BoxLists, NEW T \in SUBSET Keyed(boxes), T # {}
  PROVE  \E e \in T : \A d \in T : ~Before(e, d)
<1>1. \A e \in T : /\ e.box \in Nat /\ e.pos \in Nat
                   /\ Len(boxes) - e.box \in Nat /\ Len(boxes[e.box]) - e.pos \in Nat
  <2> TAKE e \in T
  <2>1. e.box \in 1..Len(boxes) /\ e.pos \in 1..Len(boxes[e.box]) BY KeyedIs
  <2>2. Len(boxes) \in Nat /\ Len(boxes[e.box]) \in Nat BY <2>1, BoxesAre
  <2> QED BY <2>1, <2>2
<1> DEFINE lines == {Len(boxes) - e.box : e \in T}
<1>2. lines \in SUBSET Nat /\ lines # {} BY <1>1
<1>3. PICK r \in lines : \A c \in lines : r <= c
  <2> HIDE DEF lines
  <2> QED BY <1>2, NatLeast
<1>4. PICK a \in T : r = Len(boxes) - a.box BY <1>3
<1> DEFINE columns == {Len(boxes[e.box]) - e.pos : e \in {d \in T : d.box = a.box}}
<1>5. columns \in SUBSET Nat /\ columns # {} BY <1>1
<1>6. PICK n \in columns : \A m \in columns : n <= m
  <2> HIDE DEF columns
  <2> QED BY <1>5, NatLeast
<1>7. PICK e \in T : e.box = a.box /\ n = Len(boxes[e.box]) - e.pos BY <1>6
<1>8. ASSUME NEW d \in T PROVE ~Before(e, d)
  <2>1. Len(boxes) - a.box <= Len(boxes) - d.box BY <1>3, <1>4
  <2>2. d.box = a.box => Len(boxes[a.box]) - e.pos <= Len(boxes[a.box]) - d.pos BY <1>6, <1>7
  <2>3. Len(boxes) \in Nat /\ Len(boxes[a.box]) \in Nat BY BoxesAre, KeyedIs
  <2>4. d.box \in Nat /\ d.pos \in Nat /\ e.box \in Nat /\ e.pos \in Nat /\ e.box = a.box
    BY <1>1, <1>7
  <2>5. d.box <= e.box BY ONLY <2>1, <2>3, <2>4
  <2>6. d.box = e.box => d.pos <= e.pos BY ONLY <2>2, <2>3, <2>4
  <2> QED BY ONLY <2>4, <2>5, <2>6 DEF Before
<1> QED BY <1>8

\* Every key of the file is in the index.
LEMMA IndexHas ==
  ASSUME NEW boxes \in BoxLists
  PROVE  /\ Index(boxes) \subseteq Keyed(boxes)
         /\ \A e \in Keyed(boxes) : \E d \in Index(boxes) : SameKey(d, e)
<1>1. ASSUME NEW e \in Keyed(boxes) PROVE \E d \in Index(boxes) : SameKey(d, e)
  <2> DEFINE T == {d \in Keyed(boxes) : SameKey(d, e)}
  <2>1. T \in SUBSET Keyed(boxes) /\ T # {} BY DEF SameKey
  <2>2. PICK a \in T : \A d \in T : ~Before(a, d)
    <3> HIDE DEF T
    <3> QED BY <2>1, LastOf
  <2>3. ASSUME NEW d \in Keyed(boxes), SameKey(a, d) PROVE d \in T BY <2>3, <2>2 DEF SameKey
  <2>4. a \in Index(boxes) BY <2>2, <2>3 DEF Index
  <2> QED BY <2>2, <2>4
<1> QED BY <1>1 DEF Index

\* No key is in the index twice.
LEMMA IndexOnce ==
  ASSUME NEW boxes \in BoxLists, NEW d \in Index(boxes), NEW e \in Index(boxes), SameKey(d, e)
  PROVE  d = e
<1>1. d \in Keyed(boxes) /\ e \in Keyed(boxes) /\ ~Before(d, e) /\ ~Before(e, d)
  BY DEF Index, SameKey
<1>2. /\ d.box \in Nat /\ d.pos \in Nat /\ e.box \in Nat /\ e.pos \in Nat
      /\ d = Cell(boxes, d.box, d.pos) /\ e = Cell(boxes, e.box, e.pos)
  BY <1>1, KeyedIs, BoxesAre
<1>3. d.box = e.box /\ d.pos = e.pos BY ONLY <1>1, <1>2 DEF Before
<1> QED BY <1>2, <1>3, Zenon

\* An owner of the file has a box for its new commands, and that is not empty.
LEMMA BoxForIs ==
  ASSUME NEW boxes \in BoxLists, NEW o, OwnedBy(o, Keyed(boxes)) # {}
  PROVE  BoxFor(boxes, o) \in 1..Len(boxes) /\ Len(boxes[BoxFor(boxes, o)]) > 0
<1> DEFINE own == OwnedBy(o, Keyed(boxes))
           first == CHOOSE e \in own : \A d \in own : ~Before(d, e)
           last == CHOOSE e \in Index(boxes) : SameKey(e, first)
<1>1. own \in SUBSET Keyed(boxes) /\ own # {} BY DEF OwnedBy
<1>2. first \in Keyed(boxes)
  <2>1. \E e \in own : \A d \in own : ~Before(d, e)
    <3> HIDE DEF own
    <3> QED BY <1>1, FirstOf
  <2> QED BY <1>1, <2>1
<1>3. BoxFor(boxes, o) = last.box BY DEF BoxFor
<1> HIDE DEF first
<1>4. last \in Keyed(boxes) BY <1>2, IndexHas
<1> HIDE DEF last
<1>5. last.box \in 1..Len(boxes) /\ last.pos \in 1..Len(boxes[last.box]) BY <1>4, KeyedIs
<1>6. Len(boxes[last.box]) \in Nat BY <1>5, BoxesAre
<1> QED BY <1>3, <1>5, <1>6

----------------------------------------
(* A file and its captions. *)

CapLists == Seq(Captions)

\* A caption that closes itself holds nothing; the first one is read.
LEMMA CapsAre ==
  ASSUME NEW caps \in CapLists
  PROVE  /\ Len(caps) \in Nat /\ DOMAIN caps = 1..Len(caps) /\ (caps = <<>> <=> Len(caps) = 0)
         /\ \A c \in 1..Len(caps) : /\ caps[c] \in Captions /\ caps[c].boxes \in BoxLists /\ caps[c].open \in BOOLEAN
                                    /\ ~caps[c].open => caps[c].boxes = <<>>
         /\ Boxes(caps) \in BoxLists
         /\ ~TakesBoxes(caps) => Boxes(caps) = <<>>
         /\ TakesBoxes(caps) => 1 \in 1..Len(caps) /\ caps[1].open /\ Boxes(caps) = caps[1].boxes
<1>1. /\ Len(caps) \in Nat /\ DOMAIN caps = 1..Len(caps) /\ (caps = <<>> <=> Len(caps) = 0)
      /\ \A c \in 1..Len(caps) : caps[c] \in Captions
  BY LenProperties, ElementOfSeq, EmptySeq DEF CapLists
<1>2. <<>> \in BoxLists BY DEF BoxLists
<1>3. \A c \in Captions : c.boxes \in BoxLists /\ c.open \in BOOLEAN /\ (~c.open => c.boxes = <<>>)
  <2>1. Captions = [open : {TRUE}, boxes : BoxLists] \cup {[open |-> FALSE, boxes |-> <<>>]}
    BY DEF Captions, BoxLists
  <2>2. ASSUME NEW c \in [open : {TRUE}, boxes : BoxLists]
        PROVE  c.boxes \in BoxLists /\ c.open = TRUE
    BY <2>2
  <2>3. ASSUME NEW c, c = [open |-> FALSE, boxes |-> <<>>] PROVE c.boxes = <<>> /\ c.open = FALSE
    BY <2>3
  <2>4. ASSUME NEW c \in Captions
        PROVE  c.boxes \in BoxLists /\ c.open \in BOOLEAN /\ (~c.open => c.boxes = <<>>)
    <3>1. c \in [open : {TRUE}, boxes : BoxLists] \/ c = [open |-> FALSE, boxes |-> <<>>]
      BY <2>1, Zenon
    <3>2. CASE c \in [open : {TRUE}, boxes : BoxLists] BY <2>2, <3>2
    <3>3. CASE c = [open |-> FALSE, boxes |-> <<>>] BY <1>2, <2>3, <3>3
    <3> QED BY <3>1, <3>2, <3>3
  <2> QED BY <2>4
<1>4. caps # <<>> => 1 \in 1..Len(caps) BY <1>1
<1>5. Boxes(caps) \in BoxLists BY <1>1, <1>2, <1>3, <1>4 DEF Boxes
<1>6. ~TakesBoxes(caps) => Boxes(caps) = <<>> BY <1>1, <1>3, <1>4 DEF Boxes, TakesBoxes
<1>7. TakesBoxes(caps) => 1 \in 1..Len(caps) /\ caps[1].open /\ Boxes(caps) = caps[1].boxes
  BY <1>4 DEF Boxes, TakesBoxes
<1> QED BY <1>1, <1>3, <1>5, <1>6, <1>7

\* The parts of a project file.
LEMMA ProjectIs ==
  ASSUME NEW f \in Projects
  PROVE  /\ Len(f.lives) \in Nat /\ DOMAIN f.lives = 1..Len(f.lives)
         /\ \A l \in 1..Len(f.lives) : f.lives[l] \in Miniservers /\ \A k \in CmdKinds : f.lives[l].caps[k] \in CapLists
         /\ f.places \in Seq(STRING \X STRING) /\ f.placesOpen \in BOOLEAN /\ f.rights \in BOOLEAN /\ f.next \in Nat
<1>1. f.lives \in Seq(Miniservers) BY DEF Projects
<1>2. /\ Len(f.lives) \in Nat /\ DOMAIN f.lives = 1..Len(f.lives)
      /\ \A l \in 1..Len(f.lives) : f.lives[l] \in Miniservers
  BY <1>1, LenProperties, ElementOfSeq
<1>3. \A m \in Miniservers, k \in CmdKinds : m.caps[k] \in CapLists BY DEF Miniservers, CapLists
<1> QED BY <1>2, <1>3 DEF Projects

\* Where boxes and commands stand.
LEMMA PlacesInCaps ==
  ASSUME NEW caps \in CapLists
  PROVE  /\ \A x : x \in BoxesAt(caps) <=>
                     \E c \in 1..Len(caps) : \E b \in 1..Len(caps[c].boxes) : x = <<c, b>>
         /\ \A x : x \in CmdsAt(caps) <=>
                     \E c \in 1..Len(caps) : \E b \in 1..Len(caps[c].boxes) :
                       \E n \in 1..Len(caps[c].boxes[b]) : x = <<c, b, n>>
<1>1. \A c \in 1..Len(caps) : /\ DOMAIN caps[c].boxes = 1..Len(caps[c].boxes)
                              /\ \A b \in 1..Len(caps[c].boxes) :
                                   DOMAIN caps[c].boxes[b] = 1..Len(caps[c].boxes[b])
  BY CapsAre, BoxesAre
<1>2. DOMAIN caps = 1..Len(caps) BY CapsAre
<1>3. ASSUME NEW x
      PROVE  x \in BoxesAt(caps) <=> \E c \in 1..Len(caps) : \E b \in 1..Len(caps[c].boxes) : x = <<c, b>>
  BY <1>1, <1>2 DEF BoxesAt
<1>4. ASSUME NEW x
      PROVE  x \in CmdsAt(caps) <=> \E c \in 1..Len(caps) : \E b \in 1..Len(caps[c].boxes) :
                                      \E n \in 1..Len(caps[c].boxes[b]) : x = <<c, b, n>>
  <2>1. ASSUME x \in CmdsAt(caps)
        PROVE  \E c \in 1..Len(caps) : \E b \in 1..Len(caps[c].boxes) :
                 \E n \in 1..Len(caps[c].boxes[b]) : x = <<c, b, n>>
    <3>1. PICK y \in BoxesAt(caps) : x \in {<<y[1], y[2], n>> : n \in DOMAIN caps[y[1]].boxes[y[2]]}
      BY <2>1 DEF CmdsAt
    <3>2. PICK c \in 1..Len(caps) : \E b \in 1..Len(caps[c].boxes) : y = <<c, b>> BY <1>3, <3>1
    <3>3. PICK b \in 1..Len(caps[c].boxes) : y = <<c, b>> BY <3>2
    <3>4. PICK n \in DOMAIN caps[c].boxes[b] : x = <<c, b, n>> BY <3>1, <3>3
    <3> QED BY <1>1, <3>4
  <2>2. ASSUME NEW c \in 1..Len(caps), NEW b \in 1..Len(caps[c].boxes),
               NEW n \in 1..Len(caps[c].boxes[b]), x = <<c, b, n>>
        PROVE  x \in CmdsAt(caps)
    <3> DEFINE y == <<c, b>>
    <3>1. y \in BoxesAt(caps) /\ y[1] = c /\ y[2] = b BY <1>3
    <3>2. n \in DOMAIN caps[y[1]].boxes[y[2]] /\ x = <<y[1], y[2], n>> BY <1>1, <2>2, <3>1
    <3> HIDE DEF y
    <3> QED BY <3>1, <3>2 DEF CmdsAt
  <2> QED BY <2>1, <2>2
<1> QED BY <1>3, <1>4

\* A command of the first caption, as the index has it.
LEMMA CmdsOfFirst ==
  ASSUME NEW caps \in CapLists, NEW e \in Keyed(Boxes(caps))
  PROVE  <<1, e.box, e.pos>> \in CmdsAt(caps) /\ CmdAt(caps, <<1, e.box, e.pos>>) = e.cmd
<1>1. e.box \in 1..Len(Boxes(caps)) /\ e.pos \in 1..Len(Boxes(caps)[e.box]) /\ e.cmd = Boxes(caps)[e.box][e.pos]
  BY CapsAre, KeyedIs
<1>2. Boxes(caps) # <<>> BY <1>1
<1>3. Boxes(caps) = caps[1].boxes /\ 1 \in 1..Len(caps) BY <1>2, CapsAre
<1> QED BY <1>1, <1>3, PlacesInCaps DEF CmdAt

----------------------------------------
(* The plan. *)

NewStatuses == {"new_signal", "new_device"}

\* The owners are listed once.
LEMMA OwnersAre == Owners \in Seq(STRING) /\ Once(Owners)
<1>1. Owners \in Seq(STRING) BY SyncAssumption, ConcatProperties DEF Owners
<1> QED BY <1>1, SyncAssumption DEF Once

\* What each status says of the index (_plan_inputs, _plan_outputs).
LEMMA StatusIs ==
  ASSUME NEW boxes \in BoxLists, NEW k, NEW o, NEW i
  PROVE  LET own   == OwnedBy(o, Index(boxes))
             there == {e \in own : KeyOf(e.cmd)[2] = i}
             is    == Status(Index(boxes), k, o, i)
         IN  /\ is \in NewStatuses <=> there = {} /\ (own # {} => \A e \in own : e.cmd.title # i)
             /\ is = "new_device" <=> own = {}
             /\ there = {} => is # "updated"
             /\ \A e \in there : is = "updated" <=> HasRequired(k, e.cmd) /\ e.cmd.value # house[o].rev
<1> DEFINE own == OwnedBy(o, Index(boxes))
           there == {e \in own : KeyOf(e.cmd)[2] = i}
           is == Status(Index(boxes), k, o, i)
           it == CHOOSE e \in there : TRUE
           Fine == \A e \in own : e.cmd.title # i
           Needs == HasRequired(k, it.cmd)
           Off == it.cmd.value # house[o].rev
<1>1. is = IF there # {}
           THEN CASE ~Needs -> "conflict" [] Needs /\ Off -> "updated" [] OTHER -> "unchanged"
           ELSE CASE own = {} -> "new_device" [] ~Fine -> "possible_duplicate" [] OTHER -> "new_signal"
  BY DEF Status
<1>2. there # {} => own # {} /\ it \in there OBVIOUS
<1>3. \A d, e \in there : d = e
  <2> TAKE d \in there, e \in there
  <2>1. d \in Index(boxes) /\ e \in Index(boxes) /\ SameKey(d, e) BY DEF OwnedBy, SameKey, KeyOf
  <2> QED BY <2>1, IndexOnce
<1>4. own = {} => Fine OBVIOUS
<1> DEFINE Some == there # {}
           None == own = {}
<1>5. /\ is = IF Some
           THEN CASE ~Needs -> "conflict" [] Needs /\ Off -> "updated" [] OTHER -> "unchanged"
           ELSE CASE None -> "new_device" [] ~Fine -> "possible_duplicate" [] OTHER -> "new_signal"
      /\ Some => ~None
      /\ None => Fine
  BY <1>1, <1>2, <1>4
<1> HIDE DEF is, Needs, Off, Fine, Some, None
<1>6. CASE Some
  <2>1. is = CASE ~Needs -> "conflict" [] Needs /\ Off -> "updated" [] OTHER -> "unchanged"
    BY ONLY <1>5, <1>6
  <2>2. is = "updated" <=> Needs /\ Off BY ONLY <2>1
  <2>3. is \in {"conflict", "updated", "unchanged"} BY ONLY <2>1
  <2>4. \A e \in there : e = it BY <1>2, <1>3, <1>6 DEF Some
  <2>5. \A e \in there : is = "updated" <=> HasRequired(k, e.cmd) /\ e.cmd.value # house[o].rev
    BY <2>2, <2>4 DEF Needs, Off
  <2>6. is \notin NewStatuses /\ is # "new_device" BY <2>3 DEF NewStatuses
  <2> QED BY <1>5, <1>6, <2>5, <2>6 DEF is, Some, None
<1>7. CASE ~Some
  <2>1. is = CASE None -> "new_device" [] ~Fine -> "possible_duplicate" [] OTHER -> "new_signal"
    BY ONLY <1>5, <1>7
  <2>2. /\ None => is = "new_device"
        /\ ~Fine => is = "possible_duplicate"
        /\ ~None /\ Fine => is = "new_signal"
    BY ONLY <1>5, <2>1
  <2>3. /\ is = "new_device" <=> None
        /\ is \in NewStatuses <=> Fine
        /\ is # "updated"
    BY ONLY <1>5, <2>2 DEF NewStatuses
  <2> QED BY <1>5, <1>7, <2>3 DEF is, Some, None, Fine
<1> QED BY <1>6, <1>7

\* What a plan says of one kind of command, of which the file has the boxes.
FitsPlan(plan, k, boxes) ==
    /\ \A e \in plan : e.kind = k =>
         /\ e.owner \in ToSet(Owners) /\ e.item \in ToSet(Wants(k, e.owner))
         /\ e.status = Status(Index(boxes), k, e.owner, e.item)
         /\ e = [kind |-> k, owner |-> e.owner, item |-> e.item, status |-> e.status]
    /\ \A o \in ToSet(Owners) : \A i \in ToSet(Wants(k, o)) :
         [kind |-> k, owner |-> o, item |-> i, status |-> Status(Index(boxes), k, o, i)] \in plan

\* The plan says of each wanted key what the index has of it, and nothing else.
LEMMA PlanFits ==
  ASSUME NEW l, NEW k \in CmdKinds
  PROVE  FitsPlan(SyncPlan(l), k, Boxes(Caps(l, k)))
<1> DEFINE Of(q, o) == {[kind |-> q, owner |-> o, item |-> i, status |-> Status(Index(Boxes(Caps(l, q))), q, o, i)] :
                          i \in ToSet(Wants(q, o))}
<1>1. SyncPlan(l) = UNION {UNION {Of(q, o) : q \in CmdKinds} : o \in ToSet(Owners)} BY DEF SyncPlan
<1>2. \A e : e \in SyncPlan(l) <=> \E o \in ToSet(Owners) : \E q \in CmdKinds : e \in Of(q, o)
  <2> HIDE DEF Of
  <2> QED BY <1>1
<1>3. ASSUME NEW e \in SyncPlan(l), e.kind = k
      PROVE  /\ e.owner \in ToSet(Owners) /\ e.item \in ToSet(Wants(k, e.owner))
             /\ e.status = Status(Index(Boxes(Caps(l, k))), k, e.owner, e.item)
             /\ e = [kind |-> k, owner |-> e.owner, item |-> e.item, status |-> e.status]
  <2>1. PICK o \in ToSet(Owners), q \in CmdKinds : e \in Of(q, o) BY <1>2
  <2>2. PICK i \in ToSet(Wants(q, o)) :
          e = [kind |-> q, owner |-> o, item |-> i, status |-> Status(Index(Boxes(Caps(l, q))), q, o, i)]
    BY <2>1
  <2>3. q = k BY <1>3, <2>2
  <2> QED BY <2>2, <2>3
<1>4. ASSUME NEW o \in ToSet(Owners), NEW i \in ToSet(Wants(k, o))
      PROVE  [kind |-> k, owner |-> o, item |-> i, status |-> Status(Index(Boxes(Caps(l, k))), k, o, i)]
               \in SyncPlan(l)
  <2>1. [kind |-> k, owner |-> o, item |-> i, status |-> Status(Index(Boxes(Caps(l, k))), k, o, i)] \in Of(k, o)
    OBVIOUS
  <2> HIDE DEF Of
  <2> QED BY <1>2, <2>1
<1> QED BY <1>3, <1>4 DEF FitsPlan

\* The wanted items with a status, none twice.
LEMMA WithIs ==
  ASSUME HouseOK, NEW k \in CmdKinds, NEW boxes, NEW plan, FitsPlan(plan, k, boxes),
         NEW o \in ToSet(Owners), NEW statuses
  PROVE  /\ With(plan, k, o, statuses) \in Seq(Items) /\ Once(With(plan, k, o, statuses))
         /\ \A i : i \in ToSet(With(plan, k, o, statuses)) <=>
                     i \in ToSet(Wants(k, o)) /\ Status(Index(boxes), k, o, i) \in statuses
<1> DEFINE P == {i \in Items : \E e \in plan :
                   e.kind = k /\ e.owner = o /\ e.item = i /\ e.status \in statuses}
           w == Wants(k, o)
<1>1. w \in Seq(Items) /\ Once(w) BY WantsOK
<1>2. With(plan, k, o, statuses) = Those(w, P) BY DEF With
<1>3. ASSUME NEW i PROVE i \in ToSet(w) \cap P <=> i \in ToSet(w) /\ Status(Index(boxes), k, o, i) \in statuses
  <2>1. ToSet(w) \in SUBSET Items BY <1>1, ToSetIs
  <2>2. ASSUME i \in ToSet(w), i \in P PROVE Status(Index(boxes), k, o, i) \in statuses
    BY <2>2 DEF FitsPlan
  <2>3. ASSUME i \in ToSet(w), Status(Index(boxes), k, o, i) \in statuses PROVE i \in P
    <3> DEFINE e == [kind |-> k, owner |-> o, item |-> i, status |-> Status(Index(boxes), k, o, i)]
    <3>1. e \in plan BY <2>3 DEF FitsPlan
    <3>2. e.kind = k /\ e.owner = o /\ e.item = i /\ e.status \in statuses BY <2>3
    <3> HIDE DEF e
    <3> QED BY <2>1, <2>3, <3>1, <3>2
  <2> QED BY <2>2, <2>3
<1> HIDE DEF P, w
<1>4. Those(w, P) \in Seq(Items) /\ ToSet(Those(w, P)) = ToSet(w) \cap P /\ Once(Those(w, P))
  BY <1>1, ThoseIs
<1> QED BY <1>2, <1>3, <1>4 DEF w

\* An owner in the file is in the index.
LEMMA OwnedInIndex ==
  ASSUME NEW boxes \in BoxLists, NEW o
  PROVE  OwnedBy(o, Index(boxes)) = {} <=> OwnedBy(o, Keyed(boxes)) = {}
  BY IndexHas DEF OwnedBy, SameKey

\* Who needs a box is who has something new and nothing in the file.
LEMMA NewcomersAre ==
  ASSUME HouseOK, NEW k \in CmdKinds, NEW boxes \in BoxLists, NEW plan, FitsPlan(plan, k, boxes)
  PROVE  /\ Newcomers(plan, k) \in Seq(ToSet(Owners)) /\ Once(Newcomers(plan, k))
         /\ \A o : o \in ToSet(Newcomers(plan, k)) <=>
              o \in ToSet(Owners) /\ NewOf(plan, k, o) # <<>> /\ OwnedBy(o, Keyed(boxes)) = {}
<1> DEFINE P == {o \in DOMAIN house : With(plan, k, o, {"new_device"}) # <<>>}
           n == Newcomers(plan, k)
<1>1. Owners \in Seq(ToSet(Owners)) /\ Once(Owners) BY OwnersAre, SeqOfRange, ToSetIs DEF ToSet
<1>2. n \in Seq(ToSet(Owners)) /\ ToSet(n) = ToSet(Owners) \cap P /\ Once(n)
  <2> HIDE DEF P
  <2>1. n = Those(Owners, P) BY DEF Newcomers, P
  <2> QED BY <1>1, <2>1, ThoseIs
<1>3. ASSUME NEW o \in ToSet(Owners)
      PROVE  o \in P <=> NewOf(plan, k, o) # <<>> /\ OwnedBy(o, Keyed(boxes)) = {}
  <2>1. o \in DOMAIN house BY DEF HouseOK
  <2>2. /\ With(plan, k, o, {"new_device"}) \in Seq(Items)
        /\ \A i : i \in ToSet(With(plan, k, o, {"new_device"})) <=>
                    i \in ToSet(Wants(k, o)) /\ Status(Index(boxes), k, o, i) \in {"new_device"}
    BY WithIs
  <2>3. /\ NewOf(plan, k, o) \in Seq(Items)
        /\ \A i : i \in ToSet(NewOf(plan, k, o)) <=>
                    i \in ToSet(Wants(k, o)) /\ Status(Index(boxes), k, o, i) \in NewStatuses
    BY WithIs DEF NewOf, NewStatuses
  <2>4. \A i : /\ Status(Index(boxes), k, o, i) = "new_device" <=> OwnedBy(o, Keyed(boxes)) = {}
               /\ Status(Index(boxes), k, o, i) = "new_device" => Status(Index(boxes), k, o, i) \in NewStatuses
    BY StatusIs, OwnedInIndex DEF NewStatuses
  <2>5. /\ With(plan, k, o, {"new_device"}) = <<>> <=> ToSet(With(plan, k, o, {"new_device"})) = {}
        /\ NewOf(plan, k, o) = <<>> <=> ToSet(NewOf(plan, k, o)) = {}
    BY <2>2, <2>3, ToSetIs
  <2> QED BY <2>1, <2>2, <2>3, <2>4, <2>5
<1> QED BY <1>2, <1>3

----------------------------------------
(* A new command, and one brought up to date. *)

Spots == Seq(STRING \X STRING)

\* The place of the owner's room is one with the key of the room.
LEMMA PlaceIs ==
  ASSUME NEW places \in Spots, NEW o
  PROVE  /\ PlaceOf(places, o) \in Nat
         /\ PlaceOf(places, o) # 0 <=> /\ house[o].room # Nowhere
                                       /\ \E x \in DOMAIN places : places[x][1] = house[o].room[1]
         /\ PlaceOf(places, o) # 0 => /\ PlaceOf(places, o) \in DOMAIN places
                                      /\ places[PlaceOf(places, o)][1] = house[o].room[1]
<1> DEFINE named == {x \in DOMAIN places : house[o].room # Nowhere /\ places[x][1] = house[o].room[1]}
<1>1. DOMAIN places = 1..Len(places) /\ Len(places) \in Nat BY LenProperties DEF Spots
<1>2. named \in SUBSET Nat /\ 0 \notin named BY <1>1
<1>3. PlaceOf(places, o) = IF named = {} THEN 0 ELSE CHOOSE x \in named : \A y \in named : x <= y
  BY DEF PlaceOf
<1>4. named # {} => PlaceOf(places, o) \in named
  <2> HIDE DEF named
  <2>1. ASSUME named # {} PROVE \E x \in named : \A y \in named : x <= y BY <1>2, <2>1, NatLeast
  <2> QED BY <1>3, <2>1
<1>5. named # {} <=> house[o].room # Nowhere /\ \E x \in DOMAIN places : places[x][1] = house[o].room[1]
  OBVIOUS
<1>6. \A x \in named : x \in DOMAIN places /\ places[x][1] = house[o].room[1] OBVIOUS
<1> HIDE DEF named
<1> DEFINE p == PlaceOf(places, o)
<1>7. (named # {} => p \in named) /\ (named = {} => p = 0) BY <1>3, <1>4
<1> HIDE DEF p
<1>8. p \in Nat /\ (p # 0 <=> named # {})
  <2>1. CASE named = {} BY <1>7, <2>1
  <2>2. CASE named # {} BY <1>2, <1>7, <2>2
  <2> QED BY <2>1, <2>2
<1>9. p # 0 => p \in DOMAIN places /\ places[p][1] = house[o].room[1] BY <1>6, <1>7, <1>8
<1> QED BY <1>5, <1>8, <1>9 DEF p

\* The parts of an export.
LEMMA ExportIs ==
  ASSUME HouseOK, NEW o \in ToSet(Owners)
  PROVE  /\ o \in STRING /\ house[o].rev \in Nat /\ o \in DOMAIN house
         /\ house[o].room \in (STRING \X STRING) \cup {Nowhere}
<1>1. o \in STRING BY OwnersAre, ToSetIs
<1> QED BY <1>1 DEF HouseOK, Exports

\* A command the bridge writes has the key it was written for, its item for a
\* title and the current value.
LEMMA NewCmdIs ==
  ASSUME HouseOK, NEW o \in ToSet(Owners), NEW i \in Items, NEW nb \in Nat, NEW places \in Spots
  PROVE  LET cmd == NewCmd(places, o, i, nb)
         IN  /\ cmd \in Commands /\ KeyOf(cmd) = <<o, i>>
             /\ cmd.name # NoName /\ cmd.owner = o /\ cmd.title = i /\ cmd.value = house[o].rev
             /\ cmd.room = IF PlaceOf(places, o) # 0 THEN PlaceOf(places, o) ELSE nb
<1> DEFINE cmd == NewCmd(places, o, i, nb)
<1>1. o \in Texts /\ house[o].rev \in Nat BY ExportIs DEF Texts
<1>2. NoName \in Texts /\ NoName \notin Items BY SyncAssumption DEF Texts
<1>3. i \in Texts /\ "on" \in Texts /\ "off" \in Texts /\ "on" # NoName /\ "off" # NoName /\ i # NoName
  <2>1. \A j \in Items : j \in Texts /\ j # NoName
    <3> TAKE j \in Items
    <3> QED BY <1>2 DEF Texts
  <2>2. "on" \in Items /\ "off" \in Items BY DEF Items
  <2> QED BY <2>1, <2>2
<1>4. /\ cmd.owner = o /\ cmd.name = (IF i = "pair" THEN "on" ELSE i)
      /\ cmd.off = (IF i = "pair" THEN "off" ELSE NoName) /\ cmd.title = i /\ cmd.value = house[o].rev
      /\ cmd.room = IF PlaceOf(places, o) # 0 THEN PlaceOf(places, o) ELSE nb
  BY DEF NewCmd
<1>5. PlaceOf(places, o) \in Nat BY PlaceIs
<1>6. cmd \in Commands BY <1>1, <1>2, <1>3, <1>5 DEF NewCmd, Commands
<1> HIDE DEF cmd
<1>7. KeyOf(cmd) = <<o, i>> BY <1>3, <1>4 DEF KeyOf
<1> QED BY <1>3, <1>4, <1>6, <1>7 DEF cmd

\* One brought up to date keeps its key, name and title.
LEMMA UpdatedIs ==
  ASSUME HouseOK, NEW cmd \in Commands, KeyOf(cmd)[1] \in ToSet(Owners)
  PROVE  LET new == Updated(cmd)
         IN  /\ new \in Commands /\ KeyOf(new) = KeyOf(cmd) /\ new.value = house[KeyOf(cmd)[1]].rev
             /\ new.name = cmd.name /\ new.title = cmd.title
<1> DEFINE v == house[KeyOf(cmd)[1]].rev
<1>1. v \in Nat BY ExportIs
<1>2. Updated(cmd) = [cmd EXCEPT !.value = v] BY DEF Updated
<1> HIDE DEF v
<1>3. /\ Updated(cmd) \in Commands /\ Updated(cmd).value = v /\ Updated(cmd).name = cmd.name
      /\ Updated(cmd).title = cmd.title /\ Updated(cmd).owner = cmd.owner /\ Updated(cmd).off = cmd.off
  BY <1>1, <1>2 DEF Commands
<1> QED BY <1>3 DEF KeyOf, v

\* What is new to an owner has no key in the file.
LEMMA NewOfIs ==
  ASSUME HouseOK, NEW k \in CmdKinds, NEW boxes \in BoxLists, NEW plan, FitsPlan(plan, k, boxes),
         NEW o \in ToSet(Owners)
  PROVE  /\ NewOf(plan, k, o) \in Seq(Items) /\ Once(NewOf(plan, k, o))
         /\ \A i : i \in ToSet(NewOf(plan, k, o)) <=>
                     i \in ToSet(Wants(k, o)) /\ Status(Index(boxes), k, o, i) \in NewStatuses
         /\ \A i \in ToSet(NewOf(plan, k, o)) : \A e \in Keyed(boxes) : KeyOf(e.cmd) # <<o, i>>
<1>1. /\ NewOf(plan, k, o) \in Seq(Items) /\ Once(NewOf(plan, k, o))
      /\ \A i : i \in ToSet(NewOf(plan, k, o)) <=>
                  i \in ToSet(Wants(k, o)) /\ Status(Index(boxes), k, o, i) \in NewStatuses
  BY WithIs DEF NewOf, NewStatuses
<1>2. ASSUME NEW i \in ToSet(NewOf(plan, k, o)), NEW e \in Keyed(boxes), KeyOf(e.cmd) = <<o, i>>
      PROVE  FALSE
  <2>1. PICK d \in Index(boxes) : SameKey(d, e) BY IndexHas
  <2>2. d \in {c \in OwnedBy(o, Index(boxes)) : KeyOf(c.cmd)[2] = i}
    BY <1>2, <2>1 DEF OwnedBy, SameKey
  <2>3. Status(Index(boxes), k, o, i) \in NewStatuses BY <1>1
  <2> QED BY <2>2, <2>3, StatusIs
<1> QED BY <1>1, <1>2

\* The new commands of an owner, one for each.
LEMMA NewCmdsAre ==
  ASSUME HouseOK, NEW k \in CmdKinds, NEW boxes \in BoxLists, NEW plan, FitsPlan(plan, k, boxes),
         NEW o \in ToSet(Owners), NEW nb \in Nat, NEW places \in Spots
  PROVE  LET cmds == NewCmds(plan, places, k, o, nb)
             new  == NewOf(plan, k, o)
         IN  /\ cmds \in Seq(Commands) /\ Len(cmds) = Len(new)
             /\ \A n \in 1..Len(cmds) : /\ new[n] \in ToSet(new) /\ new[n] \in Items
                                        /\ cmds[n] = NewCmd(places, o, new[n], nb)
<1> DEFINE new == NewOf(plan, k, o)
           cmds == [n \in 1..Len(new) |-> NewCmd(places, o, new[n], nb)]
<1>1. new \in Seq(Items) BY NewOfIs
<1> HIDE DEF new
<1>2. Len(new) \in Nat /\ DOMAIN new = 1..Len(new) /\ \A n \in 1..Len(new) : new[n] \in Items /\ new[n] \in ToSet(new)
  BY <1>1, ToSetIs
<1>3. \A n \in 1..Len(new) : cmds[n] = NewCmd(places, o, new[n], nb) /\ cmds[n] \in Commands
  BY <1>2, NewCmdIs
<1>4. cmds \in Seq(Commands) /\ Len(cmds) = Len(new)
  <2>1. cmds \in [1..Len(new) -> Commands]
    <3>1. cmds = [n \in 1..Len(new) |-> cmds[n]] OBVIOUS
    <3> HIDE DEF cmds
    <3> QED BY <1>3, <3>1
  <2> HIDE DEF cmds
  <2>2. cmds \in Seq(Commands) BY <1>2, <2>1
  <2>3. DOMAIN cmds = 1..Len(cmds) /\ DOMAIN cmds = 1..Len(new) /\ Len(cmds) \in Nat
    BY <2>1, <2>2, LenProperties
  <2>4. \A m, n \in Nat : 1..m = 1..n => m = n
    <3> TAKE m, n \in Nat
    <3> HAVE 1..m = 1..n
    <3>1. m > n => m \in 1..m /\ m \notin 1..n OBVIOUS
    <3>2. n > m => n \in 1..n /\ n \notin 1..m OBVIOUS
    <3> QED BY <3>1, <3>2
  <2> QED BY <1>2, <2>2, <2>3, <2>4
<1>5. NewCmds(plan, places, k, o, nb) = cmds BY <1>2 DEF NewCmds, new
<1> HIDE DEF cmds
<1> QED BY <1>2, <1>3, <1>4, <1>5 DEF new

----------------------------------------
(* What a sync adds to the boxes. *)

\* A list reversed.
LEMMA ReverseIs ==
  ASSUME NEW S, NEW s \in Seq(S)
  PROVE  /\ Reverse(s) \in Seq(S) /\ Len(Reverse(s)) = Len(s)
         /\ \A x \in 1..Len(s) : Len(s) - x + 1 \in 1..Len(s) /\ Reverse(s)[x] = s[Len(s) - x + 1]
<1>1. Len(s) \in Nat /\ \A x \in 1..Len(s) : s[x] \in S BY LenProperties, ElementOfSeq
<1>2. \A x \in 1..Len(s) : Len(s) - x + 1 \in 1..Len(s) /\ (Len(s) - x) + 1 = Len(s) - x + 1 BY <1>1
<1> DEFINE r == [x \in 1..Len(s) |-> s[(Len(s) - x) + 1]]
<1>3. Reverse(s) = r BY DEF Reverse
<1>4. \A x \in 1..Len(s) : r[x] = s[Len(s) - x + 1] /\ r[x] \in S BY <1>1, <1>2
<1>5. r \in [1..Len(s) -> S]
  <2>1. r = [x \in 1..Len(s) |-> r[x]] OBVIOUS
  <2> HIDE DEF r
  <2> QED BY <1>4, <2>1
<1> HIDE DEF r
<1>6. r \in Seq(S) BY <1>1, <1>5
<1>7. Len(r) = Len(s) BY <1>1, <1>5
<1> QED BY <1>2, <1>3, <1>4, <1>6, <1>7

\* At the positions `at' the list g holds the new commands of the owners os,
\* every one once.
Adds(g, at, plan, k, places, nb, os) ==
    /\ \A x \in at : \E o \in os : \E i \in ToSet(NewOf(plan, k, o)) :
         g[x] = NewCmd(places, o, i, nb)
    /\ \A o \in os : \A i \in ToSet(NewOf(plan, k, o)) : \E x \in at :
         g[x] = NewCmd(places, o, i, nb)
    /\ \A x, y \in at : KeyOf(g[x]) = KeyOf(g[y]) => x = y

\* Commands added behind others are the same commands.
LEMMA AddsAfter ==
  ASSUME NEW old \in Seq(Commands), NEW g \in Seq(Commands), NEW plan, NEW k, NEW places, NEW nb, NEW os,
         Adds(g, 1..Len(g), plan, k, places, nb, os)
  PROVE  /\ old \o g \in Seq(Commands) /\ Len(old \o g) = Len(old) + Len(g)
         /\ \A x \in 1..Len(old) : (old \o g)[x] = old[x]
         /\ Adds(old \o g, (Len(old) + 1)..(Len(old) + Len(g)), plan, k, places, nb, os)
<1> DEFINE h == old \o g
           m == Len(old)
<1>1. m \in Nat /\ Len(g) \in Nat BY LenProperties
<1>2. /\ h \in Seq(Commands) /\ Len(h) = m + Len(g)
      /\ \A x \in 1..(m + Len(g)) : h[x] = IF x <= m THEN old[x] ELSE g[x - m]
  BY ConcatProperties
<1> HIDE DEF h, m
<1>3. \A x \in 1..m : h[x] = old[x] BY <1>1, <1>2
<1>4. \A x \in (m + 1)..(m + Len(g)) : x - m \in 1..Len(g) /\ h[x] = g[x - m] BY <1>1, <1>2
<1>5. \A y \in 1..Len(g) : y + m \in (m + 1)..(m + Len(g)) /\ h[y + m] = g[y]
  <2> TAKE y \in 1..Len(g)
  <2>1. y + m \in (m + 1)..(m + Len(g)) /\ y + m \in 1..(m + Len(g)) /\ ~(y + m <= m) /\ y + m - m = y
    BY <1>1, <1>2
  <2>2. \A x \in 1..(m + Len(g)) : ~(x <= m) => h[x] = g[x - m] BY <1>2
  <2> DEFINE x == y + m
  <2>3. x \in 1..(m + Len(g)) /\ ~(x <= m) /\ x - m = y BY <1>1
  <2> HIDE DEF x
  <2>4. h[x] = g[y] BY <2>2, <2>3
  <2> QED BY <2>1, <2>4 DEF x
<1>6. ASSUME NEW x \in (m + 1)..(m + Len(g))
      PROVE  \E o \in os : \E i \in ToSet(NewOf(plan, k, o)) : h[x] = NewCmd(places, o, i, nb)
  BY <1>4 DEF Adds
<1>7. ASSUME NEW o \in os, NEW i \in ToSet(NewOf(plan, k, o))
      PROVE  \E x \in (m + 1)..(m + Len(g)) : h[x] = NewCmd(places, o, i, nb)
  <2>1. PICK y \in 1..Len(g) : g[y] = NewCmd(places, o, i, nb) BY DEF Adds
  <2> QED BY <1>5, <2>1
<1>8. ASSUME NEW x \in (m + 1)..(m + Len(g)), NEW y \in (m + 1)..(m + Len(g)), KeyOf(h[x]) = KeyOf(h[y])
      PROVE  x = y
  <2>1. x - m = y - m BY <1>4, <1>8 DEF Adds
  <2> QED BY <1>1, <1>2, <2>1
<1> QED BY <1>2, <1>3, <1>6, <1>7, <1>8 DEF Adds, h, m

\* The new commands of one owner hold each of its new keys once.
LEMMA OneAdds ==
  ASSUME HouseOK, NEW k \in CmdKinds, NEW boxes \in BoxLists, NEW plan, FitsPlan(plan, k, boxes),
         NEW o \in ToSet(Owners), NEW nb \in Nat, NEW places \in Spots
  PROVE  LET cmds == NewCmds(plan, places, k, o, nb)
         IN  /\ cmds \in Seq(Commands)
             /\ Adds(cmds, 1..Len(cmds), plan, k, places, nb, {o})
             /\ \A x \in 1..Len(cmds) : KeyOf(cmds[x]) = <<o, NewOf(plan, k, o)[x]>>
<1> DEFINE new == NewOf(plan, k, o)
           cmds == NewCmds(plan, places, k, o, nb)
<1>1. new \in Seq(Items) /\ Once(new) BY NewOfIs
<1>2. /\ cmds \in Seq(Commands) /\ Len(cmds) = Len(new)
      /\ \A n \in 1..Len(cmds) : /\ new[n] \in ToSet(new) /\ new[n] \in Items
                                 /\ cmds[n] = NewCmd(places, o, new[n], nb)
  BY NewCmdsAre
<1> HIDE DEF cmds
<1>3. /\ DOMAIN new = 1..Len(new) /\ Len(new) \in Nat
      /\ \A i : i \in ToSet(new) <=> \E n \in 1..Len(new) : i = new[n]
  BY <1>1, ToSetIs
<1>4. \A x \in 1..Len(cmds) : KeyOf(cmds[x]) = <<o, new[x]>> BY <1>2, NewCmdIs
<1>5. ASSUME NEW x \in 1..Len(cmds), NEW y \in 1..Len(cmds), KeyOf(cmds[x]) = KeyOf(cmds[y]) PROVE x = y
  <2>1. new[x] = new[y] BY <1>4, <1>5
  <2> QED BY <1>1, <1>2, <1>3, <2>1 DEF Once
<1>6. ASSUME NEW i \in ToSet(new) PROVE \E x \in 1..Len(cmds) : cmds[x] = NewCmd(places, o, i, nb)
  BY <1>2, <1>3
<1>8. Adds(cmds, 1..Len(cmds), plan, k, places, nb, {o}) BY <1>2, <1>5, <1>6 DEF Adds
<1> QED BY <1>2, <1>4, <1>8 DEF cmds

\* Put at one place, those of several owners do.
LEMMA AllAdd ==
  ASSUME HouseOK, NEW k \in CmdKinds, NEW boxes \in BoxLists, NEW plan, FitsPlan(plan, k, boxes),
         NEW places \in Spots, NEW nb, NEW os \in SUBSET ToSet(Owners), os # {} => nb \in Nat,
         NEW p, p = [n \in 1..Len(Owners) |->
                       IF Owners[n] \in os THEN NewCmds(plan, places, k, Owners[n], nb) ELSE <<>>]
  PROVE  LET g == Reverse(FlattenSeq(p))
         IN  g \in Seq(Commands) /\ Adds(g, 1..Len(g), plan, k, places, nb, os)
<1> DEFINE N == Len(Owners)
           f == FlattenSeq(p)
           g == Reverse(f)
<1>1. /\ N \in Nat /\ DOMAIN Owners = 1..N /\ Once(Owners)
      /\ \A o : o \in ToSet(Owners) <=> \E n \in 1..N : o = Owners[n]
  BY OwnersAre, ToSetIs
<1> HIDE DEF N
<1>0. ASSUME NEW o \in os
      PROVE  LET cmds == NewCmds(plan, places, k, o, nb)
             IN  /\ cmds \in Seq(Commands)
                 /\ Adds(cmds, 1..Len(cmds), plan, k, places, nb, {o})
                 /\ \A x \in 1..Len(cmds) : KeyOf(cmds[x]) = <<o, NewOf(plan, k, o)[x]>>
  <2>1. o \in ToSet(Owners) /\ nb \in Nat BY <1>0
  <2> QED BY ONLY <2>1, OneAdds, HouseOK, k \in CmdKinds, boxes \in BoxLists, FitsPlan(plan, k, boxes), places \in Spots
<1>2. ASSUME NEW n \in 1..N, Owners[n] \in os
      PROVE  /\ p[n] = NewCmds(plan, places, k, Owners[n], nb) /\ p[n] \in Seq(Commands)
             /\ Adds(p[n], 1..Len(p[n]), plan, k, places, nb, {Owners[n]}) /\ Owners[n] \in ToSet(Owners)
             /\ \A x \in 1..Len(p[n]) : KeyOf(p[n][x]) = <<Owners[n], NewOf(plan, k, Owners[n])[x]>>
  <2>1. p[n] = NewCmds(plan, places, k, Owners[n], nb) BY <1>2 DEF N
  <2>2. nb \in Nat /\ Owners[n] \in ToSet(Owners) BY <1>1, <1>2
  <2> DEFINE cmds == NewCmds(plan, places, k, Owners[n], nb)
  <2>3. /\ cmds \in Seq(Commands)
        /\ Adds(cmds, 1..Len(cmds), plan, k, places, nb, {Owners[n]})
        /\ \A x \in 1..Len(cmds) : KeyOf(cmds[x]) = <<Owners[n], NewOf(plan, k, Owners[n])[x]>>
    BY <1>0, <1>2
  <2>4. p[n] = cmds BY <2>1
  <2> HIDE DEF cmds
  <2> QED BY ONLY <2>1, <2>2, <2>3, <2>4, Zenon DEF cmds
<1>3. ASSUME NEW n \in 1..N, Owners[n] \notin os PROVE p[n] = <<>> /\ p[n] \in Seq(Commands) /\ Len(p[n]) = 0
  <2>1. p[n] = <<>> BY <1>3 DEF N
  <2> QED BY <2>1, EmptySeq
<1>4. p \in [1..N -> Seq(Commands)]
  <2>1. p = [n \in 1..N |-> p[n]] BY DEF N
  <2>2. \A n \in 1..N : p[n] \in Seq(Commands) BY <1>2, <1>3
  <2> QED BY <2>1, <2>2
<1>5. f \in Seq(Commands) /\ \E of : Comes(f, N, p, of) BY <1>1, <1>4, FlattenComes
<1> HIDE DEF f
<1>6. PICK of : Comes(f, N, p, of) BY <1>5
<1>7. /\ g \in Seq(Commands) /\ Len(g) = Len(f) /\ Len(f) \in Nat
      /\ \A x \in 1..Len(f) : Len(f) - x + 1 \in 1..Len(f) /\ g[x] = f[Len(f) - x + 1]
  BY <1>5, ReverseIs, LenProperties
<1> HIDE DEF g
<1>8. ASSUME NEW x \in 1..Len(f)
      PROVE  \E n \in 1..N, j \in Nat : /\ of[x] = <<n, j>> /\ j \in 1..Len(p[n]) /\ f[x] = p[n][j]
                                        /\ Owners[n] \in os
  <2>1. of[x] \in (1..N) \X Nat /\ of[x][2] \in 1..Len(p[of[x][1]]) /\ f[x] = p[of[x][1]][of[x][2]]
    BY <1>6 DEF Comes
  <2>2. PICK n \in 1..N, j \in Nat : of[x] = <<n, j>>
    <3>1. of[x][1] \in 1..N /\ of[x][2] \in Nat /\ of[x] = <<of[x][1], of[x][2]>> BY ONLY <2>1
    <3> QED BY ONLY <3>1, Zenon
  <2>3. j \in 1..Len(p[n]) /\ f[x] = p[n][j] BY <2>1, <2>2
  <2>4. Len(p[n]) # 0 BY <2>3
  <2>5. Owners[n] \in os BY <1>3, <2>4
  <2> QED BY <2>2, <2>3, <2>5
<1>9. ASSUME NEW x \in 1..Len(f)
      PROVE  \E o \in os : \E i \in ToSet(NewOf(plan, k, o)) : f[x] = NewCmd(places, o, i, nb)
  <2>1. PICK n \in 1..N : \E j \in Nat : /\ of[x] = <<n, j>> /\ j \in 1..Len(p[n]) /\ f[x] = p[n][j]
                                         /\ Owners[n] \in os
    BY <1>8, Zenon
  <2>5. PICK j \in Nat : j \in 1..Len(p[n]) /\ f[x] = p[n][j] /\ Owners[n] \in os
    BY ONLY <2>1, Zenon
  <2>2. Adds(p[n], 1..Len(p[n]), plan, k, places, nb, {Owners[n]}) BY <1>2, <2>1
  <2>3. \E o \in {Owners[n]} : \E i \in ToSet(NewOf(plan, k, o)) : p[n][j] = NewCmd(places, o, i, nb)
    BY ONLY <2>2, <2>5, Zenon DEF Adds
  <2>4. \E i \in ToSet(NewOf(plan, k, Owners[n])) : p[n][j] = NewCmd(places, Owners[n], i, nb)
    BY ONLY <2>3, Zenon
  <2> QED BY ONLY <2>4, <2>5, Zenon
<1>10. ASSUME NEW o \in os, NEW i \in ToSet(NewOf(plan, k, o))
       PROVE  \E x \in 1..Len(f) : f[x] = NewCmd(places, o, i, nb)
  <2>1. PICK n \in 1..N : o = Owners[n] BY <1>1
  <2>2. Adds(p[n], 1..Len(p[n]), plan, k, places, nb, {Owners[n]}) BY <1>2, <2>1
  <2>3. PICK j \in 1..Len(p[n]) : p[n][j] = NewCmd(places, o, i, nb) BY <2>1, <2>2 DEF Adds
  <2>4. PICK x \in 1..Len(f) : of[x] = <<n, j>> BY <1>6 DEF Comes
  <2>5. f[x] = p[of[x][1]][of[x][2]] BY <1>6 DEF Comes
  <2> QED BY <2>3, <2>4, <2>5
<1>11. ASSUME NEW x \in 1..Len(f), NEW y \in 1..Len(f), KeyOf(f[x]) = KeyOf(f[y]) PROVE x = y
  <2>1. PICK n \in 1..N, j \in Nat : /\ of[x] = <<n, j>> /\ j \in 1..Len(p[n]) /\ f[x] = p[n][j]
                                     /\ Owners[n] \in os
    BY <1>8
  <2>2. PICK m \in 1..N, q \in Nat : /\ of[y] = <<m, q>> /\ q \in 1..Len(p[m]) /\ f[y] = p[m][q]
                                     /\ Owners[m] \in os
    BY <1>8
  <2>3. \A r \in 1..N : Owners[r] \in os =>
           \A z \in 1..Len(p[r]) : KeyOf(p[r][z]) = <<Owners[r], NewOf(plan, k, Owners[r])[z]>>
    BY <1>2
  <2>4. Owners[n] = Owners[m]
    <3>1. KeyOf(p[n][j]) = <<Owners[n], NewOf(plan, k, Owners[n])[j]>> BY <2>1, <2>3
    <3>2. KeyOf(p[m][q]) = <<Owners[m], NewOf(plan, k, Owners[m])[q]>> BY <2>2, <2>3
    <3>3. KeyOf(p[n][j]) = KeyOf(p[m][q]) BY <1>11, <2>1, <2>2
    <3> QED BY ONLY <3>1, <3>2, <3>3
  <2>5. n = m BY <1>1, <2>4 DEF Once
  <2>6. j = q
    <3>1. Adds(p[n], 1..Len(p[n]), plan, k, places, nb, {Owners[n]}) BY <1>2, <2>1
    <3>2. \A a, b \in 1..Len(p[n]) : KeyOf(p[n][a]) = KeyOf(p[n][b]) => a = b BY <3>1 DEF Adds
    <3>3. KeyOf(p[n][j]) = KeyOf(p[n][q]) /\ q \in 1..Len(p[n]) BY <1>11, <2>1, <2>2, <2>5
    <3> QED BY <2>1, <3>2, <3>3
  <2>7. of[x] = of[y] BY <2>1, <2>2, <2>5, <2>6
  <2> QED BY <1>6, <2>7 DEF Comes
<1>12. ASSUME NEW x \in 1..Len(g), NEW y \in 1..Len(g), KeyOf(g[x]) = KeyOf(g[y]) PROVE x = y
  <2>1. Len(f) - x + 1 = Len(f) - y + 1
    <3> DEFINE u == Len(f) - x + 1
               v == Len(f) - y + 1
    <3>1. u \in 1..Len(f) /\ v \in 1..Len(f) /\ g[x] = f[u] /\ g[y] = f[v] BY <1>7
    <3> HIDE DEF u, v
    <3>2. u = v BY <1>11, <1>12, <3>1
    <3> QED BY <3>2 DEF u, v
  <2> QED BY <1>7, <2>1
<1>13. ASSUME NEW x \in 1..Len(g)
       PROVE  \E o \in os : \E i \in ToSet(NewOf(plan, k, o)) : g[x] = NewCmd(places, o, i, nb)
  <2>1. x \in 1..Len(f) BY <1>7
  <2>2. PICK u \in 1..Len(f) : g[x] = f[u] BY ONLY <1>7, <2>1, Zenon
  <2>3. \E o \in os : \E i \in ToSet(NewOf(plan, k, o)) : f[u] = NewCmd(places, o, i, nb)
    BY <1>9, Zenon
  <2> QED BY ONLY <2>2, <2>3, Zenon
<1>14. ASSUME NEW o \in os, NEW i \in ToSet(NewOf(plan, k, o))
       PROVE  \E x \in 1..Len(g) : g[x] = NewCmd(places, o, i, nb)
  <2>1. PICK x \in 1..Len(f) : f[x] = NewCmd(places, o, i, nb) BY <1>10
  <2>2. PICK y \in 1..Len(f) : y = Len(f) - x + 1 BY <1>7
  <2>3. Len(f) - y + 1 = x BY <1>7, <2>2
  <2> QED BY <1>7, <2>1, <2>3
<1>15. Adds(g, 1..Len(g), plan, k, places, nb, os) BY <1>12, <1>13, <1>14 DEF Adds
<1> QED BY <1>7, <1>15 DEF f, g

\* A command the plan brings up to date.
Outdated(boxes, k, plan, b, n) ==
    \E e \in Index(boxes) :
      /\ e.box = b /\ e.pos = n
      /\ \E d \in plan : d.kind = k /\ d.status = "updated" /\ KeyOf(e.cmd) = <<d.owner, d.item>>

\* It is one the index has and the bridge wants, with another value.
LEMMA StaleIs ==
  ASSUME NEW k \in CmdKinds, NEW boxes \in BoxLists, NEW plan, FitsPlan(plan, k, boxes),
         NEW e \in Index(boxes)
  PROVE  Outdated(boxes, k, plan, e.box, e.pos) <=>
           /\ KeyOf(e.cmd)[1] \in ToSet(Owners)
           /\ KeyOf(e.cmd)[2] \in ToSet(Wants(k, KeyOf(e.cmd)[1]))
           /\ Status(Index(boxes), k, KeyOf(e.cmd)[1], KeyOf(e.cmd)[2]) = "updated"
<1> DEFINE o == KeyOf(e.cmd)[1]
           i == KeyOf(e.cmd)[2]
           s == Status(Index(boxes), k, o, i)
<1>0. KeyOf(e.cmd) = <<o, i>> BY DEF KeyOf
<1>1. \A d \in Index(boxes) : d.box = e.box /\ d.pos = e.pos => d = e
  <2>1. \A d \in Index(boxes) : d = Cell(boxes, d.box, d.pos) BY IndexHas, KeyedIs
  <2> QED BY <2>1, Zenon
<1>2. ASSUME Outdated(boxes, k, plan, e.box, e.pos)
      PROVE  o \in ToSet(Owners) /\ i \in ToSet(Wants(k, o)) /\ s = "updated"
  <2>1. \E c \in Index(boxes) : /\ c.box = e.box /\ c.pos = e.pos
                                /\ \E d \in plan : d.kind = k /\ d.status = "updated" /\ KeyOf(c.cmd) = <<d.owner, d.item>>
    BY <1>2 DEF Outdated
  <2>2. PICK d \in plan : d.kind = k /\ d.status = "updated" /\ KeyOf(e.cmd) = <<d.owner, d.item>>
    BY <1>1, <2>1
  <2>3. d.owner = o /\ d.item = i BY <2>2
  <2>4. /\ d.owner \in ToSet(Owners) /\ d.item \in ToSet(Wants(k, d.owner))
        /\ d.status = Status(Index(boxes), k, d.owner, d.item)
    BY <2>2 DEF FitsPlan
  <2> QED BY <2>2, <2>3, <2>4
<1>3. ASSUME o \in ToSet(Owners), i \in ToSet(Wants(k, o)), s = "updated"
      PROVE  Outdated(boxes, k, plan, e.box, e.pos)
  <2> DEFINE d == [kind |-> k, owner |-> o, item |-> i, status |-> s]
  <2>1. d \in plan BY <1>3 DEF FitsPlan
  <2>2. d.kind = k /\ d.status = "updated" /\ KeyOf(e.cmd) = <<d.owner, d.item>> BY <1>0, <1>3
  <2> HIDE DEF d
  <2> QED BY <2>1, <2>2 DEF Outdated
<1> QED BY <1>2, <1>3

\* The owners whose new commands go to a box.
GoTo(boxes, b) == {o \in ToSet(Owners) : OwnedBy(o, Keyed(boxes)) # {} /\ BoxFor(boxes, o) = b}

\* A box keeps its commands, the stale ones brought up to date, and gets the new
\* ones of the owners who have theirs in it (_new_signal_edit).
LEMMA GrownIs ==
  ASSUME HouseOK, NEW k \in CmdKinds, NEW boxes \in BoxLists, NEW plan, FitsPlan(plan, k, boxes),
         NEW places \in Spots, NEW b \in 1..Len(boxes)
  PROVE  LET box == boxes[b]
             g   == Grown(boxes, k, plan, places, b)
         IN  /\ g \in Seq(Commands) /\ Len(g) \in Nat /\ Len(box) \in Nat /\ Len(box) <= Len(g)
             /\ \A n \in 1..Len(box) : g[n] = IF Outdated(boxes, k, plan, b, n) THEN Updated(box[n]) ELSE box[n]
             /\ Adds(g, (Len(box) + 1)..Len(g), plan, k, places, box[1].room, GoTo(boxes, b))
             /\ GoTo(boxes, b) # {} => box[1].room \in Nat
<1> DEFINE box == boxes[b]
           nb == box[1].room
           os == GoTo(boxes, b)
           IsStale(n) == Outdated(boxes, k, plan, b, n)
           old == [n \in DOMAIN box |-> IF IsStale(n) THEN Updated(box[n]) ELSE box[n]]
           p == [n \in DOMAIN Owners |-> IF OwnedBy(Owners[n], Keyed(boxes)) = {} \/ BoxFor(boxes, Owners[n]) # b
                                         THEN <<>> ELSE NewCmds(plan, places, k, Owners[n], nb)]
           q == [n \in 1..Len(Owners) |->
                       IF Owners[n] \in os THEN NewCmds(plan, places, k, Owners[n], nb) ELSE <<>>]
           g == Grown(boxes, k, plan, places, b)
<1>1. /\ box \in Seq(Commands) /\ Len(box) \in Nat /\ DOMAIN box = 1..Len(box)
      /\ \A n \in 1..Len(box) : box[n] \in Commands
  BY BoxesAre
<1>2. os # {} => nb \in Nat
  <2> SUFFICES ASSUME NEW o \in os PROVE nb \in Nat OBVIOUS
  <2>1. OwnedBy(o, Keyed(boxes)) # {} /\ BoxFor(boxes, o) = b BY DEF GoTo
  <2>2. Len(boxes[b]) > 0 BY <2>1, BoxForIs
  <2>3. box[1] \in Commands BY <1>1, <2>2
  <2> QED BY <2>3 DEF Commands
<1>3. g = old \o Reverse(FlattenSeq(p))
  <2>1. \A n : IsStale(n) <=>
          \E e \in {e \in Index(boxes) : /\ e.box = b
                                         /\ \E d \in plan : /\ d.kind = k /\ d.status = "updated"
                                                            /\ KeyOf(e.cmd) = <<d.owner, d.item>>} : e.pos = n
    BY DEF Outdated
  <2> DEFINE was == [n \in DOMAIN box |->
                      IF \E e \in {e \in Index(boxes) : /\ e.box = b
                                         /\ \E d \in plan : /\ d.kind = k /\ d.status = "updated"
                                                            /\ KeyOf(e.cmd) = <<d.owner, d.item>>} : e.pos = n
                      THEN Updated(box[n]) ELSE box[n]]
  <2>2. old = was
    <3> HIDE DEF IsStale
    <3> QED BY <2>1
  <2>3. g = was \o Reverse(FlattenSeq(p)) BY DEF Grown
  <2> HIDE DEF was, old, p, g
  <2> QED BY <2>2, <2>3
<1>4. p = q
  <2>1. DOMAIN Owners = 1..Len(Owners) BY OwnersAre, ToSetIs
  <2>2. \A n \in 1..Len(Owners) : Owners[n] \in ToSet(Owners) BY OwnersAre, ToSetIs
  <2>3. \A n \in 1..Len(Owners) : Owners[n] \in os <=> ~(OwnedBy(Owners[n], Keyed(boxes)) = {} \/ BoxFor(boxes, Owners[n]) # b)
    BY <2>2 DEF GoTo
  <2> HIDE DEF os
  <2> QED BY <2>1, <2>3
<1>5. os \in SUBSET ToSet(Owners) BY DEF GoTo
<1> DEFINE r == Reverse(FlattenSeq(q))
<1>6. r \in Seq(Commands) /\ Adds(r, 1..Len(r), plan, k, places, nb, os)
  <2> HIDE DEF os, nb
  <2> QED BY <1>2, <1>5, AllAdd
<1>7. ASSUME NEW n \in 1..Len(box)
      PROVE  old[n] = (IF IsStale(n) THEN Updated(box[n]) ELSE box[n]) /\ old[n] \in Commands
  <2>1. n \in DOMAIN box /\ box[n] \in Commands BY <1>1
  <2>2. old[n] = IF IsStale(n) THEN Updated(box[n]) ELSE box[n] BY <2>1
  <2>3. ASSUME IsStale(n) PROVE Updated(box[n]) \in Commands
    <3>1. PICK e \in Index(boxes) : e.box = b /\ e.pos = n BY <2>3 DEF Outdated
    <3>2. e.cmd = box[n] BY <3>1, IndexHas, KeyedIs
    <3>3. KeyOf(box[n])[1] \in ToSet(Owners) BY <2>3, <3>1, <3>2, StaleIs
    <3> QED BY <2>1, <3>3, UpdatedIs
  <2> HIDE DEF IsStale, old
  <2> QED BY <2>1, <2>2, <2>3
<1>8. old \in Seq(Commands) /\ Len(old) = Len(box)
  <2>1. old = [n \in 1..Len(box) |-> old[n]] BY <1>1
  <2> HIDE DEF old
  <2>2. old \in [1..Len(box) -> Commands] BY <1>7, <2>1
  <2> QED BY <1>1, <2>2
<1> HIDE DEF old, p, q, os, nb, IsStale, g
<1>9. g = old \o r BY <1>3, <1>4
<1> HIDE DEF r, box
<1>10. /\ g \in Seq(Commands) /\ Len(g) = Len(old) + Len(r)
       /\ \A x \in 1..Len(old) : g[x] = old[x]
       /\ Adds(g, (Len(old) + 1)..(Len(old) + Len(r)), plan, k, places, nb, os)
  BY <1>6, <1>8, <1>9, AddsAfter
<1>11. Len(r) \in Nat BY <1>6, LenProperties
<1>12. Len(g) \in Nat /\ Len(box) <= Len(g) BY <1>1, <1>8, <1>10, <1>11
<1>13. Adds(g, (Len(box) + 1)..Len(g), plan, k, places, nb, os) BY <1>8, <1>10
<1>14. \A n \in 1..Len(box) : g[n] = IF IsStale(n) THEN Updated(box[n]) ELSE box[n]
  BY <1>7, <1>8, <1>10
<1> QED BY <1>1, <1>2, <1>10, <1>12, <1>13, <1>14 DEF box, nb, os, g, IsStale

\* The room of a neighbour is a number (find_any_iodata_attrs).
LEMMA AnyRoomIs ==
  ASSUME NEW boxes \in BoxLists
  PROVE  AnyRoom(boxes) \in Nat
<1> DEFINE all == FlattenSeq(boxes)
           P == {cmd \in Commands : cmd.room # 0}
           rooms == Those(all, P)
<1>1. Len(boxes) \in Nat /\ boxes \in [1..Len(boxes) -> Seq(Commands)] BY LenProperties DEF BoxLists
<1>2. all \in Seq(Commands) BY <1>1, FlattenComes
<1> HIDE DEF all, P
<1>3. rooms \in Seq(Commands) BY <1>2, ThoseIs
<1>4. AnyRoom(boxes) = IF rooms = <<>> THEN 0 ELSE rooms[1].room BY DEF AnyRoom, all, P
<1> HIDE DEF rooms
<1>5. ASSUME rooms # <<>> PROVE rooms[1].room \in Nat
  <2>1. 1 \in 1..Len(rooms) BY <1>3, <1>5, EmptySeq
  <2>2. rooms[1] \in Commands BY <1>3, <2>1, ElementOfSeq
  <2> QED BY <2>2 DEF Commands
<1> QED BY <1>4, <1>5

\* The new boxes are those of the newcomers, one each (_new_device_edit).
LEMMA NewBoxesAre ==
  ASSUME HouseOK, NEW k \in CmdKinds, NEW boxes \in BoxLists, NEW plan, FitsPlan(plan, k, boxes),
         NEW places \in Spots
  PROVE  LET q   == Reverse(NewBoxes(boxes, k, plan, places))
             own == Reverse(Newcomers(plan, k))
             m   == Len(Newcomers(plan, k))
         IN  /\ q \in BoxLists /\ m \in Nat /\ Len(q) = m
             /\ \A j \in 1..m : /\ own[j] \in ToSet(Newcomers(plan, k)) /\ own[j] \in ToSet(Owners)
                                /\ q[j] \in Seq(Commands)
                                /\ Adds(q[j], 1..Len(q[j]), plan, k, places, AnyRoom(boxes), {own[j]})
             /\ \A o \in ToSet(Newcomers(plan, k)) : \E j \in 1..m : own[j] = o
             /\ \A i, j \in 1..m : own[i] = own[j] => i = j
<1> DEFINE c == Newcomers(plan, k)
           m == Len(c)
           nb == AnyRoom(boxes)
           s == [n \in DOMAIN c |-> NewCmds(plan, places, k, c[n], nb)]
           q == Reverse(s)
           own == Reverse(c)
<1>1. c \in Seq(ToSet(Owners)) /\ Once(c) BY NewcomersAre
<1>2. NewBoxes(boxes, k, plan, places) = s BY DEF NewBoxes
<1>3. nb \in Nat BY AnyRoomIs
<1> HIDE DEF c, nb
<1>4. /\ m \in Nat /\ DOMAIN c = 1..m /\ \A n \in 1..m : c[n] \in ToSet(Owners)
      /\ \A o : o \in ToSet(c) <=> \E n \in 1..m : o = c[n]
  BY <1>1, ToSetIs, ElementOfSeq
<1>5. \A o \in ToSet(Owners) :
        LET cmds == NewCmds(plan, places, k, o, nb)
        IN  cmds \in Seq(Commands) /\ Adds(cmds, 1..Len(cmds), plan, k, places, nb, {o})
  BY <1>3, OneAdds
<1>6. \A n \in 1..m : s[n] = NewCmds(plan, places, k, c[n], nb) BY <1>4
<1>7. s \in [1..m -> Seq(Commands)]
  <2>1. s = [n \in 1..m |-> s[n]] BY <1>4
  <2>2. \A n \in 1..m : s[n] \in Seq(Commands) BY <1>4, <1>5, <1>6
  <2> HIDE DEF s
  <2> QED BY <2>1, <2>2
<1> HIDE DEF s, m
<1>8. s \in Seq(Seq(Commands)) /\ Len(s) = m BY <1>4, <1>7
<1>9. /\ q \in Seq(Seq(Commands)) /\ Len(q) = m
      /\ \A x \in 1..m : m - x + 1 \in 1..m /\ q[x] = s[m - x + 1]
  BY <1>8, ReverseIs
<1>10. \A x \in 1..m : own[x] = c[m - x + 1] BY <1>1, ReverseIs DEF m
<1> HIDE DEF q, own
<1>11. ASSUME NEW j \in 1..m
       PROVE  /\ own[j] \in ToSet(c) /\ own[j] \in ToSet(Owners) /\ q[j] \in Seq(Commands)
              /\ Adds(q[j], 1..Len(q[j]), plan, k, places, nb, {own[j]})
  <2> DEFINE n == m - j + 1
  <2>1. n \in 1..m /\ q[j] = s[n] /\ own[j] = c[n] BY <1>9, <1>10
  <2> HIDE DEF n
  <2>2. q[j] = NewCmds(plan, places, k, own[j], nb) BY <1>6, <2>1
  <2>3. own[j] \in ToSet(Owners) /\ own[j] \in ToSet(c) BY <1>4, <2>1
  <2>4. /\ NewCmds(plan, places, k, own[j], nb) \in Seq(Commands)
        /\ Adds(NewCmds(plan, places, k, own[j], nb), 1..Len(NewCmds(plan, places, k, own[j], nb)),
                plan, k, places, nb, {own[j]})
    BY <1>5, <2>3
  <2> QED BY <2>2, <2>3, <2>4
<1>12. ASSUME NEW o \in ToSet(c) PROVE \E j \in 1..m : own[j] = o
  <2>1. PICK n \in 1..m : o = c[n] BY <1>4
  <2>2. PICK j \in 1..m : j = m - n + 1 BY <1>4
  <2>3. m - j + 1 = n BY <1>4, <2>2
  <2> QED BY <1>10, <2>1, <2>3
<1>13. ASSUME NEW i \in 1..m, NEW j \in 1..m, own[i] = own[j] PROVE i = j
  <2> DEFINE a == m - i + 1
             b == m - j + 1
  <2>1. a \in 1..m /\ b \in 1..m /\ own[i] = c[a] /\ own[j] = c[b] BY <1>9, <1>10
  <2> HIDE DEF a, b
  <2>2. a = b BY <1>1, <1>4, <1>13, <2>1 DEF Once
  <2> QED BY <1>4, <2>2 DEF a, b
<1> QED BY <1>2, <1>4, <1>9, <1>11, <1>12, <1>13 DEF q, own, c, nb, m, BoxLists

\* At the fresh positions the captions hold every new command of the plan
\* once.
Puts(new, fresh, plan, k, places) ==
    /\ \A x \in fresh : \E o \in ToSet(Owners) : \E i \in ToSet(NewOf(plan, k, o)), nb \in Nat :
         CmdAt(new, x) = NewCmd(places, o, i, nb)
    /\ \A o \in ToSet(Owners) : \A i \in ToSet(NewOf(plan, k, o)) : \E x \in fresh :
         KeyOf(CmdAt(new, x)) = <<o, i>>
    /\ \A x, y \in fresh : KeyOf(CmdAt(new, x)) = KeyOf(CmdAt(new, y)) => x = y

\* New commands spread over the boxes Z, no owner's over two.
Spread(new, fresh, plan, k, places, Z, at, nb, os) ==
    /\ \A z \in Z : /\ z = <<z[1], z[2]>> /\ os[z] \subseteq ToSet(Owners)
                    /\ os[z] # {} => nb[z] \in Nat
                    /\ Adds(new[z[1]].boxes[z[2]], at[z], plan, k, places, nb[z], os[z])
    /\ \A y, z \in Z : \A o : o \in os[y] /\ o \in os[z] => y = z
    /\ \A o \in ToSet(Owners) : NewOf(plan, k, o) # <<>> => \E z \in Z : o \in os[z]
    /\ \A x : x \in fresh <=> \E z \in Z : \E n \in at[z] : x = <<z[1], z[2], n>>

\* New commands that no two boxes share are every new command once.
LEMMA SpreadIs ==
  ASSUME HouseOK, NEW k \in CmdKinds, NEW boxes \in BoxLists, NEW plan, FitsPlan(plan, k, boxes),
         NEW places \in Spots, NEW new, NEW Z, NEW at, NEW nb, NEW os, NEW fresh,
         Spread(new, fresh, plan, k, places, Z, at, nb, os)
  PROVE  Puts(new, fresh, plan, k, places)
<1>0. /\ \A z \in Z : /\ z = <<z[1], z[2]>> /\ os[z] \subseteq ToSet(Owners)
                      /\ os[z] # {} => nb[z] \in Nat
                      /\ Adds(new[z[1]].boxes[z[2]], at[z], plan, k, places, nb[z], os[z])
      /\ \A y, z \in Z : \A o : o \in os[y] /\ o \in os[z] => y = z
      /\ \A o \in ToSet(Owners) : NewOf(plan, k, o) # <<>> => \E z \in Z : o \in os[z]
      /\ \A x : x \in fresh <=> \E z \in Z : \E n \in at[z] : x = <<z[1], z[2], n>>
  BY DEF Spread
<1> DEFINE G(z) == new[z[1]].boxes[z[2]]
<1>1. \A z \in Z : \A n : CmdAt(new, <<z[1], z[2], n>>) = G(z)[n] BY DEF CmdAt
<1>2. \A o \in ToSet(Owners) : /\ ToSet(NewOf(plan, k, o)) \in SUBSET Items
                               /\ NewOf(plan, k, o) = <<>> <=> ToSet(NewOf(plan, k, o)) = {}
  BY NewOfIs, ToSetIs
<1>3. \A z \in Z : /\ \A n \in at[z] : \E o \in os[z] : \E i \in ToSet(NewOf(plan, k, o)) :
                        G(z)[n] = NewCmd(places, o, i, nb[z])
                   /\ \A o \in os[z] : \A i \in ToSet(NewOf(plan, k, o)) : \E n \in at[z] :
                        G(z)[n] = NewCmd(places, o, i, nb[z])
                   /\ \A n, m \in at[z] : KeyOf(G(z)[n]) = KeyOf(G(z)[m]) => n = m
  BY <1>0 DEF Adds
<1> HIDE DEF G
<1>4. ASSUME NEW z \in Z, NEW n \in at[z]
      PROVE  \E o \in os[z] : \E i \in ToSet(NewOf(plan, k, o)) :
               /\ G(z)[n] = NewCmd(places, o, i, nb[z]) /\ nb[z] \in Nat /\ o \in ToSet(Owners)
               /\ KeyOf(G(z)[n]) = <<o, i>>
  <2>1. PICK o \in os[z] : \E i \in ToSet(NewOf(plan, k, o)) : G(z)[n] = NewCmd(places, o, i, nb[z])
    BY <1>3
  <2>2. PICK i \in ToSet(NewOf(plan, k, o)) : G(z)[n] = NewCmd(places, o, i, nb[z]) BY <2>1
  <2>3. nb[z] \in Nat /\ o \in ToSet(Owners) BY <1>0, <2>1
  <2>4. i \in Items BY <1>2, <2>2, <2>3
  <2>5. KeyOf(G(z)[n]) = <<o, i>> BY <2>2, <2>3, <2>4, NewCmdIs
  <2> QED BY <2>2, <2>3, <2>5
<1>5. ASSUME NEW x \in fresh
      PROVE  \E o \in ToSet(Owners) : \E i \in ToSet(NewOf(plan, k, o)), b \in Nat :
               CmdAt(new, x) = NewCmd(places, o, i, b)
  <2>1. PICK z \in Z : \E n \in at[z] : x = <<z[1], z[2], n>> BY <1>0
  <2>2. PICK n \in at[z] : x = <<z[1], z[2], n>> BY <2>1
  <2> QED BY <1>1, <1>4, <2>2
<1>6. ASSUME NEW o \in ToSet(Owners), NEW i \in ToSet(NewOf(plan, k, o))
      PROVE  \E x \in fresh : KeyOf(CmdAt(new, x)) = <<o, i>>
  <2>1. PICK z \in Z : o \in os[z] BY <1>0, <1>2
  <2>2. PICK n \in at[z] : G(z)[n] = NewCmd(places, o, i, nb[z]) BY <1>3, <2>1
  <2>3. nb[z] \in Nat /\ i \in Items BY <1>0, <1>2, <2>1
  <2>4. KeyOf(G(z)[n]) = <<o, i>> BY <2>2, <2>3, NewCmdIs
  <2>5. <<z[1], z[2], n>> \in fresh BY <1>0
  <2> QED BY <1>1, <2>4, <2>5
<1>7. ASSUME NEW x \in fresh, NEW y \in fresh, KeyOf(CmdAt(new, x)) = KeyOf(CmdAt(new, y))
      PROVE  x = y
  <2>1. PICK z \in Z : \E n \in at[z] : x = <<z[1], z[2], n>> BY <1>0
  <2>2. PICK n \in at[z] : x = <<z[1], z[2], n>> BY <2>1
  <2>3. PICK w \in Z : \E m \in at[w] : y = <<w[1], w[2], m>> BY <1>0
  <2>4. PICK m \in at[w] : y = <<w[1], w[2], m>> BY <2>3
  <2>5. KeyOf(G(z)[n]) = KeyOf(G(w)[m]) BY <1>1, <1>7, <2>2, <2>4
  <2>6. PICK o \in os[z], i \in Items : KeyOf(G(z)[n]) = <<o, i>> BY <1>2, <1>4
  <2>7. PICK p \in os[w], j \in Items : KeyOf(G(w)[m]) = <<p, j>> BY <1>2, <1>4
  <2>8. o = p
    <3>1. <<o, i>> = <<p, j>> BY <2>5, <2>6, <2>7
    <3> QED BY ONLY <3>1
  <2>9. z = w BY <1>0, <2>8
  <2>10. n = m BY <1>3, <2>5, <2>9
  <2> QED BY <2>2, <2>4, <2>9, <2>10
<1> QED BY <1>5, <1>6, <1>7 DEF Puts

\* The captions of one kind after a sync.
Extends(caps, new, k, plan, places) ==
    /\ new \in CapLists
    /\ DOMAIN caps \subseteq DOMAIN new /\ BoxesAt(caps) \subseteq BoxesAt(new)
    /\ CmdsAt(caps) \subseteq CmdsAt(new)
    /\ \A x \in CmdsAt(caps) :
         CmdAt(new, x) = IF x[1] = 1 /\ Outdated(Boxes(caps), k, plan, x[2], x[3])
                         THEN Updated(CmdAt(caps, x)) ELSE CmdAt(caps, x)
    /\ Puts(new, CmdsAt(new) \ CmdsAt(caps), plan, k, places)

\* A caption that takes boxes gets them all at its end.
LEMMA PatchedOpen ==
  ASSUME HouseOK, NEW k \in CmdKinds, NEW caps \in CapLists, TakesBoxes(caps), NEW plan,
         FitsPlan(plan, k, Boxes(caps)), NEW places \in Spots
  PROVE  LET new == Patched(caps, k, plan, places)
         IN  /\ Extends(caps, new, k, plan, places)
             /\ Len(new) = Len(caps) /\ TakesBoxes(new)
             /\ \A x : x \in BoxesAt(new) \ BoxesAt(caps) <=>
                         \E j \in 1..Len(Newcomers(plan, k)) : x = <<1, Len(Boxes(caps)) + j>>
             /\ \A x \in CmdsAt(new) \ CmdsAt(caps) : x[1] = 1
<1> DEFINE boxes == Boxes(caps)
           L == Len(boxes)
           q == Reverse(NewBoxes(boxes, k, plan, places))
           own == Reverse(Newcomers(plan, k))
           m == Len(Newcomers(plan, k))
           grown == [b \in DOMAIN boxes |-> Grown(boxes, k, plan, places, b)]
           news == grown \o q
           new == Patched(caps, k, plan, places)
<1>1. /\ Len(caps) \in Nat /\ DOMAIN caps = 1..Len(caps) /\ boxes \in BoxLists /\ 1 \in 1..Len(caps)
      /\ boxes = caps[1].boxes /\ caps[1].open
      /\ \A c \in 1..Len(caps) : caps[c] \in Captions /\ caps[c].boxes \in BoxLists
  BY CapsAre
<1>2. new = [caps EXCEPT ![1].boxes = news] BY DEF Patched
<1> HIDE DEF boxes
<1>3. /\ L \in Nat /\ DOMAIN boxes = 1..L
      /\ \A b \in 1..L : boxes[b] \in Seq(Commands) /\ Len(boxes[b]) \in Nat
  BY <1>1, BoxesAre
<1>4. /\ q \in BoxLists /\ m \in Nat /\ Len(q) = m
      /\ \A j \in 1..m : /\ own[j] \in ToSet(Newcomers(plan, k)) /\ own[j] \in ToSet(Owners)
                         /\ q[j] \in Seq(Commands)
                         /\ Adds(q[j], 1..Len(q[j]), plan, k, places, AnyRoom(boxes), {own[j]})
      /\ \A o \in ToSet(Newcomers(plan, k)) : \E j \in 1..m : own[j] = o
      /\ \A i, j \in 1..m : own[i] = own[j] => i = j
  <2>1. FitsPlan(plan, k, boxes) BY DEF boxes
  <2>2. boxes \in BoxLists BY <1>1
  <2> HIDE DEF L
  <2> QED BY ONLY HouseOK, k \in CmdKinds, <2>1, <2>2, places \in Spots, NewBoxesAre, Zenon DEF q, own, m
<1>5. \A b \in 1..L :
        /\ grown[b] \in Seq(Commands) /\ Len(grown[b]) \in Nat /\ Len(boxes[b]) <= Len(grown[b])
        /\ \A n \in 1..Len(boxes[b]) :
             grown[b][n] = IF Outdated(boxes, k, plan, b, n) THEN Updated(boxes[b][n]) ELSE boxes[b][n]
        /\ Adds(grown[b], (Len(boxes[b]) + 1)..Len(grown[b]), plan, k, places, boxes[b][1].room, GoTo(boxes, b))
        /\ GoTo(boxes, b) # {} => boxes[b][1].room \in Nat
  <2> TAKE b \in 1..L
  <2>1. FitsPlan(plan, k, boxes) BY DEF boxes
  <2>2. grown[b] = Grown(boxes, k, plan, places, b) BY <1>3
  <2> HIDE DEF grown
  <2> QED BY <1>1, <2>1, <2>2, GrownIs
<1>6. grown \in BoxLists /\ Len(grown) = L
  <2>1. grown = [b \in 1..L |-> grown[b]] BY <1>3
  <2> HIDE DEF grown
  <2>2. grown \in [1..L -> Seq(Commands)] BY <1>5, <2>1
  <2> QED BY <1>3, <2>2 DEF BoxLists
<1> HIDE DEF grown, q, L, own, m
<1>7. /\ news \in BoxLists /\ Len(news) = L + m
      /\ \A b \in 1..L : b \in 1..(L + m) /\ news[b] = grown[b]
      /\ \A j \in 1..m : L + j \in 1..(L + m) /\ ~(L + j <= L) /\ news[L + j] = q[j]
  <2>1. /\ news \in BoxLists /\ Len(news) = L + m
        /\ \A b \in 1..(L + m) : news[b] = IF b <= L THEN grown[b] ELSE q[b - L]
    <3>1. grown \in Seq(Seq(Commands)) /\ q \in Seq(Seq(Commands)) /\ Len(grown) = L /\ Len(q) = m
      BY <1>4, <1>6 DEF BoxLists
    <3> QED BY ONLY <3>1, ConcatProperties DEF BoxLists
  <2> HIDE DEF news
  <2>2. \A b \in 1..L : b \in 1..(L + m) /\ b <= L BY <1>3, <1>4
  <2>3. \A j \in 1..m : L + j \in 1..(L + m) /\ ~(L + j <= L) /\ (L + j) - L = j BY <1>3, <1>4
  <2>4. ASSUME NEW j \in 1..m PROVE news[L + j] = q[j]
    <3> DEFINE b == L + j
    <3>1. b \in 1..(L + m) /\ ~(b <= L) /\ b - L = j BY <2>3
    <3> HIDE DEF b
    <3>2. news[b] = q[j] BY <2>1, <3>1
    <3> QED BY <3>2 DEF b
  <2> QED BY <2>1, <2>2, <2>3, <2>4
<1> HIDE DEF news, new
<1>8. \A b \in 1..(L + m) : b \in 1..L \/ \E j \in 1..m : b = L + j
  <2> TAKE b \in 1..(L + m)
  <2>1. ~(b <= L) => b - L \in 1..m /\ b = L + (b - L) BY <1>3, <1>4
  <2>2. b <= L => b \in 1..L BY <1>3
  <2> QED BY <2>1, <2>2
<1>9. /\ DOMAIN new = 1..Len(caps) /\ new[1].boxes = news /\ new[1].open = TRUE
      /\ \A c \in 1..Len(caps) : c # 1 => new[c] = caps[c]
      /\ new[1] \in Captions
  <2>1. caps[1] \in [open : {TRUE}, boxes : BoxLists]
    <3>1. caps[1] \in Captions /\ caps[1].open BY <1>1
    <3>2. caps[1] \in [open : {TRUE}, boxes : BoxLists] \/ caps[1] = [open |-> FALSE, boxes |-> <<>>]
      BY <3>1, Zenon DEF Captions, BoxLists
    <3>3. caps[1] # [open |-> FALSE, boxes |-> <<>>] BY <3>1
    <3> QED BY <3>2, <3>3
  <2>2. new = [c \in 1..Len(caps) |-> IF c = 1 THEN [caps[1] EXCEPT !.boxes = news] ELSE caps[c]]
    BY <1>1, <1>2
  <2>3. new[1] = [caps[1] EXCEPT !.boxes = news] /\ DOMAIN new = 1..Len(caps) BY <1>1, <2>2
  <2>4. new[1] \in [open : {TRUE}, boxes : BoxLists] /\ new[1].boxes = news /\ new[1].open = TRUE
    BY <1>7, <2>1, <2>3
  <2>5. new[1] \in Captions BY <2>4 DEF Captions, BoxLists
  <2> QED BY <2>2, <2>3, <2>4, <2>5
<1>10. new \in CapLists /\ Len(new) = Len(caps)
  <2>1. \A c \in 1..Len(caps) : new[c] \in Captions BY <1>1, <1>9
  <2>2. new = [c \in 1..Len(caps) |-> new[c]] BY <1>1, <1>2
  <2>3. new \in [1..Len(caps) -> Captions] BY <2>1, <2>2
  <2> QED BY <1>1, <2>3 DEF CapLists
<1>11. /\ \A x : x \in BoxesAt(caps) <=> \E c \in 1..Len(caps) : \E b \in 1..Len(caps[c].boxes) : x = <<c, b>>
       /\ \A x : x \in CmdsAt(caps) <=> \E c \in 1..Len(caps) : \E b \in 1..Len(caps[c].boxes) :
                                          \E n \in 1..Len(caps[c].boxes[b]) : x = <<c, b, n>>
  BY PlacesInCaps
<1>12. /\ \A x : x \in BoxesAt(new) <=> \E c \in 1..Len(caps) : \E b \in 1..Len(new[c].boxes) : x = <<c, b>>
       /\ \A x : x \in CmdsAt(new) <=> \E c \in 1..Len(caps) : \E b \in 1..Len(new[c].boxes) :
                                          \E n \in 1..Len(new[c].boxes[b]) : x = <<c, b, n>>
  <2>1. new \in CapLists /\ Len(new) = Len(caps) BY <1>10
  <2>2. /\ \A x : x \in BoxesAt(new) <=> \E c \in 1..Len(new) : \E b \in 1..Len(new[c].boxes) : x = <<c, b>>
        /\ \A x : x \in CmdsAt(new) <=> \E c \in 1..Len(new) : \E b \in 1..Len(new[c].boxes) :
                                          \E n \in 1..Len(new[c].boxes[b]) : x = <<c, b, n>>
    BY ONLY <2>1, PlacesInCaps
  <2> QED BY ONLY <2>1, <2>2
<1>13. \A c \in 1..Len(caps) : \A b \in 1..Len(caps[c].boxes) :
         /\ b \in 1..Len(new[c].boxes)
         /\ \A n \in 1..Len(caps[c].boxes[b]) : n \in 1..Len(new[c].boxes[b])
  <2> TAKE c \in 1..Len(caps)
  <2>1. CASE c # 1 BY <1>9, <2>1
  <2>2. CASE c = 1
    <3> TAKE b \in 1..Len(caps[c].boxes)
    <3>1. b \in 1..L /\ caps[c].boxes[b] = boxes[b] /\ new[c].boxes[b] = grown[b] /\ Len(new[c].boxes) = L + m
      BY <1>1, <1>7, <1>9, <2>2 DEF L
    <3>2. Len(boxes[b]) <= Len(grown[b]) /\ Len(boxes[b]) \in Nat /\ Len(grown[b]) \in Nat
      BY <1>3, <1>5, <3>1
    <3>3. \A n \in 1..Len(boxes[b]) : n \in 1..Len(grown[b]) BY <3>2
    <3> QED BY <1>3, <1>4, <3>1, <3>3
  <2> QED BY <2>1, <2>2
<1>14. BoxesAt(caps) \subseteq BoxesAt(new) /\ CmdsAt(caps) \subseteq CmdsAt(new)
  <2>1. ASSUME NEW x \in BoxesAt(caps) PROVE x \in BoxesAt(new)
    <3>1. PICK c \in 1..Len(caps) : \E b \in 1..Len(caps[c].boxes) : x = <<c, b>> BY <1>11
    <3>2. PICK b \in 1..Len(caps[c].boxes) : x = <<c, b>> BY <3>1
    <3>3. b \in 1..Len(new[c].boxes) BY <1>13
    <3> QED BY <1>12, <3>2, <3>3
  <2>2. ASSUME NEW x \in CmdsAt(caps) PROVE x \in CmdsAt(new)
    <3>1. PICK c \in 1..Len(caps) : \E b \in 1..Len(caps[c].boxes) :
                                      \E n \in 1..Len(caps[c].boxes[b]) : x = <<c, b, n>>
      BY <1>11
    <3>2. PICK b \in 1..Len(caps[c].boxes) : \E n \in 1..Len(caps[c].boxes[b]) : x = <<c, b, n>>
      BY <3>1
    <3>3. PICK n \in 1..Len(caps[c].boxes[b]) : x = <<c, b, n>> BY <3>2
    <3>4. b \in 1..Len(new[c].boxes) /\ n \in 1..Len(new[c].boxes[b]) BY <1>13
    <3> QED BY <1>12, <3>3, <3>4
  <2> QED BY <2>1, <2>2
<1>15. ASSUME NEW x \in CmdsAt(caps)
       PROVE  CmdAt(new, x) = IF x[1] = 1 /\ Outdated(boxes, k, plan, x[2], x[3])
                              THEN Updated(CmdAt(caps, x)) ELSE CmdAt(caps, x)
  <2>1. PICK c \in 1..Len(caps) : \E b \in 1..Len(caps[c].boxes) :
                                    \E n \in 1..Len(caps[c].boxes[b]) : x = <<c, b, n>>
    BY <1>11
  <2>2. PICK b \in 1..Len(caps[c].boxes) : \E n \in 1..Len(caps[c].boxes[b]) : x = <<c, b, n>>
    BY <2>1
  <2>3. PICK n \in 1..Len(caps[c].boxes[b]) : x = <<c, b, n>> BY <2>2
  <2>4. /\ x[1] = c /\ x[2] = b /\ x[3] = n
        /\ CmdAt(new, x) = new[c].boxes[b][n] /\ CmdAt(caps, x) = caps[c].boxes[b][n]
    BY <2>3 DEF CmdAt
  <2>5. CASE c # 1 BY <1>9, <2>4, <2>5
  <2>6. CASE c = 1
    <3>1. /\ b \in 1..L /\ caps[c].boxes[b] = boxes[b] /\ new[c].boxes[b] = grown[b]
          /\ n \in 1..Len(boxes[b])
      BY <1>1, <1>7, <1>9, <2>6 DEF L
    <3> QED BY <1>5, <2>4, <2>6, <3>1
  <2> QED BY <2>5, <2>6
<1>16. \A x : x \in BoxesAt(new) \ BoxesAt(caps) <=> \E j \in 1..m : x = <<1, L + j>>
  <2>1. ASSUME NEW x \in BoxesAt(new) \ BoxesAt(caps) PROVE \E j \in 1..m : x = <<1, L + j>>
    <3>1. PICK c \in 1..Len(caps) : \E b \in 1..Len(new[c].boxes) : x = <<c, b>> BY <1>12
    <3>2. PICK b \in 1..Len(new[c].boxes) : x = <<c, b>> BY <3>1
    <3>3. b \notin 1..Len(caps[c].boxes) BY <1>11, <2>1, <3>2
    <3>4. c = 1 BY <1>9, <3>3
    <3>5. b \in 1..(L + m) /\ b \notin 1..L BY <1>1, <1>7, <1>9, <3>3, <3>4 DEF L
    <3> QED BY <1>8, <3>2, <3>4, <3>5
  <2>2. ASSUME NEW j \in 1..m PROVE <<1, L + j>> \in BoxesAt(new) \ BoxesAt(caps)
    <3> DEFINE b == L + j
    <3>1. b \in 1..Len(new[1].boxes) BY <1>7, <1>9
    <3>2. b \notin 1..Len(caps[1].boxes) BY <1>1, <1>3, <1>7 DEF L
    <3> HIDE DEF b
    <3>3. <<1, b>> \in BoxesAt(new) BY <1>1, <1>12, <3>1
    <3>4. <<1, b>> \notin BoxesAt(caps)
      <4>1. \A c \in 1..Len(caps) : \A a \in 1..Len(caps[c].boxes) : <<1, b>> # <<c, a>> BY <3>2
      <4> QED BY <1>11, <4>1
    <3> QED BY <3>3, <3>4 DEF b
  <2> QED BY <2>1, <2>2
<1> DEFINE fresh == CmdsAt(new) \ CmdsAt(caps)
           From(b) == IF b \in 1..L THEN (Len(boxes[b]) + 1)..Len(grown[b]) ELSE 1..Len(news[b])
<1>17. \A x : x \in fresh <=> \E b \in 1..(L + m) : \E n \in From(b) : x = <<1, b, n>>
  <2>1. ASSUME NEW x \in fresh PROVE \E b \in 1..(L + m) : \E n \in From(b) : x = <<1, b, n>>
    <3>1. PICK c \in 1..Len(caps) : \E b \in 1..Len(new[c].boxes) :
                                      \E n \in 1..Len(new[c].boxes[b]) : x = <<c, b, n>>
      BY <1>12
    <3>2. PICK b \in 1..Len(new[c].boxes) : \E n \in 1..Len(new[c].boxes[b]) : x = <<c, b, n>>
      BY <3>1
    <3>3. PICK n \in 1..Len(new[c].boxes[b]) : x = <<c, b, n>> BY <3>2
    <3>4. ~(b \in 1..Len(caps[c].boxes) /\ n \in 1..Len(caps[c].boxes[b])) BY <1>11, <2>1, <3>3
    <3>5. c = 1 BY <1>9, <3>4
    <3>6. b \in 1..(L + m) /\ n \in 1..Len(news[b]) BY <1>7, <1>9, <3>5
    <3>7. n \in From(b)
      <4>1. CASE b \in 1..L
        <5>1. n \in 1..Len(grown[b]) /\ n \notin 1..Len(boxes[b])
          BY <1>1, <1>7, <3>4, <3>5, <3>6, <4>1 DEF L
        <5>2. n \in (Len(boxes[b]) + 1)..Len(grown[b]) BY <1>3, <1>5, <4>1, <5>1
        <5> QED BY <4>1, <5>2
      <4>2. CASE b \notin 1..L BY <3>6, <4>2
      <4> QED BY <4>1, <4>2
    <3> QED BY <3>3, <3>5, <3>6, <3>7
  <2>2. ASSUME NEW b \in 1..(L + m), NEW n \in From(b) PROVE <<1, b, n>> \in fresh
    <3>1. n \in 1..Len(news[b]) /\ (b \in 1..L => n \notin 1..Len(boxes[b]))
      <4>1. CASE b \in 1..L
        <5>1. n \in (Len(boxes[b]) + 1)..Len(grown[b]) BY <4>1
        <5>2. n \in 1..Len(grown[b]) /\ n \notin 1..Len(boxes[b]) BY <1>3, <1>5, <4>1, <5>1
        <5> QED BY <1>7, <4>1, <5>2
      <4>2. CASE b \notin 1..L BY <4>2
      <4> QED BY <4>1, <4>2
    <3>2. b \in 1..Len(new[1].boxes) /\ n \in 1..Len(new[1].boxes[b]) BY <1>7, <1>9, <3>1
    <3>3. <<1, b, n>> \in CmdsAt(new) BY <1>1, <1>12, <3>2
    <3>4. <<1, b, n>> \notin CmdsAt(caps)
      <4>1. ~(b \in 1..Len(caps[1].boxes) /\ n \in 1..Len(caps[1].boxes[b])) BY <1>1, <3>1 DEF L
      <4>2. \A c \in 1..Len(caps) : \A a \in 1..Len(caps[c].boxes) : \A j \in 1..Len(caps[c].boxes[a]) :
              <<1, b, n>> # <<c, a, j>>
        BY <4>1
      <4> QED BY <1>11, <4>2
    <3> QED BY <3>3, <3>4
  <2> HIDE DEF fresh, From
  <2> QED BY <2>1, <2>2
<1>18. \A x \in fresh : x[1] = 1
  <2> HIDE DEF fresh, From
  <2> QED BY <1>17
<1> DEFINE Z == {<<1, b>> : b \in 1..(L + m)}
           at == [z \in Z |-> From(z[2])]
           nb == [z \in Z |-> IF z[2] \in 1..L THEN boxes[z[2]][1].room ELSE AnyRoom(boxes)]
           os == [z \in Z |-> IF z[2] \in 1..L THEN GoTo(boxes, z[2]) ELSE {own[z[2] - L]}]
<1>19. Puts(new, fresh, plan, k, places)
  <2>1. \A b \in 1..(L + m) :
          LET z == <<1, b>>
          IN  /\ z \in Z /\ z[1] = 1 /\ z[2] = b /\ at[z] = From(b)
              /\ b \in 1..L => nb[z] = boxes[b][1].room /\ os[z] = GoTo(boxes, b)
              /\ b \notin 1..L => nb[z] = AnyRoom(boxes) /\ os[z] = {own[b - L]}
    <3> HIDE DEF From
    <3> QED OBVIOUS
  <2>2. \A z \in Z : \E b \in 1..(L + m) : z = <<1, b>> OBVIOUS
  <2>3. \A j \in 1..m : (L + j) - L = j /\ L + j \notin 1..L BY <1>3, <1>4
  <2> HIDE DEF Z, at, nb, os, fresh
  <2>4. ASSUME NEW z \in Z
        PROVE  /\ z = <<z[1], z[2]>> /\ os[z] \subseteq ToSet(Owners)
               /\ os[z] # {} => nb[z] \in Nat
               /\ Adds(new[z[1]].boxes[z[2]], at[z], plan, k, places, nb[z], os[z])
    <3>1. PICK b \in 1..(L + m) : z = <<1, b>> BY <2>2
    <3>2. z[1] = 1 /\ z[2] = b /\ z = <<z[1], z[2]>> /\ new[z[1]].boxes[z[2]] = news[b] /\ at[z] = From(b)
      BY <1>9, <2>1, <3>1
    <3>3. CASE b \in 1..L
      <4>1. nb[z] = boxes[b][1].room /\ os[z] = GoTo(boxes, b) BY <2>1, <3>1, <3>3
      <4>2. From(b) = (Len(boxes[b]) + 1)..Len(grown[b]) /\ news[b] = grown[b] BY <1>7, <3>3
      <4> HIDE DEF From
      <4>3. GoTo(boxes, b) \subseteq ToSet(Owners) BY DEF GoTo
      <4> QED BY <1>5, <3>2, <3>3, <4>1, <4>2, <4>3
    <3>4. CASE b \notin 1..L
      <4>1. PICK j \in 1..m : b = L + j BY <1>8, <3>4
      <4>2. b - L = j /\ news[b] = q[j] BY <1>7, <2>3, <4>1
      <4>3. nb[z] = AnyRoom(boxes) /\ os[z] = {own[j]} BY <2>1, <3>1, <3>4, <4>2
      <4>4. From(b) = 1..Len(q[j]) BY <3>4, <4>2
      <4> HIDE DEF From
      <4>5. AnyRoom(boxes) \in Nat BY <1>1, AnyRoomIs
      <4> QED BY <1>4, <3>2, <4>2, <4>3, <4>4, <4>5
    <3> QED BY <3>3, <3>4
  <2> HIDE DEF From
  <2>5. ASSUME NEW y \in Z, NEW z \in Z, NEW o, o \in os[y], o \in os[z] PROVE y = z
    <3>1. PICK a \in 1..(L + m) : y = <<1, a>> BY <2>2
    <3>2. PICK b \in 1..(L + m) : z = <<1, b>> BY <2>2
    <3>3. ASSUME NEW c \in 1..(L + m), o \in os[<<1, c>>]
          PROVE  /\ c \in 1..L => OwnedBy(o, Keyed(boxes)) # {} /\ BoxFor(boxes, o) = c
                 /\ c \notin 1..L => /\ OwnedBy(o, Keyed(boxes)) = {}
                                     /\ \E j \in 1..m : c = L + j /\ o = own[j]
      <4>1. CASE c \in 1..L
        <5>1. os[<<1, c>>] = GoTo(boxes, c) BY <2>1, <4>1
        <5> QED BY <3>3, <4>1, <5>1 DEF GoTo
      <4>2. CASE c \notin 1..L
        <5>1. PICK j \in 1..m : c = L + j BY <1>8, <4>2
        <5>2. os[<<1, c>>] = {own[j]}
          <6>1. os[<<1, c>>] = {own[c - L]} BY ONLY <2>1, <4>2, <3>3, Zenon
          <6>2. c - L = j BY ONLY <2>3, <5>1, Zenon
          <6> QED BY ONLY <6>1, <6>2, Zenon
        <5>6. own[j] \in ToSet(Newcomers(plan, k)) BY ONLY <1>4, <5>1, Zenon
        <5>7. o = own[j] BY ONLY <3>3, <5>2, Zenon
        <5>3. o = own[j] /\ o \in ToSet(Newcomers(plan, k)) BY ONLY <5>6, <5>7, Zenon
        <5>4. FitsPlan(plan, k, boxes) BY DEF boxes
        <5>5. OwnedBy(o, Keyed(boxes)) = {} BY <1>1, <5>3, <5>4, NewcomersAre
        <5> QED BY <4>2, <5>1, <5>3, <5>5
      <4> QED BY <4>1, <4>2
    <3>4. a = b
      <4>1. CASE a \in 1..L /\ b \in 1..L BY <2>5, <3>1, <3>2, <3>3, <4>1
      <4>2. CASE a \notin 1..L /\ b \notin 1..L
        <5>1. PICK i \in 1..m : a = L + i /\ o = own[i] BY <2>5, <3>1, <3>3, <4>2
        <5>2. PICK j \in 1..m : b = L + j /\ o = own[j] BY <2>5, <3>2, <3>3, <4>2
        <5>3. i = j BY <1>4, <5>1, <5>2
        <5> QED BY <5>1, <5>2, <5>3
      <4>3. CASE ~(a \in 1..L <=> b \in 1..L) BY <2>5, <3>1, <3>2, <3>3, <4>3
      <4> QED BY <4>1, <4>2, <4>3
    <3> QED BY <3>1, <3>2, <3>4
  <2>6. ASSUME NEW o \in ToSet(Owners), NewOf(plan, k, o) # <<>> PROVE \E z \in Z : o \in os[z]
    <3>1. CASE OwnedBy(o, Keyed(boxes)) = {}
      <4>1. FitsPlan(plan, k, boxes) BY DEF boxes
      <4>2. o \in ToSet(Newcomers(plan, k)) BY <1>1, <2>6, <3>1, <4>1, NewcomersAre
      <4>3. PICK j \in 1..m : own[j] = o BY <1>4, <4>2
      <4>4. PICK b \in 1..(L + m) : b = L + j BY <1>7
      <4>5. b \notin 1..L /\ b - L = j BY <2>3, <4>4
      <4>6. <<1, b>> \in Z /\ os[<<1, b>>] = {own[j]} BY <2>1, <4>5
      <4> QED BY <4>3, <4>6
    <3>2. CASE OwnedBy(o, Keyed(boxes)) # {}
      <4> DEFINE b == BoxFor(boxes, o)
      <4>1. b \in 1..L BY <1>1, <3>2, BoxForIs DEF L
      <4>2. o \in GoTo(boxes, b) BY <3>2 DEF GoTo
      <4> HIDE DEF b
      <4>3. <<1, b>> \in Z /\ os[<<1, b>>] = GoTo(boxes, b) BY <1>7, <2>1, <4>1
      <4> QED BY <4>2, <4>3
    <3> QED BY <3>1, <3>2
  <2>7. \A x : x \in fresh <=> \E z \in Z : \E n \in at[z] : x = <<z[1], z[2], n>>
    <3> TAKE x
    <3>1. ASSUME x \in fresh PROVE \E z \in Z : \E n \in at[z] : x = <<z[1], z[2], n>>
      <4>1. PICK b \in 1..(L + m) : \E n \in From(b) : x = <<1, b, n>> BY <1>17, <3>1
      <4>2. PICK n \in From(b) : x = <<1, b, n>> BY <4>1
      <4>3. PICK z \in Z : z[1] = 1 /\ z[2] = b /\ at[z] = From(b) BY <2>1
      <4> QED BY <4>2, <4>3
    <3>2. ASSUME NEW z \in Z, NEW n \in at[z], x = <<z[1], z[2], n>> PROVE x \in fresh
      <4>1. PICK b \in 1..(L + m) : z = <<1, b>> BY <2>2
      <4>2. z[1] = 1 /\ z[2] = b /\ at[z] = From(b) BY <2>1, <4>1
      <4>3. n \in From(b) /\ x = <<1, b, n>> BY <3>2, <4>2
      <4> QED BY <1>17, <4>3
    <3> QED BY <3>1, <3>2
  <2>8. FitsPlan(plan, k, boxes) /\ boxes \in BoxLists BY <1>1 DEF boxes
  <2>9. Spread(new, fresh, plan, k, places, Z, at, nb, os) BY ONLY <2>4, <2>5, <2>6, <2>7 DEF Spread
  <2> QED BY ONLY HouseOK, k \in CmdKinds, <2>8, places \in Spots, <2>9, SpreadIs
<1>20. DOMAIN caps \subseteq DOMAIN new BY <1>1, <1>9
<1>21. Extends(caps, new, k, plan, places) BY <1>10, <1>14, <1>15, <1>19, <1>20 DEF Extends, boxes
<1>22. TakesBoxes(new)
  <2>1. new # <<>> BY <1>1, <1>9
  <2> QED BY <1>9, <2>1 DEF TakesBoxes
<1> QED BY <1>10, <1>16, <1>18, <1>21, <1>22 DEF new, m, L, boxes

\* Without one every new box gets a caption of its own.
LEMMA PatchedBare ==
  ASSUME HouseOK, NEW k \in CmdKinds, NEW caps \in CapLists, ~TakesBoxes(caps), NEW plan,
         FitsPlan(plan, k, Boxes(caps)), NEW places \in Spots
  PROVE  LET new == Patched(caps, k, plan, places)
         IN  /\ Extends(caps, new, k, plan, places)
             /\ Len(new) = Len(caps) + Len(Newcomers(plan, k))
             /\ \A x : x \in BoxesAt(new) \ BoxesAt(caps) <=>
                         \E j \in 1..Len(Newcomers(plan, k)) : x = <<Len(caps) + j, 1>>
             /\ caps # <<>> => new # <<>> /\ ~TakesBoxes(new)
<1> DEFINE boxes == Boxes(caps)
           C == Len(caps)
           q == Reverse(NewBoxes(boxes, k, plan, places))
           own == Reverse(Newcomers(plan, k))
           m == Len(Newcomers(plan, k))
           more == [n \in DOMAIN q |-> [open |-> TRUE, boxes |-> <<q[n]>>]]
           new == Patched(caps, k, plan, places)
<1>1. /\ C \in Nat /\ DOMAIN caps = 1..C /\ (caps = <<>> <=> C = 0) /\ boxes = <<>> /\ boxes \in BoxLists
      /\ \A c \in 1..C : caps[c] \in Captions /\ caps[c].boxes \in BoxLists
  BY CapsAre
<1>2. new = caps \o more BY DEF Patched
<1> HIDE DEF boxes
<1>3. /\ q \in BoxLists /\ m \in Nat /\ Len(q) = m
      /\ \A j \in 1..m : /\ own[j] \in ToSet(Newcomers(plan, k)) /\ own[j] \in ToSet(Owners)
                         /\ q[j] \in Seq(Commands)
                         /\ Adds(q[j], 1..Len(q[j]), plan, k, places, AnyRoom(boxes), {own[j]})
      /\ \A o \in ToSet(Newcomers(plan, k)) : \E j \in 1..m : own[j] = o
      /\ \A i, j \in 1..m : own[i] = own[j] => i = j
  <2>1. FitsPlan(plan, k, boxes) BY DEF boxes
  <2>2. boxes \in BoxLists BY <1>1
  <2> HIDE DEF C
  <2> QED BY ONLY HouseOK, k \in CmdKinds, <2>1, <2>2, places \in Spots, NewBoxesAre, Zenon DEF q, own, m
<1>4. Keyed(boxes) = {} /\ \A b, n : ~Outdated(boxes, k, plan, b, n)
  <2>1. Keyed(boxes) = {}
    <3>1. Len(boxes) = 0 BY <1>1
    <3>2. \A e \in Keyed(boxes) : e.box \in 1..Len(boxes) BY <1>1, KeyedIs
    <3> QED BY <3>1, <3>2
  <2> QED BY <2>1 DEF Outdated, Index
<1> HIDE DEF q, own, m, C
<1>5. /\ more \in CapLists /\ Len(more) = m
      /\ \A j \in 1..m : more[j].boxes = <<q[j]>> /\ Len(more[j].boxes) = 1 /\ more[j].boxes[1] = q[j]
  <2>1. DOMAIN q = 1..m BY <1>3, BoxesAre
  <2>2. ASSUME NEW j \in 1..m
        PROVE  /\ more[j] \in Captions /\ more[j].boxes = <<q[j]>> /\ Len(more[j].boxes) = 1
               /\ more[j].boxes[1] = q[j]
    <3>1. more[j] = [open |-> TRUE, boxes |-> <<q[j]>>] BY <2>1
    <3>2. <<q[j]>> \in Seq(Seq(Commands))
      <4>1. q[j] \in Seq(Commands) BY <1>3
      <4>2. \A S : \A s \in S : <<s>> \in Seq(S) OBVIOUS
      <4> QED BY ONLY <4>1, <4>2
    <3> HIDE DEF more
    <3>3. more[j] \in [open : {TRUE}, boxes : Seq(Seq(Commands))] BY <3>1, <3>2
    <3> QED BY <3>1, <3>3 DEF Captions
  <2>3. more = [n \in 1..m |-> more[n]] BY <2>1
  <2> HIDE DEF more
  <2>4. more \in [1..m -> Captions] BY <2>2, <2>3
  <2> QED BY <1>3, <2>2, <2>4 DEF CapLists
<1> HIDE DEF more, new
<1>6. /\ new \in CapLists /\ Len(new) = C + m /\ DOMAIN new = 1..(C + m)
      /\ \A c \in 1..C : c \in 1..(C + m) /\ new[c] = caps[c]
      /\ \A j \in 1..m : C + j \in 1..(C + m) /\ ~(C + j <= C) /\ new[C + j] = more[j]
  <2>0. caps \in Seq(Captions) /\ more \in Seq(Captions) /\ Len(caps) = C /\ Len(more) = m
    BY <1>5 DEF CapLists, C
  <2>1. /\ new \in Seq(Captions) /\ Len(new) = C + m
        /\ \A c \in 1..(C + m) : new[c] = IF c <= C THEN caps[c] ELSE more[c - C]
    BY ONLY <2>0, <1>2, ConcatProperties
  <2>2. \A b \in 1..C : b \in 1..(C + m) /\ b <= C BY <1>1, <1>3
  <2>3. \A j \in 1..m : C + j \in 1..(C + m) /\ ~(C + j <= C) /\ (C + j) - C = j BY <1>1, <1>3
  <2>4. ASSUME NEW j \in 1..m PROVE new[C + j] = more[j]
    <3> DEFINE b == C + j
    <3>1. b \in 1..(C + m) /\ ~(b <= C) /\ b - C = j BY <2>3
    <3> HIDE DEF b
    <3>2. new[b] = more[j] BY <2>1, <3>1
    <3> QED BY <3>2 DEF b
  <2>5. DOMAIN new = 1..(C + m) BY <2>1, LenProperties
  <2> QED BY <2>1, <2>2, <2>3, <2>4, <2>5 DEF CapLists
<1>7. \A c \in 1..(C + m) : c \in 1..C \/ \E j \in 1..m : c = C + j
  <2> TAKE c \in 1..(C + m)
  <2>1. ~(c <= C) => c - C \in 1..m /\ c = C + (c - C) BY <1>1, <1>3
  <2>2. c <= C => c \in 1..C BY <1>1
  <2> QED BY <2>1, <2>2
<1>8. /\ \A x : x \in BoxesAt(caps) <=> \E c \in 1..C : \E b \in 1..Len(caps[c].boxes) : x = <<c, b>>
      /\ \A x : x \in CmdsAt(caps) <=> \E c \in 1..C : \E b \in 1..Len(caps[c].boxes) :
                                         \E n \in 1..Len(caps[c].boxes[b]) : x = <<c, b, n>>
  BY PlacesInCaps DEF C
<1>9. /\ \A x : x \in BoxesAt(new) <=> \E c \in 1..(C + m) : \E b \in 1..Len(new[c].boxes) : x = <<c, b>>
      /\ \A x : x \in CmdsAt(new) <=> \E c \in 1..(C + m) : \E b \in 1..Len(new[c].boxes) :
                                         \E n \in 1..Len(new[c].boxes[b]) : x = <<c, b, n>>
  <2>1. new \in CapLists /\ Len(new) = C + m BY <1>6
  <2>2. /\ \A x : x \in BoxesAt(new) <=> \E c \in 1..Len(new) : \E b \in 1..Len(new[c].boxes) : x = <<c, b>>
        /\ \A x : x \in CmdsAt(new) <=> \E c \in 1..Len(new) : \E b \in 1..Len(new[c].boxes) :
                                          \E n \in 1..Len(new[c].boxes[b]) : x = <<c, b, n>>
    BY ONLY <2>1, PlacesInCaps
  <2> QED BY ONLY <2>1, <2>2
<1>10. BoxesAt(caps) \subseteq BoxesAt(new)
  <2> SUFFICES ASSUME NEW x \in BoxesAt(caps) PROVE x \in BoxesAt(new) OBVIOUS
  <2>1. PICK c \in 1..C : \E b \in 1..Len(caps[c].boxes) : x = <<c, b>> BY <1>8
  <2> QED BY <1>6, <1>9, <2>1
<1>11. ASSUME NEW x \in CmdsAt(caps) PROVE x \in CmdsAt(new) /\ CmdAt(new, x) = CmdAt(caps, x)
  <2>1. PICK c \in 1..C : \E b \in 1..Len(caps[c].boxes) : \E n \in 1..Len(caps[c].boxes[b]) : x = <<c, b, n>>
    BY <1>8
  <2>2. c \in 1..(C + m) /\ new[c] = caps[c] BY <1>6
  <2>3. x[1] = c BY <2>1
  <2> QED BY <1>9, <2>1, <2>2, <2>3 DEF CmdAt
<1>12. \A x : x \in BoxesAt(new) \ BoxesAt(caps) <=> \E j \in 1..m : x = <<C + j, 1>>
  <2>1. ASSUME NEW x \in BoxesAt(new) \ BoxesAt(caps) PROVE \E j \in 1..m : x = <<C + j, 1>>
    <3>1. PICK c \in 1..(C + m) : \E b \in 1..Len(new[c].boxes) : x = <<c, b>> BY <1>9
    <3>2. c \notin 1..C BY <1>6, <1>8, <2>1, <3>1
    <3>3. PICK j \in 1..m : c = C + j BY <1>7, <3>2
    <3>4. Len(new[c].boxes) = 1 BY <1>5, <1>6, <3>3
    <3>5. \A b \in 1..Len(new[c].boxes) : b = 1 BY <3>4
    <3> QED BY <3>1, <3>3, <3>5
  <2>2. ASSUME NEW j \in 1..m PROVE <<C + j, 1>> \in BoxesAt(new) \ BoxesAt(caps)
    <3> DEFINE c == C + j
    <3>1. c \in 1..(C + m) /\ c \notin 1..C /\ Len(new[c].boxes) = 1 BY <1>1, <1>5, <1>6
    <3> HIDE DEF c
    <3>2. 1 \in 1..Len(new[c].boxes) BY <3>1
    <3>3. <<c, 1>> \in BoxesAt(new) BY <1>9, <3>1, <3>2
    <3>4. <<c, 1>> \notin BoxesAt(caps) BY <1>8, <3>1
    <3> QED BY <3>3, <3>4 DEF c
  <2> QED BY <2>1, <2>2
<1> DEFINE fresh == CmdsAt(new) \ CmdsAt(caps)
<1>13. \A x : x \in fresh <=> \E j \in 1..m : \E n \in 1..Len(q[j]) : x = <<C + j, 1, n>>
  <2>1. ASSUME NEW x \in fresh PROVE \E j \in 1..m : \E n \in 1..Len(q[j]) : x = <<C + j, 1, n>>
    <3>1. PICK c \in 1..(C + m) : \E b \in 1..Len(new[c].boxes) :
                                      \E n \in 1..Len(new[c].boxes[b]) : x = <<c, b, n>>
      BY <1>9
    <3>2. PICK b \in 1..Len(new[c].boxes) : \E n \in 1..Len(new[c].boxes[b]) : x = <<c, b, n>>
      BY <3>1
    <3>3. PICK n \in 1..Len(new[c].boxes[b]) : x = <<c, b, n>> BY <3>2
    <3>4. c \notin 1..C BY <1>6, <1>8, <2>1, <3>3
    <3>5. PICK j \in 1..m : c = C + j BY <1>7, <3>4
    <3>6. new[c] = more[j] /\ Len(more[j].boxes) = 1 /\ more[j].boxes[1] = q[j] BY <1>5, <1>6, <3>5
    <3>7. b = 1 BY <3>6
    <3>8. n \in 1..Len(q[j]) BY <3>6, <3>7
    <3> QED BY <3>3, <3>5, <3>7, <3>8
  <2>2. ASSUME NEW j \in 1..m, NEW n \in 1..Len(q[j]) PROVE <<C + j, 1, n>> \in fresh
    <3> DEFINE c == C + j
    <3>1. c \in 1..(C + m) /\ c \notin 1..C /\ new[c] = more[j] BY <1>1, <1>6
    <3> HIDE DEF c
    <3>2. 1 \in 1..Len(new[c].boxes) /\ new[c].boxes[1] = q[j] BY <1>5, <3>1
    <3>3. n \in 1..Len(new[c].boxes[1]) BY <3>2
    <3>4. <<c, 1, n>> \in CmdsAt(new) BY <1>9, <3>1, <3>2, <3>3
    <3>5. <<c, 1, n>> \notin CmdsAt(caps)
      <4>1. \A d \in 1..C : \A b \in 1..Len(caps[d].boxes) : \A a \in 1..Len(caps[d].boxes[b]) :
              <<c, 1, n>> # <<d, b, a>>
        BY <3>1
      <4> QED BY <1>8, <4>1
    <3> QED BY <3>4, <3>5 DEF c
  <2> HIDE DEF fresh
  <2> QED BY <2>1, <2>2
<1> DEFINE Z == {<<C + j, 1>> : j \in 1..m}
           at == [z \in Z |-> 1..Len(q[z[1] - C])]
           nb == [z \in Z |-> AnyRoom(boxes)]
           os == [z \in Z |-> {own[z[1] - C]}]
<1>14. Puts(new, fresh, plan, k, places)
  <2>1. ASSUME NEW j \in 1..m
        PROVE  LET z == <<C + j, 1>>
               IN  /\ z \in Z /\ z[1] = C + j /\ z[2] = 1 /\ at[z] = 1..Len(q[j])
                   /\ nb[z] = AnyRoom(boxes) /\ os[z] = {own[j]}
    <3> DEFINE z == <<C + j, 1>>
    <3>1. z[1] - C = j /\ z[1] = C + j /\ z[2] = 1 /\ z \in Z BY <1>1, <1>3
    <3> HIDE DEF z, Z
    <3>2. at[z] = 1..Len(q[z[1] - C]) /\ nb[z] = AnyRoom(boxes) /\ os[z] = {own[z[1] - C]} BY <3>1
    <3>3. at[z] = 1..Len(q[j]) /\ os[z] = {own[j]} BY <3>1, <3>2
    <3> HIDE DEF at, nb, os
    <3> QED BY <3>1, <3>2, <3>3 DEF z
  <2>2. \A z \in Z : \E j \in 1..m : z = <<C + j, 1>> OBVIOUS
  <2> HIDE DEF Z, at, nb, os, fresh
  <2>4. ASSUME NEW z \in Z
        PROVE  /\ z = <<z[1], z[2]>> /\ os[z] \subseteq ToSet(Owners)
               /\ os[z] # {} => nb[z] \in Nat
               /\ Adds(new[z[1]].boxes[z[2]], at[z], plan, k, places, nb[z], os[z])
    <3>1. PICK j \in 1..m : z = <<C + j, 1>> BY <2>2
    <3>2. /\ z = <<z[1], z[2]>> /\ z[1] = C + j /\ z[2] = 1 /\ at[z] = 1..Len(q[j])
          /\ nb[z] = AnyRoom(boxes) /\ os[z] = {own[j]}
      BY <2>1, <3>1
    <3>3. new[z[1]].boxes[z[2]] = q[j] BY <1>5, <1>6, <3>2
    <3>4. AnyRoom(boxes) \in Nat BY <1>1, AnyRoomIs
    <3>5. own[j] \in ToSet(Owners) /\ Adds(q[j], 1..Len(q[j]), plan, k, places, AnyRoom(boxes), {own[j]})
      BY <1>3
    <3>6. Adds(new[z[1]].boxes[z[2]], at[z], plan, k, places, nb[z], os[z])
      BY ONLY <3>2, <3>3, <3>5, Zenon
    <3> QED BY <3>2, <3>4, <3>5, <3>6
  <2>5. ASSUME NEW y \in Z, NEW z \in Z, NEW o, o \in os[y], o \in os[z] PROVE y = z
    <3>1. PICK i \in 1..m : y = <<C + i, 1>> BY <2>2
    <3>2. PICK j \in 1..m : z = <<C + j, 1>> BY <2>2
    <3>3. o = own[i] /\ o = own[j] BY <2>1, <2>5, <3>1, <3>2
    <3>4. i = j BY <1>3, <3>3
    <3> QED BY <3>1, <3>2, <3>4
  <2>6. ASSUME NEW o \in ToSet(Owners), NewOf(plan, k, o) # <<>> PROVE \E z \in Z : o \in os[z]
    <3>1. FitsPlan(plan, k, boxes) /\ OwnedBy(o, Keyed(boxes)) = {} BY <1>4 DEF boxes, OwnedBy
    <3>2. o \in ToSet(Newcomers(plan, k)) BY <1>1, <2>6, <3>1, NewcomersAre
    <3>3. PICK j \in 1..m : own[j] = o BY <1>3, <3>2
    <3> QED BY <2>1, <3>3
  <2>7. \A x : x \in fresh <=> \E z \in Z : \E n \in at[z] : x = <<z[1], z[2], n>>
    <3> TAKE x
    <3>1. ASSUME x \in fresh PROVE \E z \in Z : \E n \in at[z] : x = <<z[1], z[2], n>>
      <4>1. PICK j \in 1..m : \E n \in 1..Len(q[j]) : x = <<C + j, 1, n>> BY <1>13, <3>1
      <4>2. PICK n \in 1..Len(q[j]) : x = <<C + j, 1, n>> BY <4>1
      <4>3. PICK z \in Z : z[1] = C + j /\ z[2] = 1 /\ at[z] = 1..Len(q[j]) BY <2>1
      <4> QED BY <4>2, <4>3
    <3>2. ASSUME NEW z \in Z, NEW n \in at[z], x = <<z[1], z[2], n>> PROVE x \in fresh
      <4>1. PICK j \in 1..m : z = <<C + j, 1>> BY <2>2
      <4>2. z[1] = C + j /\ z[2] = 1 /\ at[z] = 1..Len(q[j]) BY <2>1, <4>1
      <4>3. n \in 1..Len(q[j]) /\ x = <<C + j, 1, n>> BY <3>2, <4>2
      <4> QED BY <1>13, <4>3
    <3> QED BY <3>1, <3>2
  <2>8. FitsPlan(plan, k, boxes) /\ boxes \in BoxLists BY <1>1 DEF boxes
  <2>9. Spread(new, fresh, plan, k, places, Z, at, nb, os) BY ONLY <2>4, <2>5, <2>6, <2>7 DEF Spread
  <2> QED BY ONLY HouseOK, k \in CmdKinds, <2>8, places \in Spots, <2>9, SpreadIs
<1>15. DOMAIN caps \subseteq DOMAIN new BY <1>1, <1>6
<1>16. Extends(caps, new, k, plan, places)
  BY <1>4, <1>6, <1>10, <1>11, <1>14, <1>15 DEF Extends, boxes
<1>17. caps # <<>> => new # <<>> /\ ~TakesBoxes(new)
  <2> HAVE caps # <<>>
  <2>1. 1 \in 1..C BY <1>1
  <2>2. new[1] = caps[1] /\ new # <<>> BY <1>6, <2>1
  <2>3. ~caps[1].open BY DEF TakesBoxes
  <2> QED BY <2>2, <2>3 DEF TakesBoxes
<1> QED BY <1>6, <1>12, <1>16, <1>17 DEF new, m, C

----------------------------------------
(* How many objects a sync adds. *)

\* The values of a function on a finite set are finitely many.
LEMMA ImageFinite ==
  ASSUME NEW f, IsFiniteSet(DOMAIN f)
  PROVE  IsFiniteSet({f[x] : x \in DOMAIN f})
<1> DEFINE T == {f[x] : x \in DOMAIN f}
           g == [x \in DOMAIN f |-> f[x]]
<1>1. g \in Surjection(DOMAIN f, T) BY DEF Surjection
<1> HIDE DEF g, T
<1> QED BY <1>1, FS_Surjection DEF T

\* A file has finitely many boxes and commands.
LEMMA PlacesFinite ==
  ASSUME NEW caps \in CapLists
  PROVE  IsFiniteSet(BoxesAt(caps)) /\ IsFiniteSet(CmdsAt(caps))
<1>1. /\ Len(caps) \in Nat /\ DOMAIN caps = 1..Len(caps)
      /\ \A c \in 1..Len(caps) : /\ Len(caps[c].boxes) \in Nat /\ DOMAIN caps[c].boxes = 1..Len(caps[c].boxes)
                                 /\ \A b \in 1..Len(caps[c].boxes) :
                                      /\ Len(caps[c].boxes[b]) \in Nat
                                      /\ DOMAIN caps[c].boxes[b] = 1..Len(caps[c].boxes[b])
  BY CapsAre, BoxesAre
<1>2. \A n \in Nat : IsFiniteSet(1..n) BY FS_Interval
<1>3. IsFiniteSet(BoxesAt(caps))
  <2> DEFINE row == [c \in DOMAIN caps |-> {<<c, b>> : b \in DOMAIN caps[c].boxes}]
             lines == {row[c] : c \in DOMAIN row}
  <2>1. BoxesAt(caps) = UNION lines BY DEF BoxesAt
  <2>2. ASSUME NEW c \in 1..Len(caps) PROVE IsFiniteSet(row[c])
    <3> DEFINE f == [b \in DOMAIN caps[c].boxes |-> <<c, b>>]
    <3>1. row[c] = {f[b] : b \in DOMAIN f} BY <1>1
    <3>2. IsFiniteSet(DOMAIN f) BY <1>1, <1>2
    <3> HIDE DEF f, row
    <3> QED BY <3>1, <3>2, ImageFinite
  <2>3. DOMAIN row = 1..Len(caps) BY <1>1
  <2> HIDE DEF row
  <2>4. IsFiniteSet(lines) BY <1>1, <1>2, <2>3, ImageFinite
  <2>5. \A T \in lines : IsFiniteSet(T) BY <2>2, <2>3
  <2> HIDE DEF lines
  <2> QED BY <2>1, <2>4, <2>5, FS_UNION
<1>4. IsFiniteSet(CmdsAt(caps))
  <2> DEFINE row == [x \in BoxesAt(caps) |-> {<<x[1], x[2], n>> : n \in DOMAIN caps[x[1]].boxes[x[2]]}]
             lines == {row[x] : x \in DOMAIN row}
  <2>1. CmdsAt(caps) = UNION lines BY DEF CmdsAt
  <2>2. ASSUME NEW x \in BoxesAt(caps) PROVE IsFiniteSet(row[x])
    <3> DEFINE f == [n \in DOMAIN caps[x[1]].boxes[x[2]] |-> <<x[1], x[2], n>>]
    <3>1. row[x] = {f[n] : n \in DOMAIN f} OBVIOUS
    <3>2. PICK c \in 1..Len(caps) : \E b \in 1..Len(caps[c].boxes) : x = <<c, b>> BY PlacesInCaps
    <3>3. PICK b \in 1..Len(caps[c].boxes) : x = <<c, b>> BY <3>2
    <3>4. x[1] = c /\ x[2] = b BY <3>3
    <3>7. \E d \in Nat : DOMAIN caps[c].boxes[b] = 1..d BY ONLY <1>1, Zenon
    <3>8. IsFiniteSet(DOMAIN caps[c].boxes[b]) BY ONLY <1>2, <3>7, Zenon
    <3>5. IsFiniteSet(DOMAIN caps[x[1]].boxes[x[2]]) BY ONLY <3>4, <3>8, Zenon
    <3>6. DOMAIN f = DOMAIN caps[x[1]].boxes[x[2]] OBVIOUS
    <3> HIDE DEF f, row
    <3> QED BY <3>1, <3>5, <3>6, ImageFinite
  <2>3. DOMAIN row = BoxesAt(caps) OBVIOUS
  <2> HIDE DEF row
  <2>4. IsFiniteSet(lines) BY <1>3, <2>3, ImageFinite
  <2>5. \A T \in lines : IsFiniteSet(T) BY <2>2, <2>3
  <2> HIDE DEF lines
  <2> QED BY <2>1, <2>4, <2>5, FS_UNION
<1> QED BY <1>3, <1>4

\* A larger set counts what is new in it.
LEMMA Grows ==
  ASSUME NEW S, NEW T, IsFiniteSet(S), S \subseteq T, IsFiniteSet(T \ S)
  PROVE  Cardinality(S) \in Nat /\ Cardinality(T \ S) \in Nat
         /\ Cardinality(T) = Cardinality(S) + Cardinality(T \ S)
<1> DEFINE D == T \ S
<1>1. T = S \cup D /\ S \cap D = {} /\ IsFiniteSet(D) OBVIOUS
<1> HIDE DEF D
<1>2. Cardinality({}) = 0 BY FS_EmptySet
<1>3. Cardinality(S \cup D) = Cardinality(S) + Cardinality(D) - Cardinality(S \cap D)
  BY <1>1, FS_Union
<1>4. Cardinality(S) \in Nat /\ Cardinality(D) \in Nat BY <1>1, FS_CardinalityType
<1>5. Cardinality(T) = Cardinality(S) + Cardinality(D) - 0 BY <1>1, <1>2, <1>3
<1>6. Cardinality(T) = Cardinality(S) + Cardinality(D) BY ONLY <1>4, <1>5
<1> QED BY <1>4, <1>6 DEF D

\* The new commands of the plan.
NewIn(plan, k) == {e \in plan : e.kind = k /\ e.status \in NewStatuses}

\* The file has as many new commands as the plan has.
LEMMA FreshCount ==
  ASSUME HouseOK, NEW k \in CmdKinds, NEW boxes \in BoxLists, NEW plan, FitsPlan(plan, k, boxes),
         NEW places \in Spots, NEW new, NEW fresh, IsFiniteSet(fresh), Puts(new, fresh, plan, k, places)
  PROVE  IsFiniteSet(NewIn(plan, k)) /\ Cardinality(fresh) = Cardinality(NewIn(plan, k))
<1> DEFINE K(x) == KeyOf(CmdAt(new, x))
           Entry(o, i) == [kind |-> k, owner |-> o, item |-> i, status |-> Status(Index(boxes), k, o, i)]
           f == [x \in fresh |-> Entry(K(x)[1], K(x)[2])]
           T == NewIn(plan, k)
<1>1. \A o \in ToSet(Owners) : /\ ToSet(NewOf(plan, k, o)) \in SUBSET Items
                               /\ \A i : i \in ToSet(NewOf(plan, k, o)) <=>
                                    i \in ToSet(Wants(k, o)) /\ Status(Index(boxes), k, o, i) \in NewStatuses
  BY NewOfIs, ToSetIs
<1>2. ASSUME NEW o \in ToSet(Owners), NEW i \in ToSet(NewOf(plan, k, o)) PROVE Entry(o, i) \in T
  <2>1. i \in ToSet(Wants(k, o)) /\ Status(Index(boxes), k, o, i) \in NewStatuses BY <1>1
  <2>2. Entry(o, i) \in plan BY <2>1 DEF FitsPlan
  <2>3. Entry(o, i).kind = k /\ Entry(o, i).status \in NewStatuses BY <2>1
  <2> HIDE DEF Entry
  <2> QED BY <2>2, <2>3 DEF NewIn
<1>3. ASSUME NEW x \in fresh
      PROVE  \E o \in ToSet(Owners) : \E i \in ToSet(NewOf(plan, k, o)) :
               K(x) = <<o, i>> /\ f[x] = Entry(o, i)
  <2>1. PICK o \in ToSet(Owners) : \E i \in ToSet(NewOf(plan, k, o)), nb \in Nat :
               CmdAt(new, x) = NewCmd(places, o, i, nb)
    BY DEF Puts
  <2>2. PICK i \in ToSet(NewOf(plan, k, o)), nb \in Nat : CmdAt(new, x) = NewCmd(places, o, i, nb)
    BY <2>1
  <2>3. i \in Items BY <1>1
  <2>4. K(x) = <<o, i>> BY <2>2, <2>3, NewCmdIs
  <2>5. f[x] = Entry(K(x)[1], K(x)[2]) OBVIOUS
  <2>6. K(x)[1] = o /\ K(x)[2] = i BY <2>4
  <2> HIDE DEF K, Entry, f
  <2> QED BY <2>4, <2>5, <2>6
<1>4. \A o, i : Entry(o, i).owner = o /\ Entry(o, i).item = i OBVIOUS
<1>5. f = [x \in fresh |-> f[x]] OBVIOUS
<1>6. \A x, y \in fresh : K(x) = K(y) => x = y BY DEF Puts
<1>7. \A o \in ToSet(Owners) : \A i \in ToSet(NewOf(plan, k, o)) : \E x \in fresh : K(x) = <<o, i>>
  BY DEF Puts
<1>8. ASSUME NEW e \in T
      PROVE  e.owner \in ToSet(Owners) /\ e.item \in ToSet(NewOf(plan, k, e.owner)) /\ e = Entry(e.owner, e.item)
  <2>1. e \in plan /\ e.kind = k /\ e.status \in NewStatuses BY DEF NewIn
  <2>2. /\ e.owner \in ToSet(Owners) /\ e.item \in ToSet(Wants(k, e.owner))
        /\ e.status = Status(Index(boxes), k, e.owner, e.item)
        /\ e = [kind |-> k, owner |-> e.owner, item |-> e.item, status |-> e.status]
    BY <2>1 DEF FitsPlan
  <2>3. e.item \in ToSet(NewOf(plan, k, e.owner)) BY <1>1, <2>1, <2>2
  <2> QED BY <2>2, <2>3
<1> HIDE DEF K, Entry, f, T
<1>9. f \in [fresh -> T] BY <1>2, <1>3, <1>5
<1>10. ASSUME NEW x \in fresh, NEW y \in fresh, f[x] = f[y] PROVE x = y
  <2>1. PICK o \in ToSet(Owners), i \in Items : K(x) = <<o, i>> /\ f[x] = Entry(o, i) BY <1>1, <1>3
  <2>2. PICK p \in ToSet(Owners), j \in Items : K(y) = <<p, j>> /\ f[y] = Entry(p, j) BY <1>1, <1>3
  <2>3. o = p /\ i = j
    <3>1. Entry(o, i) = Entry(p, j) BY <1>10, <2>1, <2>2
    <3>2. Entry(o, i).owner = Entry(p, j).owner /\ Entry(o, i).item = Entry(p, j).item BY <3>1
    <3> QED BY <1>4, <3>2
  <2> QED BY <1>6, <2>1, <2>2, <2>3
<1>11. ASSUME NEW e \in T PROVE \E x \in fresh : f[x] = e
  <2>1. PICK x \in fresh : K(x) = <<e.owner, e.item>> BY <1>7, <1>8
  <2>2. PICK o \in ToSet(Owners), i \in Items : K(x) = <<o, i>> /\ f[x] = Entry(o, i) BY <1>1, <1>3
  <2>3. o = e.owner /\ i = e.item
    <3>1. <<o, i>> = <<e.owner, e.item>> BY <2>1, <2>2
    <3> QED BY ONLY <3>1
  <2> QED BY <1>8, <2>2, <2>3
<1>12. f \in Surjection(fresh, T) BY <1>9, <1>11 DEF Surjection
<1>13. f \in Injection(fresh, T)
  <2>1. DOMAIN f = fresh BY <1>9
  <2> QED BY <1>9, <1>10, <2>1 DEF Injection, IsInjective
<1>14. IsFiniteSet(T) /\ Cardinality(T) = Cardinality(fresh) BY <1>12, <1>13, FS_Surjection
<1> QED BY <1>14 DEF T

\* A row of m members.
LEMMA RowCount ==
  ASSUME NEW m \in Nat, NEW f, DOMAIN f = 1..m, \A i, j \in 1..m : f[i] = f[j] => i = j,
         NEW T, \A x : x \in T <=> \E j \in 1..m : x = f[j]
  PROVE  IsFiniteSet(T) /\ Cardinality(T) = m
<1> DEFINE g == [j \in 1..m |-> f[j]]
<1>1. IsFiniteSet(1..m) /\ Cardinality(1..m) = m BY FS_Interval
<1>2. g \in Surjection(1..m, T) /\ g \in Injection(1..m, T)
  <2>1. g \in [1..m -> T] /\ DOMAIN g = 1..m /\ \A j \in 1..m : g[j] = f[j] OBVIOUS
  <2> HIDE DEF g
  <2>2. g \in Surjection(1..m, T) BY <2>1 DEF Surjection
  <2>3. g \in Injection(1..m, T) BY <2>1 DEF Injection, IsInjective
  <2> QED BY <2>2, <2>3
<1> HIDE DEF g
<1>3. IsFiniteSet(T) /\ Cardinality(T) = Cardinality(1..m) BY <1>1, <1>2, FS_Surjection
<1> QED BY <1>1, <1>3

\* What stood in the captions still does, and the new commands are there once.
LEMMA PatchedIs ==
  ASSUME HouseOK, NEW k \in CmdKinds, NEW caps \in CapLists, NEW plan,
         FitsPlan(plan, k, Boxes(caps)), NEW places \in Spots
  PROVE  Extends(caps, Patched(caps, k, plan, places), k, plan, places)
<1>1. CASE TakesBoxes(caps) BY <1>1, PatchedOpen
<1>2. CASE ~TakesBoxes(caps) BY <1>2, PatchedBare
<1> QED BY <1>1, <1>2

\* The captions, boxes and commands of one kind grow by what _next_obj_edit
\* counts for it.
LEMMA KindCount ==
  ASSUME HouseOK, NEW k \in CmdKinds, NEW caps \in CapLists, NEW plan,
         FitsPlan(plan, k, Boxes(caps)), NEW places \in Spots
  PROVE  LET new   == Patched(caps, k, plan, places)
             Of(c) == Len(c) + Cardinality(BoxesAt(c)) + Cardinality(CmdsAt(c))
             add   == Len(Newcomers(plan, k)) * (IF TakesBoxes(caps) THEN 1 ELSE 2)
                        + Cardinality(NewIn(plan, k))
         IN  /\ IsFiniteSet(NewIn(plan, k)) /\ Of(caps) \in Nat /\ add \in Nat
             /\ Of(new) = Of(caps) + add
<1> DEFINE new == Patched(caps, k, plan, places)
           m == Len(Newcomers(plan, k))
           fresh == CmdsAt(new) \ CmdsAt(caps)
           more == BoxesAt(new) \ BoxesAt(caps)
           N == Cardinality(NewIn(plan, k))
<1>1. Extends(caps, new, k, plan, places) BY PatchedIs
<1>2. m \in Nat
  <2>1. Newcomers(plan, k) \in Seq(ToSet(Owners)) BY CapsAre, NewcomersAre
  <2> QED BY <2>1, LenProperties
<1>3. /\ IsFiniteSet(more) /\ Cardinality(more) = m
      /\ Len(new) = Len(caps) + IF TakesBoxes(caps) THEN 0 ELSE m
  <2>1. CASE TakesBoxes(caps)
    <3>1. /\ Len(new) = Len(caps)
          /\ \A x : x \in more <=> \E j \in 1..m : x = <<1, Len(Boxes(caps)) + j>>
      BY <2>1, PatchedOpen
    <3> HIDE DEF more, m, new
    <3> DEFINE f == [j \in 1..m |-> <<1, Len(Boxes(caps)) + j>>]
    <3>2. Len(Boxes(caps)) \in Nat BY CapsAre, BoxesAre
    <3>3. /\ DOMAIN f = 1..m /\ \A i, j \in 1..m : f[i] = f[j] => i = j
          /\ \A x : x \in more <=> \E j \in 1..m : x = f[j]
      BY <1>2, <3>1, <3>2
    <3> HIDE DEF f
    <3>4. IsFiniteSet(more) /\ Cardinality(more) = m BY <1>2, <3>3, RowCount
    <3>5. Len(caps) \in Nat BY CapsAre
    <3> QED BY <2>1, <3>1, <3>4, <3>5
  <2>2. CASE ~TakesBoxes(caps)
    <3>1. /\ Len(new) = Len(caps) + m
          /\ \A x : x \in more <=> \E j \in 1..m : x = <<Len(caps) + j, 1>>
      BY <2>2, PatchedBare
    <3> HIDE DEF more, m, new
    <3> DEFINE f == [j \in 1..m |-> <<Len(caps) + j, 1>>]
    <3>2. Len(caps) \in Nat BY CapsAre
    <3>3. /\ DOMAIN f = 1..m /\ \A i, j \in 1..m : f[i] = f[j] => i = j
          /\ \A x : x \in more <=> \E j \in 1..m : x = f[j]
      BY <1>2, <3>1, <3>2
    <3> HIDE DEF f
    <3>4. IsFiniteSet(more) /\ Cardinality(more) = m BY <1>2, <3>3, RowCount
    <3> QED BY <2>2, <3>1, <3>4
  <2> QED BY <2>1, <2>2
<1>4. new \in CapLists /\ BoxesAt(caps) \subseteq BoxesAt(new) /\ CmdsAt(caps) \subseteq CmdsAt(new)
  BY <1>1 DEF Extends
<1>5. /\ IsFiniteSet(BoxesAt(caps)) /\ IsFiniteSet(CmdsAt(caps)) /\ IsFiniteSet(fresh)
  <2>1. IsFiniteSet(CmdsAt(new)) /\ IsFiniteSet(BoxesAt(caps)) /\ IsFiniteSet(CmdsAt(caps))
    BY <1>4, PlacesFinite
  <2>2. fresh \in SUBSET CmdsAt(new) OBVIOUS
  <2> QED BY <2>1, <2>2, FS_Subset
<1>6. IsFiniteSet(NewIn(plan, k)) /\ Cardinality(fresh) = N
  <2>1. Puts(new, fresh, plan, k, places) BY <1>1 DEF Extends
  <2>2. Boxes(caps) \in BoxLists BY CapsAre
  <2> HIDE DEF fresh, new
  <2> QED BY <1>5, <2>1, <2>2, FreshCount
<1>7. N \in Nat BY <1>6, FS_CardinalityType
<1> HIDE DEF new, m, N
<1>8. /\ Cardinality(BoxesAt(caps)) \in Nat
      /\ Cardinality(BoxesAt(new)) = Cardinality(BoxesAt(caps)) + m
  BY <1>3, <1>4, <1>5, Grows
<1>9. /\ Cardinality(CmdsAt(caps)) \in Nat
      /\ Cardinality(CmdsAt(new)) = Cardinality(CmdsAt(caps)) + N
  BY <1>4, <1>5, <1>6, Grows
<1>10. Len(caps) \in Nat BY CapsAre
<1>11. /\ Len(new) + Cardinality(BoxesAt(new)) + Cardinality(CmdsAt(new)) =
            Len(caps) + Cardinality(BoxesAt(caps)) + Cardinality(CmdsAt(caps))
              + (m * (IF TakesBoxes(caps) THEN 1 ELSE 2) + N)
       /\ m * (IF TakesBoxes(caps) THEN 1 ELSE 2) + N \in Nat
       /\ Len(caps) + Cardinality(BoxesAt(caps)) + Cardinality(CmdsAt(caps)) \in Nat
  <2>1. CASE TakesBoxes(caps)
    <3>1. Len(new) = Len(caps) BY <1>3, <1>10, <2>1
    <3> QED BY <1>2, <1>7, <1>8, <1>9, <1>10, <2>1, <3>1
  <2>2. CASE ~TakesBoxes(caps)
    <3>1. Len(new) = Len(caps) + m BY <1>3, <2>2
    <3>2. m * 2 = m + m BY <1>2
    <3> QED BY <1>2, <1>7, <1>8, <1>9, <1>10, <2>2, <3>1, <3>2
  <2> QED BY <2>1, <2>2
<1> QED BY <1>6, <1>11 DEF new, m, N

----------------------------------------
(* The rooms. *)

\* Who has something new and a room asks for the room.
LEMMA AskingAre ==
  ASSUME HouseOK, NEW plan
  PROVE  /\ Asking(plan) \in Seq(ToSet(Owners))
         /\ \A o \in ToSet(Asking(plan)) : house[o].room \in STRING \X STRING
         /\ \A o \in ToSet(Owners), k \in CmdKinds :
              NewOf(plan, k, o) # <<>> /\ house[o].room # Nowhere => o \in ToSet(Asking(plan))
<1> DEFINE P == {o \in DOMAIN house :
                   /\ house[o].room # Nowhere
                   /\ \E e \in plan : e.owner = o /\ e.status \in {"new_signal", "new_device"}}
<1>1. Asking(plan) = Those(Owners, P) BY DEF Asking
<1>2. Owners \in Seq(ToSet(Owners))
  <2>1. Owners \in Seq(STRING) BY OwnersAre
  <2>2. /\ Len(Owners) \in Nat /\ Owners = [n \in 1..Len(Owners) |-> Owners[n]]
        /\ \A n \in 1..Len(Owners) : Owners[n] \in ToSet(Owners)
    BY <2>1, ToSetIs
  <2> QED BY ONLY <2>2, IsASeq
<1> HIDE DEF P
<1>3. Those(Owners, P) \in Seq(ToSet(Owners)) /\ ToSet(Those(Owners, P)) = ToSet(Owners) \cap P
  BY <1>2, ThoseIs
<1>4. \A o \in ToSet(Asking(plan)) : house[o].room \in STRING \X STRING
  <2> SUFFICES ASSUME NEW o \in ToSet(Owners) \cap P PROVE house[o].room \in STRING \X STRING
    BY <1>1, <1>3
  <2>1. house[o].room # Nowhere BY DEF P
  <2> QED BY <2>1, ExportIs
<1>5. ASSUME NEW o \in ToSet(Owners), NEW k \in CmdKinds, NewOf(plan, k, o) # <<>>, house[o].room # Nowhere
      PROVE  o \in ToSet(Asking(plan))
  <2> DEFINE Q == {i \in Items : \E e \in plan : e.kind = k /\ e.owner = o /\ e.item = i
                                                 /\ e.status \in {"new_signal", "new_device"}}
  <2>1. NewOf(plan, k, o) = Those(Wants(k, o), Q) BY DEF NewOf, With
  <2> HIDE DEF Q
  <2>2. Wants(k, o) \in Seq(Items) BY <1>5, WantsOK
  <2>3. NewOf(plan, k, o) \in Seq(Items) /\ ToSet(NewOf(plan, k, o)) \subseteq Q
    BY <2>1, <2>2, ThoseIs
  <2>4. Q # {} BY <1>5, <2>3, ToSetIs
  <2>5. o \in DOMAIN house BY <1>5, ExportIs
  <2>6. o \in P BY <1>5, <2>4, <2>5 DEF P, Q
  <2> QED BY <1>1, <1>3, <1>5, <2>6
<1> QED BY <1>1, <1>3, <1>4, <1>5

\* Two lists joined.
LEMMA JoinIs ==
  ASSUME NEW S, NEW s \in Seq(S), NEW t \in Seq(S)
  PROVE  /\ s \o t \in Seq(S) /\ Len(s \o t) = Len(s) + Len(t)
         /\ DOMAIN (s \o t) = 1..(Len(s) + Len(t))
         /\ \A x \in 1..Len(s) : (s \o t)[x] = s[x]
         /\ \A x \in 1..Len(t) : (s \o t)[Len(s) + x] = t[x]
  OBVIOUS

\* The places after a sync.
LEMMA RoomsAre ==
  ASSUME HouseOK, file \in Projects, NEW plan
  PROVE  LET old == file.places
             new == file.places \o RoomsToCreate(plan)
         IN  /\ new \in Spots /\ RoomsToCreate(plan) \in Spots
             /\ \A x \in DOMAIN new \ DOMAIN old : \A y \in DOMAIN new \ {x} : new[y][1] # new[x][1]
             /\ ~file.placesOpen => new = old
             /\ file.placesOpen => \A o \in ToSet(Asking(plan)) :
                                     \E x \in DOMAIN new : new[x][1] = house[o].room[1]
<1> DEFINE old == file.places
           R == RoomsToCreate(plan)
           asking == Asking(plan)
           N == Len(asking)
           Key(n) == house[asking[n]].room[1]
           P == {n \in DOMAIN asking : /\ \A m \in 1..(n - 1) : Key(m) # Key(n)
                                       /\ \A x \in DOMAIN old : old[x][1] # Key(n)}
           s == [n \in DOMAIN asking |-> n]
           order == Those(s, P)
<1>1. old \in Spots /\ Len(old) \in Nat /\ DOMAIN old = 1..Len(old)
  BY ProjectIs, LenProperties DEF Spots
<1>2. CASE ~file.placesOpen
  <2>1. R = <<>> BY <1>2 DEF RoomsToCreate
  <2>2. old \o R = old /\ R \in Spots BY <1>1, <2>1 DEF Spots
  <2> QED BY <1>1, <1>2, <2>2
<1>3. CASE file.placesOpen
  <2>1. R = [j \in DOMAIN order |-> house[asking[order[j]]].room] BY <1>3, Zenon DEF RoomsToCreate
  <2>2. /\ N \in Nat /\ DOMAIN asking = 1..N
        /\ \A n \in 1..N : asking[n] \in ToSet(asking) /\ house[asking[n]].room \in STRING \X STRING
        /\ \A o \in ToSet(asking) : \E n \in 1..N : o = asking[n]
    BY AskingAre, ToSetIs
  <2> HIDE DEF asking, N
  <2>3. s = [n \in 1..N |-> n] /\ s \in Seq(1..N) /\ Len(s) = N BY <2>2
  <2>4. ToSet(s) = 1..N /\ Once(s) BY <2>2, <2>3, ToSetIs DEF Once
  <2> HIDE DEF s
  <2>5. P \subseteq 1..N BY <2>2
  <2>6. \A n \in 1..N : n \in P <=> /\ \A m \in 1..(n - 1) : Key(m) # Key(n)
                                    /\ \A x \in DOMAIN old : old[x][1] # Key(n)
    BY <2>2
  <2> HIDE DEF P
  <2>7. order \in Seq(1..N) /\ ToSet(order) = P /\ Once(order)
    <3>1. order \in Seq(1..N) BY ONLY <2>3, ThoseIs, Zenon DEF order
    <3>2. ToSet(order) = ToSet(s) \cap P BY ONLY <2>3, ThoseIs, Zenon DEF order
    <3>3. Once(s) => Once(order) BY ONLY <2>3, ThoseIs, Zenon DEF order
    <3> QED BY <2>4, <2>5, <3>1, <3>2, <3>3
  <2> HIDE DEF order
  <2>8. /\ Len(order) \in Nat /\ DOMAIN order = 1..Len(order)
        /\ \A j \in 1..Len(order) : order[j] \in P /\ order[j] \in 1..N
        /\ \A n \in P : \E j \in 1..Len(order) : n = order[j]
        /\ \A i, j \in 1..Len(order) : order[i] = order[j] => i = j
    <3>1. /\ Len(order) \in Nat /\ DOMAIN order = 1..Len(order)
          /\ \A x : x \in ToSet(order) <=> \E n \in 1..Len(order) : x = order[n]
      BY ONLY <2>7, ToSetIs
    <3> QED BY ONLY <2>5, <2>7, <3>1 DEF Once
  <2> DEFINE L == Len(order)
             r == [j \in 1..L |-> house[asking[order[j]]].room]
  <2>9. R = r BY <2>1, <2>8
  <2>10. r \in Spots /\ Len(r) = L BY <2>2, <2>8 DEF Spots
  <2>11. \A j \in 1..L : r[j][1] = Key(order[j]) OBVIOUS
  <2>12. \A i, j \in 1..L : i # j => r[i][1] # r[j][1]
    <3> SUFFICES ASSUME NEW i \in 1..L, NEW j \in 1..L, order[i] < order[j] PROVE r[i][1] # r[j][1]
      <4>1. \A i, j \in 1..L : order[i] < order[j] => r[i][1] # r[j][1] OBVIOUS
      <4>2. \A i, j \in 1..L : i # j => order[i] < order[j] \/ order[j] < order[i] BY <2>2, <2>8
      <4> HIDE DEF r
      <4> QED BY <4>1, <4>2
    <3>1. Key(order[i]) # Key(order[j])
      <4> HIDE DEF Key
      <4>1. order[i] \in 1..(order[j] - 1) BY <2>2, <2>8
      <4> QED BY <2>6, <2>8, <4>1
    <3> QED BY <2>11, <3>1
  <2>13. \A j \in 1..L : \A x \in DOMAIN old : old[x][1] # r[j][1] BY <2>6, <2>8, <2>11
  <2>14. ASSUME NEW o \in ToSet(asking), \A x \in DOMAIN old : old[x][1] # house[o].room[1]
         PROVE  \E j \in 1..L : r[j][1] = house[o].room[1]
    <3>1. PICK n \in 1..N : o = asking[n] BY <2>2
    <3> DEFINE S == {m \in 1..N : Key(m) = Key(n)}
    <3>2. S \in SUBSET Nat /\ n \in S BY <2>2
    <3>3. PICK m \in S : \A x \in S : m <= x BY <3>2, NatLeast, Zenon
    <3>4. m \in 1..N /\ Key(m) = Key(n) /\ Key(n) = house[o].room[1] BY <3>1
    <3>5. \A x \in 1..(m - 1) : x \in 1..N /\ ~(m <= x) BY <2>2, <3>4
    <3>6. \A x \in 1..(m - 1) : Key(x) # Key(m) BY <3>3, <3>4, <3>5
    <3> HIDE DEF S, Key
    <3>7. m \in P BY <2>6, <2>14, <3>4, <3>6
    <3>8. PICK j \in 1..L : m = order[j] BY <2>8, <3>7
    <3> QED BY <2>11, <3>4, <3>8
  <2> DEFINE new == old \o R
  <2> HIDE DEF r, Key
  <2>15. L \in Nat BY <2>8
  <2> HIDE DEF L, R, old
  <2>16. /\ new \in Spots /\ Len(new) = Len(old) + L /\ DOMAIN new = 1..(Len(old) + L)
         /\ \A x \in 1..Len(old) : new[x] = old[x]
         /\ \A j \in 1..L : new[Len(old) + j] = r[j]
    <3>1. r \in Seq(STRING \X STRING) /\ old \in Seq(STRING \X STRING) BY <1>1, <2>10 DEF Spots
    <3>2. /\ old \o r \in Seq(STRING \X STRING) /\ Len(old \o r) = Len(old) + Len(r)
          /\ DOMAIN (old \o r) = 1..(Len(old) + Len(r))
          /\ \A x \in 1..Len(old) : (old \o r)[x] = old[x]
          /\ \A x \in 1..Len(r) : (old \o r)[Len(old) + x] = r[x]
      <4>1. \A a, b \in Seq(STRING \X STRING) :
              /\ a \o b \in Seq(STRING \X STRING) /\ Len(a \o b) = Len(a) + Len(b)
              /\ DOMAIN (a \o b) = 1..(Len(a) + Len(b))
              /\ \A x \in 1..Len(a) : (a \o b)[x] = a[x]
              /\ \A x \in 1..Len(b) : (a \o b)[Len(a) + x] = b[x]
        BY JoinIs
      <4> QED BY ONLY <3>1, <4>1, Zenon
    <3>3. new = old \o r /\ Len(r) = L BY <2>9, <2>10
    <3> HIDE DEF new
    <3> QED BY ONLY <3>2, <3>3 DEF Spots
  <2> HIDE DEF new
  <2>17. \A x \in DOMAIN new \ DOMAIN old : x - Len(old) \in 1..L /\ x = Len(old) + (x - Len(old))
    BY <1>1, <2>15, <2>16
  <2>18. ASSUME NEW x \in DOMAIN new \ DOMAIN old, NEW y \in DOMAIN new \ {x}
         PROVE  new[y][1] # new[x][1]
    <3>1. PICK j \in 1..L : x = Len(old) + j BY <2>17
    <3>2. CASE y \in DOMAIN old BY <1>1, <2>13, <2>16, <3>1, <3>2
    <3>3. CASE y \notin DOMAIN old
      <4>1. PICK i \in 1..L : y = Len(old) + i BY <2>17, <3>3
      <4>2. i # j BY <3>1, <4>1
      <4> QED BY <2>12, <2>16, <3>1, <4>1, <4>2
    <3> QED BY <3>2, <3>3
  <2>19. ASSUME NEW o \in ToSet(asking) PROVE \E x \in DOMAIN new : new[x][1] = house[o].room[1]
    <3>1. CASE \E x \in DOMAIN old : old[x][1] = house[o].room[1] BY <1>1, <2>15, <2>16, <3>1
    <3>2. CASE ~ \E x \in DOMAIN old : old[x][1] = house[o].room[1]
      <4>1. PICK j \in 1..L : r[j][1] = house[o].room[1] BY <2>14, <3>2
      <4>2. Len(old) + j \in DOMAIN new BY <1>1, <2>15, <2>16
      <4> QED BY <2>16, <4>1, <4>2
    <3> QED BY <3>1, <3>2
  <2>20. R \in Spots BY <2>9, <2>10
  <2> QED BY <1>3, <2>16, <2>18, <2>19, <2>20 DEF new, R, old, asking
<1> QED BY <1>2, <1>3

----------------------------------------
(* What a sync does. *)

\* The file f is what the sync of the Miniserver l makes of the file.
IsSynced(f, l) ==
    /\ l \in 1..Len(file.lives) /\ DOMAIN f.lives = DOMAIN file.lives
    /\ f \in Projects
    /\ f.places = file.places \o RoomsToCreate(SyncPlan(l))
    /\ \A m \in DOMAIN file.lives : m # l => f.lives[m] = file.lives[m]
    /\ \A k \in CmdKinds : f.lives[l].caps[k] = Patched(Caps(l, k), k, SyncPlan(l), f.places)
    /\ f.next = file.next + CreatedCount(l, SyncPlan(l)) /\ f.rights = file.rights

\* What is counted for NextObj is a number.
LEMMA CountIs ==
  ASSUME HouseOK, file \in Projects, NEW l \in 1..Len(file.lives)
  PROVE  CreatedCount(l, SyncPlan(l)) \in Nat
<1> DEFINE plan == SyncPlan(l)
           N == Cardinality({e \in plan : e.status \in {"new_signal", "new_device"}})
           add(k) == Len(Newcomers(plan, k)) * (IF TakesBoxes(Caps(l, k)) THEN 1 ELSE 2)
           R == Len(RoomsToCreate(plan))
<1>1. \A k \in CmdKinds : FitsPlan(plan, k, Boxes(Caps(l, k))) /\ Caps(l, k) \in CapLists
  BY PlanFits, ProjectIs DEF Caps
<1>2. {e \in plan : e.status \in {"new_signal", "new_device"}} = NewIn(plan, "in") \cup NewIn(plan, "out")
  <2>1. \A e \in plan : e.kind \in CmdKinds BY DEF SyncPlan
  <2> QED BY <2>1 DEF NewIn, NewStatuses, CmdKinds
<1>3. \A k \in CmdKinds : /\ IsFiniteSet(NewIn(plan, k)) /\ Len(Newcomers(plan, k)) \in Nat
  <2> SUFFICES ASSUME NEW k \in CmdKinds PROVE IsFiniteSet(NewIn(plan, k)) /\ Len(Newcomers(plan, k)) \in Nat
    OBVIOUS
  <2>1. IsFiniteSet(NewIn(plan, k)) BY <1>1, KindCount, RoomsAre
  <2>2. Newcomers(plan, k) \in Seq(ToSet(Owners)) BY <1>1, CapsAre, NewcomersAre
  <2> QED BY <2>1, <2>2, LenProperties
<1>4. N \in Nat
  <2>1. IsFiniteSet(NewIn(plan, "in") \cup NewIn(plan, "out")) BY <1>3, FS_Union DEF CmdKinds
  <2> QED BY <1>2, <2>1, FS_CardinalityType
<1>5. R \in Nat BY RoomsAre, LenProperties DEF Spots
<1>6. CreatedCount(l, plan) = N + add("in") + add("out") + R * (IF file.rights THEN 2 ELSE 1)
  BY DEF CreatedCount
<1> HIDE DEF plan, N, R
<1>7. add("in") \in Nat /\ add("out") \in Nat BY <1>3 DEF CmdKinds
<1> HIDE DEF add
<1>8. R * (IF file.rights THEN 2 ELSE 1) \in Nat BY <1>5
<1> QED BY <1>4, <1>6, <1>7, <1>8 DEF plan

\* Applying the plan of a Miniserver makes such a file.
LEMMA ApplyIs ==
  ASSUME HouseOK, file \in Projects, NEW l \in 1..Len(file.lives), file.lives[l].open
  PROVE  IsSynced(ApplyPlan(l, SyncPlan(l)), l)
<1> DEFINE plan == SyncPlan(l)
           places == file.places \o RoomsToCreate(plan)
           caps == [k \in CmdKinds |-> Patched(Caps(l, k), k, plan, places)]
           n == file.next + CreatedCount(l, plan)
           f == ApplyPlan(l, plan)
           live == [file.lives[l] EXCEPT !.caps = caps]
           ms == [file.lives EXCEPT ![l] = live]
<1>1. f = [file EXCEPT !.lives = ms, !.places = places, !.next = n] BY DEF ApplyPlan
<1>2. places \in Spots BY RoomsAre
<1>3. caps \in [CmdKinds -> CapLists]
  <2> SUFFICES ASSUME NEW k \in CmdKinds PROVE Patched(Caps(l, k), k, plan, places) \in CapLists
    OBVIOUS
  <2>1. FitsPlan(plan, k, Boxes(Caps(l, k))) /\ Caps(l, k) \in CapLists
    BY PlanFits, ProjectIs DEF Caps
  <2> HIDE DEF plan, places
  <2>2. Extends(Caps(l, k), Patched(Caps(l, k), k, plan, places), k, plan, places)
    BY <1>2, <2>1, PatchedIs
  <2> QED BY <2>2 DEF Extends
<1>4. n \in Nat BY CountIs, ProjectIs
<1>5. \A k \in CmdKinds : caps[k] = Patched(Caps(l, k), k, plan, places) OBVIOUS
<1> HIDE DEF caps, places, n, f, plan
<1>6. live \in Miniservers /\ live.caps = caps BY <1>3, ProjectIs DEF Miniservers, CapLists
<1> HIDE DEF live
<1>7. /\ ms \in Seq(Miniservers) /\ DOMAIN ms = DOMAIN file.lives /\ ms[l] = live
      /\ \A m \in DOMAIN file.lives : m # l => ms[m] = file.lives[m]
  <2>1. file.lives \in Seq(Miniservers) BY DEF Projects
  <2> QED BY <1>6, <2>1
<1> HIDE DEF ms
<1>8. /\ f \in Projects /\ f.lives = ms /\ f.places = places /\ f.next = n /\ f.rights = file.rights
  BY <1>1, <1>2, <1>4, <1>7 DEF Projects, Spots
<1> QED BY <1>5, <1>6, <1>7, <1>8 DEF IsSynced, places, n, plan, f

\* The Miniserver that is patched has the address, unless there is one only
\* (_resolve_target_loxlive).
LEMMA TargetIs ==
  ASSUME file \in Projects, NEW asked, Target(asked) # 0
  PROVE  /\ Target(asked) \in 1..Len(file.lives)
         /\ \/ Len(file.lives) = 1
            \/ file.lives[Target(asked)].ip = (IF asked = NoIp THEN chosenIp ELSE asked)
<1>1. Len(file.lives) \in Nat /\ DOMAIN file.lives = 1..Len(file.lives) BY ProjectIs
<1>2. ASSUME NEW ip, Resolve(ip) # 0
      PROVE  /\ Resolve(ip) \in 1..Len(file.lives)
             /\ ip = NoIp => Len(file.lives) = 1
             /\ ip # NoIp => file.lives[Resolve(ip)].ip = ip
  <2> DEFINE M == {l \in DOMAIN file.lives : file.lives[l].ip = ip}
  <2>1. CASE ip = NoIp BY <1>1, <1>2, <2>1 DEF Resolve
  <2>2. CASE ip # NoIp
    <3>1. M # {} /\ Resolve(ip) = CHOOSE l \in M : \A m \in M : l <= m BY <1>2, <2>2 DEF Resolve
    <3>2. M \in SUBSET Nat BY <1>1
    <3>3. \A l \in M : l \in 1..Len(file.lives) /\ file.lives[l].ip = ip BY <1>1
    <3> HIDE DEF M
    <3>4. \E l \in M : \A m \in M : l <= m BY <3>1, <3>2, NatLeast
    <3>5. Resolve(ip) \in M BY <3>1, <3>4
    <3> QED BY <2>2, <3>3, <3>5
  <2> QED BY <2>1, <2>2
<1>3. CASE Resolve(asked) = 0 /\ asked = NoIp /\ chosenIp # NoIp
  <2>1. Target(asked) = Resolve(chosenIp) BY <1>3 DEF Target
  <2> QED BY <1>2, <1>3, <2>1
<1>4. CASE ~(Resolve(asked) = 0 /\ asked = NoIp /\ chosenIp # NoIp)
  <2>1. Target(asked) = Resolve(asked) BY <1>4, Zenon DEF Target
  <2> QED BY <1>2, <1>4, <2>1
<1> QED BY <1>3, <1>4

\* A sync patches the Miniserver it resolves to, or nothing.
LEMMA SyncStep ==
  ASSUME SyncTypeOK, NEW asked, Sync(asked)
  PROVE  /\ house' = house
         /\ \/ file' = file /\ synced' = synced
            \/ IsSynced(file', Target(asked)) /\ synced' = Target(asked)
<1> DEFINE l == Target(asked)
<1>1. CASE l # 0 /\ file.lives[l].open
  <2>1. l \in 1..Len(file.lives) BY <1>1, TargetIs DEF SyncTypeOK
  <2>2. file' = ApplyPlan(l, SyncPlan(l)) /\ synced' = l /\ house' = house BY <1>1 DEF Sync
  <2>3. HouseOK BY DEF HouseOK, SyncTypeOK
  <2> HIDE DEF l
  <2>4. IsSynced(ApplyPlan(l, SyncPlan(l)), l) BY <1>1, <2>1, <2>3, ApplyIs DEF SyncTypeOK
  <2> QED BY <2>2, <2>4 DEF l
<1>2. CASE ~(l # 0 /\ file.lives[l].open) BY <1>2 DEF Sync
<1> QED BY <1>1, <1>2

----------------------------------------
(* What stood in the file, and its index. *)

\* A command a sync brings up to date is in the index, and wanted.
LEMMA OldIs ==
  ASSUME HouseOK, NEW k \in CmdKinds, NEW caps \in CapLists, NEW plan, FitsPlan(plan, k, Boxes(caps)),
         NEW x \in CmdsAt(caps), x[1] = 1, Outdated(Boxes(caps), k, plan, x[2], x[3])
  PROVE  LET key == KeyOf(CmdAt(caps, x))
         IN  /\ key[1] \in ToSet(Owners) /\ key[2] \in ToSet(Wants(k, key[1]))
             /\ CmdAt(caps, x) \in Commands
<1>1. PICK e \in Index(Boxes(caps)) :
        e.box = x[2] /\ e.pos = x[3] /\ Outdated(Boxes(caps), k, plan, e.box, e.pos)
  BY DEF Outdated
<1>2. Boxes(caps) \in BoxLists BY CapsAre
<1>3. /\ KeyOf(e.cmd)[1] \in ToSet(Owners)
      /\ KeyOf(e.cmd)[2] \in ToSet(Wants(k, KeyOf(e.cmd)[1]))
  BY <1>1, <1>2, StaleIs
<1>4. e \in Keyed(Boxes(caps)) /\ e.cmd \in Commands BY <1>2, IndexHas, KeyedIs
<1>5. CmdAt(caps, <<1, e.box, e.pos>>) = e.cmd BY <1>4, CmdsOfFirst
<1>6. x = <<x[1], x[2], x[3]>> BY PlacesInCaps
<1>7. CmdAt(caps, x) = e.cmd BY <1>1, <1>5, <1>6
<1> QED BY <1>3, <1>4, <1>7

\* An old command after the sync.
LEMMA OldStays ==
  ASSUME HouseOK, NEW k \in CmdKinds, NEW caps \in CapLists, NEW plan, FitsPlan(plan, k, Boxes(caps)),
         NEW places, NEW new, Extends(caps, new, k, plan, places), NEW x \in CmdsAt(caps)
  PROVE  LET was == CmdAt(caps, x)
             is  == CmdAt(new, x)
         IN  /\ KeyOf(is) = KeyOf(was) /\ is.name = was.name /\ is.title = was.title
             /\ \/ is = was
                \/ /\ KeyOf(was)[1] \in ToSet(Owners) /\ KeyOf(was)[2] \in ToSet(Wants(k, KeyOf(was)[1]))
                   /\ is = Updated(was)
<1>1. CmdAt(new, x) = IF x[1] = 1 /\ Outdated(Boxes(caps), k, plan, x[2], x[3])
                      THEN Updated(CmdAt(caps, x)) ELSE CmdAt(caps, x)
  BY DEF Extends
<1>2. CASE x[1] = 1 /\ Outdated(Boxes(caps), k, plan, x[2], x[3])
  <2> DEFINE was == CmdAt(caps, x)
  <2>1. /\ KeyOf(was)[1] \in ToSet(Owners) /\ KeyOf(was)[2] \in ToSet(Wants(k, KeyOf(was)[1]))
        /\ was \in Commands
    BY <1>2, OldIs
  <2>2. CmdAt(new, x) = Updated(was) BY <1>1, <1>2
  <2> HIDE DEF was
  <2>3. KeyOf(Updated(was)) = KeyOf(was) /\ Updated(was).name = was.name /\ Updated(was).title = was.title
    BY <2>1, UpdatedIs
  <2> QED BY <2>1, <2>2, <2>3 DEF was
<1>3. CASE ~(x[1] = 1 /\ Outdated(Boxes(caps), k, plan, x[2], x[3])) BY <1>1, <1>3
<1> QED BY <1>2, <1>3

\* A command the index reads stood there before, or comes from the plan.
FromOld(caps, d) ==
    \E e \in Keyed(Boxes(caps)) : e.box = d.box /\ e.pos = d.pos /\ KeyOf(e.cmd) = KeyOf(d.cmd)
FromPlan(plan, k, places, d) ==
    \E o \in ToSet(Owners) : \E i \in ToSet(NewOf(plan, k, o)), nb \in Nat :
      d.cmd = NewCmd(places, o, i, nb) /\ KeyOf(d.cmd) = <<o, i>>

\* What the index can find, before and after the sync.
LEMMA KeyedAfter ==
  ASSUME HouseOK, NEW k \in CmdKinds, NEW caps \in CapLists, NEW plan, FitsPlan(plan, k, Boxes(caps)),
         NEW places \in Spots, NEW new, Extends(caps, new, k, plan, places)
  PROVE  /\ \A e \in Keyed(Boxes(caps)) : \E d \in Keyed(Boxes(new)) :
              /\ d.box = e.box /\ d.pos = e.pos
              /\ KeyOf(d.cmd) = KeyOf(e.cmd) /\ d.cmd.title = e.cmd.title
              /\ d.cmd = IF Outdated(Boxes(caps), k, plan, e.box, e.pos) THEN Updated(e.cmd) ELSE e.cmd
         /\ \A d \in Keyed(Boxes(new)) : FromOld(caps, d) \/ FromPlan(plan, k, places, d)
<1>1. /\ new \in CapLists /\ CmdsAt(caps) \subseteq CmdsAt(new)
      /\ \A x \in CmdsAt(caps) :
           CmdAt(new, x) = IF x[1] = 1 /\ Outdated(Boxes(caps), k, plan, x[2], x[3])
                           THEN Updated(CmdAt(caps, x)) ELSE CmdAt(caps, x)
      /\ Puts(new, CmdsAt(new) \ CmdsAt(caps), plan, k, places)
  BY DEF Extends
<1>2. Boxes(caps) \in BoxLists /\ Boxes(new) \in BoxLists BY <1>1, CapsAre
<1>3. ASSUME NEW c \in CapLists, NEW b, NEW n, <<1, b, n>> \in CmdsAt(c), CmdAt(c, <<1, b, n>>).name # NoName
      PROVE  \E e \in Keyed(Boxes(c)) : e.box = b /\ e.pos = n /\ e.cmd = CmdAt(c, <<1, b, n>>)
  <2>1. /\ 1 \in 1..Len(c) /\ b \in 1..Len(c[1].boxes) /\ n \in 1..Len(c[1].boxes[b])
    BY <1>3, PlacesInCaps
  <2>2. Boxes(c) = c[1].boxes /\ Boxes(c) \in BoxLists BY <2>1, CapsAre DEF Boxes
  <2>3. CmdAt(c, <<1, b, n>>) = Boxes(c)[b][n] BY <2>2 DEF CmdAt
  <2> HIDE DEF CmdAt
  <2>4. Cell(Boxes(c), b, n) \in Keyed(Boxes(c)) BY <1>3, <2>1, <2>2, <2>3, KeyedIs
  <2> QED BY <2>3, <2>4 DEF Cell
<1>4. ASSUME NEW e \in Keyed(Boxes(caps))
      PROVE  \E d \in Keyed(Boxes(new)) :
               /\ d.box = e.box /\ d.pos = e.pos
               /\ KeyOf(d.cmd) = KeyOf(e.cmd) /\ d.cmd.title = e.cmd.title
               /\ d.cmd = IF Outdated(Boxes(caps), k, plan, e.box, e.pos) THEN Updated(e.cmd) ELSE e.cmd
  <2> DEFINE x == <<1, e.box, e.pos>>
  <2>1. x \in CmdsAt(caps) /\ CmdAt(caps, x) = e.cmd /\ e.cmd.name # NoName
    BY <1>2, CmdsOfFirst, KeyedIs
  <2>2. /\ KeyOf(CmdAt(new, x)) = KeyOf(e.cmd) /\ CmdAt(new, x).name = e.cmd.name
        /\ CmdAt(new, x).title = e.cmd.title
    BY <2>1, OldStays
  <2>3. CmdAt(new, x) = IF Outdated(Boxes(caps), k, plan, e.box, e.pos) THEN Updated(e.cmd) ELSE e.cmd
    BY <1>1, <2>1
  <2>4. PICK d \in Keyed(Boxes(new)) : d.box = e.box /\ d.pos = e.pos /\ d.cmd = CmdAt(new, x)
    BY <1>1, <1>3, <2>1, <2>2
  <2> QED BY <2>2, <2>3, <2>4
<1>5. ASSUME NEW d \in Keyed(Boxes(new)), ~FromOld(caps, d) PROVE FromPlan(plan, k, places, d)
  <2> DEFINE x == <<1, d.box, d.pos>>
  <2>1. x \in CmdsAt(new) /\ CmdAt(new, x) = d.cmd /\ d.cmd.name # NoName
    BY <1>1, <1>2, CmdsOfFirst, KeyedIs
  <2>2. x \notin CmdsAt(caps)
    <3> SUFFICES ASSUME x \in CmdsAt(caps) PROVE FALSE OBVIOUS
    <3>1. KeyOf(d.cmd) = KeyOf(CmdAt(caps, x)) /\ CmdAt(caps, x).name = d.cmd.name BY <2>1, OldStays
    <3>2. PICK e \in Keyed(Boxes(caps)) : e.box = d.box /\ e.pos = d.pos /\ e.cmd = CmdAt(caps, x)
      BY <1>3, <2>1, <3>1
    <3> QED BY <1>5, <3>1, <3>2 DEF FromOld
  <2> HIDE DEF x
  <2>3. PICK o \in ToSet(Owners) : \E i \in ToSet(NewOf(plan, k, o)), nb \in Nat :
          CmdAt(new, x) = NewCmd(places, o, i, nb)
    BY <1>1, <2>1, <2>2 DEF Puts
  <2>4. PICK i \in ToSet(NewOf(plan, k, o)), nb \in Nat : CmdAt(new, x) = NewCmd(places, o, i, nb)
    BY <2>3
  <2>5. i \in Items BY <1>2, NewOfIs, ToSetIs
  <2>6. KeyOf(d.cmd) = <<o, i>> /\ d.cmd = NewCmd(places, o, i, nb) BY <2>1, <2>4, <2>5, NewCmdIs
  <2> QED BY <2>6 DEF FromPlan
<1> QED BY <1>4, <1>5

----------------------------------------
(* A second pass. *)

\* What the index had it has after the sync, at the same place.
LEMMA IndexAfter ==
  ASSUME HouseOK, NEW k \in CmdKinds, NEW caps \in CapLists, NEW plan, FitsPlan(plan, k, Boxes(caps)),
         NEW places \in Spots, NEW new, Extends(caps, new, k, plan, places), NEW e \in Index(Boxes(caps))
  PROVE  \E d \in Index(Boxes(new)) :
           /\ KeyOf(d.cmd) = KeyOf(e.cmd) /\ d.cmd.title = e.cmd.title
           /\ d.cmd = IF Outdated(Boxes(caps), k, plan, e.box, e.pos) THEN Updated(e.cmd) ELSE e.cmd
<1>1. Boxes(caps) \in BoxLists /\ e \in Keyed(Boxes(caps)) BY CapsAre, IndexHas
<1>2. PICK d \in Keyed(Boxes(new)) :
        /\ d.box = e.box /\ d.pos = e.pos
        /\ KeyOf(d.cmd) = KeyOf(e.cmd) /\ d.cmd.title = e.cmd.title
        /\ d.cmd = IF Outdated(Boxes(caps), k, plan, e.box, e.pos) THEN Updated(e.cmd) ELSE e.cmd
  BY <1>1, KeyedAfter
<1>3. ASSUME NEW c \in Keyed(Boxes(new)), Before(d, c), SameKey(d, c) PROVE FALSE
  <2>1. CASE FromOld(caps, c)
    <3>1. PICK h \in Keyed(Boxes(caps)) : h.box = c.box /\ h.pos = c.pos /\ KeyOf(h.cmd) = KeyOf(c.cmd)
      BY <2>1 DEF FromOld
    <3>2. Before(e, h) /\ SameKey(e, h) BY <1>2, <1>3, <3>1 DEF Before, SameKey
    <3> QED BY <3>2 DEF Index
  <2>2. CASE FromPlan(plan, k, places, c)
    <3>1. PICK o \in ToSet(Owners) : \E i \in ToSet(NewOf(plan, k, o)) : KeyOf(c.cmd) = <<o, i>>
      BY <2>2 DEF FromPlan
    <3>2. PICK i \in ToSet(NewOf(plan, k, o)) : KeyOf(c.cmd) = <<o, i>> BY <3>1
    <3>3. KeyOf(e.cmd) = <<o, i>> BY <1>2, <1>3, <3>2 DEF SameKey
    <3> QED BY <1>1, <3>3, NewOfIs
  <2> QED BY <2>1, <2>2, KeyedAfter
<1>4. d \in Index(Boxes(new)) BY <1>3 DEF Index
<1> QED BY <1>2, <1>4

\* A status, of the commands of an owner and those with the key.
LEMMA StatusSays ==
  ASSUME NEW boxes \in BoxLists, NEW k, NEW o, NEW i,
         NEW own, own = OwnedBy(o, Index(boxes)), NEW there, there = {e \in own : KeyOf(e.cmd)[2] = i}
  PROVE  LET is == Status(Index(boxes), k, o, i)
         IN  /\ is \in NewStatuses <=> there = {} /\ (own # {} => \A e \in own : e.cmd.title # i)
             /\ there = {} => is # "updated"
             /\ \A e \in there : is = "updated" <=> HasRequired(k, e.cmd) /\ e.cmd.value # house[o].rev
<1> DEFINE is == Status(Index(boxes), k, o, i)
<1>1. is \in NewStatuses <=> there = {} /\ (own # {} => \A e \in own : e.cmd.title # i) BY StatusIs
<1>2. there = {} => is # "updated" BY StatusIs
<1>3. \A e \in there : is = "updated" <=> HasRequired(k, e.cmd) /\ e.cmd.value # house[o].rev
  BY StatusIs
<1> QED BY <1>1, <1>2, <1>3

\* After a sync no wanted key is missing, and none has an old value.
LEMMA CleanAfter ==
  ASSUME HouseOK, NEW k \in CmdKinds, NEW caps \in CapLists, NEW plan, FitsPlan(plan, k, Boxes(caps)),
         NEW places \in Spots, NEW new, Extends(caps, new, k, plan, places), Len(new) \in {0, 1},
         NEW o \in ToSet(Owners), NEW i \in ToSet(Wants(k, o))
  PROVE  Status(Index(Boxes(new)), k, o, i) \notin {"updated", "new_signal", "new_device"}
<1> DEFINE old == Index(Boxes(caps))
           now == Index(Boxes(new))
           is == Status(now, k, o, i)
           was == Status(old, k, o, i)
           there(index) == {e \in OwnedBy(o, index) : KeyOf(e.cmd)[2] = i}
<1>1. /\ new \in CapLists /\ Puts(new, CmdsAt(new) \ CmdsAt(caps), plan, k, places) BY DEF Extends
<1>2. Boxes(caps) \in BoxLists /\ Boxes(new) \in BoxLists BY <1>1, CapsAre
<1>3. i \in Items /\ i # NoName
  <2>1. Wants(k, o) \in Seq(Items) BY WantsOK
  <2>2. ToSet(Wants(k, o)) \in SUBSET Items BY ONLY <2>1, ToSetIs
  <2>3. i \in Items BY <2>2
  <2> HIDE DEF Items
  <2> QED BY <2>3, SyncAssumption
<1>4. /\ is \in NewStatuses <=> there(now) = {} /\ (OwnedBy(o, now) # {} =>
                                                    \A e \in OwnedBy(o, now) : e.cmd.title # i)
      /\ there(now) = {} => is # "updated"
      /\ \A e \in there(now) : is = "updated" <=> HasRequired(k, e.cmd) /\ e.cmd.value # house[o].rev
  <2> DEFINE own == OwnedBy(o, now)
             th == there(now)
  <2>1. Boxes(new) \in BoxLists /\ own = OwnedBy(o, Index(Boxes(new))) /\ th = {e \in own : KeyOf(e.cmd)[2] = i}
    BY <1>2
  <2> HIDE DEF own, th
  <2>2. /\ is \in NewStatuses <=> th = {} /\ (own # {} => \A e \in own : e.cmd.title # i)
        /\ th = {} => is # "updated"
        /\ \A e \in th : is = "updated" <=> HasRequired(k, e.cmd) /\ e.cmd.value # house[o].rev
    BY ONLY <2>1, StatusSays
  <2> QED BY ONLY <2>2 DEF own, th
<1>5. /\ was \in NewStatuses <=> there(old) = {} /\ (OwnedBy(o, old) # {} =>
                                                    \A e \in OwnedBy(o, old) : e.cmd.title # i)
      /\ \A e \in there(old) : was = "updated" <=> HasRequired(k, e.cmd) /\ e.cmd.value # house[o].rev
  <2> DEFINE own == OwnedBy(o, old)
             th == there(old)
  <2>1. Boxes(caps) \in BoxLists /\ own = OwnedBy(o, Index(Boxes(caps))) /\ th = {e \in own : KeyOf(e.cmd)[2] = i}
    BY <1>2
  <2> HIDE DEF own, th
  <2>2. /\ was \in NewStatuses <=> th = {} /\ (own # {} => \A e \in own : e.cmd.title # i)
        /\ \A e \in th : was = "updated" <=> HasRequired(k, e.cmd) /\ e.cmd.value # house[o].rev
    BY ONLY <2>1, StatusSays
  <2> QED BY ONLY <2>2 DEF own, th
<1>6. \A index : \A e : e \in there(index) <=> e \in index /\ KeyOf(e.cmd)[1] = o /\ KeyOf(e.cmd)[2] = i
  BY DEF OwnedBy
<1>7. i \in ToSet(NewOf(plan, k, o)) <=> was \in NewStatuses BY <1>2, NewOfIs
<1>8. \A b \in CmdKinds : house[o].rev \in Nat /\ house[o].rev # Absent BY ExportIs, SyncAssumption
<1> HIDE DEF is, was, there, old, now
<1>9. CASE was \in NewStatuses
  <2>1. PICK x \in CmdsAt(new) \ CmdsAt(caps) : KeyOf(CmdAt(new, x)) = <<o, i>>
    BY <1>1, <1>7, <1>9 DEF Puts
  <2>2. PICK b, n : /\ x = <<1, b, n>> /\ 1 \in 1..Len(new)
                    /\ b \in 1..Len(new[1].boxes) /\ n \in 1..Len(new[1].boxes[b])
    BY <1>1, PlacesInCaps
  <2>3. Boxes(new) = new[1].boxes BY <1>1, <2>2, CapsAre DEF Boxes
  <2>4. CmdAt(new, x) = Boxes(new)[b][n] BY <2>2, <2>3 DEF CmdAt
  <2>5. Boxes(new)[b][n].name # NoName BY <1>3, <2>1, <2>4 DEF KeyOf
  <2>6. Cell(Boxes(new), b, n) \in Keyed(Boxes(new)) BY <1>2, <2>2, <2>3, <2>5, KeyedIs
  <2>7. PICK d \in now : SameKey(d, Cell(Boxes(new), b, n)) BY <1>2, <2>6, IndexHas DEF now
  <2>8. KeyOf(d.cmd) = <<o, i>> /\ d \in Keyed(Boxes(new))
    BY <1>2, <2>1, <2>4, <2>7, IndexHas DEF SameKey, Cell, now
  <2>9. ~ \E e \in Keyed(Boxes(caps)) : KeyOf(e.cmd) = KeyOf(d.cmd)
    BY <1>2, <1>7, <1>9, <2>8, NewOfIs
  <2>10. PICK p \in ToSet(Owners) : \E j \in ToSet(NewOf(plan, k, p)), nb \in Nat :
           d.cmd = NewCmd(places, p, j, nb) /\ KeyOf(d.cmd) = <<p, j>>
    <3>1. ~FromOld(caps, d) BY <2>9 DEF FromOld
    <3>2. FromPlan(plan, k, places, d) BY <2>8, <3>1, KeyedAfter
    <3> QED BY <3>2 DEF FromPlan
  <2>11. PICK nb \in Nat : d.cmd = NewCmd(places, o, i, nb) BY <2>8, <2>10
  <2>12. d.cmd.value = house[o].rev BY <1>3, <2>11, NewCmdIs
  <2>13. d \in there(now) BY <1>6, <2>7, <2>8
  <2> QED BY <1>4, <2>12, <2>13 DEF is, NewStatuses, now
<1>10. CASE was \notin NewStatuses /\ there(old) # {}
  <2>1. PICK e \in old : KeyOf(e.cmd)[1] = o /\ KeyOf(e.cmd)[2] = i /\ e \in there(old)
    BY <1>6, <1>10
  <2>2. PICK d \in now : /\ KeyOf(d.cmd) = KeyOf(e.cmd)
                         /\ d.cmd = IF Outdated(Boxes(caps), k, plan, e.box, e.pos) THEN Updated(e.cmd) ELSE e.cmd
    BY <2>1, IndexAfter DEF old, now
  <2>3. d \in there(now) BY <1>6, <2>1, <2>2
  <2>4. e.cmd \in Commands BY <1>2, <2>1, IndexHas, KeyedIs DEF old
  <2>5. Outdated(Boxes(caps), k, plan, e.box, e.pos) <=> was = "updated"
    BY <1>2, <2>1, StaleIs DEF old, was
  <2>6. is # "updated"
    <3>1. CASE was = "updated"
      <4>1. d.cmd = Updated(e.cmd) BY <2>2, <2>5, <3>1
      <4>2. d.cmd.value = house[o].rev BY <2>1, <2>4, <4>1, UpdatedIs
      <4> QED BY <1>4, <2>3, <4>2
    <3>2. CASE was # "updated"
      <4>1. d.cmd = e.cmd BY <2>2, <2>5, <3>2
      <4> QED BY <1>4, <1>5, <2>1, <2>3, <3>2, <4>1
    <3> QED BY <3>1, <3>2
  <2> QED BY <1>4, <2>3, <2>6 DEF is, NewStatuses, now
<1>11. CASE was \notin NewStatuses /\ there(old) = {}
  <2>1. PICK e \in OwnedBy(o, old) : e.cmd.title = i BY <1>5, <1>11
  <2>2. e \in old /\ KeyOf(e.cmd)[1] = o BY <2>1 DEF OwnedBy
  <2>3. PICK d \in now : KeyOf(d.cmd) = KeyOf(e.cmd) /\ d.cmd.title = e.cmd.title
    BY <2>2, IndexAfter DEF old, now
  <2>4. d \in OwnedBy(o, now) /\ d.cmd.title = i BY <2>1, <2>2, <2>3 DEF OwnedBy
  <2>5. there(now) = {}
    <3> SUFFICES ASSUME NEW c \in there(now) PROVE FALSE OBVIOUS
    <3>1. c \in now /\ KeyOf(c.cmd)[1] = o /\ KeyOf(c.cmd)[2] = i /\ c \in Keyed(Boxes(new))
      BY <1>2, <1>6, IndexHas DEF now
    <3>2. CASE FromOld(caps, c)
      <4>1. PICK h \in Keyed(Boxes(caps)) : KeyOf(h.cmd) = KeyOf(c.cmd) BY <3>2 DEF FromOld
      <4>2. PICK g \in old : SameKey(g, h) BY <1>2, <4>1, IndexHas DEF old
      <4>3. g \in there(old) BY <1>6, <3>1, <4>1, <4>2 DEF SameKey
      <4> QED BY <1>11, <4>3
    <3>3. CASE FromPlan(plan, k, places, c)
      <4>1. PICK p \in ToSet(Owners) : \E j \in ToSet(NewOf(plan, k, p)) : KeyOf(c.cmd) = <<p, j>>
        BY <3>3 DEF FromPlan
      <4>2. i \in ToSet(NewOf(plan, k, o)) BY <3>1, <4>1
      <4> QED BY <1>7, <1>11, <4>2
    <3> QED BY <3>1, <3>2, <3>3, KeyedAfter
  <2> QED BY <1>4, <2>4, <2>5 DEF is, NewStatuses, now
<1> QED BY <1>9, <1>10, <1>11 DEF is, now

----------------------------------------
(* The properties of a sync. *)

\* The captions before and after.
LEMMA SyncedIs ==
  ASSUME HouseOK, file \in Projects, NEW f, NEW l, IsSynced(f, l), NEW k \in CmdKinds
  PROVE  /\ Caps(l, k) \in CapLists /\ FitsPlan(SyncPlan(l), k, Boxes(Caps(l, k)))
         /\ f.places \in Spots /\ f.lives[l].caps[k] \in CapLists
         /\ f.lives[l].caps[k] = Patched(Caps(l, k), k, SyncPlan(l), f.places)
         /\ Extends(Caps(l, k), f.lives[l].caps[k], k, SyncPlan(l), f.places)
<1>1. Caps(l, k) \in CapLists /\ FitsPlan(SyncPlan(l), k, Boxes(Caps(l, k)))
  BY PlanFits, ProjectIs DEF Caps, IsSynced
<1>2. f.places \in Spots /\ f.lives[l].caps[k] = Patched(Caps(l, k), k, SyncPlan(l), f.places)
  BY ProjectIs DEF IsSynced, Spots
<1>3. Extends(Caps(l, k), f.lives[l].caps[k], k, SyncPlan(l), f.places) BY <1>1, <1>2, PatchedIs
<1> QED BY <1>1, <1>2, <1>3 DEF Extends

\* What stood in the file stays (KeepsWhatStood).
LEMMA KeepsIs ==
  ASSUME HouseOK, file \in Projects, NEW f, NEW l, IsSynced(f, l)
  PROVE  StillThere(f)
<1>1. IsPrefix(file.places, f.places)
  <2> DEFINE s == file.places
             t == RoomsToCreate(SyncPlan(l))
  <2>1. s \in Spots /\ t \in Spots /\ f.places = s \o t BY RoomsAre, ProjectIs DEF IsSynced, Spots
  <2> HIDE DEF s, t
  <2>2. IsPrefix(s, s \o t) BY <2>1 DEF IsPrefix, Spots
  <2> QED BY <2>1, <2>2 DEF s
<1>2. ASSUME NEW m \in DOMAIN file.lives, NEW k \in CmdKinds
      PROVE  LET old == file.lives[m].caps[k]
                 new == f.lives[m].caps[k]
             IN  /\ DOMAIN old \subseteq DOMAIN new
                 /\ BoxesAt(old) \subseteq BoxesAt(new)
                 /\ CmdsAt(old) \subseteq CmdsAt(new)
                 /\ \A x \in CmdsAt(old) :
                      LET cmd == CmdAt(old, x)
                      IN  \/ CmdAt(new, x) = cmd
                          \/ /\ KeyOf(cmd)[2] \in ToSet(Wants(k, KeyOf(cmd)[1]))
                             /\ CmdAt(new, x) = [cmd EXCEPT !.value = house[KeyOf(cmd)[1]].rev]
  <2>1. CASE m # l
    <3>1. f.lives[m] = file.lives[m] BY <2>1 DEF IsSynced
    <3> QED BY <3>1
  <2>2. CASE m = l
    <3> DEFINE old == Caps(l, k)
               new == f.lives[l].caps[k]
    <3>1. /\ old \in CapLists /\ FitsPlan(SyncPlan(l), k, Boxes(old)) /\ f.places \in Spots
          /\ Extends(old, new, k, SyncPlan(l), f.places) /\ old = file.lives[m].caps[k]
      BY <2>2, SyncedIs DEF Caps
    <3> HIDE DEF old, new
    <3>2. /\ DOMAIN old \subseteq DOMAIN new /\ BoxesAt(old) \subseteq BoxesAt(new)
          /\ CmdsAt(old) \subseteq CmdsAt(new)
      BY <3>1 DEF Extends
    <3>3. ASSUME NEW x \in CmdsAt(old)
          PROVE  \/ CmdAt(new, x) = CmdAt(old, x)
                 \/ /\ KeyOf(CmdAt(old, x))[2] \in ToSet(Wants(k, KeyOf(CmdAt(old, x))[1]))
                    /\ CmdAt(new, x) = [CmdAt(old, x) EXCEPT !.value = house[KeyOf(CmdAt(old, x))[1]].rev]
      BY <3>1, OldStays DEF Updated
    <3> QED BY <2>2, <3>1, <3>2, <3>3 DEF new
  <2> QED BY <2>1, <2>2
<1> QED BY <1>1, <1>2 DEF StillThere

\* A wanted key is written where the first caption has it not, and once.
LEMMA WritesIs ==
  ASSUME HouseOK, file \in Projects, NEW f, NEW l, IsSynced(f, l),
         NEW k \in CmdKinds, NEW o \in ToSet(Owners), NEW i \in ToSet(Wants(k, o))
  PROVE  LET old == file.lives[l].caps[k]
             was == Named(old, <<o, i>>)
             is  == Named(f.lives[l].caps[k], <<o, i>>)
         IN  \/ is = was
             \/ /\ ~ \E e \in Index(Boxes(old)) : KeyOf(e.cmd) = <<o, i>>
                /\ \E x \in is : is = was \cup {x}
<1> DEFINE old == Caps(l, k)
           new == f.lives[l].caps[k]
           plan == SyncPlan(l)
           was == Named(old, <<o, i>>)
           is == Named(new, <<o, i>>)
           fresh == CmdsAt(new) \ CmdsAt(old)
<1>1. /\ old \in CapLists /\ FitsPlan(plan, k, Boxes(old)) /\ f.places \in Spots
      /\ Extends(old, new, k, plan, f.places) /\ old = file.lives[l].caps[k]
  BY SyncedIs DEF Caps
<1> HIDE DEF old, new, plan
<1>2. /\ CmdsAt(old) \subseteq CmdsAt(new) /\ Puts(new, fresh, plan, k, f.places)
      /\ \A x \in CmdsAt(old) : KeyOf(CmdAt(new, x)) = KeyOf(CmdAt(old, x))
  BY <1>1, OldStays DEF Extends
<1>3. /\ \A x : x \in was <=> x \in CmdsAt(old) /\ KeyOf(CmdAt(old, x)) = <<o, i>>
      /\ \A x : x \in is <=> x \in CmdsAt(new) /\ KeyOf(CmdAt(new, x)) = <<o, i>>
  BY DEF Named
<1> HIDE DEF was, is
<1>4. was = {x \in is : x \in CmdsAt(old)} BY <1>2, <1>3
<1>5. Boxes(old) \in BoxLists BY <1>1, CapsAre
<1>6. CASE i \in ToSet(NewOf(plan, k, o))
  <2>1. PICK x \in fresh : KeyOf(CmdAt(new, x)) = <<o, i>> BY <1>2, <1>6 DEF Puts
  <2>2. \A y \in fresh : KeyOf(CmdAt(new, y)) = <<o, i>> => y = x BY <1>2, <2>1 DEF Puts
  <2>3. x \in is /\ is = was \cup {x} BY <1>3, <1>4, <2>1, <2>2
  <2>4. ~ \E e \in Index(Boxes(old)) : KeyOf(e.cmd) = <<o, i>>
    BY <1>1, <1>5, <1>6, NewOfIs, IndexHas
  <2> QED BY <1>1, <2>3, <2>4 DEF is, was, new
<1>7. CASE i \notin ToSet(NewOf(plan, k, o))
  <2>1. \A x \in fresh : KeyOf(CmdAt(new, x)) # <<o, i>>
    <3> SUFFICES ASSUME NEW x \in fresh, KeyOf(CmdAt(new, x)) = <<o, i>> PROVE FALSE OBVIOUS
    <3>1. PICK p \in ToSet(Owners) : \E j \in ToSet(NewOf(plan, k, p)), nb \in Nat :
            CmdAt(new, x) = NewCmd(f.places, p, j, nb)
      BY <1>2 DEF Puts
    <3>2. PICK j \in ToSet(NewOf(plan, k, p)), nb \in Nat : CmdAt(new, x) = NewCmd(f.places, p, j, nb)
      BY <3>1
    <3>3. j \in Items BY <1>1, <1>5, NewOfIs, ToSetIs
    <3>4. KeyOf(CmdAt(new, x)) = <<p, j>> BY <1>1, <3>2, <3>3, NewCmdIs
    <3> QED BY <1>7, <3>2, <3>4
  <2>2. is = was BY <1>3, <1>4, <2>1
  <2> QED BY <1>1, <2>2 DEF is, was, new
<1> QED BY <1>6, <1>7

\* NextObj counts what was added (NextObjCounts).
LEMMA CountsIs ==
  ASSUME HouseOK, file \in Projects, NEW f, NEW l, IsSynced(f, l)
  PROVE  Counted(f, l)
<1> DEFINE plan == SyncPlan(l)
           Of(c) == Len(c) + Cardinality(BoxesAt(c)) + Cardinality(CmdsAt(c))
           was(k) == Of(Caps(l, k))
           is(k) == Of(f.lives[l].caps[k])
           boxed(k) == Len(Newcomers(plan, k)) * (IF TakesBoxes(Caps(l, k)) THEN 1 ELSE 2)
           cmds(k) == Cardinality(NewIn(plan, k))
           N == Cardinality({e \in plan : e.status \in {"new_signal", "new_device"}})
           c == IF file.rights THEN 2 ELSE 1
           R == Len(RoomsToCreate(plan))
<1>1. \A k \in CmdKinds : /\ IsFiniteSet(NewIn(plan, k)) /\ was(k) \in Nat /\ boxed(k) + cmds(k) \in Nat
                          /\ is(k) = was(k) + (boxed(k) + cmds(k))
  <2> SUFFICES ASSUME NEW k \in CmdKinds
               PROVE  /\ IsFiniteSet(NewIn(plan, k)) /\ was(k) \in Nat /\ boxed(k) + cmds(k) \in Nat
                      /\ is(k) = was(k) + (boxed(k) + cmds(k))
    OBVIOUS
  <2>1. /\ Caps(l, k) \in CapLists /\ FitsPlan(plan, k, Boxes(Caps(l, k))) /\ f.places \in Spots
        /\ f.lives[l].caps[k] = Patched(Caps(l, k), k, plan, f.places)
    BY SyncedIs
  <2> HIDE DEF plan
  <2> QED BY ONLY HouseOK, k \in CmdKinds, <2>1, KindCount, Zenon
<1>2. \A k \in CmdKinds : cmds(k) \in Nat /\ boxed(k) \in Nat
  <2> SUFFICES ASSUME NEW k \in CmdKinds PROVE cmds(k) \in Nat /\ boxed(k) \in Nat OBVIOUS
  <2>1. cmds(k) \in Nat BY <1>1, FS_CardinalityType
  <2>2. Newcomers(plan, k) \in Seq(ToSet(Owners)) BY SyncedIs, CapsAre, NewcomersAre
  <2> QED BY <2>1, <2>2, LenProperties
<1>3. N = cmds("in") + cmds("out")
  <2>1. {e \in plan : e.status \in {"new_signal", "new_device"}} = NewIn(plan, "in") \cup NewIn(plan, "out")
    <3>1. \A e \in plan : e.kind \in CmdKinds BY DEF SyncPlan
    <3> QED BY <3>1 DEF NewIn, NewStatuses, CmdKinds
  <2> DEFINE A == NewIn(plan, "in")
             B == NewIn(plan, "out")
  <2>2. A \cap B = {} BY DEF NewIn
  <2>3. /\ IsFiniteSet(A) /\ IsFiniteSet(B)
        /\ Cardinality(A) \in Nat /\ Cardinality(B) \in Nat
    BY <1>1, FS_CardinalityType DEF CmdKinds
  <2>4. N = Cardinality(A \cup B) /\ cmds("in") = Cardinality(A) /\ cmds("out") = Cardinality(B)
    BY <2>1
  <2> HIDE DEF A, B, N, cmds
  <2>5. Cardinality(A \cup B) = Cardinality(A) + Cardinality(B) - Cardinality(A \cap B)
    BY <2>3, FS_Union
  <2>6. Cardinality(A \cap B) = 0 BY <2>2, FS_EmptySet
  <2> QED BY <2>3, <2>4, <2>5, <2>6
<1>4. /\ Len(file.places) \in Nat /\ R \in Nat /\ Len(f.places) = Len(file.places) + R
      /\ file.next \in Nat /\ f.rights = file.rights
  BY RoomsAre, ProjectIs, LenProperties, ConcatProperties DEF IsSynced, Spots
<1>5. f.next = file.next + (N + boxed("in") + boxed("out") + R * c) BY DEF IsSynced, CreatedCount
<1>6. /\ Objects(file, l) = was("in") + was("out") + Len(file.places) * c
      /\ Objects(f, l) = is("in") + is("out") + Len(f.places) * c
  BY <1>4 DEF Objects, Caps
<1> HIDE DEF plan, was, is, boxed, cmds, N, R, Of
<1>7. /\ was("in") \in Nat /\ boxed("in") \in Nat /\ cmds("in") \in Nat
      /\ is("in") = was("in") + (boxed("in") + cmds("in"))
      /\ was("out") \in Nat /\ boxed("out") \in Nat /\ cmds("out") \in Nat
      /\ is("out") = was("out") + (boxed("out") + cmds("out"))
  BY <1>1, <1>2 DEF CmdKinds
<1>8. c \in {1, 2} /\ (c = 1 \/ c = 2) OBVIOUS
<1> DEFINE x == R * c
           y == Len(file.places) * c
<1>9. Len(f.places) * c = y + x /\ x \in Nat /\ y \in Nat
  <2>1. ASSUME NEW a \in Nat, NEW b \in Nat, NEW d \in {1, 2}
        PROVE  (a + b) * d = a * d + b * d /\ a * d \in Nat /\ b * d \in Nat
    <3>1. CASE d = 1 BY <3>1
    <3>2. CASE d = 2 BY <3>2
    <3> QED BY <3>1, <3>2
  <2>2. c \in {1, 2} BY <1>8
  <2> DEFINE p == Len(file.places)
             q == Len(f.places)
  <2>3. q = p + R /\ p \in Nat /\ R \in Nat BY <1>4
  <2> HIDE DEF c, p, q
  <2>4. (p + R) * c = p * c + R * c /\ p * c \in Nat /\ R * c \in Nat BY <2>1, <2>2, <2>3, Zenon
  <2>5. q * c = p * c + R * c /\ p * c \in Nat /\ R * c \in Nat BY ONLY <2>3, <2>4, Zenon
  <2> QED BY <2>5, Zenon DEF p, q
<1> DEFINE b1 == boxed("in")
           b2 == boxed("out")
           c1 == cmds("in")
           c2 == cmds("out")
           w1 == was("in")
           w2 == was("out")
<1>10. /\ f.next = file.next + (c1 + c2 + b1 + b2 + x) /\ file.next \in Nat
       /\ Objects(file, l) = w1 + w2 + y
       /\ Objects(f, l) = (w1 + (b1 + c1)) + (w2 + (b2 + c2)) + (y + x)
  BY <1>3, <1>4, <1>5, <1>6, <1>7, <1>9
<1>11. /\ w1 \in Nat /\ w2 \in Nat /\ b1 \in Nat /\ b2 \in Nat /\ c1 \in Nat /\ c2 \in Nat BY <1>7
<1> HIDE DEF x, y, b1, b2, c1, c2, w1, w2
<1>12. f.next + Objects(file, l) = file.next + Objects(f, l) BY ONLY <1>9, <1>10, <1>11
<1> QED BY <1>12 DEF Counted

\* Rooms are created once, and new commands lie in theirs (RoomsOnce).
LEMMA RoomsIs ==
  ASSUME HouseOK, file \in Projects, NEW f, NEW l, IsSynced(f, l)
  PROVE  RoomsRight(f, l)
<1> DEFINE plan == SyncPlan(l)
<1>1. /\ \A x \in DOMAIN f.places \ DOMAIN file.places :
           \A y \in DOMAIN f.places \ {x} : f.places[y][1] # f.places[x][1]
      /\ ~file.placesOpen => f.places = file.places
      /\ file.placesOpen => \A o \in ToSet(Asking(plan)) :
                              \E x \in DOMAIN f.places : f.places[x][1] = house[o].room[1]
  <2>1. f.places = file.places \o RoomsToCreate(plan) BY DEF IsSynced
  <2> HIDE DEF plan
  <2> QED BY ONLY HouseOK, file \in Projects, <2>1, RoomsAre
<1>2. ASSUME NEW k \in CmdKinds, NEW x \in CmdsAt(f.lives[l].caps[k]) \ CmdsAt(file.lives[l].caps[k])
      PROVE  LET new  == CmdAt(f.lives[l].caps[k], x)
                 room == house[new.owner].room
             IN  \/ room = Nowhere
                 \/ /\ ~file.placesOpen
                    /\ \A y \in DOMAIN file.places : file.places[y][1] # room[1]
                 \/ new.room \in DOMAIN f.places /\ f.places[new.room][1] = room[1]
  <2> DEFINE new == CmdAt(f.lives[l].caps[k], x)
             places == f.places
  <2>1. /\ Caps(l, k) \in CapLists /\ FitsPlan(plan, k, Boxes(Caps(l, k))) /\ places \in Spots
        /\ Puts(f.lives[l].caps[k], CmdsAt(f.lives[l].caps[k]) \ CmdsAt(Caps(l, k)), plan, k, places)
        /\ Caps(l, k) = file.lives[l].caps[k]
    BY SyncedIs DEF Extends, Caps
  <2> HIDE DEF plan
  <2>2. PICK o \in ToSet(Owners) : \E i \in ToSet(NewOf(plan, k, o)), nb \in Nat :
          new = NewCmd(places, o, i, nb)
    BY <2>1, <1>2 DEF Puts
  <2>3. PICK i \in ToSet(NewOf(plan, k, o)), nb \in Nat : new = NewCmd(places, o, i, nb) BY <2>2
  <2>4. i \in Items /\ NewOf(plan, k, o) # <<>> BY <2>1, CapsAre, NewOfIs, ToSetIs
  <2> HIDE DEF new, places
  <2>5. new.owner = o /\ new.room = IF PlaceOf(places, o) # 0 THEN PlaceOf(places, o) ELSE nb
    BY <2>1, <2>3, <2>4, NewCmdIs
  <2>6. CASE house[o].room = Nowhere BY <2>5, <2>6 DEF new
  <2>7. CASE house[o].room # Nowhere /\ \E y \in DOMAIN places : places[y][1] = house[o].room[1]
    <3>1. PlaceOf(places, o) # 0 BY <2>1, <2>7, PlaceIs
    <3>2. PlaceOf(places, o) \in DOMAIN places /\ places[PlaceOf(places, o)][1] = house[o].room[1]
      BY <2>1, <3>1, PlaceIs
    <3> QED BY <2>5, <3>1, <3>2 DEF new, places
  <2>8. CASE house[o].room # Nowhere /\ ~ \E y \in DOMAIN places : places[y][1] = house[o].room[1]
    <3>1. o \in ToSet(Asking(plan)) BY <2>4, <2>8, AskingAre
    <3>2. ~file.placesOpen BY <1>1, <2>8, <3>1 DEF places
    <3> QED BY <1>1, <2>5, <2>8, <3>2 DEF new, places
  <2> QED BY <2>6, <2>7, <2>8
<1> QED BY <1>1, <1>2 DEF RoomsRight

\* Every wanted key is (WritesOnce).
LEMMA WritesAll ==
  ASSUME HouseOK, file \in Projects, NEW f, NEW l, IsSynced(f, l)
  PROVE  WrittenOnce(f, l)
<1>1. ASSUME NEW k \in CmdKinds, NEW o \in ToSet(Owners), NEW i \in ToSet(Wants(k, o))
      PROVE  LET old == file.lives[l].caps[k]
                 was == Named(old, <<o, i>>)
                 is  == Named(f.lives[l].caps[k], <<o, i>>)
             IN  \/ is = was
                 \/ /\ ~ \E e \in Index(Boxes(old)) : KeyOf(e.cmd) = <<o, i>>
                    /\ \E x \in is : is = was \cup {x}
  BY WritesIs
<1> QED BY <1>1 DEF WrittenOnce

----------------------------------------
(* The second pass, of any file and house. *)

WantsIn(h, k, o) ==
    CASE ~h[o].there -> <<>>
      [] k = "out" -> Outputs(h[o])
      [] o \in ToSet(SyncDevices) -> Inputs(h[o])
      [] OTHER -> <<>>
StatusIn(h, index, k, o, i) ==
    LET own   == OwnedBy(o, index)
        there == {e \in own : KeyOf(e.cmd)[2] = i}
        cmd   == (CHOOSE e \in there : TRUE).cmd
    IN  IF there # {}
        THEN CASE ~HasRequired(k, cmd) -> "conflict"
               [] HasRequired(k, cmd) /\ cmd.value # h[o].rev -> "updated"
               [] OTHER -> "unchanged"
        ELSE CASE own = {} -> "new_device"
               [] \E e \in own : e.cmd.title = i -> "possible_duplicate"
               [] OTHER -> "new_signal"
Several(f, l) == \E k \in CmdKinds : \/ Len(f.lives[l].caps[k]) > 1
                                     \/ /\ f.lives[l].caps[k] # <<>>
                                        /\ ~TakesBoxes(f.lives[l].caps[k])
CleanIn(f, h, l) ==
    \/ l = 0
    \/ \A k \in CmdKinds : \A o \in ToSet(Owners) : \A i \in ToSet(WantsIn(h, k, o)) :
         StatusIn(h, Index(Boxes(f.lives[l].caps[k])), k, o, i) \notin {"updated", "new_signal", "new_device"}
    \/ Several(f, l)

\* SecondPassIsCleanInOne says no more than that of the file, house and
\* Miniserver there are.
LEMMA CleanInIs == SecondPassIsCleanInOne <=> CleanIn(file, house, synced)
<1>1. \A k, o : Wants(k, o) = WantsIn(house, k, o) BY DEF Wants, WantsIn
<1>2. \A index, k, o, i : Status(index, k, o, i) = StatusIn(house, index, k, o, i)
  BY DEF Status, StatusIn
<1>3. (\E k \in CmdKinds : \/ Len(Caps(synced, k)) > 1
                           \/ Caps(synced, k) # <<>> /\ ~TakesBoxes(Caps(synced, k))) <=> Several(file, synced)
  BY DEF Several, Caps
<1> DEFINE St(k, o, i) == StatusIn(house, Index(Boxes(file.lives[synced].caps[k])), k, o, i)
           Fine(s) == s \notin {"updated", "new_signal", "new_device"}
<1>4. (\A e \in SyncPlan(synced) : Fine(e.status)) <=>
      \A k \in CmdKinds : \A o \in ToSet(Owners) : \A i \in ToSet(WantsIn(house, k, o)) : Fine(St(k, o, i))
  <2>1. ASSUME \A e \in SyncPlan(synced) : Fine(e.status),
               NEW k \in CmdKinds, NEW o \in ToSet(Owners), NEW i \in ToSet(WantsIn(house, k, o))
        PROVE  Fine(St(k, o, i))
    <3>1. [kind |-> k, owner |-> o, item |-> i, status |-> St(k, o, i)] \in SyncPlan(synced)
      <4> DEFINE e == [kind |-> k, owner |-> o, item |-> i, status |-> Status(Index(Boxes(Caps(synced, k))), k, o, i)]
      <4>1. FitsPlan(SyncPlan(synced), k, Boxes(Caps(synced, k))) /\ i \in ToSet(Wants(k, o))
        BY <1>1, PlanFits
      <4>2. e \in SyncPlan(synced) BY <4>1 DEF FitsPlan
      <4>3. Status(Index(Boxes(Caps(synced, k))), k, o, i) = St(k, o, i) BY <1>2 DEF Caps
      <4> HIDE DEF St
      <4> QED BY <4>2, <4>3
    <3> HIDE DEF St, Fine
    <3>2. Fine([kind |-> k, owner |-> o, item |-> i, status |-> St(k, o, i)].status) BY <2>1, <3>1
    <3> QED BY <3>2
  <2>2. ASSUME \A k \in CmdKinds : \A o \in ToSet(Owners) : \A i \in ToSet(WantsIn(house, k, o)) : Fine(St(k, o, i)),
               NEW e \in SyncPlan(synced)
        PROVE  Fine(e.status)
    <3>1. PICK k \in CmdKinds : e.kind = k BY DEF SyncPlan
    <3>2. FitsPlan(SyncPlan(synced), k, Boxes(Caps(synced, k))) BY PlanFits
    <3>3. /\ e.owner \in ToSet(Owners) /\ e.item \in ToSet(Wants(k, e.owner))
          /\ e.status = Status(Index(Boxes(Caps(synced, k))), k, e.owner, e.item)
      BY <3>1, <3>2 DEF FitsPlan
    <3>4. e.status = St(k, e.owner, e.item) /\ e.item \in ToSet(WantsIn(house, k, e.owner))
      BY <1>1, <1>2, <3>3 DEF Caps
    <3> HIDE DEF St, Fine
    <3> QED BY <2>2, <3>3, <3>4
  <2> QED BY <2>1, <2>2
<1> HIDE DEF St
<1> QED BY <1>3, <1>4 DEF SecondPassIsCleanInOne, SecondPassIsClean, CleanIn, St

\* It holds of the file a sync leaves.
LEMMA SecondIs ==
  ASSUME HouseOK, file \in Projects, NEW f, NEW l, IsSynced(f, l)
  PROVE  CleanIn(f, house, l)
<1> SUFFICES ASSUME ~Several(f, l), NEW k \in CmdKinds, NEW o \in ToSet(Owners),
                    NEW i \in ToSet(WantsIn(house, k, o))
             PROVE  StatusIn(house, Index(Boxes(f.lives[l].caps[k])), k, o, i)
                      \notin {"updated", "new_signal", "new_device"}
  BY DEF CleanIn
<1> DEFINE new == f.lives[l].caps[k]
<1>1. /\ Caps(l, k) \in CapLists /\ FitsPlan(SyncPlan(l), k, Boxes(Caps(l, k)))
      /\ f.places \in Spots /\ new \in CapLists
      /\ Extends(Caps(l, k), new, k, SyncPlan(l), f.places)
  BY SyncedIs
<1>2. Len(new) \in Nat /\ ~(Len(new) > 1) BY <1>1, CapsAre DEF Several
<1> HIDE DEF new
<1>3. Len(new) \in {0, 1}
  <2>1. \A n \in Nat : ~(n > 1) => n \in {0, 1} OBVIOUS
  <2> QED BY <1>2, <2>1, Zenon
<1>4. i \in ToSet(Wants(k, o)) BY DEF Wants, WantsIn
<1>5. Status(Index(Boxes(new)), k, o, i) \notin {"updated", "new_signal", "new_device"}
  BY <1>1, <1>3, <1>4, CleanAfter
<1>6. Status(Index(Boxes(new)), k, o, i) = StatusIn(house, Index(Boxes(new)), k, o, i)
  BY DEF Status, StatusIn
<1> QED BY <1>5, <1>6 DEF new

----------------------------------------
(* The types, and the theorem. *)

\* What the user makes of a command is one.
LEMMA SpoiledIs ==
  ASSUME NEW k \in CmdKinds, NEW cmd \in Commands, NEW new \in Spoiled(k, cmd)
  PROVE  new \in Commands
<1>1. /\ cmd.owner \in Texts /\ cmd.name \in Texts /\ cmd.off \in Texts /\ cmd.title \in Texts
      /\ cmd.value \in Nat \cup {Absent} /\ cmd.room \in Nat
      /\ cmd = [owner |-> cmd.owner, name |-> cmd.name, off |-> cmd.off, title |-> cmd.title,
                value |-> cmd.value, room |-> cmd.room]
  BY DEF Commands
<1>2. Odd \in Texts /\ NoName \in Texts /\ "off" \in Texts BY SyncAssumption DEF Texts, Items
<1>3. CASE \E t \in {Odd, NoName} : new = [cmd EXCEPT !.title = t] BY <1>1, <1>2, <1>3 DEF Commands
<1>4. CASE \E v \in {2, Absent} : new = [cmd EXCEPT !.value = v] BY <1>1, <1>4 DEF Commands
<1>5. CASE \E n \in {Odd, NoName} : new = [cmd EXCEPT !.name = n] BY <1>1, <1>2, <1>5 DEF Commands
<1>6. CASE new = [cmd EXCEPT !.off = IF k = "out" /\ cmd.name = "on" THEN "off" ELSE NoName]
  BY <1>1, <1>2, <1>6 DEF Commands
<1> QED BY <1>3, <1>4, <1>5, <1>6 DEF Spoiled

\* Another first caption.
LEMMA CaptionPut ==
  ASSUME file \in Projects, file.lives # <<>>, NEW k \in CmdKinds, Caps(1, k) # <<>>,
         NEW c \in Captions, NEW f, f = [file EXCEPT !.lives[1].caps[k][1] = c]
  PROVE  f \in Projects
<1> DEFINE live == file.lives[1]
           caps == [live.caps[k] EXCEPT ![1] = c]
           all == [live.caps EXCEPT ![k] = caps]
           new == [live EXCEPT !.caps = all]
           ms == [file.lives EXCEPT ![1] = new]
<1>1. f = [file EXCEPT !.lives = ms] OBVIOUS
<1>2. /\ Len(file.lives) \in Nat /\ 1 \in 1..Len(file.lives) /\ file.lives \in Seq(Miniservers)
      /\ live \in Miniservers
  BY ProjectIs DEF Projects
<1>3. caps \in CapLists
  <2>1. live.caps[k] \in Seq(Captions) /\ live.caps[k] # <<>> BY <1>2 DEF Caps, Miniservers
  <2> HIDE DEF live
  <2> QED BY <2>1 DEF CapLists
<1> HIDE DEF caps
<1>4. new \in Miniservers BY <1>2, <1>3 DEF Miniservers, CapLists
<1> HIDE DEF new
<1>5. ms \in Seq(Miniservers) BY <1>2, <1>4
<1> HIDE DEF ms
<1> QED BY <1>1, <1>5 DEF Projects

\* Another list of boxes in a caption that has boxes.
LEMMA BoxesPut ==
  ASSUME file \in Projects, file.lives # <<>>, NEW k \in CmdKinds,
         NEW b \in DOMAIN Boxes(Caps(1, k)), NEW new \in BoxLists
  PROVE  /\ Caps(1, k) # <<>> /\ Boxes(Caps(1, k)) = Caps(1, k)[1].boxes
         /\ [Caps(1, k)[1] EXCEPT !.boxes = new] \in Captions
         /\ Boxes(Caps(1, k)) \in BoxLists
<1>1. Caps(1, k) \in CapLists BY ProjectIs DEF Caps
<1>2. Caps(1, k) # <<>> BY DEF Boxes
<1>3. Boxes(Caps(1, k)) = Caps(1, k)[1].boxes BY <1>2 DEF Boxes
<1>4. /\ 1 \in 1..Len(Caps(1, k)) /\ Caps(1, k)[1] \in Captions /\ Boxes(Caps(1, k)) \in BoxLists
      /\ Caps(1, k)[1].open
  BY <1>1, <1>2, <1>3, CapsAre
<1>5. [Caps(1, k)[1] EXCEPT !.boxes = new] \in Captions BY <1>4 DEF Captions, BoxLists
<1> QED BY <1>2, <1>3, <1>4, <1>5

\* The user's edits of commands leave a project file.
LEMMA EditsCmdTypes ==
  ASSUME SyncTypeOK, NEW k \in CmdKinds, EditsCmd(k)
  PROVE  file' \in Projects
<1>1. file \in Projects /\ file.lives # <<>> BY DEF SyncTypeOK, EditsCmd
<1> DEFINE boxes == Boxes(Caps(1, k))
           Edits(b, c) == \/ \E cmd \in Spoiled(k, boxes[b][c]) : PutsBox(k, b, [boxes[b] EXCEPT ![c] = cmd])
                          \/ PutsBox(k, b, RemoveAt(boxes[b], c))
<1>a. PICK b \in DOMAIN boxes : \E c \in DOMAIN boxes[b] : Edits(b, c)
  BY DEF EditsCmd
<1>2. PICK c \in DOMAIN boxes[b] : Edits(b, c) BY <1>a
<1> DEFINE box == boxes[b]
<1>3. boxes \in BoxLists BY <1>1, CapsAre, ProjectIs DEF Caps
<1>4. b \in 1..Len(boxes) /\ Len(boxes) \in Nat
      /\ box \in Seq(Commands) /\ c \in 1..Len(box) /\ Len(box) \in Nat /\ box[c] \in Commands
  BY <1>3, BoxesAre
<1>5. ASSUME NEW x \in Seq(Commands), PutsBox(k, b, x) PROVE file' \in Projects
  <2> DEFINE new == [boxes EXCEPT ![b] = x]
             cap == [Caps(1, k)[1] EXCEPT !.boxes = new]
  <2>1. new \in BoxLists
    <3> HIDE DEF boxes
    <3> QED BY <1>3, <1>4 DEF BoxLists
  <2>2. Caps(1, k) # <<>> /\ boxes = Caps(1, k)[1].boxes /\ cap \in Captions
    <3> HIDE DEF new
    <3> QED BY <1>1, <2>1, BoxesPut
  <2>3. file' = [file EXCEPT !.lives[1].caps[k][1] = cap] BY <1>5, <2>2 DEF PutsBox, Caps
  <2> HIDE DEF cap
  <2> QED BY <1>1, <2>2, <2>3, CaptionPut
<1> HIDE DEF box
<1>6. CASE \E cmd \in Spoiled(k, box[c]) : PutsBox(k, b, [box EXCEPT ![c] = cmd])
  <2>1. PICK cmd \in Spoiled(k, box[c]) : PutsBox(k, b, [box EXCEPT ![c] = cmd]) BY <1>6
  <2>2. cmd \in Commands BY <1>4, SpoiledIs
  <2>3. [box EXCEPT ![c] = cmd] \in Seq(Commands) BY <1>4, <2>2
  <2> QED BY <1>5, <2>1, <2>3
<1>7. CASE PutsBox(k, b, RemoveAt(box, c))
  <2>1. RemoveAt(box, c) \in Seq(Commands) BY <1>4 DEF RemoveAt
  <2> QED BY <1>5, <1>7, <2>1
<1> QED BY <1>2, <1>6, <1>7 DEF box, boxes

\* So do the edits of boxes and captions.
LEMMA EditsBoxesTypes ==
  ASSUME SyncTypeOK, NEW k \in CmdKinds, EditsBoxes(k)
  PROVE  file' \in Projects
<1>1. file \in Projects /\ file.lives # <<>> /\ Caps(1, k) # <<>> BY DEF SyncTypeOK, EditsBoxes
<1>2. CASE \E b \in DOMAIN Boxes(Caps(1, k)) :
             file' = [file EXCEPT !.lives[1].caps[k][1].boxes = Append(@, Boxes(Caps(1, k))[b])]
  <2>1. PICK b \in DOMAIN Boxes(Caps(1, k)) :
          file' = [file EXCEPT !.lives[1].caps[k][1].boxes = Append(@, Boxes(Caps(1, k))[b])]
    BY <1>2
  <2> DEFINE boxes == Boxes(Caps(1, k))
             new == Append(boxes, boxes[b])
             cap == [Caps(1, k)[1] EXCEPT !.boxes = new]
  <2>2. boxes \in BoxLists BY <1>1, CapsAre, ProjectIs DEF Caps
  <2>3. new \in BoxLists BY <2>2, BoxesAre DEF BoxLists
  <2>4. boxes = Caps(1, k)[1].boxes /\ cap \in Captions
    <3> HIDE DEF new
    <3> QED BY <1>1, <2>3, BoxesPut
  <2>5. file' = [file EXCEPT !.lives[1].caps[k][1] = cap] BY <2>1, <2>4 DEF Caps
  <2> HIDE DEF cap
  <2> QED BY <1>1, <2>4, <2>5, CaptionPut
<1>3. CASE file' = [file EXCEPT !.lives[1].caps[k][1] = [open |-> FALSE, boxes |-> <<>>]]
  <2>1. [open |-> FALSE, boxes |-> <<>>] \in Captions BY DEF Captions
  <2> QED BY <1>1, <1>3, <2>1, CaptionPut
<1> QED BY <1>2, <1>3 DEF EditsBoxes

\* What changes in the house leaves exports.
LEMMA HouseTypes ==
  ASSUME SyncTypeOK, ChangesHouse
  PROVE  house' \in [ToSet(Owners) -> Exports]
<1>1. house \in [ToSet(Owners) -> Exports] BY DEF SyncTypeOK
<1>2. PICK o \in ToSet(Owners), r \in RoomNames \cup {Nowhere}, s \in ToSet(Signals), c \in {"on", "off"} :
         house' \in {[house EXCEPT ![o].there = ~@],
                     [house EXCEPT ![o].room = r],
                     [house EXCEPT ![o].signals = SymDiff(@, {s})],
                     [house EXCEPT ![o].commands = SymDiff(@, {c})],
                     [house EXCEPT ![o].rev = 1 - @]}
  BY DEF ChangesHouse
<1>3. /\ house[o].there \in BOOLEAN /\ house[o].signals \in SUBSET {"level", "press"}
      /\ house[o].commands \in SUBSET {"on", "off"}
      /\ house[o].room \in (STRING \X STRING) \cup {Nowhere} /\ house[o].rev \in {0, 1}
      /\ house[o] = [there |-> house[o].there, signals |-> house[o].signals, commands |-> house[o].commands,
                     room |-> house[o].room, rev |-> house[o].rev]
  BY <1>1 DEF Exports
<1>4. s \in {"level", "press"} /\ r \in (STRING \X STRING) \cup {Nowhere}
  BY SyncAssumption DEF ToSet, Signals
<1>5. ASSUME NEW e \in Exports, house' = [house EXCEPT ![o] = e] PROVE house' \in [ToSet(Owners) -> Exports]
  BY <1>1, <1>5
<1>6. CASE house' = [house EXCEPT ![o].there = ~@]
  <2>1. [house[o] EXCEPT !.there = ~@] \in Exports BY <1>3 DEF Exports
  <2> QED BY <1>5, <1>6, <2>1
<1>7. CASE house' = [house EXCEPT ![o].room = r]
  <2>1. [house[o] EXCEPT !.room = r] \in Exports BY <1>3, <1>4 DEF Exports
  <2> QED BY <1>5, <1>7, <2>1
<1>8. CASE house' = [house EXCEPT ![o].signals = SymDiff(@, {s})]
  <2>1. SymDiff(house[o].signals, {s}) \in SUBSET {"level", "press"} BY <1>3, <1>4 DEF SymDiff
  <2>2. [house[o] EXCEPT !.signals = SymDiff(house[o].signals, {s})] \in Exports
    BY <1>3, <2>1 DEF Exports
  <2> QED BY <1>5, <1>8, <2>2
<1>9. CASE house' = [house EXCEPT ![o].commands = SymDiff(@, {c})]
  <2>1. SymDiff(house[o].commands, {c}) \in SUBSET {"on", "off"} BY <1>3 DEF SymDiff
  <2>2. [house[o] EXCEPT !.commands = SymDiff(house[o].commands, {c})] \in Exports
    BY <1>3, <2>1 DEF Exports
  <2> QED BY <1>5, <1>9, <2>2
<1>10. CASE house' = [house EXCEPT ![o].rev = 1 - @]
  <2>1. 1 - house[o].rev \in {0, 1} BY <1>3
  <2>2. [house[o] EXCEPT !.rev = 1 - house[o].rev] \in Exports BY <1>3, <2>1 DEF Exports
  <2> QED BY <1>5, <1>10, <2>2
<1> QED BY <1>2, <1>6, <1>7, <1>8, <1>9, <1>10

\* Every step keeps the types, and the file clean for a second pass.
LEMMA SyncInvStep ==
  ASSUME SyncTypeOK, CleanIn(file, house, synced), [SyncNext]_syncVars
  PROVE  SyncTypeOK' /\ CleanIn(file', house', synced')
<1>1. ASSUME NEW ip \in AskedIps, Sync(ip) PROVE SyncTypeOK' /\ CleanIn(file', house', synced')
  <2>1. CASE file' = file /\ synced' = synced /\ house' = house BY <2>1 DEF SyncTypeOK
  <2>2. CASE IsSynced(file', Target(ip)) /\ synced' = Target(ip) /\ house' = house
    <3> DEFINE l == Target(ip)
    <3>1. HouseOK /\ file \in Projects BY DEF HouseOK, SyncTypeOK
    <3>2. CleanIn(file', house, l) BY <2>2, <3>1, SecondIs
    <3>3. file' \in Projects /\ l \in 1..Len(file.lives) /\ DOMAIN file'.lives = DOMAIN file.lives
      BY <2>2 DEF IsSynced
    <3>4. l \in 0..Len(file'.lives)
      <4>1. DOMAIN file.lives = 1..Len(file.lives) /\ DOMAIN file'.lives = 1..Len(file'.lives)
        BY <3>1, <3>3, ProjectIs
      <4>2. Len(file.lives) \in Nat /\ Len(file'.lives) \in Nat BY <3>1, <3>3, ProjectIs
      <4> HIDE DEF l
      <4> QED BY <3>3, <4>1, <4>2
    <3> HIDE DEF l
    <3> QED BY <2>2, <3>2, <3>3, <3>4 DEF SyncTypeOK, l
  <2> QED BY <1>1, <2>1, <2>2, SyncStep
<1>2. ASSUME FileEdits, file' \in Projects, house' \in [ToSet(Owners) -> Exports]
      PROVE  SyncTypeOK' /\ CleanIn(file', house', synced')
  <2>1. synced' = 0 BY <1>2 DEF FileEdits
  <2>2. Len(file'.lives) \in Nat BY <1>2, ProjectIs
  <2> QED BY <1>2, <2>1, <2>2 DEF SyncTypeOK, CleanIn
<1>3. file \in Projects /\ house \in [ToSet(Owners) -> Exports] BY DEF SyncTypeOK
<1>4. ASSUME NEW k \in CmdKinds, EditsCmd(k) PROVE SyncTypeOK' /\ CleanIn(file', house', synced')
  <2>1. FileEdits /\ house' = house BY <1>4 DEF EditsCmd
  <2> QED BY <1>2, <1>3, <1>4, <2>1, EditsCmdTypes
<1>5. ASSUME NEW k \in CmdKinds, EditsBoxes(k) PROVE SyncTypeOK' /\ CleanIn(file', house', synced')
  <2>1. FileEdits /\ house' = house BY <1>5 DEF EditsBoxes
  <2> QED BY <1>2, <1>3, <1>5, <2>1, EditsBoxesTypes
<1>6. CASE ChangesHouse
  <2>1. FileEdits /\ file' = file BY <1>6 DEF ChangesHouse
  <2> QED BY <1>2, <1>3, <1>6, <2>1, HouseTypes
<1>7. CASE Selects
  <2>1. FileEdits /\ file' = file /\ house' = house BY <1>7 DEF Selects
  <2> QED BY <1>2, <1>3, <2>1
<1>8. CASE UNCHANGED syncVars BY <1>8 DEF syncVars, SyncTypeOK
<1> QED BY <1>1, <1>4, <1>5, <1>6, <1>7, <1>8 DEF SyncNext

\* No step but a sync leaves the count of syncs another one.
LEMMA OnlySyncs ==
  ASSUME [SyncNext]_syncVars, syncs' # syncs
  PROVE  \E ip \in AskedIps : Sync(ip)
BY DEF SyncNext, syncVars, EditsCmd, EditsBoxes, ChangesHouse, Selects, FileEdits

\* A step in which the file changes and the count of syncs too.
LEMMA SyncsAre ==
  ASSUME SyncTypeOK, [SyncNext]_syncVars, file' # file, syncs' # syncs
  PROVE  HouseOK /\ file \in Projects /\ IsSynced(file', synced')
<1>1. PICK ip \in AskedIps : Sync(ip) BY OnlySyncs
<1>2. IsSynced(file', Target(ip)) /\ synced' = Target(ip) BY <1>1, SyncStep
<1> QED BY <1>2 DEF SyncTypeOK, HouseOK

\* The address decides (AskedMiniserverOnly).
LEMMA AskedIs ==
  ASSUME SyncTypeOK, NEW ip, NEW l \in DOMAIN file.lives
  PROVE  \/ file'.lives[l] = file.lives[l] \/ syncs' = syncs
         \/ Len(file.lives) = 1
         \/ ~Sync(ip)
         \/ file.lives[l].ip = (IF ip = NoIp THEN chosenIp ELSE ip)
<1> SUFFICES ASSUME Sync(ip), file'.lives[l] # file.lives[l]
             PROVE  \/ Len(file.lives) = 1
                    \/ file.lives[l].ip = (IF ip = NoIp THEN chosenIp ELSE ip)
  OBVIOUS
<1>1. IsSynced(file', Target(ip)) BY SyncStep
<1>2. Target(ip) = l BY <1>1 DEF IsSynced
<1>3. Target(ip) \in 1..Len(file.lives) /\ Len(file.lives) \in Nat
  BY <1>1, ProjectIs DEF IsSynced, SyncTypeOK
<1>4. Target(ip) # 0 BY <1>3
<1> QED BY <1>2, <1>4, TargetIs DEF SyncTypeOK

\* The types, and that a second sync changes nothing, hold in every state.
LEMMA SyncInv == SyncSpec => [](SyncTypeOK /\ CleanIn(file, house, synced))
<1>1. SyncInit => SyncTypeOK /\ CleanIn(file, house, synced)
  <2> SUFFICES ASSUME SyncInit PROVE SyncTypeOK /\ CleanIn(file, house, synced) OBVIOUS
  <2>1. file \in Projects /\ house \in [ToSet(Owners) -> Exports] /\ synced = 0
    BY SyncAssumption DEF SyncInit
  <2>2. Len(file.lives) \in Nat BY <2>1, ProjectIs
  <2> QED BY <2>1, <2>2 DEF SyncTypeOK, CleanIn
<1>2. SyncTypeOK /\ CleanIn(file, house, synced) /\ [SyncNext]_syncVars
        => (SyncTypeOK /\ CleanIn(file, house, synced))'
  BY SyncInvStep
<1> QED BY <1>1, <1>2, PTL DEF SyncSpec

\* What stood in the file stays, every wanted command is written once, with
\* its room, NextObj counts what was added, only the Miniserver asked for is
\* touched, and a second sync of the same file changes nothing, whatever the
\* file, the house and the edits between the syncs are.
THEOREM SyncIsSafe == SyncSpec => SyncSafe
<1>1. SyncTypeOK /\ [SyncNext]_syncVars
        => [file' = file \/ syncs' = syncs \/ StillThere(file')]_syncVars
  BY SyncsAre, KeepsIs
<1>2. SyncTypeOK /\ [SyncNext]_syncVars
        => [file' = file \/ syncs' = syncs \/ WrittenOnce(file', synced')]_syncVars
  BY SyncsAre, WritesAll
<1>3. SyncTypeOK /\ [SyncNext]_syncVars
        => [file' = file \/ syncs' = syncs \/ Counted(file', synced')]_syncVars
  BY SyncsAre, CountsIs
<1>4. SyncTypeOK /\ [SyncNext]_syncVars
        => [file' = file \/ syncs' = syncs \/ RoomsRight(file', synced')]_syncVars
  BY SyncsAre, RoomsIs
<1>5. SyncTypeOK /\ [SyncNext]_syncVars
        => [\A ip \in AskedIps, l \in DOMAIN file.lives :
              \/ file'.lives[l] = file.lives[l] \/ syncs' = syncs
              \/ Len(file.lives) = 1
              \/ ~Sync(ip)
              \/ file.lives[l].ip = (IF ip = NoIp THEN chosenIp ELSE ip)]_syncVars
  BY AskedIs
<1>6. SyncSpec => [](SyncTypeOK /\ SecondPassIsCleanInOne) BY SyncInv, CleanInIs, PTL
<1>7. SyncSpec => []SyncTypeOK BY SyncInv, PTL
<1> QED BY <1>1, <1>2, <1>3, <1>4, <1>5, <1>6, <1>7, PTL
     DEF SyncSpec, SyncSafe, KeepsWhatStood, WritesOnce, NextObjCounts, RoomsOnce, AskedMiniserverOnly
========================================
