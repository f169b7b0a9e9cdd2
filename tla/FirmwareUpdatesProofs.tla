------------------------ MODULE FirmwareUpdatesProofs ------------------------
(***************************************************************************)
(* Proofs about firmware updates, for any devices, versions and checks:    *)
(* rows, tasks and queue agree in every state, and a queued device keeps   *)
(* its place through every operation, fault and restart.                   *)
(***************************************************************************)
EXTENDS FirmwareUpdates, FiniteSetTheorems, SequenceTheorems, WellFoundedInduction, TLAPS

----------------------------------------
(* The least of a set of numbers. *)

LEMMA MinFacts ==
    ASSUME NEW S \in SUBSET Nat, S # {}
    PROVE  Min(S) \in S /\ \A y \in S : Min(S) <= y
<1>1. PICK x \in S : \A y \in S : ~(<<y, x>> \in OpToRel(<, Nat)) BY NatLessThanWellFounded, WFMin
<1>2. \A y \in S : x <= y
  <2> TAKE y \in S
  <2>1. y \in Nat /\ x \in Nat OBVIOUS
  <2>2. ~(y < x) BY <1>1, <2>1 DEF OpToRel
  <2> QED BY <2>1, <2>2
<1> QED BY <1>2 DEF Min

(* What the queue's operations do to its order. *)

KeepsOrder(q, r) ==
    \A i, j \in DOMAIN q :
        i < j /\ {q[i], q[j]} \subseteq ToSet(r)
            => \E k, l \in DOMAIN r : k < l /\ r[k] = q[i] /\ r[l] = q[j]

(* A sequence that takes elements out of another keeps their order. *)
LEMMA PartKeepsOrder ==
    ASSUME NEW S, NEW q \in Seq(S), NEW r \in Seq(S), IsInjective(q),
           NEW pos \in [1..Len(r) -> 1..Len(q)],
           \A k \in 1..Len(r) : r[k] = q[pos[k]],
           \A k, l \in 1..Len(r) : k < l => pos[k] < pos[l]
    PROVE  IsInjective(r) /\ KeepsOrder(q, r)
<1>1. /\ DOMAIN q = 1..Len(q) /\ DOMAIN r = 1..Len(r) /\ Len(q) \in Nat /\ Len(r) \in Nat
      /\ \A k \in 1..Len(r) : k \in Nat /\ pos[k] \in Nat
  OBVIOUS
<1>2. \A k, l \in 1..Len(r) : pos[k] = pos[l] => k = l BY <1>1
<1>3. IsInjective(r) BY <1>1, <1>2 DEF IsInjective
<1>4. KeepsOrder(q, r)
  <2> SUFFICES ASSUME NEW i \in DOMAIN q, NEW j \in DOMAIN q, i < j,
                      q[i] \in ToSet(r), q[j] \in ToSet(r)
               PROVE  \E k, l \in DOMAIN r : k < l /\ r[k] = q[i] /\ r[l] = q[j]
    BY DEF KeepsOrder
  <2>1. PICK k \in DOMAIN r, l \in DOMAIN r : r[k] = q[i] /\ r[l] = q[j] BY DEF ToSet
  <2>2. pos[k] = i /\ pos[l] = j BY <1>1, <2>1 DEF IsInjective
  <2>3. k < l BY <1>1, <2>2
  <2> QED BY <2>1, <2>3
<1> QED BY <1>3, <1>4

(* So does what joins others at its end or at its head. *)
LEMMA LongerKeepsOrder ==
    ASSUME NEW S, NEW q \in Seq(S), NEW s \in Seq(S), IsInjective(q), IsInjective(s),
           ToSet(q) \cap ToSet(s) = {}
    PROVE  /\ q \o s \in Seq(S) /\ IsInjective(q \o s)
           /\ KeepsOrder(q, q \o s) /\ KeepsOrder(s, q \o s)
<1>1. /\ q \o s \in Seq(S) /\ Len(q \o s) = Len(q) + Len(s) /\ Len(q) \in Nat /\ Len(s) \in Nat
      /\ \A i \in 1..Len(q) : (q \o s)[i] = q[i] /\ i \in 1..(Len(q) + Len(s))
      /\ \A i \in 1..Len(s) : (q \o s)[Len(q) + i] = s[i] /\ Len(q) + i \in 1..(Len(q) + Len(s))
  BY ConcatProperties
<1>2. DOMAIN q = 1..Len(q) /\ DOMAIN s = 1..Len(s) /\ DOMAIN (q \o s) = 1..(Len(q) + Len(s))
  BY <1>1
<1>3. \A i \in 1..(Len(q) + Len(s)) : i \in 1..Len(q) \/ \E j \in 1..Len(s) : i = Len(q) + j
  <2> TAKE i \in 1..(Len(q) + Len(s))
  <2>1. CASE i <= Len(q) BY <1>1, <2>1
  <2>2. CASE ~(i <= Len(q))
    <3>1. i - Len(q) \in 1..Len(s) /\ i = Len(q) + (i - Len(q)) BY <1>1, <2>2
    <3> QED BY <3>1
  <2> QED BY <2>1, <2>2
<1>4. \A i \in 1..Len(q), j \in 1..Len(s) : q[i] # s[j] BY <1>2 DEF ToSet
<1>5. IsInjective(q \o s)
  <2> SUFFICES ASSUME NEW a \in 1..(Len(q) + Len(s)), NEW b \in 1..(Len(q) + Len(s)),
                      (q \o s)[a] = (q \o s)[b]
               PROVE  a = b
    BY <1>2 DEF IsInjective
  <2>1. CASE a \in 1..Len(q) BY <1>1, <1>2, <1>3, <1>4, <2>1 DEF IsInjective
  <2>2. CASE \E c \in 1..Len(s) : a = Len(q) + c
    <3>1. PICK c \in 1..Len(s) : a = Len(q) + c BY <2>2
    <3>2. PICK d \in 1..Len(s) : b = Len(q) + d BY <1>1, <1>3, <1>4, <3>1
    <3>3. c = d BY <1>1, <1>2, <3>1, <3>2 DEF IsInjective
    <3> QED BY <3>1, <3>2, <3>3
  <2> QED BY <1>3, <2>1, <2>2
<1>6. KeepsOrder(q, q \o s) BY <1>1, <1>2 DEF KeepsOrder
<1>7. KeepsOrder(s, q \o s)
  <2> SUFFICES ASSUME NEW i \in DOMAIN s, NEW j \in DOMAIN s, i < j
               PROVE  \E k, l \in DOMAIN (q \o s) :
                         k < l /\ (q \o s)[k] = s[i] /\ (q \o s)[l] = s[j]
    BY DEF KeepsOrder
  <2>1. /\ Len(q) + i \in DOMAIN (q \o s) /\ Len(q) + j \in DOMAIN (q \o s)
        /\ (q \o s)[Len(q) + i] = s[i] /\ (q \o s)[Len(q) + j] = s[j]
        /\ Len(q) + i < Len(q) + j
    BY <1>1, <1>2
  <2> QED BY <2>1
<1> QED BY <1>1, <1>5, <1>6, <1>7

LEMMA SameKeepsOrder ==
    ASSUME NEW S, NEW q \in Seq(S)
    PROVE  KeepsOrder(q, q) /\ KeepsOrder(q, <<>>)
  BY DEF KeepsOrder, ToSet

(* Taking the first elements out. *)
LEMMA RestKeepsOrder ==
    ASSUME NEW S, NEW q \in Seq(S), IsInjective(q), NEW n \in 0..(Len(q) + 1)
    PROVE  /\ SubSeq(q, n + 1, Len(q)) \in Seq(S) /\ IsInjective(SubSeq(q, n + 1, Len(q)))
           /\ KeepsOrder(q, SubSeq(q, n + 1, Len(q)))
           /\ n > Len(q) => SubSeq(q, n + 1, Len(q)) = <<>>
<1> DEFINE r == SubSeq(q, n + 1, Len(q))
           pos == [k \in 1..Len(r) |-> n + k]
<1>1. Len(q) \in Nat /\ n \in Nat OBVIOUS
<1>2. /\ r \in Seq(S) /\ Len(r) = IF n + 1 <= Len(q) THEN Len(q) - n ELSE 0
      /\ \A k \in 1..Len(r) : r[k] = q[n + k]
  BY <1>1, SubSeqProperties
<1>3. n > Len(q) => r = <<>> BY <1>1
<1> HIDE DEF r
<1>4. /\ pos \in [1..Len(r) -> 1..Len(q)]
      /\ \A k \in 1..Len(r) : r[k] = q[pos[k]]
      /\ \A k, l \in 1..Len(r) : k < l => pos[k] < pos[l]
  BY <1>1, <1>2
<1> HIDE DEF pos
<1>5. IsInjective(r) /\ KeepsOrder(q, r) BY <1>2, <1>4, PartKeepsOrder
<1> QED BY <1>2, <1>3, <1>5 DEF r

(* Putting others between two of them. *)
LEMMA InsertKeepsOrder ==
    ASSUME NEW S, NEW q \in Seq(S), NEW s \in Seq(S), IsInjective(q), IsInjective(s),
           ToSet(q) \cap ToSet(s) = {}, NEW at \in 0..Len(q)
    PROVE  LET r == SubSeq(q, 1, at) \o s \o SubSeq(q, at + 1, Len(q))
           IN  r \in Seq(S) /\ IsInjective(r) /\ KeepsOrder(q, r)
<1> DEFINE a == SubSeq(q, 1, at)
           b == SubSeq(q, at + 1, Len(q))
           c == a \o s
           r == c \o b
           m == Len(s)
           pos == [i \in 1..Len(q) |-> IF i <= at THEN i ELSE i + m]
<1>1. Len(q) \in Nat /\ m \in Nat /\ at \in Nat /\ at <= Len(q) OBVIOUS
<1>2. a \in Seq(S) /\ Len(a) = at /\ \A j \in 1..at : a[j] = q[j] BY <1>1
<1>3. b \in Seq(S) /\ Len(b) = Len(q) - at /\ \A j \in 1..(Len(q) - at) : b[j] = q[at + j] BY <1>1
<1>4. DOMAIN q = 1..Len(q) /\ DOMAIN s = 1..m OBVIOUS
<1> HIDE DEF a, b, m
<1>5. /\ c \in Seq(S) /\ Len(c) = at + m
      /\ \A i \in 1..at : c[i] = q[i]
      /\ \A i \in 1..m : c[at + i] = s[i]
  <2>1. c \in Seq(S) /\ Len(c) = at + m BY <1>2, ConcatProperties DEF m
  <2>2. \A i \in 1..at : c[i] = q[i]
    <3>1. \A i \in 1..at : i \in 1..(Len(a) + Len(s)) /\ i <= Len(a) BY <1>1, <1>2 DEF m
    <3> QED BY <1>2, <3>1, ConcatProperties
  <2>3. \A i \in 1..m : c[at + i] = s[i]
    <3> TAKE i \in 1..m
    <3>1. at + i \in 1..(Len(a) + Len(s)) /\ ~(at + i <= Len(a)) /\ (at + i) - Len(a) = i
      BY <1>1, <1>2 DEF m
    <3> QED BY <1>2, <3>1, ConcatProperties
  <2> QED BY <2>1, <2>2, <2>3
<1> HIDE DEF c
<1>6. r \in Seq(S) /\ Len(r) = Len(q) + m
  <2>1. r \in Seq(S) /\ Len(r) = Len(c) + Len(b) BY <1>3, <1>5, ConcatProperties
  <2> QED BY <1>1, <1>3, <1>5, <2>1
<1>7. /\ \A i \in 1..at : r[i] = q[i]
      /\ \A i \in 1..m : r[at + i] = s[i]
      /\ \A i \in (at + 1)..Len(q) : r[i + m] = q[i]
  <2>1. \A i \in 1..(at + m) : r[i] = c[i]
    <3>1. \A i \in 1..(at + m) : i \in 1..(Len(c) + Len(b)) /\ i <= Len(c) BY <1>1, <1>3, <1>5
    <3> QED BY <1>3, <1>5, <3>1, ConcatProperties
  <2>2. ASSUME NEW i \in (at + 1)..Len(q) PROVE r[i + m] = q[i]
    <3>1. i - at \in 1..(Len(q) - at) /\ (at + m) + (i - at) = i + m /\ at + (i - at) = i BY <1>1
    <3>2. /\ i + m \in 1..(Len(c) + Len(b)) /\ ~(i + m <= Len(c))
          /\ (i + m) - Len(c) = i - at
      BY <1>1, <1>3, <1>5
    <3>3. r[i + m] = b[i - at] BY <1>3, <1>5, <3>2, ConcatProperties
    <3> QED BY <1>3, <3>1, <3>3
  <2>3. \A i \in 1..at : i \in 1..(at + m) BY <1>1
  <2>4. \A i \in 1..m : at + i \in 1..(at + m) BY <1>1
  <2> QED BY <1>5, <2>1, <2>2, <2>3, <2>4
<1> HIDE DEF r
<1>8. /\ \A i \in 1..Len(q) : pos[i] \in 1..Len(r) /\ r[pos[i]] = q[i]
      /\ \A i, j \in 1..Len(q) : i < j => pos[i] < pos[j]
      /\ DOMAIN r = 1..Len(r)
  BY <1>1, <1>6, <1>7
<1>9. \A x \in 1..Len(r) : (\E i \in 1..Len(q) : x = pos[i]) \/ (\E i \in 1..m : x = at + i)
  <2> TAKE x \in 1..Len(r)
  <2>1. CASE x <= at BY <1>1, <2>1
  <2>2. CASE x > at /\ x <= at + m
    <3>1. x - at \in 1..m /\ x = at + (x - at) BY <1>1, <2>2
    <3> QED BY <3>1
  <2>3. CASE x > at + m
    <3>1. x - m \in 1..Len(q) /\ pos[x - m] = x BY <1>1, <1>6, <2>3
    <3> QED BY <3>1
  <2> QED BY <1>1, <1>6, <2>1, <2>2, <2>3
<1> HIDE DEF pos
<1>10. IsInjective(r)
  <2>1. \A i, j \in 1..Len(q) : q[i] = q[j] => i = j BY <1>4 DEF IsInjective
  <2>2. \A i, j \in 1..m : s[i] = s[j] => i = j BY <1>4 DEF IsInjective
  <2>3. \A i \in 1..Len(q), j \in 1..m : q[i] # s[j] BY <1>4 DEF ToSet
  <2> SUFFICES ASSUME NEW x \in 1..Len(r), NEW y \in 1..Len(r), r[x] = r[y] PROVE x = y
    BY <1>8 DEF IsInjective
  <2>4. CASE \E i \in 1..Len(q) : x = pos[i]
    <3>1. PICK i \in 1..Len(q) : x = pos[i] BY <2>4
    <3>2. \A j \in 1..m : y # at + j
      <4> SUFFICES ASSUME NEW j \in 1..m, y = at + j PROVE FALSE OBVIOUS
      <4>1. r[x] = q[i] BY <1>8, <3>1
      <4>2. r[y] = s[j] BY <1>7
      <4> QED BY <2>3, <4>1, <4>2
    <3>3. PICK j \in 1..Len(q) : y = pos[j] BY <1>9, <3>2
    <3> QED BY <1>8, <2>1, <3>1, <3>3
  <2>5. CASE \E i \in 1..m : x = at + i
    <3>1. PICK i \in 1..m : x = at + i BY <2>5
    <3>2. \A j \in 1..Len(q) : y # pos[j] BY <1>7, <1>8, <2>3, <3>1
    <3>3. PICK j \in 1..m : y = at + j BY <1>9, <3>2
    <3> QED BY <1>7, <2>2, <3>1, <3>3
  <2> QED BY <1>9, <2>4, <2>5
<1>11. KeepsOrder(q, r) BY <1>4, <1>8 DEF KeepsOrder
<1> QED BY <1>6, <1>10, <1>11 DEF r, c, a, b

(* Taking one element out. *)
LEMMA RemovalKeepsOrder ==
    ASSUME NEW S, NEW q \in Seq(S), IsInjective(q), NEW i \in 1..Len(q)
    PROVE  /\ RemoveAt(q, i) \in Seq(S) /\ IsInjective(RemoveAt(q, i))
           /\ KeepsOrder(q, RemoveAt(q, i))
<1> DEFINE a == SubSeq(q, 1, i - 1)
           b == SubSeq(q, i + 1, Len(q))
           r == a \o b
           pos == [k \in 1..Len(r) |-> IF k < i THEN k ELSE k + 1]
<1>1. Len(q) \in Nat /\ i \in Nat /\ 1 <= i /\ i <= Len(q) OBVIOUS
<1>2. a \in Seq(S) /\ Len(a) = i - 1 /\ \A j \in 1..(i - 1) : a[j] = q[j] BY <1>1
<1>3. b \in Seq(S) /\ Len(b) = Len(q) - i /\ \A j \in 1..(Len(q) - i) : b[j] = q[i + j] BY <1>1
<1> HIDE DEF a, b
<1>4. r \in Seq(S) /\ Len(r) = Len(q) - 1
  <2>1. r \in Seq(S) /\ Len(r) = Len(a) + Len(b) BY <1>2, <1>3, ConcatProperties
  <2> QED BY <1>1, <1>2, <1>3, <2>1
<1>5. ASSUME NEW k \in 1..(Len(q) - 1) PROVE r[k] = IF k < i THEN q[k] ELSE q[k + 1]
  <2>1. CASE k < i BY <1>1, <1>2, <1>3, <2>1, ConcatProperties
  <2>2. CASE ~(k < i)
    <3>1. r[k] = b[k - Len(a)] /\ k - Len(a) \in 1..(Len(q) - i)
      BY <1>1, <1>2, <1>3, <2>2, ConcatProperties
    <3>2. i + (k - (i - 1)) = k + 1 BY <1>1
    <3> QED BY <1>1, <1>2, <1>3, <2>2, <3>1, <3>2
  <2> QED BY <2>1, <2>2
<1> HIDE DEF r
<1>6. /\ pos \in [1..Len(r) -> 1..Len(q)]
      /\ \A k \in 1..Len(r) : r[k] = q[pos[k]]
      /\ \A k, l \in 1..Len(r) : k < l => pos[k] < pos[l]
  BY <1>1, <1>4, <1>5
<1> HIDE DEF pos
<1>7. IsInjective(r) /\ KeepsOrder(q, r) BY <1>4, <1>6, PartKeepsOrder
<1> QED BY <1>4, <1>7 DEF RemoveAt, r, a, b

----------------------------------------
(* The inductive invariant: besides what is to be shown, that nothing of *)
(* loxmatter's memory is left while it does not run, and that the queue *)
(* knows the device of a job of its own. *)

NothingWhileDown ==
    ~running => task = NoTask /\ ~wake /\ drainer = "waiting"

OwnIsKnown == drainer = "own" => current \in Devices

FirmwareInv == TypeOK /\ ActiveIsFollowed /\ QueuedIsDriven /\ NothingWhileDown /\ OwnIsKnown

LEMMA NoneIsNoDevice == None \notin Devices /\ Devices \subseteq Nat /\ IsFiniteSet(Devices)
  BY FirmwareAssumption

LEMMA InitFirmware == Init => FirmwareInv
<1> SUFFICES ASSUME Init PROVE FirmwareInv OBVIOUS
<1> USE FirmwareAssumption DEF Init
<1>1. queue \in Seq(Devices) /\ IsInjective(queue) BY DEF IsInjective
<1>2. TypeOK
  <2>1. 0 \in Versions /\ 0 \in 0..MaxFaults /\ 0 \in 0..MaxClicks BY DEF Versions
  <2>2. check \in [Checks -> [device : Devices \cup {None}, seen : Versions]] BY <2>1 DEF NoCheck
  <2> QED BY <1>1, <2>1, <2>2 DEF TypeOK
<1>3. ActiveIsFollowed BY DEF ActiveIsFollowed, Following, NoTask
<1> QED BY <1>2, <1>3 DEF FirmwareInv, QueuedIsDriven, NothingWhileDown, OwnIsKnown

(* Where the task stands. *)
LEMMA TaskFacts ==
    ASSUME FirmwareInv
    PROVE  /\ task = NoTask => ~Following
           /\ task # NoTask => /\ task.device \in Devices /\ task.target \in Versions
                               /\ task.pc \in {"follow", "reread"} /\ running
           /\ Following => task # NoTask
           /\ task.target \in Versions
<1>1. task # NoTask =>
        /\ task.device \in Devices /\ task.target \in Versions
        /\ task.pc \in {"follow", "reread"} /\ running
  BY DEF FirmwareInv, TypeOK, NothingWhileDown
<1>2. NoTask.pc = "none" /\ NoTask.target \in Versions BY FirmwareAssumption DEF NoTask, Versions
<1>3. Following => task # NoTask BY <1>2 DEF Following
<1>4. task.target \in Versions BY <1>1, <1>2
<1> QED BY <1>1, <1>3, <1>4

(* The queue's turn lies in the queue or behind it. *)
LEMMA TurnFacts ==
    ASSUME FirmwareInv
    PROVE  /\ Turn \in 1..(Len(queue) + 1)
           /\ Turn <= Len(queue) => queue[Turn] \in Devices
           /\ \A i \in 1..(Turn - 1) : queue[i] \in Devices
           /\ Offline \subseteq Devices
<1> DEFINE T == {i \in 1..Len(queue) : ~Skipped(queue[i])} \cup {Len(queue) + 1}
<1>1. queue \in Seq(Devices) /\ Len(queue) \in Nat BY DEF FirmwareInv, TypeOK
<1>2. T \in SUBSET Nat /\ T # {} /\ T \subseteq 1..(Len(queue) + 1) BY <1>1
<1>3. Min(T) \in T BY <1>2, MinFacts
<1>4. Turn = Min(T) BY DEF Turn
<1> HIDE DEF T
<1>5. Turn \in 1..(Len(queue) + 1) BY <1>2, <1>3, <1>4
<1>6. \A i \in 1..(Turn - 1) : i \in 1..Len(queue) /\ queue[i] \in Devices BY <1>1, <1>5
<1>7. Turn <= Len(queue) => queue[Turn] \in Devices BY <1>1, <1>5
<1> QED BY <1>5, <1>6, <1>7 DEF Offline

----------------------------------------
(* One lemma per operation.  What is proved of each is the invariant and *)
(* that the queue keeps its order. *)

LEMMA CheckKeeps ==
    ASSUME FirmwareInv, CheckStep
    PROVE  FirmwareInv' /\ KeepsOrder(queue, queue')
<1>1. UNCHANGED <<queue, halted, present, worldVars, running, jobVars, queueVars, bounds>>
  BY DEF CheckStep, StartCheck, CheckAnswered, CheckFails, storeVars
<1>2. /\ offer' \in [Devices -> Versions]
      /\ job' \in [Devices -> {"none", "active", "failed", "interrupted"}]
      /\ check' \in [Checks -> [device : Devices \cup {None}, seen : Versions]]
      /\ \A d \in Devices : job'[d] = "active" <=> job[d] = "active"
  <2>1. ASSUME NEW c \in Checks, NEW d \in Devices, StartCheck(c, d)
        PROVE  /\ offer' \in [Devices -> Versions]
               /\ job' \in [Devices -> {"none", "active", "failed", "interrupted"}]
               /\ check' \in [Checks -> [device : Devices \cup {None}, seen : Versions]]
               /\ \A e \in Devices : job'[e] = "active" <=> job[e] = "active"
    <3>1. [device |-> d, seen |-> installed[d]] \in [device : Devices \cup {None}, seen : Versions]
      BY DEF FirmwareInv, TypeOK
    <3> QED BY <2>1, <3>1 DEF StartCheck, storeVars, FirmwareInv, TypeOK
  <2>2. ASSUME NEW c \in Checks, NEW v \in Versions, CheckAnswered(c, v)
        PROVE  /\ offer' \in [Devices -> Versions]
               /\ job' \in [Devices -> {"none", "active", "failed", "interrupted"}]
               /\ check' \in [Checks -> [device : Devices \cup {None}, seen : Versions]]
               /\ \A e \in Devices : job'[e] = "active" <=> job[e] = "active"
    <3>1. NoCheck \in [device : Devices \cup {None}, seen : Versions]
      BY FirmwareAssumption DEF NoCheck, Versions
    <3>2. 0 \in Versions BY FirmwareAssumption DEF Versions
    <3> QED BY <2>2, <3>1, <3>2 DEF CheckAnswered, FirmwareInv, TypeOK
  <2>3. ASSUME NEW c \in Checks, CheckFails(c)
        PROVE  /\ offer' \in [Devices -> Versions]
               /\ job' \in [Devices -> {"none", "active", "failed", "interrupted"}]
               /\ check' \in [Checks -> [device : Devices \cup {None}, seen : Versions]]
               /\ \A e \in Devices : job'[e] = "active" <=> job[e] = "active"
    <3>1. NoCheck \in [device : Devices \cup {None}, seen : Versions]
      BY FirmwareAssumption DEF NoCheck, Versions
    <3> QED BY <2>3, <3>1 DEF CheckFails, storeVars, FirmwareInv, TypeOK
  <2> QED BY <2>1, <2>2, <2>3 DEF CheckStep
<1>3. TypeOK' BY <1>1, <1>2 DEF FirmwareInv, TypeOK, worldVars, jobVars, queueVars, bounds
<1>4. ActiveIsFollowed' BY <1>1, <1>2 DEF FirmwareInv, ActiveIsFollowed, Following, jobVars
<1>5. KeepsOrder(queue, queue') BY <1>1, SameKeepsOrder DEF FirmwareInv, TypeOK
<1> QED BY <1>1, <1>3, <1>4, <1>5
    DEF FirmwareInv, QueuedIsDriven, NothingWhileDown, OwnIsKnown, jobVars, queueVars

(* A job starts while no other runs. *)
LEMMA StartedFollows ==
    ASSUME FirmwareInv, NEW d \in Devices, task = NoTask, Started(d),
           job' \in [Devices -> {"none", "active", "failed", "interrupted"}],
           running' = running, job'[d] = "active",
           \A e \in Devices : e # d => job'[e] = job[e] \/ job'[e] = "failed"
    PROVE  /\ ActiveIsFollowed' /\ orphans' \subseteq Devices
           /\ task' \in [device : Devices, target : Versions, pc : {"follow", "reread"}]
           /\ starter' \in {"none", "new", "sent", "returned", "failed"}
<1>1. task' = [device |-> d, target |-> offer[d], pc |-> "follow"] /\ offer[d] \in Versions
  BY DEF Started, FirmwareInv, TypeOK
<1>2. running => \A e \in Devices \ orphans : job[e] # "active"
  BY TaskFacts DEF FirmwareInv, ActiveIsFollowed
<1>3. ActiveIsFollowed' BY <1>1, <1>2 DEF ActiveIsFollowed, Following, Started
<1> QED BY <1>1, <1>3 DEF Started, FirmwareInv, TypeOK

LEMMA InstallKeeps ==
    ASSUME FirmwareInv, NEW d \in Devices, Install(d)
    PROVE  FirmwareInv' /\ KeepsOrder(queue, queue')
<1>1. /\ UNCHANGED <<offer, queue, halted, present, worldVars, running, queueVars, check, faults>>
      /\ running /\ task = NoTask /\ Started(d) /\ job' = [job EXCEPT ![d] = "active"]
  BY DEF Install, Startable
<1>2. job' \in [Devices -> {"none", "active", "failed", "interrupted"}]
  BY <1>1 DEF FirmwareInv, TypeOK
<1>3. /\ ActiveIsFollowed' /\ orphans' \subseteq Devices
      /\ task' \in [device : Devices, target : Versions, pc : {"follow", "reread"}]
      /\ starter' \in {"none", "new", "sent", "returned", "failed"}
  BY <1>1, <1>2, StartedFollows DEF FirmwareInv, TypeOK
<1>4. clicks' \in 0..MaxClicks BY FirmwareAssumption DEF Install, FirmwareInv, TypeOK
<1>5. TypeOK' BY <1>1, <1>2, <1>3, <1>4 DEF FirmwareInv, TypeOK, worldVars, queueVars
<1>6. KeepsOrder(queue, queue') BY <1>1, SameKeepsOrder DEF FirmwareInv, TypeOK
<1> QED BY <1>1, <1>3, <1>5, <1>6
    DEF FirmwareInv, QueuedIsDriven, NothingWhileDown, OwnIsKnown, queueVars

LEMMA StarterKeeps ==
    ASSUME FirmwareInv, StarterCalls \/ StarterEnds
    PROVE  FirmwareInv' /\ KeepsOrder(queue, queue')
<1>1. UNCHANGED <<storeVars, installed, available, link, running, task, orphans, queueVars,
                  check, bounds>>
  BY DEF StarterCalls, StarterEnds, worldVars
<1>2. /\ transfer' \in [Devices -> Versions]
      /\ starter' \in {"none", "new", "sent", "returned", "failed"}
  BY TaskFacts DEF StarterCalls, StarterEnds, worldVars, FirmwareInv, TypeOK
<1>3. KeepsOrder(queue, queue') BY <1>1, SameKeepsOrder DEF storeVars, FirmwareInv, TypeOK
<1> QED BY <1>1, <1>2, <1>3
    DEF FirmwareInv, TypeOK, ActiveIsFollowed, Following, QueuedIsDriven, NothingWhileDown,
        OwnIsKnown, storeVars, queueVars, bounds

(* The followed job ends, whichever way. *)
LEMMA JobEndKeeps ==
    ASSUME FirmwareInv, JobEnds
    PROVE  FirmwareInv' /\ KeepsOrder(queue, queue')
<1>1. /\ task # NoTask /\ task.device \in Devices /\ running
      /\ UNCHANGED <<queue, halted, present, worldVars, running, orphans, current, wake,
                     check, bounds>>
  BY TaskFacts
     DEF JobEnds, JobFails, JobInterrupted, JobSucceeds, RereadEnds, storeVars, queueVars, NoTask
<1>2. /\ job' \in [Devices -> {"none", "active", "failed", "interrupted"}]
      /\ offer' \in [Devices -> Versions]
      /\ \A d \in Devices : job'[d] = "active" => job[d] = "active"
      /\ Following => job'[task.device] # "active"
  <2>1. 0 \in Versions BY FirmwareAssumption DEF Versions
  <2>2. CASE Following
    BY <1>1, <2>1, <2>2 DEF JobEnds, JobFails, JobInterrupted, JobSucceeds, RereadEnds,
       storeVars, FirmwareInv, TypeOK, Following
  <2>3. CASE ~Following
    BY <1>1, <2>3 DEF JobEnds, JobFails, JobInterrupted, JobSucceeds, RereadEnds,
       storeVars, FirmwareInv, TypeOK
  <2> QED BY <2>2, <2>3
<1>3. /\ task' = NoTask \/ (task' = [task EXCEPT !.pc = "reread"])
      /\ starter' \in {"none", "new", "sent", "returned", "failed"}
      /\ drainer' = drainer \/ (drainer = "own" /\ drainer' = "ended")
  BY DEF JobEnds, JobFails, JobInterrupted, JobSucceeds, RereadEnds, TaskOver, queueVars,
     FirmwareInv, TypeOK
<1>4. /\ task' \in [device : Devices, target : Versions, pc : {"follow", "reread"}] \cup {NoTask}
      /\ task'.pc # "follow"
  <2>1. task = [device |-> task.device, target |-> task.target, pc |-> task.pc]
        /\ task.target \in Versions
    BY <1>1 DEF FirmwareInv, TypeOK
  <2>2. [task EXCEPT !.pc = "reread"] = [device |-> task.device, target |-> task.target, pc |-> "reread"]
    BY <2>1
  <2> QED BY <1>1, <1>3, <2>1, <2>2 DEF NoTask
<1>5. ActiveIsFollowed'
  <2>1. \A d \in Devices \ orphans : job'[d] # "active"
    BY <1>1, <1>2 DEF FirmwareInv, ActiveIsFollowed
  <2> QED BY <1>1, <1>4, <2>1 DEF ActiveIsFollowed, Following
<1>6. TypeOK' BY <1>1, <1>2, <1>3, <1>4 DEF FirmwareInv, TypeOK, worldVars, bounds
<1>7. KeepsOrder(queue, queue') BY <1>1, SameKeepsOrder DEF FirmwareInv, TypeOK
<1> QED BY <1>1, <1>3, <1>5, <1>6, <1>7
    DEF FirmwareInv, QueuedIsDriven, NothingWhileDown, OwnIsKnown

(* What the user does to the queue. *)
LEMMA EnqueueKeeps ==
    ASSUME FirmwareInv, NEW chosen \in SUBSET Devices, Enqueue(chosen)
    PROVE  FirmwareInv' /\ KeepsOrder(queue, queue')
<1> DEFINE eligible == {d \in chosen \cap present : offer[d] # 0}
           fresh == eligible \ ToSet(queue)
           n == Cardinality(fresh)
<1>1. PICK new \in [1..n -> fresh], at \in 0..Len(queue) :
        /\ \A i, j \in DOMAIN new : i < j => new[i] < new[j]
        /\ queue' = SubSeq(queue, 1, at) \o new \o SubSeq(queue, at + 1, Len(queue))
  BY DEF Enqueue
<1>2. n \in Nat
  <2>1. IsFiniteSet(fresh) BY NoneIsNoDevice, FS_Subset
  <2> QED BY <2>1, FS_CardinalityType
<1>3. fresh \subseteq Devices /\ fresh \cap ToSet(queue) = {} OBVIOUS
<1> HIDE DEF n, fresh
<1>4. new \in Seq(Devices) /\ DOMAIN new = 1..n /\ ToSet(queue) \cap ToSet(new) = {}
  <2>1. \A i \in 1..n : new[i] \in fresh BY <1>1
  <2>2. new \in [1..n -> Devices] BY <1>1, <1>3, <2>1
  <2>3. ToSet(queue) \cap ToSet(new) = {} BY <1>3, <2>1, <2>2 DEF ToSet
  <2> QED BY <1>2, <2>2, <2>3
<1>5. IsInjective(new)
  <2> SUFFICES ASSUME NEW a \in 1..n, NEW b \in 1..n, new[a] = new[b] PROVE a = b
    BY <1>4 DEF IsInjective
  <2>1. a \in Nat /\ b \in Nat /\ new[a] \in Nat
    <3>1. a \in Nat /\ b \in Nat BY <1>2
    <3>2. new[a] \in fresh BY <1>1
    <3> QED BY <1>3, <3>1, <3>2, NoneIsNoDevice
  <2>2. ~(a < b) /\ ~(b < a) BY <1>1, <1>4, <2>1
  <2> QED BY <2>1, <2>2
<1>6. queue' \in Seq(Devices) /\ IsInjective(queue') /\ KeepsOrder(queue, queue')
  BY <1>1, <1>4, <1>5, InsertKeepsOrder DEF FirmwareInv, TypeOK
<1>7. /\ UNCHANGED <<offer, job, present, worldVars, running, jobVars, drainer, current, check, faults>>
      /\ halted' = "none" /\ wake' = TRUE /\ running /\ clicks' \in 0..MaxClicks
  BY FirmwareAssumption DEF Enqueue, FirmwareInv, TypeOK
<1> QED BY <1>6, <1>7
    DEF FirmwareInv, TypeOK, ActiveIsFollowed, Following, QueuedIsDriven, NothingWhileDown,
        OwnIsKnown, worldVars, jobVars

LEMMA ClickKeeps ==
    ASSUME FirmwareInv, Resume \/ Clear \/ \E d \in Devices : RemoveDevice(d)
    PROVE  FirmwareInv' /\ KeepsOrder(queue, queue')
<1>1. /\ UNCHANGED <<offer, job, worldVars, running, jobVars, drainer, current, check, faults>>
      /\ running /\ clicks' \in 0..MaxClicks /\ present' \subseteq Devices
      /\ halted' \in {"none", halted} /\ wake' \in BOOLEAN
  <2>1. clicks < MaxClicks /\ clicks' = clicks + 1 => clicks' \in 0..MaxClicks
    BY FirmwareAssumption DEF FirmwareInv, TypeOK
  <2>2. CASE Resume BY <2>1, <2>2 DEF Resume, FirmwareInv, TypeOK
  <2>3. CASE Clear BY <2>1, <2>3 DEF Clear, queueVars, FirmwareInv, TypeOK
  <2>4. CASE \E d \in Devices : RemoveDevice(d)
    BY <2>1, <2>4 DEF RemoveDevice, queueVars, FirmwareInv, TypeOK
  <2> QED BY <2>2, <2>3, <2>4
<1>2. queue \in Seq(Devices) /\ IsInjective(queue) /\ DOMAIN queue = 1..Len(queue)
  BY DEF FirmwareInv, TypeOK
<1>3. queue' \in Seq(Devices) /\ IsInjective(queue') /\ KeepsOrder(queue, queue')
  <2>1. <<>> \in Seq(Devices) /\ IsInjective(<<>>) BY DEF IsInjective
  <2>2. CASE queue' = queue \/ queue' = <<>> BY <1>2, <2>1, <2>2, SameKeepsOrder
  <2>3. CASE \E i \in DOMAIN queue : queue' = RemoveAt(queue, i) BY <1>2, <2>3, RemovalKeepsOrder
  <2> QED BY <2>2, <2>3 DEF Resume, Clear, RemoveDevice
<1>4. queue' # <<>> /\ halted' = "none" => wake' \/ drainer # "waiting"
  <2>1. CASE Resume BY <2>1 DEF Resume
  <2>2. CASE Clear BY <2>2 DEF Clear
  <2>3. CASE \E d \in Devices : RemoveDevice(d)
    <3>1. queue = <<>> => queue' = <<>> BY <2>3 DEF RemoveDevice
    <3> QED BY <1>1, <2>3, <3>1 DEF RemoveDevice, queueVars, FirmwareInv, QueuedIsDriven
  <2> QED BY <2>1, <2>2, <2>3
<1>5. TypeOK' BY <1>1, <1>3 DEF FirmwareInv, TypeOK, worldVars, jobVars
<1>6. ActiveIsFollowed' /\ QueuedIsDriven'
  BY <1>1, <1>4 DEF FirmwareInv, ActiveIsFollowed, Following, QueuedIsDriven, jobVars
<1>7. NothingWhileDown' /\ OwnIsKnown' BY <1>1 DEF FirmwareInv, NothingWhileDown, OwnIsKnown
<1> QED BY <1>3, <1>5, <1>6, <1>7 DEF FirmwareInv

(* What the queue's task does between two of its awaits. *)
LEMMA DrainKeeps ==
    ASSUME FirmwareInv, QueueRuns, running, wake' \in BOOLEAN, faults' \in 0..MaxFaults,
           \/ Drain
           \/ \E reason \in {"disconnected", "error"} : Halt(reason)
    PROVE  FirmwareInv' /\ KeepsOrder(queue, queue')
<1>1. UNCHANGED <<offer, present, worldVars, running, check, clicks>> BY DEF QueueRuns
<1>2. queue \in Seq(Devices) /\ IsInjective(queue) BY DEF FirmwareInv, TypeOK
<1>3. CASE halted = "none" /\ task = NoTask /\ InstallNext /\ UNCHANGED halted
  <2>1. /\ Turn \in 1..(Len(queue) + 1) /\ Offline \subseteq Devices
        /\ Turn <= Len(queue) => queue[Turn] \in Devices
        /\ Len(queue) \in Nat
    BY <1>2, TurnFacts
  <2>2. queue' = SubSeq(queue, Turn + 1, Len(queue)) BY <1>3 DEF InstallNext
  <2>3. /\ queue' \in Seq(Devices) /\ IsInjective(queue') /\ KeepsOrder(queue, queue')
        /\ Turn > Len(queue) => queue' = <<>>
    BY <1>2, <2>1, <2>2, RestKeepsOrder
  <2>4. CASE Turn > Len(queue)
    <3>1. /\ job' = [d \in Devices |-> IF d \in Offline THEN "failed" ELSE job[d]]
          /\ drainer' = "waiting" /\ current' = None /\ UNCHANGED jobVars
      BY <1>3, <2>4 DEF InstallNext, Waits
    <3>2. /\ job' \in [Devices -> {"none", "active", "failed", "interrupted"}]
          /\ \A d \in Devices : job'[d] = "active" => job[d] = "active"
      BY <3>1 DEF FirmwareInv, TypeOK
    <3>3. ActiveIsFollowed'
      <4>1. ~Following /\ ~Following' BY <1>3, <3>1, TaskFacts DEF jobVars, Following
      <4> QED BY <1>1, <3>1, <3>2, <4>1 DEF FirmwareInv, ActiveIsFollowed, jobVars
    <3> QED BY <1>1, <1>3, <2>3, <2>4, <3>1, <3>2, <3>3
        DEF FirmwareInv, TypeOK, QueuedIsDriven, NothingWhileDown, OwnIsKnown, worldVars, jobVars
  <2>5. CASE ~(Turn > Len(queue))
    <3> DEFINE d == queue[Turn]
    <3>1. /\ d \in Devices /\ Started(d) /\ drainer' = "own" /\ current' = d
          /\ job' = [e \in Devices |-> IF e = d THEN "active"
                                       ELSE IF e \in Offline THEN "failed" ELSE job[e]]
      BY <1>3, <2>1, <2>5 DEF InstallNext
    <3>2. job' \in [Devices -> {"none", "active", "failed", "interrupted"}]
      BY <3>1 DEF FirmwareInv, TypeOK
    <3>3. /\ ActiveIsFollowed' /\ orphans' \subseteq Devices
          /\ task' \in [device : Devices, target : Versions, pc : {"follow", "reread"}]
          /\ starter' \in {"none", "new", "sent", "returned", "failed"}
      <4> HIDE DEF d
      <4> QED BY <1>1, <1>3, <3>1, <3>2, StartedFollows
    <3> QED BY <1>1, <1>3, <2>3, <3>1, <3>2, <3>3
        DEF FirmwareInv, TypeOK, QueuedIsDriven, NothingWhileDown, OwnIsKnown, worldVars
  <2> QED BY <2>4, <2>5
<1>4. CASE /\ UNCHANGED <<queue, job, jobVars>> /\ current' = None
           /\ \/ drainer' = "waiting" /\ UNCHANGED halted /\ (halted # "none" \/ queue = <<>>)
              \/ drainer' = "job" /\ UNCHANGED halted
              \/ drainer' = "waiting" /\ halted' \in {"disconnected", "unsupported", "error"}
  <2>1. KeepsOrder(queue, queue') BY <1>2, <1>4, SameKeepsOrder
  <2> QED BY <1>1, <1>4, <2>1
      DEF FirmwareInv, TypeOK, ActiveIsFollowed, Following, QueuedIsDriven, NothingWhileDown,
          OwnIsKnown, worldVars, jobVars
<1> QED BY <1>3, <1>4 DEF Drain, Halt, Waits

(* A round that an error of the store ends. *)
LEMMA RoundFailsKeeps ==
    ASSUME FirmwareInv, QueueRuns, running, wake' \in BOOLEAN, faults' \in 0..MaxFaults,
           task = NoTask, halted' = "error", Waits("waiting"),
           StartedOnly \/ \E n \in 1..Turn - 1 : TakenOutOnly(n)
    PROVE  FirmwareInv' /\ KeepsOrder(queue, queue')
<1>1. /\ UNCHANGED <<offer, present, worldVars, running, check, clicks>>
      /\ drainer' = "waiting" /\ current' = None
  BY DEF QueueRuns, Waits
<1>2. queue \in Seq(Devices) /\ IsInjective(queue) BY DEF FirmwareInv, TypeOK
<1>3. /\ Turn \in 1..(Len(queue) + 1) /\ Offline \subseteq Devices
      /\ Turn <= Len(queue) => queue[Turn] \in Devices
      /\ Len(queue) \in Nat
  BY <1>2, TurnFacts
<1>4. CASE StartedOnly
  <2> DEFINE d == queue[Turn]
  <2>1. /\ d \in Devices /\ Started(d) /\ queue' = SubSeq(queue, Turn, Len(queue))
        /\ job' = [e \in Devices |-> IF e = d THEN "active"
                                     ELSE IF e \in Offline THEN "failed" ELSE job[e]]
    BY <1>3, <1>4 DEF StartedOnly
  <2>2. queue' \in Seq(Devices) /\ IsInjective(queue') /\ KeepsOrder(queue, queue')
    <3>1. Turn - 1 \in 0..(Len(queue) + 1) /\ (Turn - 1) + 1 = Turn BY <1>3
    <3> QED BY <1>2, <2>1, <3>1, RestKeepsOrder
  <2>3. job' \in [Devices -> {"none", "active", "failed", "interrupted"}]
    BY <2>1 DEF FirmwareInv, TypeOK
  <2>4. /\ ActiveIsFollowed' /\ orphans' \subseteq Devices
        /\ task' \in [device : Devices, target : Versions, pc : {"follow", "reread"}]
        /\ starter' \in {"none", "new", "sent", "returned", "failed"}
    <3> HIDE DEF d
    <3> QED BY <1>1, <2>1, <2>3, StartedFollows
  <2> QED BY <1>1, <2>2, <2>3, <2>4
      DEF FirmwareInv, TypeOK, QueuedIsDriven, NothingWhileDown, OwnIsKnown, worldVars
<1>5. ASSUME NEW n \in 1..Turn - 1, TakenOutOnly(n)
      PROVE  FirmwareInv' /\ KeepsOrder(queue, queue')
  <2>1. PICK failed : job' = [d \in Devices |-> IF d \in failed THEN "failed" ELSE job[d]]
    BY <1>5 DEF TakenOutOnly
  <2>2. queue' = SubSeq(queue, n + 1, Len(queue)) /\ UNCHANGED jobVars BY <1>5 DEF TakenOutOnly
  <2>3. queue' \in Seq(Devices) /\ IsInjective(queue') /\ KeepsOrder(queue, queue')
    <3>1. n \in 0..(Len(queue) + 1) BY <1>3
    <3> QED BY <1>2, <2>2, <3>1, RestKeepsOrder
  <2>4. /\ job' \in [Devices -> {"none", "active", "failed", "interrupted"}]
        /\ \A d \in Devices : job'[d] = "active" => job[d] = "active"
    BY <2>1 DEF FirmwareInv, TypeOK
  <2>5. ActiveIsFollowed'
    <3>1. ~Following /\ ~Following' BY <2>2, TaskFacts DEF jobVars, Following
    <3> QED BY <1>1, <2>2, <2>4, <3>1 DEF FirmwareInv, ActiveIsFollowed, jobVars
  <2> QED BY <1>1, <2>2, <2>3, <2>4, <2>5
      DEF FirmwareInv, TypeOK, QueuedIsDriven, NothingWhileDown, OwnIsKnown, worldVars, jobVars
<1> QED BY <1>4, <1>5

LEMMA QueueKeeps ==
    ASSUME FirmwareInv, QueueStep \/ DrainFails
    PROVE  FirmwareInv' /\ KeepsOrder(queue, queue')
<1>1. running /\ wake \in BOOLEAN /\ faults \in 0..MaxFaults
  BY DEF QueueStep, Woken, JobOver, OwnOver, DrainFails, FirmwareInv, TypeOK, NothingWhileDown
<1>2. wake' \in BOOLEAN /\ faults' \in 0..MaxFaults
  <2>1. CASE QueueStep BY <1>1, <2>1 DEF QueueStep, Woken, JobOver, OwnOver
  <2>2. CASE DrainFails
    <3>1. faults' \in 0..MaxFaults BY <1>1, <2>2, FirmwareAssumption DEF DrainFails
    <3>2. wake' \in BOOLEAN BY <1>1, <2>2 DEF DrainFails
    <3> QED BY <3>1, <3>2
  <2> QED BY <2>1, <2>2
<1>3. /\ QueueRuns
      /\ \/ Drain
         \/ \E reason \in {"disconnected", "error"} : Halt(reason)
         \/ /\ task = NoTask /\ halted' = "error" /\ Waits("waiting")
            /\ StartedOnly \/ \E n \in 1..Turn - 1 : TakenOutOnly(n)
  BY DEF QueueStep, Woken, JobOver, OwnOver, DrainFails, Halt
<1> QED BY <1>1, <1>2, <1>3, DrainKeeps, RoundFailsKeeps

----------------------------------------
(* The world outside, and the stop and the start of loxmatter. *)

LEMMA WorldKeeps ==
    ASSUME FirmwareInv,
           LinkChanges \/ \E d \in Devices : TransferEnds(d) \/ AvailabilityChanges(d)
    PROVE  FirmwareInv' /\ KeepsOrder(queue, queue')
<1>1. UNCHANGED <<storeVars, running, jobVars, queueVars, check, clicks>>
  BY DEF LinkChanges, TransferEnds, AvailabilityChanges, bounds
<1>2. /\ installed' \in [Devices -> Versions] /\ transfer' \in [Devices -> Versions]
      /\ available' \subseteq Devices /\ link' \in {"up", "down", "old"}
      /\ faults' \in 0..MaxFaults
  <2>1. 0 \in Versions BY FirmwareAssumption DEF Versions
  <2>2. CASE LinkChanges BY <2>2, FirmwareAssumption DEF LinkChanges, FirmwareInv, TypeOK
  <2>3. CASE \E d \in Devices : TransferEnds(d)
    BY <2>1, <2>3 DEF TransferEnds, bounds, FirmwareInv, TypeOK
  <2>4. CASE \E d \in Devices : AvailabilityChanges(d)
    BY <2>4, FirmwareAssumption DEF AvailabilityChanges, SymDiff, FirmwareInv, TypeOK
  <2> QED BY <2>2, <2>3, <2>4
<1>3. KeepsOrder(queue, queue') BY <1>1, SameKeepsOrder DEF storeVars, FirmwareInv, TypeOK
<1> QED BY <1>1, <1>2, <1>3
    DEF FirmwareInv, TypeOK, ActiveIsFollowed, Following, QueuedIsDriven, NothingWhileDown,
        OwnIsKnown, storeVars, jobVars, queueVars

LEMMA StopsKeeps ==
    ASSUME FirmwareInv, Stops
    PROVE  FirmwareInv' /\ KeepsOrder(queue, queue')
<1>1. queue \in Seq(Devices) /\ IsInjective(queue) BY DEF FirmwareInv, TypeOK
<1>2. queue' \in Seq(Devices) /\ IsInjective(queue') /\ KeepsOrder(queue, queue')
  <2>1. CASE queue' = queue BY <1>1, <2>1, SameKeepsOrder
  <2>2. CASE drainer = "own" /\ current \notin ToSet(queue) /\ queue' = <<current>> \o queue
    <3>1. /\ <<current>> \in Seq(Devices) /\ IsInjective(<<current>>)
          /\ ToSet(<<current>>) \cap ToSet(queue) = {}
      BY <2>2 DEF FirmwareInv, OwnIsKnown, IsInjective, ToSet
    <3> QED BY <1>1, <2>2, <3>1, LongerKeepsOrder
  <2> QED BY <2>1, <2>2 DEF Stops
<1>3. /\ offer' \in [Devices -> Versions]
      /\ check' \in [Checks -> [device : Devices \cup {None}, seen : Versions]]
      /\ faults' \in 0..MaxFaults
  <2>1. 0 \in Versions BY FirmwareAssumption DEF Versions
  <2> QED BY <2>1, FirmwareAssumption DEF Stops, NoCheck, FirmwareInv, TypeOK
<1>4. /\ UNCHANGED <<job, halted, present, worldVars, orphans, clicks>>
      /\ running' = FALSE /\ task' = NoTask /\ starter' = "none"
      /\ drainer' = "waiting" /\ current' = None /\ wake' = FALSE
  BY DEF Stops
<1>5. TypeOK' BY <1>2, <1>3, <1>4 DEF FirmwareInv, TypeOK, worldVars
<1> QED BY <1>2, <1>4, <1>5
    DEF FirmwareInv, ActiveIsFollowed, QueuedIsDriven, NothingWhileDown, OwnIsKnown

LEMMA StartsKeeps ==
    ASSUME FirmwareInv, Starts
    PROVE  FirmwareInv' /\ KeepsOrder(queue, queue')
<1>1. /\ UNCHANGED <<queue, halted, present, worldVars, starter, drainer, current, check, bounds>>
      /\ running' = TRUE /\ wake' = TRUE /\ task = NoTask
  BY DEF Starts, FirmwareInv, NothingWhileDown
<1>2. CASE link # "up"
  <2>1. orphans' = Active /\ UNCHANGED <<offer, job, task>> BY <1>2 DEF Starts
  <2>2. ActiveIsFollowed' BY <1>1, <2>1, TaskFacts DEF ActiveIsFollowed, Active, Following
  <2>3. Active \subseteq Devices BY DEF Active
  <2>4. TypeOK' BY <1>1, <2>1, <2>3 DEF FirmwareInv, TypeOK, worldVars, bounds
  <2>5. KeepsOrder(queue, queue') BY <1>1, SameKeepsOrder DEF FirmwareInv, TypeOK
  <2> QED BY <1>1, <2>2, <2>4, <2>5
      DEF FirmwareInv, QueuedIsDriven, NothingWhileDown, OwnIsKnown
<1>3. CASE link = "up"
  <2> DEFINE followed == IF Busy = {} THEN {} ELSE {Min(Busy)}
  <2>1. /\ offer' = [d \in Devices |-> IF d \in Finished THEN 0 ELSE offer[d]]
        /\ job' = [d \in Devices |-> IF d \in Finished THEN "none"
                                     ELSE IF d \in Active \ followed THEN "interrupted"
                                     ELSE job[d]]
        /\ task' = IF followed = {} THEN NoTask
                   ELSE [device |-> Min(Busy), target |-> offer[Min(Busy)], pc |-> "follow"]
        /\ orphans' = {}
    BY <1>3 DEF Starts, ResumeAll
  <2>2. Busy # {} => Min(Busy) \in Busy
    BY NoneIsNoDevice, MinFacts DEF Busy, Active, FirmwareInv, TypeOK
  <2>3. Busy \subseteq Active \ Finished /\ Busy \subseteq Devices BY DEF Busy, Active
  <2>4. 0 \in Versions BY FirmwareAssumption DEF Versions
  <2>5. /\ offer' \in [Devices -> Versions]
        /\ job' \in [Devices -> {"none", "active", "failed", "interrupted"}]
        /\ task' \in [device : Devices, target : Versions, pc : {"follow", "reread"}] \cup {NoTask}
    BY <2>1, <2>2, <2>3, <2>4 DEF FirmwareInv, TypeOK
  <2>6. ActiveIsFollowed'
    <3>1. \A d \in Devices : job'[d] = "active" <=> d \in followed BY <2>1, <2>2, <2>3 DEF Active
    <3>2. CASE Busy = {} BY <2>1, <3>1, <3>2 DEF ActiveIsFollowed, Following, NoTask
    <3>3. CASE Busy # {} BY <2>1, <3>1, <3>3 DEF ActiveIsFollowed, Following
    <3> QED BY <3>2, <3>3
  <2>7. TypeOK' BY <1>1, <2>1, <2>5 DEF FirmwareInv, TypeOK, worldVars, bounds
  <2>8. KeepsOrder(queue, queue') BY <1>1, SameKeepsOrder DEF FirmwareInv, TypeOK
  <2> QED BY <1>1, <2>6, <2>7, <2>8
      DEF FirmwareInv, QueuedIsDriven, NothingWhileDown, OwnIsKnown
<1> QED BY <1>2, <1>3

LEMMA NextKeepsFirmware ==
    ASSUME FirmwareInv, [Next]_vars
    PROVE  FirmwareInv' /\ KeepsOrder(queue, queue')
<1>1. CASE UNCHANGED vars
  <2>1. KeepsOrder(queue, queue') BY <1>1, SameKeepsOrder DEF vars, storeVars, FirmwareInv, TypeOK
  <2> QED BY <1>1, <2>1
      DEF FirmwareInv, TypeOK, ActiveIsFollowed, Following, QueuedIsDriven, NothingWhileDown,
          OwnIsKnown, vars, storeVars, worldVars, jobVars, queueVars, bounds
<1>2. CASE CheckStep BY <1>2, CheckKeeps
<1>3. CASE \E d \in Devices : Install(d) BY <1>3, InstallKeeps
<1>4. CASE StarterCalls \/ StarterEnds BY <1>4, StarterKeeps
<1>5. CASE JobEnds BY <1>5, JobEndKeeps
<1>6. CASE \E chosen \in SUBSET Devices : Enqueue(chosen) BY <1>6, EnqueueKeeps
<1>7. CASE Resume \/ Clear \/ \E d \in Devices : RemoveDevice(d) BY <1>7, ClickKeeps
<1>8. CASE QueueStep \/ DrainFails BY <1>8, QueueKeeps
<1>9. CASE LinkChanges \/ \E d \in Devices : TransferEnds(d) \/ AvailabilityChanges(d)
  BY <1>9, WorldKeeps
<1> QED BY <1>1, <1>2, <1>3, <1>4, <1>5, <1>6, <1>7, <1>8, <1>9, StopsKeeps, StartsKeeps DEF Next

----------------------------------------
(* Whatever is checked, installed, queued and removed, and wherever *)
(* loxmatter stops: a job that is shown as running is the one that a task *)
(* follows, and the queue's task never sleeps over a queued device, for any *)
(* number of devices (firmware/job.py, firmware/queue.py). *)
THEOREM FirmwareIsSafe == Spec => []FirmwareSafe
<1>1. Init => FirmwareInv BY InitFirmware
<1>2. FirmwareInv /\ [Next]_vars => FirmwareInv' BY NextKeepsFirmware
<1>3. FirmwareInv => FirmwareSafe BY DEF FirmwareInv, FirmwareSafe
<1> QED BY <1>1, <1>2, <1>3, PTL DEF Spec

(* A queued device keeps its place: no operation, fault or restart lets one *)
(* queued device overtake another (firmware/queue.py, *)
(* model/firmware_status_store.py). *)
THEOREM OrderIsKept == Spec => QueueKeepsOrder
<1>1. Init => FirmwareInv BY InitFirmware
<1>2. FirmwareInv /\ [Next]_vars => FirmwareInv' BY NextKeepsFirmware
<1>3. FirmwareInv /\ [Next]_vars =>
        [\A i, j \in DOMAIN queue :
            i < j /\ {queue[i], queue[j]} \subseteq ToSet(queue')
                => \E k, l \in DOMAIN queue' :
                      k < l /\ queue'[k] = queue[i] /\ queue'[l] = queue[j]]_vars
  BY NextKeepsFirmware DEF KeepsOrder
<1> QED BY <1>1, <1>2, <1>3, PTL DEF Spec, QueueKeepsOrder
========================================
